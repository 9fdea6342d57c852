------------------------------- MODULE RamFs -------------------------------
(***************************************************************************)
(* The contents of one ramfs file, and the read, write and lseek calls of   *)
(* the programs that have it open.                                          *)
(*                                                                          *)
(* sys_read and sys_write move a buffer chunk by chunk, each chunk through  *)
(* a vfs call and a copy from or to user memory that may fail: a chunk is a *)
(* step.  Interrupts are disabled, so that one call runs at a time.         *)
(* A null priv pointer is the file without capacity.                        *)
(***************************************************************************)
EXTENDS Integers

CONSTANTS
  File,        \* the file_t's open on the vnode
  Byte,        \* what a byte can be
  Chunk,       \* bytes moved at once: sizeof(buf), 64
  MinCapacity, \* the first capacity, 64
  WordLimit,   \* 2^w for a size_t of w bits
  HeapLimit,   \* the largest block kmalloc can map
  MaxCount,    \* bound: the bytes a call asks for
  NONE

ASSUME RamFsAssumption ==
  /\ 0 \in Byte /\ Chunk \in Nat \ {0} /\ MinCapacity \in Nat \ {0}
  /\ WordLimit \in Nat /\ HeapLimit \in Nat /\ MaxCount \in Nat
  /\ MinCapacity <= HeapLimit /\ HeapLimit < WordLimit \div 2

VARIABLES
  data,     \* ramfs_file_t.data, a function on 0 .. capacity - 1
  size, capacity,
  offset,   \* [File -> file_t.offset]
  buf,      \* the bytes the last ramfs_read left in the kernel's buffer
  call,     \* NONE, or the call in progress
  result,   \* what the last call returned: a count, or -1 for an error
  halted    \* "no", "panic" (out of memory) or "hung" (endless loop)

contentVars == <<data, size, capacity>>
vars == <<contentVars, offset, buf, call, result, halted>>

LongMax == WordLimit \div 2 - 1   \* file_t.offset is a signed long
Error == -1
Strings(n) == UNION {[0 .. k - 1 -> Byte] : k \in 1 .. n}
AtMost(a, b) == IF a < b THEN a ELSE b
AtLeast(a, b) == IF a < b THEN b ELSE a

\* A call: its file, the bytes still to move and those moved, and the offset
\* it started from.
Call == [op : {"read", "write"}, file : File, left : 0 .. MaxCount,
         cnt : 0 .. MaxCount, start : 0 .. LongMax]
ASSUME NoneAssumption == NONE \notin Call

Init ==
  /\ data = [i \in {} |-> 0]
  /\ size = 0 /\ capacity = 0
  /\ offset = [f \in File |-> 0]
  /\ buf = [i \in {} |-> 0]
  /\ call = NONE
  /\ result = 0
  /\ halted = "no"
-----------------------------------------------------------------------------
(* The entry of a call, and its return.                                     *)

Idle == halted = "no" /\ call = NONE
Moving(op) == halted = "no" /\ call # NONE /\ call.op = op

SysCall(op, f, n) ==
  /\ Idle
  /\ call' = [op |-> op, file |-> f, left |-> n, cnt |-> 0, start |-> offset[f]]
  /\ result' = 0
  /\ UNCHANGED <<contentVars, offset, buf, halted>>

Return(r) == call' = NONE /\ result' = r
CountsRequest(moved, chunk) == chunk
CountsMoved(moved, chunk) == moved
Advanced(moved, chunk) ==
  [op |-> call.op, file |-> call.file, start |-> call.start,
   left |-> call.left - moved, cnt |-> call.cnt + CountsMoved(moved, chunk)]

\* The loop ends when nothing is left or a chunk came out short.
Continue(moved, chunk) ==
  LET c == Advanced(moved, chunk) IN
  IF moved < chunk \/ c.left = 0
  THEN Return(c.cnt)
  ELSE call' = c /\ UNCHANGED result
-----------------------------------------------------------------------------
(* ramfs_write.                                                             *)

\* The capacity doubles until the end of the write is inside; past half of
\* the words it would become 0 and the loop never ends.
FirstTried == AtLeast(MinCapacity, 2 * capacity)
Doublings(end) ==
  {c \in 1 .. HeapLimit : end <= c /\ \E k \in 0 .. c : c = 2^k * FirstTried}
HangsAt(end) == end > WordLimit \div 2
NewCapacity(end) ==
  CHOOSE c \in Doublings(end) : \A d \in Doublings(end) : c <= d

\* The new block is cleared, and the old bytes are copied.
CopiesNothing(c) == [i \in 0 .. c - 1 |-> 0]
CopiesSize(c) == [i \in 0 .. c - 1 |-> IF i < size THEN data[i] ELSE 0]
Reallocated(c) == CopiesSize(c)
SizeIsEnd(end) == end
SizeAfter(end) == AtLeast(size, end)

Stored(d, at, s, n) ==
  [i \in DOMAIN d |-> IF i \in at .. at + n - 1 THEN s[i - at] ELSE d[i]]

\* One turn of sys_write's loop: copy_from_user fails, or a chunk is written.
WriteFails ==
  /\ Moving("write") /\ call.left > 0
  /\ Return(Error)
  /\ UNCHANGED <<contentVars, offset, buf, halted>>

RamfsWrite(s) ==
  LET f == call.file
      n == AtMost(call.left, Chunk)
      end == offset[f] + n
      c == IF end > capacity THEN NewCapacity(end) ELSE capacity
  IN
  /\ Moving("write") /\ call.left > 0
  /\ DOMAIN s = 0 .. n - 1
  /\ IF end > capacity /\ Doublings(end) = {}
     THEN /\ halted' = IF HangsAt(end) THEN "hung" ELSE "panic"
          /\ UNCHANGED <<contentVars, offset, call, result>>
     ELSE /\ data' = Stored(IF end > capacity THEN Reallocated(c) ELSE data,
                            offset[f], s, n)
          /\ capacity' = c
          /\ size' = SizeAfter(end)
          /\ offset' = [offset EXCEPT ![f] = end]
          /\ Continue(n, n)
          /\ UNCHANGED halted
  /\ UNCHANGED buf
-----------------------------------------------------------------------------
(* ramfs_read.                                                              *)

\* One turn of sys_read's loop: the chunk is read and the offset moves, then
\* copy_to_user succeeds or fails.
Available(f) == IF offset[f] >= size THEN 0 ELSE size - offset[f]
RamfsRead ==
  LET f == call.file
      chunk == AtMost(call.left, Chunk)
      n == AtMost(chunk, Available(f))
  IN
  /\ Moving("read") /\ call.left > 0
  /\ buf' = [i \in 0 .. n - 1 |-> data[offset[f] + i]]
  /\ offset' = [offset EXCEPT ![f] = @ + n]
  /\ \/ Continue(n, chunk)
     \/ n > 0 /\ Return(Error)
  /\ UNCHANGED <<contentVars, halted>>

\* A call for no bytes moves none.
MoveNothing ==
  /\ halted = "no" /\ call # NONE /\ call.left = 0
  /\ Return(0)
  /\ UNCHANGED <<contentVars, offset, buf, halted>>
-----------------------------------------------------------------------------
(* ramfs_lseek: off from the start, from here or from the end.  The sum may *)
(* wrap to a negative number, which is refused like any other.              *)
Base(f, whence) ==
  CASE whence = "SEEK_SET" -> 0
    [] whence = "SEEK_CUR" -> offset[f]
    [] whence = "SEEK_END" -> size
MayBe(pos) == pos <= LongMax
IsPosition(pos) == pos \in 0 .. LongMax

RamfsLseek(f, off, whence) ==
  /\ Idle
  /\ IsPosition(Base(f, whence) + off)
  /\ offset' = [offset EXCEPT ![f] = Base(f, whence) + off]
  /\ UNCHANGED <<contentVars, buf, call, result, halted>>
-----------------------------------------------------------------------------
\* Interrupts are disabled: nothing follows a panic or an endless loop.
Stopped == halted # "no" /\ UNCHANGED vars

Transfer == (\E s \in Strings(Chunk) : RamfsWrite(s)) \/ RamfsRead \/ MoveNothing

Next ==
  \/ \E f \in File : \/ \E op \in {"read", "write"}, n \in 0 .. MaxCount :
                          SysCall(op, f, n)
                     \/ \E off \in -LongMax .. LongMax,
                           whence \in {"SEEK_SET", "SEEK_CUR", "SEEK_END"} :
                          RamfsLseek(f, off, whence)
  \/ Transfer \/ WriteFails
  \/ Stopped

Spec == Init /\ [][Next]_vars
-----------------------------------------------------------------------------
(* Properties.                                                              *)

\* Every variable has the type of its C counterpart.
TypeOK ==
  /\ capacity \in 0 .. HeapLimit /\ size \in 0 .. HeapLimit
  /\ data \in [0 .. capacity - 1 -> Byte]
  /\ offset \in [File -> 0 .. LongMax]
  /\ buf \in UNION {[0 .. k - 1 -> Byte] : k \in 0 .. Chunk}
  /\ call \in Call \cup {NONE}
  /\ result \in Error .. MaxCount
  /\ halted \in {"no", "panic", "hung"}

\* The bytes between the size and the capacity are zero, so that a gap left
\* by lseek reads as zeros once a write has closed it.
ZeroBeyondSize ==
  size <= capacity /\ \A i \in size .. capacity - 1 : data[i] = 0

\* A call that succeeds has moved the offset by exactly what it returns.  One
\* that fails on the user's memory has moved it by the chunks it delivered, and
\* a read by the chunk besides that it could not deliver: no more is lost.
Undelivered == IF call.op = "read" THEN 0 .. AtMost(call.left, Chunk) ELSE {0}
ReturnedIsMoved ==
  [][call # NONE /\ call' = NONE =>
       LET moved == offset'[call.file] - call.start IN
       IF result' = Error THEN moved - call.cnt \in Undelivered ELSE moved = result']_vars

\* The file is a sequence of bytes with a position for each descriptor.
Contents == [i \in 0 .. size - 1 |-> data[i]]
Bytes == INSTANCE ByteFile WITH contents <- Contents, pos <- offset, got <- buf,
                                MaxChunk <- Chunk, MaxPos <- LongMax
IsByteFile == Bytes!Spec
=============================================================================
