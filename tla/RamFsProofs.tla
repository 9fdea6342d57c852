---------------------------- MODULE RamFsProofs ----------------------------
(***************************************************************************)
(* Proofs about RamFs, for all chunk sizes, word widths, heaps and bytes.   *)
(*                                                                          *)
(* The refinement needs one fact about the block: its bytes past the size   *)
(* are zero.  Then what a write exposes when it moves the size past a gap   *)
(* is what ByteFile puts there.                                             *)
(***************************************************************************)
EXTENDS RamFs, TLAPS, WellFoundedInduction

\* A call in progress has moved the offset by what it has counted, and what
\* it has counted and what is left do not exceed what it was asked for.  With
\* nothing left it is a call for no bytes.
CallCounts ==
  call # NONE => /\ offset[call.file] = call.start + call.cnt
                 /\ call.left + call.cnt <= MaxCount
                 /\ call.left = 0 => call.cnt = 0

IInv == TypeOK /\ ZeroBeyondSize /\ CallCounts

-----------------------------------------------------------------------------
(* Lemmas about the operators.                                              *)

\* Every block fits a file_t's offset.
LEMMA Limits ==
  /\ LongMax \in Nat /\ HeapLimit \in Nat /\ HeapLimit <= LongMax
  /\ MaxCount \in Nat /\ Chunk \in Nat /\ 1 <= Chunk
BY RamFsAssumption DEF LongMax

\* AtMost and AtLeast are the smaller and the larger of two numbers.
LEMMA Extremes ==
  ASSUME NEW a \in Int, NEW b \in Int
  PROVE  /\ AtMost(a, b) \in Int /\ AtMost(a, b) <= a /\ AtMost(a, b) <= b
         /\ AtMost(a, b) \in {a, b}
         /\ AtLeast(a, b) \in Int /\ a <= AtLeast(a, b) /\ b <= AtLeast(a, b)
         /\ AtLeast(a, b) \in {a, b}
BY DEF AtMost, AtLeast

\* A nonempty set of naturals has a least element.
LEMMA LeastExists ==
  ASSUME NEW S \in SUBSET Nat, S # {}
  PROVE  \E n \in S : \A m \in S : n <= m
<1>1. IsWellFoundedOn(OpToRel(<, Nat), Nat)
  BY NatLessThanWellFounded
<1>2. PICK n \in S : \A m \in S : ~ (<<m, n>> \in OpToRel(<, Nat))
  BY <1>1, WFMin
<1>3. \A m \in S : ~ (m < n)
  BY <1>2 DEF OpToRel
<1> QED
  BY <1>3

\* The capacity chosen is one of the doublings that hold the end.
LEMMA NewCapacityHolds ==
  ASSUME NEW end \in Int, Doublings(end) # {}
  PROVE  NewCapacity(end) \in 1 .. HeapLimit /\ end <= NewCapacity(end)
<1>1. Doublings(end) \in SUBSET Nat
  BY Limits DEF Doublings
<1>2. \E c \in Doublings(end) : \A d \in Doublings(end) : c <= d
  BY <1>1, LeastExists
<1>3. NewCapacity(end) \in Doublings(end)
  BY <1>2 DEF NewCapacity
<1> QED
  BY <1>3 DEF Doublings

\* A byte string has one length.
LEMMA LengthIs ==
  ASSUME NEW s, NEW n \in 1 .. Chunk, DOMAIN s = 0 .. n - 1
  PROVE  Bytes!Length(s) = n
<1>1. ASSUME NEW k \in 1 .. Chunk, DOMAIN s = 0 .. k - 1
      PROVE  k = n
  <2>1. n - 1 \in 0 .. k - 1 /\ k - 1 \in 0 .. n - 1
    BY <1>1, Limits
  <2> QED
    BY <2>1, Limits
<1> QED
  BY <1>1 DEF Bytes!Length
-----------------------------------------------------------------------------
(* The invariant.                                                           *)

\* It holds at the start.
LEMMA InitIInv == Init => IInv
<1> SUFFICES ASSUME Init PROVE IInv
  OBVIOUS
<1>1. data \in [0 .. capacity - 1 -> Byte] /\ buf \in [0 .. 0 - 1 -> Byte]
  BY DEF Init
<1>2. buf \in UNION {[0 .. k - 1 -> Byte] : k \in 0 .. Chunk}
  BY <1>1, Limits
<1> QED
  BY <1>1, <1>2, Limits DEF Init, IInv, TypeOK, ZeroBeyondSize, CallCounts, Error

\* What a write of n bytes finds and leaves, when it does not stop the machine:
\* the block it stores into holds the end and is zero past the old size.
LEMMA WriteFacts ==
  ASSUME IInv, NEW s \in Strings(Chunk), RamfsWrite(s), halted' = "no"
  PROVE  LET f == call.file
             n == AtMost(call.left, Chunk)
             end == offset[f] + n
         IN  /\ f \in File /\ call \in Call
             /\ n \in 1 .. Chunk /\ n <= call.left
             /\ DOMAIN s = 0 .. n - 1 /\ s \in [0 .. n - 1 -> Byte]
             /\ offset[f] \in 0 .. LongMax
             /\ capacity' \in 0 .. HeapLimit /\ end <= capacity'
             /\ size <= capacity'
             /\ size' = AtLeast(size, end)
             /\ offset' = [offset EXCEPT ![f] = end]
             /\ data' \in [0 .. capacity' - 1 -> Byte]
             /\ \A i \in 0 .. capacity' - 1 :
                  data'[i] = IF i \in offset[f] .. end - 1 THEN s[i - offset[f]]
                             ELSE IF i < size THEN data[i] ELSE 0
             /\ Continue(n, n) /\ buf' = buf
<1> DEFINE f == call.file
           n == AtMost(call.left, Chunk)
           end == offset[f] + n
           c == IF end > capacity THEN NewCapacity(end) ELSE capacity
           base == IF end > capacity THEN Reallocated(c) ELSE data
<1>1. call \in Call /\ f \in File /\ call.left \in 1 .. MaxCount
  BY Limits DEF IInv, TypeOK, RamfsWrite, Moving, Call
<1>2. n \in 1 .. Chunk /\ n <= call.left
  BY <1>1, Limits DEF AtMost
<1>3. DOMAIN s = 0 .. n - 1
  BY DEF RamfsWrite
<1>4. s \in [0 .. n - 1 -> Byte]
  BY <1>3 DEF Strings
<1>5. offset[f] \in 0 .. LongMax /\ end \in Nat /\ size \in 0 .. HeapLimit
      /\ capacity \in 0 .. HeapLimit /\ size <= capacity
      /\ data \in [0 .. capacity - 1 -> Byte]
  BY <1>1, <1>2, Limits DEF IInv, TypeOK, ZeroBeyondSize
<1>6. ~ (end > capacity /\ Doublings(end) = {})
  <2> SUFFICES ASSUME end > capacity, Doublings(end) = {} PROVE FALSE
    OBVIOUS
  <2>1. halted' \in {"hung", "panic"}
    BY DEF RamfsWrite
  <2> QED
    BY <2>1
<1>7. /\ data' = Stored(base, offset[f], s, n)
      /\ capacity' = c
      /\ size' = SizeAfter(end)
      /\ offset' = [offset EXCEPT ![f] = end]
      /\ Continue(n, n) /\ buf' = buf
  BY <1>6 DEF RamfsWrite
<1>8. c \in 0 .. HeapLimit /\ end <= c /\ size <= c
  BY <1>5, <1>6, NewCapacityHolds, Limits
<1>9. /\ base \in [0 .. c - 1 -> Byte]
      /\ \A i \in 0 .. c - 1 : base[i] = IF i < size THEN data[i] ELSE 0
  <2>1. CASE end > capacity
    BY <2>1, <1>5, <1>8, Limits, RamFsAssumption DEF Reallocated, CopiesSize
  <2>2. CASE ~ (end > capacity)
    BY <2>2, <1>5, <1>8, Limits DEF IInv, ZeroBeyondSize
  <2> QED
    BY <2>1, <2>2
<1>10. /\ DOMAIN base = 0 .. c - 1
       /\ data' = [i \in DOMAIN base |->
                    IF i \in offset[f] .. offset[f] + n - 1 THEN s[i - offset[f]]
                    ELSE base[i]]
  <2>1. DOMAIN base = 0 .. c - 1
    BY <1>9
  <2> HIDE DEF base, c, n
  <2> QED
    BY <1>7, <2>1 DEF Stored
<1>11. \A i \in offset[f] .. end - 1 : s[i - offset[f]] \in Byte
  <2> SUFFICES ASSUME NEW i \in offset[f] .. end - 1
               PROVE  s[i - offset[f]] \in Byte
    OBVIOUS
  <2> HIDE DEF n, f
  <2>1. i - offset[f] \in 0 .. n - 1
    BY <1>5, <1>2, Limits
  <2> QED
    BY <2>1, <1>4
<1>12. /\ data' \in [0 .. c - 1 -> Byte]
       /\ \A i \in 0 .. c - 1 :
            data'[i] = IF i \in offset[f] .. end - 1 THEN s[i - offset[f]]
                       ELSE IF i < size THEN data[i] ELSE 0
  <2> DEFINE new == [i \in 0 .. c - 1 |-> data'[i]]
  <2>1. c \in Nat /\ n \in Nat /\ offset[f] \in Nat /\ end \in Nat
    BY <1>2, <1>5, <1>8, Limits
  <2>2. end = offset[f] + n
    OBVIOUS
  <2> HIDE DEF base, c, n, end, f
  <2>3. data' = new
    BY <1>10
  <2>4. ASSUME NEW i \in 0 .. c - 1
        PROVE  /\ data'[i] = IF i \in offset[f] .. end - 1 THEN s[i - offset[f]]
                              ELSE IF i < size THEN data[i] ELSE 0
               /\ data'[i] \in Byte
    <3>1. data'[i] = IF i \in offset[f] .. end - 1 THEN s[i - offset[f]]
                     ELSE base[i]
      BY <1>10, <2>1, <2>2
    <3>2. base[i] \in Byte /\ base[i] = IF i < size THEN data[i] ELSE 0
      BY <1>9
    <3>3. i \in offset[f] .. end - 1 => s[i - offset[f]] \in Byte
      BY <1>11
    <3> QED
      BY <3>1, <3>2, <3>3
  <2> QED
    BY <2>3, <2>4
<1> QED
  BY <1>1, <1>2, <1>3, <1>4, <1>5, <1>7, <1>8, <1>12 DEF SizeAfter

\* What a read of a chunk finds and leaves.
LEMMA ReadFacts ==
  ASSUME IInv, RamfsRead
  PROVE  LET f == call.file
             chunk == AtMost(call.left, Chunk)
             n == AtMost(chunk, Available(f))
         IN  /\ f \in File /\ call \in Call /\ chunk \in 1 .. Chunk
             /\ n \in 0 .. chunk /\ chunk <= call.left
             /\ offset[f] \in 0 .. LongMax /\ size \in 0 .. HeapLimit
             /\ n > 0 => offset[f] + n <= size
             /\ buf' = [i \in 0 .. n - 1 |-> data[offset[f] + i]]
             /\ offset' = [offset EXCEPT ![f] = @ + n]
<1>1. call \in Call /\ call.file \in File /\ call.left \in 1 .. MaxCount
  BY Limits DEF IInv, TypeOK, RamfsRead, Moving, Call
<1>2. offset[call.file] \in 0 .. LongMax /\ size \in 0 .. HeapLimit
  BY <1>1 DEF IInv, TypeOK
<1>3. AtMost(call.left, Chunk) \in 1 .. Chunk /\ AtMost(call.left, Chunk) <= call.left
  BY <1>1, Limits DEF AtMost
<1> QED
  BY <1>1, <1>2, <1>3, Limits DEF RamfsRead, Available, AtMost

\* However a turn of a loop ends, the call goes on with the right counts or
\* returns them.
LEMMA ContinueIInv ==
  ASSUME IInv, call \in Call, NEW chunk \in 1 .. Chunk, NEW moved \in 0 .. chunk,
         chunk <= call.left, Continue(moved, chunk),
         offset'[call.file] = offset[call.file] + moved
  PROVE  /\ CallCounts'
         /\ call' \in Call \cup {NONE}
         /\ result' \in Error .. MaxCount
         /\ call' = NONE =>
              result' = offset'[call.file] - call.start
<1> DEFINE c == Advanced(moved, chunk)
<1>1. /\ call.left \in 0 .. MaxCount /\ call.cnt \in 0 .. MaxCount
      /\ call.file \in File /\ call.start \in 0 .. LongMax
      /\ call.op \in {"read", "write"}
      /\ call = [op |-> call.op, file |-> call.file, left |-> call.left,
                 cnt |-> call.cnt, start |-> call.start]
  BY DEF Call
<1>2. call.left + call.cnt <= MaxCount /\ offset[call.file] = call.start + call.cnt
      /\ offset[call.file] \in 0 .. LongMax /\ result \in Error .. MaxCount
  BY <1>1, NoneAssumption DEF IInv, CallCounts, TypeOK
<1>3. c = [op |-> call.op, file |-> call.file, left |-> call.left - moved,
           cnt |-> call.cnt + moved, start |-> call.start]
  BY DEF Advanced, CountsMoved
<1>4. c.cnt = call.cnt + moved /\ c.left = call.left - moved
      /\ c.file = call.file /\ c.start = call.start
  BY <1>3
<1>5. c.cnt \in 0 .. MaxCount /\ c.left \in 0 .. MaxCount
      /\ c.left + c.cnt <= MaxCount /\ offset'[call.file] = c.start + c.cnt
  BY <1>1, <1>2, <1>4, Limits
<1>6. c \in Call
  BY <1>1, <1>3, <1>4, <1>5 DEF Call
<1> HIDE DEF c
<1>7. CASE moved < chunk \/ c.left = 0
  <2>1. call' = NONE /\ result' = c.cnt
    BY <1>7 DEF Continue, Return, c
  <2> QED
    BY <2>1, <1>1, <1>2, <1>4, <1>5, Limits DEF CallCounts, Error
<1>8. CASE ~ (moved < chunk \/ c.left = 0)
  <2>1. call' = c /\ result' = result
    BY <1>8 DEF Continue, c
  <2>2. call' # NONE
    BY <2>1, <1>6, NoneAssumption
  <2> QED
    BY <2>1, <2>2, <1>2, <1>4, <1>5, <1>6, <1>8 DEF CallCounts
<1> QED
  BY <1>7, <1>8

\* A write keeps the types.
LEMMA WriteIInv ==
  ASSUME IInv, NEW s \in Strings(Chunk), RamfsWrite(s)
  PROVE  IInv'
<1>1. CASE halted' # "no"
  <2>1. UNCHANGED <<data, size, capacity, offset, buf, call, result>>
        /\ halted' \in {"panic", "hung"}
    BY <1>1 DEF RamfsWrite, contentVars, Moving
  <2> QED
    BY <2>1 DEF IInv, TypeOK, ZeroBeyondSize, CallCounts
<1>2. CASE halted' = "no"
  <2> DEFINE f == call.file
             n == AtMost(call.left, Chunk)
             end == offset[f] + n
  <2>1. /\ f \in File /\ call \in Call /\ n \in 1 .. Chunk /\ n <= call.left
        /\ offset[f] \in 0 .. LongMax
        /\ capacity' \in 0 .. HeapLimit /\ end <= capacity' /\ size <= capacity'
        /\ size' = AtLeast(size, end)
        /\ offset' = [offset EXCEPT ![f] = end]
        /\ data' \in [0 .. capacity' - 1 -> Byte]
        /\ \A i \in 0 .. capacity' - 1 :
             data'[i] = IF i \in offset[f] .. end - 1 THEN s[i - offset[f]]
                        ELSE IF i < size THEN data[i] ELSE 0
        /\ Continue(n, n) /\ buf' = buf
    BY <1>2, WriteFacts
  <2> HIDE DEF n
  <2>2. size \in 0 .. HeapLimit /\ offset \in [File -> 0 .. LongMax]
    BY DEF IInv, TypeOK
  <2>3. end \in 0 .. LongMax /\ size' \in 0 .. HeapLimit /\ size' <= capacity'
        /\ size <= size' /\ end <= size'
    BY <2>1, <2>2, Limits DEF AtLeast
  <2>4. offset' \in [File -> 0 .. LongMax] /\ offset'[f] = end
    BY <2>1, <2>2, <2>3
  <2>5. ZeroBeyondSize'
    <3> DEFINE cap == capacity'
               now == size'
    <3>1. cap \in Nat /\ now \in Nat /\ size \in Nat /\ end \in Nat
          /\ offset[f] \in Nat /\ size <= now /\ end <= now
      BY <2>1, <2>2, <2>3, Limits
    <3>2. \A i \in 0 .. cap - 1 :
            data'[i] = IF i \in offset[f] .. end - 1 THEN s[i - offset[f]]
                       ELSE IF i < size THEN data[i] ELSE 0
      BY <2>1
    <3> HIDE DEF cap, now, end
    <3>3. ASSUME NEW i \in now .. cap - 1
          PROVE  data'[i] = 0
      <4>1. i \in 0 .. cap - 1 /\ ~ (i < size) /\ ~ (i \in offset[f] .. end - 1)
        BY <3>1
      <4> QED
        BY <4>1, <3>2
    <3> QED
      BY <3>3, <2>3 DEF ZeroBeyondSize, cap, now
  <2>6. CallCounts' /\ call' \in Call \cup {NONE} /\ result' \in Error .. MaxCount
    BY <2>1, <2>4, ContinueIInv
  <2> QED
    BY <1>2, <2>1, <2>3, <2>4, <2>5, <2>6 DEF IInv, TypeOK
<1> QED
  BY <1>1, <1>2

\* A chunk read keeps the types.
LEMMA ReadIInv == IInv /\ RamfsRead => IInv'
<1> SUFFICES ASSUME IInv, RamfsRead PROVE IInv'
  OBVIOUS
<1> DEFINE f == call.file
           chunk == AtMost(call.left, Chunk)
           n == AtMost(chunk, Available(f))
<1>1. /\ f \in File /\ call \in Call /\ chunk \in 1 .. Chunk
      /\ n \in 0 .. chunk /\ chunk <= call.left
      /\ offset[f] \in 0 .. LongMax /\ size \in 0 .. HeapLimit
      /\ n > 0 => offset[f] + n <= size
      /\ buf' = [i \in 0 .. n - 1 |-> data[offset[f] + i]]
      /\ offset' = [offset EXCEPT ![f] = @ + n]
  BY ReadFacts
<1> HIDE DEF n, chunk
<1>2. offset \in [File -> 0 .. LongMax] /\ size <= capacity
      /\ capacity \in 0 .. HeapLimit /\ data \in [0 .. capacity - 1 -> Byte]
  BY DEF IInv, TypeOK, ZeroBeyondSize
<1>3. offset[f] + n \in 0 .. LongMax
  BY <1>1, Limits
<1>4. offset' \in [File -> 0 .. LongMax] /\ offset'[f] = offset[f] + n
  BY <1>1, <1>2, <1>3
<1>5. buf' \in UNION {[0 .. k - 1 -> Byte] : k \in 0 .. Chunk}
  <2>1. n \in 0 .. Chunk
    BY <1>1, Limits
  <2>2. \A i \in 0 .. n - 1 : offset[f] + i \in 0 .. capacity - 1
    BY <1>1, <1>2, Limits
  <2>3. buf' \in [0 .. n - 1 -> Byte]
    BY <1>1, <1>2, <2>2
  <2> QED
    BY <2>1, <2>3
<1>6. CallCounts' /\ call' \in Call \cup {NONE} /\ result' \in Error .. MaxCount
  <2>1. CASE Continue(n, chunk)
    BY <2>1, <1>1, <1>4, ContinueIInv
  <2>2. CASE Return(Error)
    BY <2>2, Limits DEF Return, CallCounts, Error
  <2> QED
    BY <2>1, <2>2 DEF RamfsRead, n, chunk
<1> QED
  BY <1>4, <1>5, <1>6 DEF IInv, TypeOK, ZeroBeyondSize, RamfsRead, contentVars

\* A call that starts has moved nothing.
LEMMA SysCallIInv ==
  ASSUME IInv, NEW op \in {"read", "write"}, NEW f \in File,
         NEW n \in 0 .. MaxCount, SysCall(op, f, n)
  PROVE  IInv'
<1>1. call' = [op |-> op, file |-> f, left |-> n, cnt |-> 0, start |-> offset[f]]
      /\ result' = 0 /\ UNCHANGED <<contentVars, offset, buf, halted>>
  BY DEF SysCall
<1>2. offset[f] \in 0 .. LongMax
  BY DEF IInv, TypeOK
<1>3. call' \in Call
  BY <1>1, <1>2, Limits DEF Call
<1>4. call'.file = f /\ call'.left = n /\ call'.cnt = 0 /\ call'.start = offset[f]
  BY <1>1
<1>5. CallCounts'
  BY <1>1, <1>2, <1>4, Limits DEF CallCounts
<1> QED
  BY <1>1, <1>3, <1>5, Limits DEF IInv, TypeOK, ZeroBeyondSize, contentVars, Error

\* lseek refuses what is not a position.
LEMMA LseekIInv ==
  ASSUME IInv, NEW f \in File, NEW off, NEW whence, RamfsLseek(f, off, whence)
  PROVE  IInv'
<1>1. offset' \in [File -> 0 .. LongMax]
  BY DEF RamfsLseek, IsPosition, IInv, TypeOK
<1> QED
  BY <1>1 DEF RamfsLseek, Idle, IInv, TypeOK, ZeroBeyondSize, CallCounts, contentVars

\* A failed copy and a call for no bytes return; a halted machine stays.
LEMMA OtherIInv == IInv /\ (WriteFails \/ MoveNothing \/ UNCHANGED vars) => IInv'
<1> SUFFICES ASSUME IInv, WriteFails \/ MoveNothing \/ UNCHANGED vars
             PROVE  IInv'
  OBVIOUS
<1>1. CASE WriteFails
  BY <1>1, Limits DEF WriteFails, Return, IInv, TypeOK, ZeroBeyondSize, CallCounts,
                      contentVars, Error
<1>2. CASE MoveNothing
  BY <1>2, Limits DEF MoveNothing, Return, IInv, TypeOK, ZeroBeyondSize, CallCounts,
                      contentVars, Error
<1>3. CASE UNCHANGED vars
  BY <1>3 DEF vars, IInv, TypeOK, ZeroBeyondSize, CallCounts, contentVars
<1> QED
  BY <1>1, <1>2, <1>3

\* The steps of the machine, with their parameters.
LEMMA Steps ==
  ASSUME [Next]_vars
  PROVE  \/ \E op \in {"read", "write"}, f \in File, n \in 0 .. MaxCount :
              SysCall(op, f, n)
         \/ \E f \in File, off \in -LongMax .. LongMax,
              whence \in {"SEEK_SET", "SEEK_CUR", "SEEK_END"} :
              RamfsLseek(f, off, whence)
         \/ \E s \in Strings(Chunk) : RamfsWrite(s)
         \/ RamfsRead
         \/ WriteFails \/ MoveNothing \/ UNCHANGED vars
BY Zenon DEF Next, Transfer, Stopped

\* Every state of the file has the types, zeros beyond the size, and calls
\* that count what they moved.
THEOREM Invariance == Spec => []IInv
<1>1. Init => IInv
  BY InitIInv
<1>2. IInv /\ [Next]_vars => IInv'
  BY Steps, SysCallIInv, LseekIInv, WriteIInv, ReadIInv, OtherIInv
<1> QED
  BY <1>1, <1>2, PTL DEF Spec

\* The size never leaves the block, the offsets stay positions, and the count
\* returned is one that was asked for.
THEOREM TypeCorrect == Spec => []TypeOK
<1>1. IInv => TypeOK
  BY DEF IInv
<1> QED
  BY <1>1, Invariance, PTL

\* What ramfs_write leaves beyond the size of the file is zero: no byte of an
\* earlier write shows in a gap that lseek has left.
THEOREM ZerosBeyond == Spec => []ZeroBeyondSize
<1>1. IInv => ZeroBeyondSize
  BY DEF IInv
<1> QED
  BY <1>1, Invariance, PTL

\* RamFs!ReturnedIsMoved: a call that returns without an error has moved the
\* offset by exactly what it returns, over all the chunks it was cut into, and
\* one that ends in an error by what it delivered and at most one chunk more.
THEOREM CallsReturnWhatTheyMoved == Spec => ReturnedIsMoved
<1> DEFINE moved == offset'[call.file] - call.start
           A == call # NONE /\ call' = NONE =>
                  IF result' = Error THEN moved - call.cnt \in Undelivered ELSE moved = result'
<1>1. ASSUME IInv, [Next]_vars, call # NONE, call' = NONE, result' # Error
      PROVE  offset'[call.file] = call.start + result'
  <2>1. call \in Call /\ offset \in [File -> 0 .. LongMax]
        /\ offset[call.file] = call.start + call.cnt
        /\ (call.left = 0 => call.cnt = 0)
    BY <1>1 DEF IInv, TypeOK, CallCounts
  <2>2. call.file \in File /\ call.start \in 0 .. LongMax /\ call.cnt \in 0 .. MaxCount
    BY <2>1 DEF Call
  <2>3. CASE \E s \in Strings(Chunk) : RamfsWrite(s)
    <3>1. PICK s \in Strings(Chunk) : RamfsWrite(s)
      BY <2>3
    <3>2. halted' = "no"
      BY <3>1, <1>1 DEF RamfsWrite, Moving
    <3> DEFINE n == AtMost(call.left, Chunk)
    <3>3. /\ n \in 1 .. Chunk /\ n <= call.left /\ Continue(n, n)
          /\ offset' = [offset EXCEPT ![call.file] = offset[call.file] + n]
      BY <1>1, <3>1, <3>2, WriteFacts
    <3> HIDE DEF n
    <3>4. n \in 0 .. n /\ offset'[call.file] = offset[call.file] + n
      BY <3>3, <2>1, <2>2, Limits
    <3>5. result' = offset'[call.file] - call.start
      BY <1>1, <2>1, <3>3, <3>4, ContinueIInv
    <3> QED
      BY <3>4, <3>5, <3>3, <2>1, <2>2, Limits
  <2>4. CASE RamfsRead
    <3> DEFINE chunk == AtMost(call.left, Chunk)
               n == AtMost(chunk, Available(call.file))
    <3>1. /\ chunk \in 1 .. Chunk /\ n \in 0 .. chunk /\ chunk <= call.left
          /\ offset' = [offset EXCEPT ![call.file] = offset[call.file] + n]
      BY <1>1, <2>4, ReadFacts
    <3>2. Continue(n, chunk)
      BY <1>1, <2>4 DEF RamfsRead, Return
    <3> HIDE DEF n, chunk
    <3>3. offset'[call.file] = offset[call.file] + n
      BY <3>1, <2>1, <2>2
    <3>4. result' = offset'[call.file] - call.start
      BY <1>1, <2>1, <3>1, <3>2, <3>3, ContinueIInv
    <3> QED
      BY <3>3, <3>4, <3>1, <2>1, <2>2, Limits
  <2>5. CASE MoveNothing
    BY <2>5, <2>1, <2>2, Limits DEF MoveNothing, Return
  <2>6. CASE WriteFails
    BY <2>6, <1>1 DEF WriteFails, Return
  <2>7. ~ UNCHANGED vars
    BY <1>1 DEF vars
  <2>8. ~ \E op \in {"read", "write"}, f \in File, m \in 0 .. MaxCount : SysCall(op, f, m)
    BY <1>1 DEF SysCall, Idle
  <2>9. ~ \E f \in File, off \in -LongMax .. LongMax,
              whence \in {"SEEK_SET", "SEEK_CUR", "SEEK_END"} : RamfsLseek(f, off, whence)
    BY <1>1 DEF RamfsLseek, Idle
  <2> QED
    BY <1>1, <2>3, <2>4, <2>5, <2>6, <2>7, <2>8, <2>9, Steps
<1>2. ASSUME IInv, [Next]_vars, call # NONE, call' = NONE, result' = Error
      PROVE  moved - call.cnt \in Undelivered
  <2>1. call \in Call /\ offset \in [File -> 0 .. LongMax] /\ offset[call.file] = call.start + call.cnt
    BY <1>2 DEF IInv, TypeOK, CallCounts
  <2>2. /\ call.file \in File /\ call.start \in 0 .. LongMax /\ call.cnt \in 0 .. MaxCount
        /\ offset[call.file] \in 0 .. LongMax
    BY <2>1 DEF Call
  <2>3. ASSUME NEW s \in Strings(Chunk), RamfsWrite(s) PROVE FALSE
    <3>1. halted' = "no"  BY <2>3, <1>2 DEF RamfsWrite, Moving
    <3> DEFINE n == AtMost(call.left, Chunk)
    <3>2. /\ n \in 1 .. Chunk /\ n <= call.left /\ Continue(n, n)
          /\ offset' = [offset EXCEPT ![call.file] = offset[call.file] + n]
      BY <1>2, <2>3, <3>1, WriteFacts
    <3> HIDE DEF n
    <3>3. n \in 0 .. n /\ offset'[call.file] = offset[call.file] + n  BY <3>2, <2>1, <2>2, Limits
    <3>4. result' = offset'[call.file] - call.start  BY <1>2, <2>1, <3>2, <3>3, ContinueIInv
    <3> QED  BY <1>2, <2>1, <2>2, <3>2, <3>3, <3>4, Limits DEF Error
  <2>4. CASE RamfsRead
    <3> DEFINE chunk == AtMost(call.left, Chunk)
               n == AtMost(chunk, Available(call.file))
    <3>1. /\ chunk \in 1 .. Chunk /\ n \in 0 .. chunk
          /\ offset' = [offset EXCEPT ![call.file] = offset[call.file] + n]
      BY <1>2, <2>4, ReadFacts
    <3>2. Undelivered = 0 .. chunk  BY <2>4 DEF RamfsRead, Moving, Undelivered
    <3> HIDE DEF n, chunk
    <3>3. offset'[call.file] = offset[call.file] + n  BY <3>1, <2>1, <2>2
    <3> QED  BY <2>1, <2>2, <3>1, <3>2, <3>3, Limits
  <2>5. CASE WriteFails
    <3>1. Undelivered = {0} /\ offset' = offset  BY <2>5 DEF WriteFails, Moving, Undelivered
    <3> QED  BY <2>1, <2>2, <3>1, Limits
  <2>6. ~ MoveNothing  BY <1>2 DEF MoveNothing, Return, Error
  <2>7. ~ UNCHANGED vars  BY <1>2 DEF vars
  <2>8. ~ \E op \in {"read", "write"}, f \in File, m \in 0 .. MaxCount : SysCall(op, f, m)
    BY <1>2 DEF SysCall, Idle
  <2>9. ~ \E f \in File, off \in -LongMax .. LongMax,
              whence \in {"SEEK_SET", "SEEK_CUR", "SEEK_END"} : RamfsLseek(f, off, whence)
    BY <1>2 DEF RamfsLseek, Idle
  <2> QED
    BY <1>2, <2>3, <2>4, <2>5, <2>6, <2>7, <2>8, <2>9, Steps
<1>3. ASSUME IInv, [Next]_vars, call # NONE, call' = NONE, result' # Error
      PROVE  moved = result'
  <2>1. call \in Call /\ offset \in [File -> 0 .. LongMax]  BY <1>3 DEF IInv, TypeOK
  <2>2. call.start \in 0 .. LongMax /\ call.file \in File  BY <2>1 DEF Call
  <2>3. result' \in Int
    <3>1. IInv'  BY <1>3, Steps, SysCallIInv, LseekIInv, WriteIInv, ReadIInv, OtherIInv
    <3> QED  BY <3>1, Limits DEF IInv, TypeOK, Error
  <2> QED  BY <1>1, <1>3, <2>2, <2>3, Limits
<1>4. IInv /\ [Next]_vars => [A]_vars
  BY <1>2, <1>3
<1> QED
  BY <1>4, Invariance, PTL DEF Spec, ReturnedIsMoved
-----------------------------------------------------------------------------
(* The file is a sequence of bytes.                                         *)

\* A chunk written is a write of the abstract file.
LEMMA WriteImplements ==
  ASSUME IInv, NEW s \in Strings(Chunk), RamfsWrite(s)
  PROVE  [Bytes!Next]_(Bytes!fileVars)
<1> DEFINE f == call.file
           n == AtMost(call.left, Chunk)
           end == offset[f] + n
<1>1. CASE halted' # "no"
  <2>1. UNCHANGED <<data, size, offset, buf>>
    BY <1>1 DEF RamfsWrite, contentVars, Moving
  <2> QED
    BY <2>1 DEF Bytes!fileVars, Contents
<1>2. CASE halted' = "no"
  <2>1. /\ f \in File /\ n \in 1 .. Chunk /\ DOMAIN s = 0 .. n - 1
        /\ offset[f] \in 0 .. LongMax
        /\ end <= capacity' /\ size <= capacity'
        /\ size' = AtLeast(size, end) /\ offset' = [offset EXCEPT ![f] = end]
        /\ \A i \in 0 .. capacity' - 1 :
             data'[i] = IF i \in offset[f] .. end - 1 THEN s[i - offset[f]]
                        ELSE IF i < size THEN data[i] ELSE 0
        /\ buf' = buf
    BY <1>2, WriteFacts
  <2>2. Bytes!Length(s) = n
    BY <2>1, LengthIs
  <2>3. size \in 0 .. HeapLimit /\ capacity' \in 0 .. HeapLimit
    BY <1>2, WriteFacts DEF IInv, TypeOK
  <2> HIDE DEF n
  <2> DEFINE cap == capacity'
             now == AtLeast(size, end)
             Byte_(i) == IF i \in offset[f] .. end - 1 THEN s[i - offset[f]]
                         ELSE IF i < size THEN Contents[i] ELSE 0
  <2>4. now \in Nat /\ cap \in Nat /\ now <= cap /\ size \in Nat /\ end \in Nat
        /\ offset[f] \in Nat
    BY <2>1, <2>3, Limits DEF AtLeast
  <2>5. \A i \in 0 .. cap - 1 :
          data'[i] = IF i \in offset[f] .. end - 1 THEN s[i - offset[f]]
                     ELSE IF i < size THEN data[i] ELSE 0
    BY <2>1
  <2>6. \A i \in 0 .. now - 1 : data'[i] = Byte_(i)
    <3> HIDE DEF cap, now, end
    <3> SUFFICES ASSUME NEW i \in 0 .. now - 1 PROVE data'[i] = Byte_(i)
      OBVIOUS
    <3>1. i \in 0 .. cap - 1 /\ (i < size => i \in 0 .. size - 1)
      BY <2>4
    <3>2. i < size => Contents[i] = data[i]
      BY <3>1 DEF Contents
    <3> QED
      BY <3>1, <3>2, <2>5
  <2>7. Contents' = [i \in 0 .. now - 1 |-> Byte_(i)]
    <3> HIDE DEF Byte_
    <3>1. Contents' = [i \in 0 .. now - 1 |-> data'[i]]
      BY <2>1 DEF Contents
    <3> QED
      BY <2>6, <3>1
  <2>8. Bytes!Write(f, s)
    BY <2>1, <2>2, <2>7 DEF Bytes!Write, Bytes!Larger, AtLeast
  <2> QED
    BY <2>1, <2>8 DEF Bytes!Next, Bytes!Strings, Strings
<1> QED
  BY <1>1, <1>2

\* A chunk read is a read of the abstract file, also when the copy to the
\* program fails after it.
LEMMA ReadImplements == IInv /\ RamfsRead => [Bytes!Next]_(Bytes!fileVars)
<1> SUFFICES ASSUME IInv, RamfsRead PROVE [Bytes!Next]_(Bytes!fileVars)
  OBVIOUS
<1> DEFINE f == call.file
           chunk == AtMost(call.left, Chunk)
           n == AtMost(chunk, Available(f))
           k == IF offset[f] < size THEN Bytes!Smaller(chunk, size - offset[f]) ELSE 0
<1>1. /\ f \in File /\ chunk \in 1 .. Chunk /\ n \in 0 .. chunk
      /\ offset[f] \in 0 .. LongMax /\ size \in 0 .. HeapLimit
      /\ n > 0 => offset[f] + n <= size
      /\ buf' = [i \in 0 .. n - 1 |-> data[offset[f] + i]]
      /\ offset' = [offset EXCEPT ![f] = @ + n]
  BY ReadFacts
<1>2. n = k
  BY <1>1, Limits DEF Available, AtMost, Bytes!Smaller
<1> HIDE DEF n, chunk, k
<1>3. \A i \in 0 .. n - 1 : data[offset[f] + i] = Contents[offset[f] + i]
  BY <1>1, Limits DEF Contents
<1>4. buf' = [i \in 0 .. n - 1 |-> Contents[offset[f] + i]]
  BY <1>1, <1>3
<1>5. UNCHANGED <<Contents, size>>
  BY DEF RamfsRead, contentVars, Contents
<1>6. Bytes!Read(f, chunk)
  BY <1>1, <1>2, <1>4, <1>5 DEF Bytes!Read, k
<1> QED
  BY <1>1, <1>6 DEF Bytes!Next

\* lseek moves the position of one descriptor.
LEMMA LseekImplements ==
  ASSUME NEW f \in File, NEW off, NEW whence, RamfsLseek(f, off, whence)
  PROVE  [Bytes!Next]_(Bytes!fileVars)
<1> DEFINE p == Base(f, whence) + off
<1>1. p \in 0 .. LongMax /\ offset' = [offset EXCEPT ![f] = p]
      /\ UNCHANGED <<Contents, size, buf>>
  BY DEF RamfsLseek, IsPosition, contentVars, Contents
<1>2. Bytes!Seek(f, p)
  BY <1>1 DEF Bytes!Seek
<1> QED
  BY <1>1, <1>2 DEF Bytes!Next

\* The steps that move no byte do not change the file.
LEMMA OtherImplements ==
  ASSUME \/ \E op, f, n : SysCall(op, f, n)
         \/ WriteFails \/ MoveNothing \/ UNCHANGED vars
  PROVE  UNCHANGED Bytes!fileVars
<1>1. UNCHANGED <<data, size, offset, buf>>
  BY DEF SysCall, WriteFails, MoveNothing, vars, contentVars
<1> QED
  BY <1>1 DEF Bytes!fileVars, Contents

\* A ramfs file with its capacity, its chunked calls and their errors is the
\* byte sequence that ByteFile promises the programs.
THEOREM ImplementsByteFile == Spec => IsByteFile
<1>1. Init => Bytes!Init
  <2> SUFFICES ASSUME Init PROVE Bytes!Init
    OBVIOUS
  <2>1. size = 0 /\ Contents = [i \in {} |-> 0]
    BY DEF Init, Contents
  <2> QED
    BY <2>1 DEF Init, Bytes!Init
<1>2. IInv /\ [Next]_vars => [Bytes!Next]_(Bytes!fileVars)
  BY Steps, WriteImplements, ReadImplements, LseekImplements, OtherImplements
<1> QED
  BY <1>1, <1>2, Invariance, PTL DEF Spec, IsByteFile, Bytes!Spec
=============================================================================
