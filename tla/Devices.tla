------------------------------ MODULE Devices ------------------------------
(***************************************************************************)
(* The device files of a program: the framebuffer, its description, null,   *)
(* random and the clock.  A call moves the bytes through the kernel's       *)
(* buffer, chunk by chunk; a chunk is a step.  A device is known by the     *)
(* bytes it touches, of that buffer and of the framebuffer, and by what it  *)
(* returns.                                                                 *)
(***************************************************************************)
EXTENDS Screen

CONSTANTS
  Chunk,     \* sizeof(buf) of sys_read and sys_write, 64
  InfoSize,  \* sizeof(fb_t)
  TimeSize,  \* sizeof(rtcTime_t)
  Counts,    \* bound: the bytes a call asks for
  Offsets    \* bound: where lseek goes, as size_t's

ASSUME DevicesAssumption ==
  /\ {Chunk, InfoSize, TimeSize} \subseteq Nat \ {0} /\ Chunk % 4 = 0
  /\ Counts \subseteq 0 .. Word \div 2 - 1 /\ Offsets \subseteq 0 .. Word - 1

VARIABLES
  offset,  \* file_t.offset of the framebuffer; no other device looks at it
  call,    \* NONE, or the call: operation, device, bytes left and moved
  result   \* what the last call returned: a count, or -1

deviceVars == <<offset, call, result>>
Device == (IF fb = NONE THEN {} ELSE {"fb", "fb-info"}) \cup {"null", "random", "rtc"}
Error == -1
AtMost(a, b) == IF a < b THEN a ELSE b

DevicesInit ==
  /\ offset = 0
  /\ call = NONE
  /\ result = 0
-----------------------------------------------------------------------------
\* What a device does with a chunk of n bytes: what it returns, the bytes of
\* the buffer and of the framebuffer it touches, how far its offset moves.
Does(ret, buffer, screen) == [ret |-> ret, buffer |-> buffer, screen |-> screen]
Refuses == Does(Error, {}, {})
UpTo(n) == 0 .. n - 1
OfScreen(c) == Does(c, UpTo(c), offset .. offset + c - 1)

ReadsFb(n) == OfScreen(AtMost(n, FbSize))
WritesFb(n) == OfScreen(IF n > (FbSize - offset) % Word THEN FbSize ELSE n)
ReadsInfo(n) == Does(AtMost(n, InfoSize), UpTo(AtMost(n, InfoSize)), {})
ReadsTime(n) == Does(AtMost(n, TimeSize), UpTo(AtMost(n, TimeSize)), {})

\* random writes four bytes for every fourth it is asked for.
ReadsRandom(n) == Does(n, UNION {i .. i + 3 : i \in {j \in UpTo(n) : j % 4 = 0}}, {})

Doing(op, device, n) ==
  CASE op = "read" /\ device = "fb" -> ReadsFb(n)
    [] op = "write" /\ device = "fb" -> WritesFb(n)
    [] op = "read" /\ device = "fb-info" -> ReadsInfo(n)
    [] op = "read" /\ device = "null" -> Does(n, UpTo(n), {})
    [] op = "write" /\ device = "null" -> Does(n, {}, {})
    [] op = "read" /\ device = "random" -> ReadsRandom(n)
    [] op = "write" /\ device = "random" -> Does(n, UpTo(n), {})
    [] op = "read" /\ device = "rtc" -> ReadsTime(n)
    [] OTHER -> Refuses
-----------------------------------------------------------------------------
\* The start of a call and its loop, in sys_read and sys_write.
Underway(op, device, left, cnt) == [op |-> op, device |-> device, left |-> left, cnt |-> cnt]
Calling(op, device, n) == Underway(op, device, n, 0)
ThisChunk == AtMost(call.left, Chunk)
Done == Doing(call.op, call.device, ThisChunk)
Stays(done) ==
  done.buffer \subseteq 0 .. Chunk - 1 /\ \A a \in done.screen : a < FbSize
Ends(r) == call' = NONE /\ result' = r
Loops(ret) ==
  IF ret = 0 \/ ret < ThisChunk \/ ret = call.left THEN Ends(call.cnt + ret)
  ELSE call' = Underway(call.op, call.device, call.left - ret, call.cnt + ret) /\ UNCHANGED result
Moved(device, ret) == IF device = "fb" THEN offset + ret ELSE offset

\* Past the buffer or the framebuffer, what happens is undefined.
Wild ==
  /\ call # NONE /\ call.left > 0 /\ ~Stays(Done)
  /\ status' = "wild"
  /\ UNCHANGED <<screenVars, deviceVars>>

\* The device refuses the chunk, or takes it.  What a read got may not be
\* copied to the program, after the offset has moved.
Turn ==
  /\ call # NONE /\ call.left > 0 /\ Stays(Done)
  /\ IF Done.ret < 0 THEN Ends(Done.ret) /\ UNCHANGED offset
     ELSE /\ offset' = Moved(call.device, Done.ret)
          /\ Loops(Done.ret) \/ (call.op = "read" /\ Ends(Error))
  /\ UNCHANGED <<screenVars, status>>

\* copy_from_user fails before the device is called.
NotCopied ==
  /\ call # NONE /\ call.left > 0 /\ call.op = "write"
  /\ Ends(Error)
  /\ UNCHANGED <<screenVars, status, offset>>

Nothing ==
  /\ call # NONE /\ call.left = 0
  /\ Ends(0)
  /\ UNCHANGED <<screenVars, status, offset>>

DevicesNext == status = "run" /\ (Wild \/ Turn \/ NotCopied \/ Nothing)

\* lseek of the framebuffer, from the start: a position is a signed number.
Sought(pos) == IF pos < Word \div 2 THEN pos ELSE offset
-----------------------------------------------------------------------------
\* No device writes or reads outside the kernel's buffer, whatever it is
\* asked for, and none but a call on the framebuffer that goes past its end
\* outside the framebuffer.
CallsStayInside ==
  status = "wild" =>
    call.device = "fb" /\ offset + ThisChunk > FbSize
=============================================================================
