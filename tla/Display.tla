------------------------------ MODULE Display ------------------------------
(***************************************************************************)
(* The programs that draw through the framebuffer's file.  The window       *)
(* manager's: it opens the files, reads the framebuffer's description,      *)
(* allocates a block for a second picture and plots pixels.  Any other: we  *)
(* look at one that uses the devices and at one that uses its heap, which   *)
(* share nothing.                                                           *)
(***************************************************************************)
EXTENDS Devices, Heap

ASSUME DisplayAssumption == SizeLimit = Word

VARIABLES
  program  \* what runs: NONE, "devices", "heap", or the window manager's step

vars == <<screenVars, deviceVars, heapVars, program, status>>
machineVars == <<screenVars, status>>

Init == ScreenInit /\ DevicesInit /\ HeapInit /\ program = NONE
-----------------------------------------------------------------------------
Start ==
  /\ status = "up"
  /\ status' = "run"
  /\ program' \in {"devices", "heap", "open"}
  /\ drawn' = NONE
  /\ UNCHANGED <<loader, tag, fb, deviceVars, heapVars>>

Running(step) == status = "run" /\ program = step /\ call = NONE

\* Display's constructor: a file that is not there ends the program, and so
\* does a description that cannot be read.
OpenFiles ==
  /\ Running("open")
  /\ IF fb = NONE THEN status' = "exit" /\ UNCHANGED <<call, program>>
     ELSE call' = Calling("read", "fb-info", InfoSize) /\ program' = "info" /\ UNCHANGED status
  /\ UNCHANGED <<screenVars, offset, result, heapVars>>

NoInfo ==
  /\ Running("info") /\ result < 0
  /\ status' = "exit"
  /\ UNCHANGED <<screenVars, deviceVars, heapVars, program>>

BackSize == (fb.p * fb.h * BytesPerPixel) % Word
AllocateBack ==
  /\ Running("info") /\ result >= 0
  /\ IF BackSize = 0 THEN UNCHANGED heapVars ELSE Malloc(BackSize)
  /\ program' = "plot"
  /\ UNCHANGED <<machineVars, deviceVars>>

\* plot: the position is a number of pixels.
PlotAnywhere(x, y) == Sought(Plus((y * fb.w) % Word, x))   \* mutant: no bounds
PlotAt(x, y) == IF x < fb.w /\ y < fb.h THEN Sought(Plus((y * fb.w) % Word, x)) ELSE NONE
Plot ==
  /\ Running("plot")
  /\ \E x, y \in Coord :
       /\ PlotAt(x, y) # NONE
       /\ offset' = PlotAt(x, y)
  /\ call' = Calling("write", "fb", BytesPerPixel)
  /\ UNCHANGED <<machineVars, result, heapVars, program>>

WindowManager == OpenFiles \/ NoInfo \/ AllocateBack \/ Plot
-----------------------------------------------------------------------------
DeviceCall ==
  /\ Running("devices")
  /\ \/ \E op \in {"read", "write"}, device \in Device, n \in Counts :
          call' = Calling(op, device, n) /\ UNCHANGED offset
     \/ "fb" \in Device /\ (\E pos \in Offsets : offset' = Sought(pos)) /\ UNCHANGED call
  /\ UNCHANGED <<machineVars, result, heapVars, program>>

HeapCall ==
  /\ Running("heap")
  /\ HeapNext(Counts)
  /\ UNCHANGED <<machineVars, deviceVars, program>>

Next ==
  \/ ScreenNext /\ UNCHANGED <<deviceVars, heapVars, program>>
  \/ Start
  \/ DevicesNext /\ UNCHANGED <<heapVars, program>>
  \/ WindowManager
  \/ DeviceCall
  \/ HeapCall
Spec == Init /\ [][Next]_vars
-----------------------------------------------------------------------------
\* Nothing is touched outside the framebuffer and the kernel's buffer but by
\* a call that goes past the framebuffer's end; and the window manager makes
\* no such call, wherever on the screen it plots and however deep its pixels
\* are, from the description it has read.
StaysInside ==
  /\ DrawsInside
  /\ CallsStayInside
  /\ program \notin {"devices", "heap"} => status # "wild"
=============================================================================
