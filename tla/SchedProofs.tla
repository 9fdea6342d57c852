---------------------------- MODULE SchedProofs ----------------------------
(* Safety of Sched for every number of processes, from one inductive        *)
(* invariant.  What carries it: a forked child has no address space, so the *)
(* machine faults on the first tick after a fork, and everything kmain does *)
(* happens with at most two processes in the list.                          *)
EXTENDS Sched, TLAPS, WellFoundedInduction

\* Where kmain stands.
k == KmainPlace
BeforeCreate == {"create"}
BeforeNext == {"create", "link"}
BeforePrev == {"create", "link", "prev"}
BeforeTail == {"create", "link", "prev", "tail"}
BeforeSpace == BeforeTail \cup {"space"}
BeforeCount == BeforeSpace \cup {"count"}
BeforeBlock == BeforeCount \cup {"block"}
BeforeRegs == BeforeBlock \cup {"regs"}
BeforeStack == BeforeRegs \cup {"stack"}
Building == BeforeStack \cup {"publish"}
Reaping == {"advance", "check", "destroy", "yield", "hlt"}

\* Creation: proc_create's counter, kmain's locals, the freed process.
Creation ==
  /\ k \in Building \cup Reaping \cup {"reaped"}
  /\ pid >= 1
  /\ k = "create" => pid = 1 /\ proc = NULL
  /\ k # "create" => pid >= 2 /\ proc = InitProc
  /\ k \in Building \cup {"reaped"} => pid <= 2
  /\ \A p \in Proc : alloc[p] = "unborn" <=> p >= pid
  /\ \A p \in Proc : alloc[p] = "freed" <=> p = InitProc /\ k = "reaped"
  /\ k \in Building => walker = NULL
  /\ k \in Reaping \cup {"reaped"} => walker \in {KernelProc, InitProc}
  /\ k \in {"destroy", "reaped"} => walker = InitProc /\ awaiting[InitProc]

\* The list runs through the processes in the order of their creation.
Listed ==
  /\ processes = KernelProc
  /\ tail = IF k \in BeforeTail THEN KernelProc ELSE pid - 1
  /\ next[KernelProc] = IF k \in BeforeNext \cup {"reaped"} THEN NULL ELSE InitProc
  /\ prev[KernelProc] = NULL
  /\ prev[InitProc] = IF k \in BeforePrev THEN NULL ELSE KernelProc
  /\ \A p \in Proc : p >= 1 => next[p] = IF p < pid - 1 THEN p + 1 ELSE NULL
  /\ \A p \in Proc : p >= 2 => prev[p] = IF p < pid THEN p - 1 ELSE NULL

\* How far a process is built.
Built ==
  /\ taskcount[KernelProc] = 1 /\ state[KernelProc] = "RUNNING"
  /\ space[KernelProc] = "kernel"
  /\ taskcount[InitProc] = IF k \in BeforeCount THEN 0 ELSE 1
  /\ state[InitProc] = IF k \in Reaping THEN "RUNNING"
                       ELSE IF k \in BeforeBlock \cup {"reaped"} THEN "READY"
                       ELSE "BLOCKED"
  /\ space[InitProc] = IF k \in BeforeSpace THEN NULL ELSE "own"
  /\ stack[InitProc] <=> k \notin BeforeStack
  /\ k \notin BeforeRegs => last[InitProc].pc \in UserPc
  /\ k \notin BeforeRegs \cup {"reaped"} => saved[InitProc].pc \in UserPc
  /\ \A p \in Proc : p >= 2 =>
       /\ taskcount[p] = IF p < pid THEN 1 ELSE 0
       /\ state[p] = IF p < pid THEN "RUNNING" ELSE "READY"
       /\ space[p] = NULL
  /\ \A p \in Proc : awaiting[p] =>
       p = InitProc /\ k \in Reaping \cup {"reaped"} /\ last[p].pc = "spin"

\* Who has the CPU.
Current ==
  /\ ~override_store
  /\ current_proc < pid /\ current_task < pid
  /\ k = "reaped" => current_proc = KernelProc /\ current_task = KernelProc
  /\ pid > 2 => \/ current_proc = InitProc /\ mode \in {"run", "next"}
                \/ current_proc = 2 /\ mode = "load"
  /\ mode = "run" =>
       /\ current_proc \in {KernelProc, InitProc} /\ current_task = current_proc
       /\ state[current_proc] = "RUNNING"
       /\ cpu = last[current_proc]
  /\ mode = "load" =>
       /\ current_task = current_proc
       /\ state[current_proc] = "RUNNING" /\ ~awaiting[current_proc]

\* Saved registers are those a process last ran with, unless it has exited.
Saved ==
  /\ \/ mode = "run" /\ current_proc = KernelProc
     \/ saved[KernelProc] = last[KernelProc]
  /\ \/ mode = "run" /\ current_proc = InitProc
     \/ k = "reaped" \/ awaiting[InitProc]
     \/ saved[InitProc] = last[InitProc]

IInv == TypeOK /\ Creation /\ Listed /\ Built /\ Current /\ Saved
-----------------------------------------------------------------------------
(* What a step does to the place of kmain and to the registers.             *)

\* What any step of kmain does to its place and to the registers.
LEMMA KmainStep ==
  ASSUME IInv, NEW a, NEW q \in KmainPc, KmainAt(a), KmainGoto(q)
  PROVE  /\ current_proc = 0 /\ current_task = 0 /\ mode = "run" /\ pid <= 2
         /\ k = a /\ k' = q
         /\ cpu' \in Registers /\ last' \in [Proc -> Registers]
         /\ cpu' = last'[0]
         /\ last'[1] = last[1]
<1> USE MaxProcsAssumption DEF IInv, KmainAt, IsRunning, KernelProc, InitProc
<1>1. current_proc = 0 /\ current_task = 0 /\ mode = "run" /\ pid <= 2
  BY DEF Current, TypeOK
<1>2. cpu \in Registers /\ last \in [Proc -> Registers] /\ cpu = last[0]
  BY <1>1 DEF TypeOK, Current
<1>3. 0 \in Proc /\ 1 \in Proc
  BY DEF Proc
<1>4. cpu' \in Registers /\ cpu'.pc = q
  BY <1>2 DEF KmainGoto, Execute, Registers
<1>5. last' = [last EXCEPT ![0] = cpu']
  BY <1>1 DEF KmainGoto, Execute
<1>6. k = a /\ k' = q
  BY <1>2, <1>3, <1>4, <1>5 DEF k, KmainPlace
<1>. QED
  BY <1>1, <1>2, <1>3, <1>4, <1>5, <1>6

\* The same of a step of the user process, which is always InitProc.
LEMMA UserStep ==
  ASSUME IInv, NEW a, NEW r \in Registers, UserAt(a), Execute(r)
  PROVE  /\ current_proc = 1 /\ current_task = 1 /\ mode = "run"
         /\ k \in Reaping /\ k' = k
         /\ cpu' \in Registers /\ last' \in [Proc -> Registers]
         /\ cpu' = last'[1] /\ cpu' = r
         /\ last'[0] = last[0]
<1> USE MaxProcsAssumption DEF IInv, UserAt, IsRunning, KernelProc, InitProc
<1>1. current_proc = 1 /\ current_task = 1 /\ mode = "run"
  BY DEF Current, TypeOK
<1>2. k \in Reaping
  BY <1>1 DEF Current, Built, BeforeBlock, BeforeCount, BeforeSpace,
     BeforeTail
<1>3. 0 \in Proc /\ 1 \in Proc
  BY DEF Proc
<1>4. cpu' = r /\ last' = [last EXCEPT ![1] = r]
  BY <1>1 DEF Execute
<1>5. last \in [Proc -> Registers]
  BY DEF TypeOK
<1>6. k' = k
  BY <1>3, <1>4, <1>5 DEF k, KmainPlace
<1>. QED
  BY <1>1, <1>2, <1>3, <1>4, <1>5, <1>6

\* Writing one register keeps the type of a register file.
LEMMA RegistersExcept ==
  ASSUME NEW r \in Registers
  PROVE  /\ \A w \in Word : /\ [r EXCEPT !.eax = w] \in Registers
                            /\ [r EXCEPT !.eax = w].pc = r.pc
         /\ \A c \in KmainPc \cup UserPc : /\ [r EXCEPT !.pc = c] \in Registers
                                          /\ [r EXCEPT !.pc = c].pc = c
BY DEF Registers

LEMMA InitialRegisters ==
  /\ ZeroRegisters \in Registers
  /\ [pc |-> "create", eax |-> 0] \in Registers
BY MaxProcsAssumption DEF ZeroRegisters, Registers, KmainPc, Word

-----------------------------------------------------------------------------
(* The invariant holds initially and every step keeps it: one lemma per      *)
(* action, one step per conjunct of the invariant.                          *)

USE MaxProcsAssumption, NullAssumption
    DEF IInv, KernelProc, InitProc, Proc, schedVars, procVars,
        BeforeCreate, BeforeNext, BeforePrev, BeforeTail, BeforeSpace,
        BeforeCount, BeforeBlock, BeforeRegs, BeforeStack, Building, Reaping

LEMMA InitIInv == Init => IInv
<1> SUFFICES ASSUME Init PROVE IInv
  OBVIOUS
<1>1. k = "create" /\ last[1] = ZeroRegisters
      /\ last \in [Proc -> Registers] /\ cpu \in Registers
      /\ cpu = last[0] /\ saved = [p \in Proc |-> ZeroRegisters]
  BY InitialRegisters DEF Init, k, KmainPlace
<1>2. TypeOK
  <2>1. /\ alloc \in [Proc -> {"unborn", "live", "freed"}]
        /\ next \in [Proc -> Pointer] /\ prev \in [Proc -> Pointer]
        /\ taskcount \in [Proc -> 0 .. 1] /\ state \in [Proc -> TaskState]
    BY DEF Init, Pointer, TaskState
  <2>2. /\ saved \in [Proc -> Registers]
        /\ space \in [Proc -> {NULL, "kernel", "own"}]
        /\ stack \in [Proc -> BOOLEAN] /\ awaiting \in [Proc -> BOOLEAN]
        /\ hole \in [Proc -> BOOLEAN]
    BY <1>1, InitialRegisters DEF Init
  <2>3. /\ processes \in Pointer /\ tail \in Pointer /\ pid \in 0 .. MaxProcs
        /\ current_proc \in Proc /\ current_task \in Proc
        /\ proc \in Pointer /\ walker \in Pointer
        /\ override_store \in BOOLEAN /\ mode \in {"run", "next", "load"}
        /\ halted \in {"no", "panic", "fault", "hung"}
    <3>1. /\ processes = 0 /\ tail = 0 /\ pid = 1 /\ current_proc = 0
          /\ current_task = 0 /\ proc = NULL /\ walker = NULL
          /\ override_store = FALSE /\ mode = "run" /\ halted = "no"
      BY Zenon DEF Init
    <3>2. override_store \in BOOLEAN
      BY ONLY <3>1, Zenon
    <3>3. /\ processes = 0 /\ tail = 0 /\ pid = 1 /\ current_proc = 0
          /\ current_task = 0 /\ proc = NULL /\ walker = NULL
          /\ mode = "run" /\ halted = "no"
      BY <3>1
    <3>. QED
      BY ONLY <3>2, <3>3, MaxProcsAssumption DEF Pointer, Proc
  <2> HIDE DEF Proc
  <2>. QED
    BY <1>1, <2>1, <2>2, <2>3, Zenon DEF TypeOK
<1>3. Creation
  BY <1>1 DEF Init, Creation
<1>4. Listed
  BY <1>1 DEF Init, Listed
<1>5. Built
  BY <1>1 DEF Init, Built
<1>6. Current
  BY <1>1 DEF Init, Current
<1>7. Saved
  BY <1>1 DEF Init, Saved
<1>. QED
  BY <1>2, <1>3, <1>4, <1>5, <1>6, <1>7

LEMMA RegistersTyped ==
  IInv => saved \in [Proc -> Registers] /\ last \in [Proc -> Registers]
BY Zenon DEF TypeOK

LEMMA ProcCreateIInv == IInv /\ ProcCreate => IInv'
<1> SUFFICES ASSUME IInv, ProcCreate PROVE IInv'
  OBVIOUS
<1>1. /\ current_proc = 0 /\ current_task = 0 /\ mode = "run" /\ pid <= 2
      /\ k = "create" /\ k' = "link"
      /\ cpu' \in Registers /\ last' \in [Proc -> Registers]
      /\ cpu' = last'[0] /\ last'[1] = last[1]
  BY KmainStep DEF KmainPc, ProcCreate
<1>2. TypeOK'
  BY <1>1 DEF TypeOK, Creation, Listed, Built, Pointer, TaskState,
     ProcCreate
<1>3. Creation'
  BY <1>1 DEF TypeOK, Creation, Listed, Built, ProcCreate
<1>4. Listed'
  BY <1>1 DEF TypeOK, Creation, Listed, ProcCreate
<1>5. Built'
  BY <1>1 DEF TypeOK, Creation, Built, UserPc, ProcCreate
<1>6. Current'
  BY <1>1 DEF TypeOK, Creation, Current, Built, Listed, ProcCreate
<1>7. Saved'
  BY <1>1 DEF TypeOK, Creation, Saved, Built, ProcCreate
<1>. QED
  BY <1>2, <1>3, <1>4, <1>5, <1>6, <1>7

LEMMA LinkNextIInv == IInv /\ LinkNext => IInv'
<1> SUFFICES ASSUME IInv, LinkNext PROVE IInv'
  OBVIOUS
<1>1. /\ current_proc = 0 /\ current_task = 0 /\ mode = "run" /\ pid <= 2
      /\ k = "link" /\ k' = "prev"
      /\ cpu' \in Registers /\ last' \in [Proc -> Registers]
      /\ cpu' = last'[0] /\ last'[1] = last[1]
  BY KmainStep DEF KmainPc, LinkNext
<1>2. TypeOK'
  BY <1>1 DEF TypeOK, Creation, Listed, Built, Pointer, TaskState, LinkNext,
     LinkAfterTail
<1>3. Creation'
  BY <1>1 DEF TypeOK, Creation, Listed, Built, LinkNext, LinkAfterTail
<1>4. Listed'
  BY <1>1 DEF TypeOK, Creation, Listed, LinkNext, LinkAfterTail
<1>5. Built'
  BY <1>1 DEF TypeOK, Creation, Built, UserPc, LinkNext, LinkAfterTail
<1>6. Current'
  BY <1>1 DEF TypeOK, Creation, Current, Built, Listed, LinkNext,
     LinkAfterTail
<1>7. Saved'
  BY <1>1 DEF TypeOK, Creation, Saved, Built, LinkNext, LinkAfterTail
<1>. QED
  BY <1>2, <1>3, <1>4, <1>5, <1>6, <1>7

LEMMA LinkPrevIInv == IInv /\ LinkPrev => IInv'
<1> SUFFICES ASSUME IInv, LinkPrev PROVE IInv'
  OBVIOUS
<1>1. /\ current_proc = 0 /\ current_task = 0 /\ mode = "run" /\ pid <= 2
      /\ k = "prev" /\ k' = "tail"
      /\ cpu' \in Registers /\ last' \in [Proc -> Registers]
      /\ cpu' = last'[0] /\ last'[1] = last[1]
  BY KmainStep DEF KmainPc, LinkPrev
<1>2. TypeOK'
  BY <1>1 DEF TypeOK, Creation, Listed, Built, Pointer, TaskState, LinkPrev,
     LinkBackToTail
<1>3. Creation'
  BY <1>1 DEF TypeOK, Creation, Listed, Built, LinkPrev, LinkBackToTail
<1>4. Listed'
  BY <1>1 DEF TypeOK, Creation, Listed, LinkPrev, LinkBackToTail
<1>5. Built'
  BY <1>1 DEF TypeOK, Creation, Built, UserPc, LinkPrev, LinkBackToTail
<1>6. Current'
  BY <1>1 DEF TypeOK, Creation, Current, Built, Listed, LinkPrev,
     LinkBackToTail
<1>7. Saved'
  BY <1>1 DEF TypeOK, Creation, Saved, Built, LinkPrev, LinkBackToTail
<1>. QED
  BY <1>2, <1>3, <1>4, <1>5, <1>6, <1>7

LEMMA LinkTailIInv == IInv /\ LinkTail => IInv'
<1> SUFFICES ASSUME IInv, LinkTail PROVE IInv'
  OBVIOUS
<1>1. /\ current_proc = 0 /\ current_task = 0 /\ mode = "run" /\ pid <= 2
      /\ k = "tail" /\ k' = "space"
      /\ cpu' \in Registers /\ last' \in [Proc -> Registers]
      /\ cpu' = last'[0] /\ last'[1] = last[1]
  BY KmainStep DEF KmainPc, LinkTail
<1>2. TypeOK'
  BY <1>1 DEF TypeOK, Creation, Listed, Built, Pointer, TaskState, LinkTail,
     HeadWith
<1>3. Creation'
  BY <1>1 DEF TypeOK, Creation, Listed, Built, LinkTail, HeadWith
<1>4. Listed'
  BY <1>1 DEF TypeOK, Creation, Listed, LinkTail, HeadWith
<1>5. Built'
  BY <1>1 DEF TypeOK, Creation, Built, UserPc, LinkTail, HeadWith
<1>6. Current'
  BY <1>1 DEF TypeOK, Creation, Current, Built, Listed, LinkTail, HeadWith
<1>7. Saved'
  BY <1>1 DEF TypeOK, Creation, Saved, Built, LinkTail, HeadWith
<1>. QED
  BY <1>2, <1>3, <1>4, <1>5, <1>6, <1>7

LEMMA SetSpaceIInv == IInv /\ SetSpace => IInv'
<1> SUFFICES ASSUME IInv, SetSpace PROVE IInv'
  OBVIOUS
<1>1. /\ current_proc = 0 /\ current_task = 0 /\ mode = "run" /\ pid <= 2
      /\ k = "space" /\ k' = "count"
      /\ cpu' \in Registers /\ last' \in [Proc -> Registers]
      /\ cpu' = last'[0] /\ last'[1] = last[1]
  BY KmainStep DEF KmainPc, SetSpace
<1>2. TypeOK'
  BY <1>1 DEF TypeOK, Creation, Listed, Built, Pointer, TaskState, SetSpace
<1>3. Creation'
  BY <1>1 DEF TypeOK, Creation, Listed, Built, SetSpace
<1>4. Listed'
  BY <1>1 DEF TypeOK, Creation, Listed, SetSpace
<1>5. Built'
  BY <1>1 DEF TypeOK, Creation, Built, UserPc, SetSpace
<1>6. Current'
  BY <1>1 DEF TypeOK, Creation, Current, Built, Listed, SetSpace
<1>7. Saved'
  BY <1>1 DEF TypeOK, Creation, Saved, Built, SetSpace
<1>. QED
  BY <1>2, <1>3, <1>4, <1>5, <1>6, <1>7

LEMMA TaskCountIInv == IInv /\ TaskCount => IInv'
<1> SUFFICES ASSUME IInv, TaskCount PROVE IInv'
  OBVIOUS
<1>1. /\ current_proc = 0 /\ current_task = 0 /\ mode = "run" /\ pid <= 2
      /\ k = "count" /\ k' = "block"
      /\ cpu' \in Registers /\ last' \in [Proc -> Registers]
      /\ cpu' = last'[0] /\ last'[1] = last[1]
  BY KmainStep DEF KmainPc, TaskCount
<1>2. TypeOK'
  BY <1>1 DEF TypeOK, Creation, Listed, Built, Pointer, TaskState, TaskCount
<1>3. Creation'
  BY <1>1 DEF TypeOK, Creation, Listed, Built, TaskCount
<1>4. Listed'
  BY <1>1 DEF TypeOK, Creation, Listed, TaskCount
<1>5. Built'
  BY <1>1 DEF TypeOK, Creation, Built, UserPc, TaskCount
<1>6. Current'
  BY <1>1 DEF TypeOK, Creation, Current, Built, Listed, TaskCount
<1>7. Saved'
  BY <1>1 DEF TypeOK, Creation, Saved, Built, TaskCount
<1>. QED
  BY <1>2, <1>3, <1>4, <1>5, <1>6, <1>7

LEMMA TaskBlockIInv == IInv /\ TaskBlock => IInv'
<1> SUFFICES ASSUME IInv, TaskBlock PROVE IInv'
  OBVIOUS
<1>1. /\ current_proc = 0 /\ current_task = 0 /\ mode = "run" /\ pid <= 2
      /\ k = "block" /\ k' = "regs"
      /\ cpu' \in Registers /\ last' \in [Proc -> Registers]
      /\ cpu' = last'[0] /\ last'[1] = last[1]
  BY KmainStep DEF KmainPc, TaskBlock
<1>2. TypeOK'
  BY <1>1 DEF TypeOK, Creation, Listed, Built, Pointer, TaskState, TaskBlock
<1>3. Creation'
  BY <1>1 DEF TypeOK, Creation, Listed, Built, TaskBlock
<1>4. Listed'
  BY <1>1 DEF TypeOK, Creation, Listed, TaskBlock
<1>5. Built'
  BY <1>1 DEF TypeOK, Creation, Built, UserPc, TaskBlock
<1>6. Current'
  BY <1>1 DEF TypeOK, Creation, Current, Built, Listed, TaskBlock
<1>7. Saved'
  BY <1>1 DEF TypeOK, Creation, Saved, Built, TaskBlock
<1>. QED
  BY <1>2, <1>3, <1>4, <1>5, <1>6, <1>7

LEMMA SetRegsIInv == IInv /\ SetRegs => IInv'
<1> SUFFICES ASSUME IInv, SetRegs PROVE IInv'
  OBVIOUS
<1>1. /\ current_proc = 0 /\ current_task = 0 /\ mode = "run" /\ pid <= 2
      /\ k = "regs" /\ cpu = last[0] /\ proc = 1
  BY DEF SetRegs, KmainAt, IsRunning, Current, k, KmainPlace, Creation
<1>2. /\ saved'[1] \in Registers /\ saved'[1].pc = "exec"
      /\ saved' = [saved EXCEPT ![1] = saved'[1]]
  <2> DEFINE r == [saved[1] EXCEPT !.pc = "exec"]
  <2>1. saved[1] \in Registers
    BY RegistersTyped
  <2>2. r \in Registers /\ r.pc = "exec"
    BY <2>1, RegistersExcept DEF UserPc
  <2>3. saved' = [saved EXCEPT ![1] = r]
    BY <1>1 DEF SetRegs
  <2>4. saved \in [Proc -> Registers] /\ 1 \in Proc
    BY DEF TypeOK
  <2> HIDE DEF r, Proc
  <2>. QED
    BY ONLY <2>2, <2>3, <2>4
<1>3. cpu' \in Registers /\ cpu'.pc = "stack"
  <2> DEFINE r == [cpu EXCEPT !.pc = "stack"]
  <2>1. cpu \in Registers
    BY DEF TypeOK
  <2>2. r \in Registers /\ r.pc = "stack"
    BY <2>1, RegistersExcept DEF KmainPc
  <2>3. cpu' = r
    BY Zenon DEF SetRegs
  <2> HIDE DEF r
  <2>. QED
    BY <2>2, <2>3
<1>4. last' = [last EXCEPT ![0] = cpu', ![1] = saved'[1]]
  BY <1>1 DEF SetRegs
<1>5. k' = "stack" /\ last'[0] = cpu' /\ last'[1] = saved'[1]
      /\ last' \in [Proc -> Registers] /\ saved' \in [Proc -> Registers]
  BY <1>2, <1>3, <1>4, RegistersTyped DEF k, KmainPlace
<1>6. TypeOK'
  BY <1>1, <1>2, <1>3, <1>4, <1>5 DEF TypeOK, Creation, Listed, Built,
     Pointer, TaskState, SetRegs
<1>7. Creation'
  BY <1>1, <1>2, <1>3, <1>4, <1>5 DEF TypeOK, Creation, Listed, Built,
     SetRegs
<1>8. Listed'
  BY <1>1, <1>2, <1>3, <1>4, <1>5 DEF TypeOK, Creation, Listed, SetRegs
<1>9. Built'
  BY <1>1, <1>2, <1>3, <1>4, <1>5 DEF TypeOK, Creation, Built, UserPc,
     SetRegs
<1>10. Current'
  BY <1>1, <1>2, <1>3, <1>4, <1>5 DEF TypeOK, Creation, Current, Built,
     Listed, SetRegs
<1>11. Saved'
  BY <1>1, <1>2, <1>3, <1>4, <1>5 DEF TypeOK, Creation, Saved, Built,
     SetRegs
<1>. QED
  BY <1>6, <1>7, <1>8, <1>9, <1>10, <1>11

LEMMA MapStackIInv == IInv /\ MapStack => IInv'
<1> SUFFICES ASSUME IInv, MapStack PROVE IInv'
  OBVIOUS
<1>1. /\ current_proc = 0 /\ current_task = 0 /\ mode = "run" /\ pid <= 2
      /\ k = "stack" /\ k' = "publish"
      /\ cpu' \in Registers /\ last' \in [Proc -> Registers]
      /\ cpu' = last'[0] /\ last'[1] = last[1]
  BY KmainStep DEF KmainPc, MapStack
<1>2. TypeOK'
  BY <1>1 DEF TypeOK, Creation, Listed, Built, Pointer, TaskState, MapStack
<1>3. Creation'
  BY <1>1 DEF TypeOK, Creation, Listed, Built, MapStack
<1>4. Listed'
  BY <1>1 DEF TypeOK, Creation, Listed, MapStack
<1>5. Built'
  BY <1>1 DEF TypeOK, Creation, Built, UserPc, MapStack
<1>6. Current'
  BY <1>1 DEF TypeOK, Creation, Current, Built, Listed, MapStack
<1>7. Saved'
  BY <1>1 DEF TypeOK, Creation, Saved, Built, MapStack
<1>. QED
  BY <1>2, <1>3, <1>4, <1>5, <1>6, <1>7

LEMMA PublishIInv == IInv /\ Publish => IInv'
<1> SUFFICES ASSUME IInv, Publish PROVE IInv'
  OBVIOUS
<1>1. /\ current_proc = 0 /\ current_task = 0 /\ mode = "run" /\ pid <= 2
      /\ k = "publish" /\ k' = "advance"
      /\ cpu' \in Registers /\ last' \in [Proc -> Registers]
      /\ cpu' = last'[0] /\ last'[1] = last[1]
  BY KmainStep DEF KmainPc, Publish
<1>2. TypeOK'
  BY <1>1 DEF TypeOK, Creation, Listed, Built, Pointer, TaskState, Publish
<1>3. Creation'
  BY <1>1 DEF TypeOK, Creation, Listed, Built, Publish
<1>4. Listed'
  BY <1>1 DEF TypeOK, Creation, Listed, Publish
<1>5. Built'
  BY <1>1 DEF TypeOK, Creation, Built, UserPc, Publish
<1>6. Current'
  BY <1>1 DEF TypeOK, Creation, Current, Built, Listed, Publish
<1>7. Saved'
  BY <1>1 DEF TypeOK, Creation, Saved, Built, Publish
<1>. QED
  BY <1>2, <1>3, <1>4, <1>5, <1>6, <1>7

LEMMA AdvanceIInv == IInv /\ Advance => IInv'
<1> SUFFICES ASSUME IInv, Advance PROVE IInv'
  OBVIOUS
<1>1. /\ current_proc = 0 /\ current_task = 0 /\ mode = "run" /\ pid <= 2
      /\ k = "advance" /\ k' = "check"
      /\ cpu' \in Registers /\ last' \in [Proc -> Registers]
      /\ cpu' = last'[0] /\ last'[1] = last[1]
  BY KmainStep DEF KmainPc, Advance
<1>2. TypeOK'
  BY <1>1 DEF TypeOK, Creation, Listed, Built, Pointer, TaskState, Advance,
     Successor
<1>3. Creation'
  BY <1>1 DEF TypeOK, Creation, Listed, Built, Advance, Successor
<1>4. Listed'
  BY <1>1 DEF TypeOK, Creation, Listed, Advance, Successor
<1>5. Built'
  BY <1>1 DEF TypeOK, Creation, Built, UserPc, Advance, Successor
<1>6. Current'
  BY <1>1 DEF TypeOK, Creation, Current, Built, Listed, Advance, Successor
<1>7. Saved'
  BY <1>1 DEF TypeOK, Creation, Saved, Built, Advance, Successor
<1>. QED
  BY <1>2, <1>3, <1>4, <1>5, <1>6, <1>7

LEMMA CheckAwaitingIInv == IInv /\ CheckAwaiting => IInv'
<1> SUFFICES ASSUME IInv, CheckAwaiting PROVE IInv'
  OBVIOUS
<1> DEFINE q == IF awaiting[walker] THEN "destroy" ELSE "yield"
<1>1. q \in KmainPc /\ KmainGoto(q) /\ KmainAt("check")
  BY DEF KmainPc, CheckAwaiting, Reapable
<1>2. /\ current_proc = 0 /\ current_task = 0 /\ mode = "run" /\ pid <= 2
      /\ k = "check" /\ k' = q
      /\ cpu' \in Registers /\ last' \in [Proc -> Registers]
      /\ cpu' = last'[0] /\ last'[1] = last[1]
  <2> HIDE DEF q
  <2>. QED
    BY <1>1, KmainStep
<1>3. TypeOK'
  BY <1>1, <1>2 DEF TypeOK, Creation, Listed, Built, Pointer, TaskState,
     CheckAwaiting, Reapable
<1>4. Creation'
  BY <1>1, <1>2 DEF TypeOK, Creation, Listed, Built, CheckAwaiting, Reapable
<1>5. Listed'
  BY <1>1, <1>2 DEF TypeOK, Creation, Listed, CheckAwaiting, Reapable
<1>6. Built'
  BY <1>1, <1>2 DEF TypeOK, Creation, Built, UserPc, CheckAwaiting, Reapable
<1>7. Current'
  BY <1>1, <1>2 DEF TypeOK, Creation, Current, Built, Listed, CheckAwaiting,
     Reapable
<1>8. Saved'
  BY <1>1, <1>2 DEF TypeOK, Creation, Saved, Built, CheckAwaiting, Reapable
<1>. QED
  BY <1>3, <1>4, <1>5, <1>6, <1>7, <1>8

\* A stop of the machine: nothing but halted changes.
LEMMA HaltedIInv ==
  ASSUME IInv, halted' \in {"no", "panic", "fault", "hung"},
         UNCHANGED <<procVars, schedVars, cpu, proc, walker, last>>
  PROVE  IInv'
<1>1. k' = k
  BY DEF k, KmainPlace
<1>. QED
  BY <1>1 DEF TypeOK, Creation, Listed, Built, Current, Saved, Pointer,
     TaskState

LEMMA ProcDestroyIInv == IInv /\ ProcDestroy => IInv'
<1> SUFFICES ASSUME IInv, ProcDestroy PROVE IInv'
  OBVIOUS
<1>a. CASE halted' # "no"
  <2>1. halted' \in {"no", "panic", "fault", "hung"}
    BY DEF ProcDestroy, ClearStopsAt
  <2>2. UNCHANGED <<procVars, schedVars, cpu, proc, walker, last>>
    BY <1>a DEF ProcDestroy
  <2>. QED
    BY <2>1, <2>2, HaltedIInv
<1>b. SUFFICES ASSUME halted' = "no" PROVE IInv'
  BY <1>a
<1>1. /\ current_proc = 0 /\ current_task = 0 /\ mode = "run" /\ pid = 2
      /\ k = "destroy" /\ cpu = last[0] /\ walker = 1 /\ space[1] = "own"
  <2>1. /\ current_proc = 0 /\ current_task = 0 /\ mode = "run"
        /\ k = "destroy" /\ cpu = last[0]
    BY DEF ProcDestroy, KmainAt, IsRunning, Current, k, KmainPlace
  <2>2. pid = 2 /\ walker = 1
    BY <2>1 DEF Creation, Current, TypeOK
  <2>. QED
    BY <2>1, <2>2 DEF Built
<1>2. next[1] = NULL /\ prev[1] = 0
  BY <1>1 DEF Listed
<1>3. /\ state' = [state EXCEPT ![1] = "READY"]
      /\ saved' = [saved EXCEPT ![1] = ZeroRegisters]
      /\ prev' = prev /\ next' = [next EXCEPT ![0] = NULL]
      /\ override_store' = override_store
      /\ alloc' = [alloc EXCEPT ![1] = "freed"]
      /\ KmainGoto("reaped")
      /\ UNCHANGED <<processes, tail, pid, taskcount, space, stack, awaiting,
                     hole>>
  BY <1>1, <1>2, <1>b DEF ProcDestroy, Unlink, Current, TypeOK
<1>4. /\ k' = "reaped"
      /\ cpu' \in Registers /\ last' \in [Proc -> Registers]
      /\ cpu' = last'[0] /\ last'[1] = last[1]
  BY <1>3, KmainStep DEF KmainPc, ProcDestroy
<1>5. ZeroRegisters \in Registers
  BY InitialRegisters
<1>6. TypeOK'
  BY <1>1, <1>2, <1>3, <1>4, <1>5, <1>b DEF TypeOK, Creation, Listed, Built,
     Pointer, TaskState, ProcDestroy
<1>7. Creation'
  BY <1>1, <1>2, <1>3, <1>4, <1>5, <1>b DEF TypeOK, Creation, Listed, Built,
     ProcDestroy
<1>8. Listed'
  BY <1>1, <1>2, <1>3, <1>4, <1>5, <1>b DEF TypeOK, Creation, Listed, ProcDestroy
<1>9. Built'
  BY <1>1, <1>2, <1>3, <1>4, <1>5, <1>b DEF TypeOK, Creation, Built, UserPc,
     ProcDestroy
<1>10. Current'
  BY <1>1, <1>2, <1>3, <1>4, <1>5, <1>b DEF TypeOK, Creation, Current, Built,
     Listed, ProcDestroy
<1>11. Saved'
  BY <1>1, <1>2, <1>3, <1>4, <1>5, <1>b DEF TypeOK, Creation, Saved, Built,
     ProcDestroy
<1>. QED
  BY <1>6, <1>7, <1>8, <1>9, <1>10, <1>11

LEMMA ReapedIInv == IInv /\ Reaped => IInv'
<1> SUFFICES ASSUME IInv, Reaped PROVE IInv'
  OBVIOUS
<1>1. walker = proc
  BY DEF Reaped, KmainAt, IsRunning, Current, k, KmainPlace, Creation
<1>2. halted' = "panic" /\ k' = k
      /\ UNCHANGED <<procVars, schedVars, proc, walker, cpu, last>>
  BY <1>1 DEF Reaped, k, KmainPlace
<1>3. TypeOK'
  BY <1>1, <1>2 DEF TypeOK, Creation, Listed, Built, Pointer, TaskState,
     Reaped
<1>4. Creation'
  BY <1>1, <1>2 DEF TypeOK, Creation, Listed, Built, Reaped
<1>5. Listed'
  BY <1>1, <1>2 DEF TypeOK, Creation, Listed, Reaped
<1>6. Built'
  BY <1>1, <1>2 DEF TypeOK, Creation, Built, UserPc, Reaped
<1>7. Current'
  BY <1>1, <1>2 DEF TypeOK, Creation, Current, Built, Listed, Reaped
<1>8. Saved'
  BY <1>1, <1>2 DEF TypeOK, Creation, Saved, Built, Reaped
<1>. QED
  BY <1>3, <1>4, <1>5, <1>6, <1>7, <1>8

LEMMA YieldIInv == IInv /\ Yield => IInv'
<1> SUFFICES ASSUME IInv, Yield PROVE IInv'
  OBVIOUS
<1>1. /\ current_proc = 0 /\ current_task = 0 /\ mode = "run" /\ pid <= 2
      /\ k = "yield" /\ k' = "hlt"
      /\ cpu' \in Registers /\ last' \in [Proc -> Registers]
      /\ cpu' = last'[0] /\ last'[1] = last[1]
  BY KmainStep DEF KmainPc, Yield
<1>2. TypeOK'
  BY <1>1 DEF TypeOK, Creation, Listed, Built, Pointer, TaskState, Yield
<1>3. Creation'
  BY <1>1 DEF TypeOK, Creation, Listed, Built, Yield
<1>4. Listed'
  BY <1>1 DEF TypeOK, Creation, Listed, Yield
<1>5. Built'
  BY <1>1 DEF TypeOK, Creation, Built, UserPc, Yield
<1>6. Current'
  BY <1>1 DEF TypeOK, Creation, Current, Built, Listed, Yield
<1>7. Saved'
  BY <1>1 DEF TypeOK, Creation, Saved, Built, Yield
<1>. QED
  BY <1>2, <1>3, <1>4, <1>5, <1>6, <1>7

\* A step of the program that only changes its registers.
LEMMA UserRegistersIInv ==
  ASSUME IInv, NEW a, NEW r \in Registers, UserAt(a), Execute(r),
         r.pc \in UserPc, ~awaiting[1] \/ r.pc = "spin",
         hole' \in [Proc -> BOOLEAN],
         UNCHANGED <<alloc, next, prev, processes, tail, pid, taskcount, state,
                     saved, space, stack, awaiting, schedVars, proc, walker,
                     halted>>
  PROVE  IInv'
<1>1. /\ current_proc = 1 /\ current_task = 1 /\ mode = "run"
      /\ k \in Reaping /\ k' = k
      /\ cpu' \in Registers /\ last' \in [Proc -> Registers]
      /\ cpu' = last'[1] /\ cpu' = r
      /\ last'[0] = last[0]
  BY UserStep
<1>2. last'[1].pc \in UserPc /\ (awaiting[1] => last'[1].pc = "spin")
  BY <1>1
<1>3. TypeOK'
  BY <1>1, <1>2 DEF TypeOK, Creation, Listed, Built, Pointer, TaskState
<1>4. Creation'
  BY <1>1, <1>2 DEF TypeOK, Creation, Listed, Built
<1>5. Listed'
  BY <1>1, <1>2 DEF TypeOK, Creation, Listed
<1>6. Built'
  <2>1. \A p \in Proc : awaiting[p] => p = 1 /\ last'[p].pc = "spin"
    BY <1>2 DEF Built
  <2>2. UNCHANGED <<taskcount, state, space, stack, saved, awaiting, pid>>
    OBVIOUS
  <2>. QED
    BY <1>1, <1>2, <2>1, <2>2 DEF Built
<1>7. Current'
  BY <1>1, <1>2 DEF TypeOK, Creation, Current, Built, Listed
<1>8. Saved'
  BY <1>1, <1>2 DEF TypeOK, Creation, Saved, Built
<1>. QED
  BY <1>3, <1>4, <1>5, <1>6, <1>7, <1>8

\* An exited process spins: it makes no other step.
LEMMA UserNotExited ==
  ASSUME IInv, NEW a, UserAt(a), a # "spin"
  PROVE  /\ ~awaiting[1] /\ current_proc = 1 /\ current_task = 1
         /\ mode = "run" /\ cpu = last[1]
         /\ k \in Reaping /\ pid >= 2 /\ cpu \in Registers
BY DEF UserAt, IsRunning, Current, Built, TypeOK, Creation

LEMMA HolesTyped == IInv => hole \in [Proc -> BOOLEAN]
BY DEF TypeOK

LEMMA ExecIInv == IInv /\ Exec => IInv'
<1> SUFFICES ASSUME IInv, Exec PROVE IInv'
  OBVIOUS
<1>1. CASE Execute([cpu EXCEPT !.pc = "user"]) /\ UNCHANGED halted
  <2>1. ~awaiting[1] /\ cpu \in Registers
    BY UserNotExited DEF Exec
  <2>2. [cpu EXCEPT !.pc = "user"] \in Registers
    BY <2>1 DEF Registers, UserPc
  <2>. QED
    BY <1>1, <2>1, <2>2, UserRegistersIInv, HolesTyped DEF Exec, UserPc, Registers
<1>2. CASE halted' = "panic" /\ UNCHANGED <<cpu, last>>
  <2>1. UNCHANGED <<procVars, schedVars, cpu, proc, walker, last>>
    BY <1>2 DEF Exec
  <2>. QED
    BY <1>2, <2>1, HaltedIInv
<1>. QED
  BY <1>1, <1>2 DEF Exec

LEMMA ComputeIInv == IInv /\ Compute => IInv'
<1> SUFFICES ASSUME IInv, Compute PROVE IInv'
  OBVIOUS
<1>1. PICK w \in Word : Execute([cpu EXCEPT !.eax = w])
  BY DEF Compute
<1>2. ~awaiting[1] /\ cpu \in Registers /\ cpu.pc = "user"
  BY UserNotExited DEF Compute, UserAt
<1>3. /\ [cpu EXCEPT !.eax = w] \in Registers
      /\ [cpu EXCEPT !.eax = w].pc = "user"
  BY <1>2 DEF Registers
<1>. QED
  BY <1>1, <1>2, <1>3, UserRegistersIInv, HolesTyped DEF Compute, UserPc

LEMMA ProgramReturnsIInv == IInv /\ ProgramReturns => IInv'
<1> SUFFICES ASSUME IInv, ProgramReturns PROVE IInv'
  OBVIOUS
<1>1. cpu \in Registers
  BY DEF TypeOK
<1>2. /\ [cpu EXCEPT !.pc = "spin"] \in Registers
      /\ [cpu EXCEPT !.pc = "spin"].pc = "spin"
  BY <1>1 DEF Registers, UserPc
<1>. QED
  BY <1>1, <1>2, UserRegistersIInv, HolesTyped DEF ProgramReturns, UserPc

LEMMA SysOtherIInv == IInv /\ SysOther => IInv'
<1> SUFFICES ASSUME IInv, SysOther PROVE IInv'
  OBVIOUS
<1>1. ~awaiting[1] /\ cpu \in Registers /\ cpu.pc = "user" /\ current_proc = 1
  BY UserNotExited DEF SysOther, UserAt
<1>2. CASE halted' \in {"panic", "fault", "hung"} /\ UNCHANGED <<hole, cpu, last>>
  <2>1. UNCHANGED <<procVars, schedVars, cpu, proc, walker, last>>
    BY <1>2 DEF SysOther
  <2>. QED
    BY <1>2, <2>1, HaltedIInv
<1>3. CASE /\ \E w \in {cpu.eax, -1} : Execute([cpu EXCEPT !.eax = w])
           /\ \E b \in BOOLEAN : hole' = [hole EXCEPT ![current_proc] = b]
           /\ UNCHANGED halted
  <2>1. PICK w \in {cpu.eax, -1} : Execute([cpu EXCEPT !.eax = w])
    BY <1>3
  <2>2. w \in Word
    BY <1>1 DEF Registers, Word
  <2>3. /\ [cpu EXCEPT !.eax = w] \in Registers
        /\ [cpu EXCEPT !.eax = w].pc = "user"
    BY <1>1, <2>2 DEF Registers
  <2>4. hole' \in [Proc -> BOOLEAN]
    BY <1>3 DEF TypeOK
  <2>5. UNCHANGED <<alloc, next, prev, processes, tail, pid, taskcount, state,
                    saved, space, stack, awaiting, schedVars, proc, walker,
                    halted>>
    BY <1>3 DEF SysOther
  <2>. QED
    BY <1>1, <2>1, <2>3, <2>4, <2>5, UserRegistersIInv DEF SysOther, UserPc
<1>. QED
  BY <1>2, <1>3 DEF SysOther

LEMMA SysForkFaultsIInv == IInv /\ SysForkFaults => IInv'
BY HaltedIInv DEF SysForkFaults

LEMMA SysExitIInv == IInv /\ SysExit => IInv'
<1> SUFFICES ASSUME IInv, SysExit PROVE IInv'
  OBVIOUS
<1>1. cpu \in Registers
  BY DEF TypeOK
<1>2. /\ [cpu EXCEPT !.pc = "spin"] \in Registers
      /\ [cpu EXCEPT !.pc = "spin"].pc = "spin"
  BY <1>1 DEF Registers, UserPc
<1>3. /\ current_proc = 1 /\ current_task = 1 /\ mode = "run"
      /\ k \in Reaping /\ k' = k
      /\ cpu' \in Registers /\ last' \in [Proc -> Registers]
      /\ cpu' = last'[1] /\ cpu'.pc = "spin"
      /\ last'[0] = last[0]
  BY <1>2, UserStep DEF SysExit
<1>4. TypeOK'
  BY <1>1, <1>2, <1>3 DEF TypeOK, Creation, Listed, Built, Pointer,
     TaskState, SysExit
<1>5. Creation'
  BY <1>1, <1>2, <1>3 DEF TypeOK, Creation, Listed, Built, SysExit
<1>6. Listed'
  BY <1>1, <1>2, <1>3 DEF TypeOK, Creation, Listed, SysExit
<1>7. Built'
  BY <1>1, <1>2, <1>3 DEF TypeOK, Creation, Built, UserPc, SysExit
<1>8. Current'
  BY <1>1, <1>2, <1>3 DEF TypeOK, Creation, Current, Built, Listed, SysExit
<1>9. Saved'
  BY <1>1, <1>2, <1>3 DEF TypeOK, Creation, Saved, Built, SysExit
<1>. QED
  BY <1>4, <1>5, <1>6, <1>7, <1>8, <1>9

LEMMA SysForkIInv == IInv /\ SysFork => IInv'
<1> SUFFICES ASSUME IInv, SysFork PROVE IInv'
  OBVIOUS
<1>1. /\ ~awaiting[1] /\ current_proc = 1 /\ current_task = 1
      /\ mode = "run" /\ cpu = last[1]
      /\ k \in Reaping /\ pid >= 2 /\ cpu \in Registers
  BY UserNotExited DEF SysFork
<1>2. k' = k
  BY DEF SysFork, k, KmainPlace
<1>3. tail = pid - 1 /\ processes = 0 /\ tail \in Proc /\ pid \in Proc
  BY <1>1 DEF SysFork, Listed, TypeOK
<1>4. /\ next' = [next EXCEPT ![pid - 1] = pid]
      /\ prev' = [prev EXCEPT ![pid] = pid - 1]
      /\ tail' = pid /\ processes' = 0
  BY <1>3 DEF SysFork, LinkAfterTail, LinkBackToTail, HeadWith
<1>5. taskcount[1] = 1 /\ state[1] = "RUNNING"
  BY <1>1 DEF Built
<1>6. /\ taskcount' = [taskcount EXCEPT ![pid] = 1]
      /\ state' = [state EXCEPT ![pid] = "RUNNING"]
  BY <1>1, <1>5 DEF SysFork, ForkTaskcount
<1>7. /\ saved' \in [Proc -> Registers] /\ saved'[0] = saved[0]
      /\ saved'[1].pc = saved[1].pc
  <2> DEFINE child == [saved[1] EXCEPT !.eax = 0]
             parent == [saved[1] EXCEPT !.eax = pid]
  <2>0. saved[1] \in Registers
    BY RegistersTyped
  <2>1. child \in Registers
    BY <2>0, RegistersExcept DEF Word
  <2>2. pid \in Word
    BY <1>3 DEF Word
  <2>3. parent \in Registers /\ parent.pc = saved[1].pc
    BY <2>0, <2>2, RegistersExcept
  <2>4. saved' = [saved EXCEPT ![pid] = child, ![1] = parent]
    BY <1>1, <1>3 DEF TypeOK, SysFork
  <2> HIDE DEF child, parent
  <2>. QED
    BY <1>1, <1>3, <2>1, <2>3, <2>4 DEF TypeOK
<1>8. TypeOK'
  <2>1. /\ alloc' \in [Proc -> {"unborn", "live", "freed"}]
        /\ next' \in [Proc -> Pointer] /\ prev' \in [Proc -> Pointer]
        /\ tail' \in Pointer /\ processes' \in Pointer
        /\ pid' \in 0 .. MaxProcs
    BY <1>3, <1>4 DEF SysFork, TypeOK, Pointer
  <2>2. /\ taskcount' \in [Proc -> 0 .. 1]
        /\ state' \in [Proc -> TaskState]
    <3>1. taskcount \in [Proc -> 0 .. 1] /\ state \in [Proc -> TaskState]
      BY DEF TypeOK
    <3>. QED
      BY ONLY <1>3, <1>6, <3>1 DEF TaskState, Proc
  <2>3. UNCHANGED <<space, stack, awaiting, hole, current_proc, current_task,
                    override_store, mode, cpu, last, proc, walker, halted>>
    BY Zenon DEF SysFork
  <2>. QED
    BY <1>7, <2>1, <2>2, <2>3 DEF TypeOK
<1>9. Creation'
  BY <1>1, <1>2, <1>3, <1>4, <1>5, <1>6, <1>7 DEF TypeOK, Creation, Listed,
     Built, SysFork
<1>10. Listed'
  BY <1>1, <1>2, <1>3, <1>4, <1>5, <1>6, <1>7 DEF TypeOK, Creation, Listed,
     SysFork
<1>11. Built'
  BY <1>1, <1>2, <1>3, <1>4, <1>5, <1>6, <1>7 DEF TypeOK, Creation, Built,
     UserPc, SysFork
<1>12. Current'
  BY <1>1, <1>2, <1>3, <1>4, <1>5, <1>6, <1>7 DEF TypeOK, Creation, Current,
     Built, Listed, SysFork
<1>13. Saved'
  BY <1>1, <1>2, <1>3, <1>4, <1>5, <1>6, <1>7 DEF TypeOK, Creation, Saved,
     Built, SysFork
<1>. QED
  BY <1>8, <1>9, <1>10, <1>11, <1>12, <1>13

LEMMA TimerIntIInv == IInv /\ TimerInt => IInv'
<1> SUFFICES ASSUME IInv, TimerInt PROVE IInv'
  OBVIOUS
<1>1. /\ current_proc \in {0, 1} /\ current_task = current_proc
      /\ mode = "run" /\ cpu = last[current_proc] /\ ~override_store
  BY DEF TimerInt, IsRunning, Current
<1>2. /\ Interrupted(cpu) \in Registers
      /\ Interrupted(cpu).pc = IF cpu.pc = "hlt" THEN "advance" ELSE cpu.pc
  BY DEF Interrupted, TypeOK, Registers, KmainPc
<1>3. /\ last' = [last EXCEPT ![current_proc] = Interrupted(cpu)]
      /\ saved' = IF awaiting[current_proc] THEN saved
                  ELSE [saved EXCEPT ![current_proc] = Interrupted(cpu)]
      /\ last' \in [Proc -> Registers] /\ saved' \in [Proc -> Registers]
  BY <1>1, <1>2 DEF TimerInt, MaySave, TypeOK
<1>4. k' = IF current_proc = 0 /\ k = "hlt" THEN "advance" ELSE k
  BY <1>1, <1>2, <1>3 DEF k, KmainPlace, TypeOK
<1>5. TypeOK'
  BY <1>1, <1>2, <1>3, <1>4 DEF TypeOK, Creation, Listed, Built, Pointer,
     TaskState, TimerInt
<1>6. Creation'
  BY <1>1, <1>2, <1>3, <1>4 DEF TypeOK, Creation, Listed, Built, TimerInt
<1>7. Listed'
  BY <1>1, <1>2, <1>3, <1>4 DEF TypeOK, Creation, Listed, TimerInt
<1>8. Built'
  BY <1>1, <1>2, <1>3, <1>4 DEF TypeOK, Creation, Built, UserPc, Current,
     TimerInt
<1>9. Current'
  BY <1>1, <1>2, <1>3, <1>4 DEF TypeOK, Creation, Current, Built, Listed,
     TimerInt
<1>10. Saved'
  BY <1>1, <1>2, <1>3, <1>4 DEF TypeOK, Creation, Saved, Built, TimerInt
<1>. QED
  BY <1>5, <1>6, <1>7, <1>8, <1>9, <1>10

LEMMA SchedNextIInv == IInv /\ SchedNext => IInv'
<1> SUFFICES ASSUME IInv, SchedNext PROVE IInv'
  OBVIOUS
<1>1. k' = k
  BY DEF SchedNext, k, KmainPlace
<1> DEFINE p == Successor(current_proc)
<1>2. p = IF next[current_proc] = NULL THEN 0 ELSE next[current_proc]
  BY DEF Successor, Listed
<1>3. p \in Proc /\ p < pid
  BY <1>2 DEF TypeOK, Creation, Listed, Current, Pointer
<1>4. /\ current_proc' = p
      /\ current_task' = IF taskcount[p] = 0 THEN current_task ELSE p
      /\ mode' = IF taskcount[p] # 0 /\ Pickable(p) THEN "load" ELSE "next"
  BY DEF SchedNext
<1>5. pid > 2 => p = 2 /\ taskcount[p] = 1 /\ Pickable(p)
  BY <1>2, <1>3 DEF SchedNext, Current, Listed, Built, Pickable, TypeOK
<1>6. k = "reaped" => p = 0
  BY <1>2 DEF Current, Listed
<1> HIDE DEF p
<1>7. TypeOK'
  BY <1>1, <1>2, <1>3, <1>4, <1>5, <1>6 DEF TypeOK, Creation, Listed, Built,
     Pointer, TaskState, SchedNext
<1>8. Creation'
  BY <1>1, <1>2, <1>3, <1>4, <1>5, <1>6 DEF TypeOK, Creation, Listed, Built,
     SchedNext
<1>9. Listed'
  BY <1>1, <1>2, <1>3, <1>4, <1>5, <1>6 DEF TypeOK, Creation, Listed,
     SchedNext
<1>10. Built'
  BY <1>1, <1>2, <1>3, <1>4, <1>5, <1>6 DEF TypeOK, Creation, Built, UserPc,
     SchedNext
<1>11. Current'
  BY <1>1, <1>2, <1>3, <1>4, <1>5, <1>6 DEF TypeOK, Creation, Current,
     Built, Listed, Pickable, SchedNext
<1>12. Saved'
  BY <1>1, <1>2, <1>3, <1>4, <1>5, <1>6 DEF TypeOK, Creation, Saved, Built,
     SchedNext
<1>. QED
  BY <1>7, <1>8, <1>9, <1>10, <1>11, <1>12

LEMMA SchedLoadIInv == IInv /\ SchedLoad => IInv'
<1> SUFFICES ASSUME IInv, SchedLoad PROVE IInv'
  OBVIOUS
<1>1. k' = k
  BY DEF SchedLoad, k, KmainPlace
<1>2. /\ current_task = current_proc /\ state[current_proc] = "RUNNING"
      /\ ~awaiting[current_proc] /\ mode = "load"
  BY DEF SchedLoad, Current
<1>3. /\ space[current_proc] = NULL => mode' = "load"
      /\ space[current_proc] # NULL => mode' = "run"
      /\ cpu' = saved[current_proc]
  BY <1>2 DEF SchedLoad
<1>4. space[current_proc] # NULL =>
        current_proc \in {0, 1} /\ saved[current_proc] = last[current_proc]
  BY <1>2 DEF Built, Saved, Current, TypeOK, Creation
<1>5. TypeOK'
  BY <1>1, <1>2, <1>3, <1>4 DEF TypeOK, Creation, Listed, Built, Pointer,
     TaskState, SchedLoad
<1>6. Creation'
  BY <1>1, <1>2, <1>3, <1>4 DEF TypeOK, Creation, Listed, Built, SchedLoad
<1>7. Listed'
  BY <1>1, <1>2, <1>3, <1>4 DEF TypeOK, Creation, Listed, SchedLoad
<1>8. Built'
  BY <1>1, <1>2, <1>3, <1>4 DEF TypeOK, Creation, Built, UserPc, SchedLoad
<1>9. Current'
  BY <1>1, <1>2, <1>3, <1>4 DEF TypeOK, Creation, Current, Built, Listed,
     SchedLoad
<1>10. Saved'
  BY <1>1, <1>2, <1>3, <1>4 DEF TypeOK, Creation, Saved, Built, SchedLoad
<1>. QED
  BY <1>5, <1>6, <1>7, <1>8, <1>9, <1>10

LEMMA NextIInv == IInv /\ [Next]_vars => IInv'
<1>1. IInv /\ (UNCHANGED vars \/ Stopped) => IInv'
  <2> SUFFICES ASSUME IInv, UNCHANGED vars PROVE IInv'
    BY DEF Stopped
  <2>1. k' = k
    BY DEF vars, k, KmainPlace
  <2>. QED
    BY <2>1 DEF vars, TypeOK, Creation, Listed, Built, Current, Saved, Pointer,
       TaskState
<1>. QED
  BY <1>1, ProcCreateIInv, LinkNextIInv, LinkPrevIInv, LinkTailIInv,
     SetSpaceIInv, TaskCountIInv, TaskBlockIInv, SetRegsIInv, MapStackIInv,
     PublishIInv, AdvanceIInv, CheckAwaitingIInv, ProcDestroyIInv,
     ReapedIInv, YieldIInv, ExecIInv, ComputeIInv, ProgramReturnsIInv,
     SysExitIInv, SysForkIInv, SysForkFaultsIInv, SysOtherIInv, TimerIntIInv, SchedNextIInv,
     SchedLoadIInv DEF Next, Kmain, User, Interrupt

\* The invariant holds in every reachable state, for any MaxProcs.
THEOREM Invariance == Spec => []IInv
BY InitIInv, NextIInv, PTL DEF Spec

\* Every variable keeps the type of its C counterpart, for any MaxProcs.
THEOREM TypeCorrect == Spec => []TypeOK
BY Invariance, PTL DEF IInv

\* The scheduler and the reaper never follow a pointer to freed memory: the
\* one process that is freed, InitProc, has been taken out of the list, and
\* it is not current because the reaper, who runs, is.
LEMMA IInvNoWildPointer == IInv => NoWildPointer
<1> SUFFICES ASSUME IInv PROVE NoWildPointer
  OBVIOUS
<1>1. \A p \in Proc : p \in Live <=> p < pid /\ ~(p = 1 /\ k = "reaped")
  BY DEF Live, Creation, TypeOK
<1>2. processes \in Live /\ current_proc \in Live /\ current_task \in Live
  BY <1>1 DEF Listed, Current, Creation, TypeOK
<1>3. walker \in Live \cup {NULL} \/ k = "reaped"
  BY <1>1 DEF Creation, TypeOK
<1>4. ASSUME NEW p \in Live PROVE next[p] \in Live \cup {NULL}
  <2>1. p \in Proc /\ p < pid
    BY <1>1 DEF Live
  <2>2. CASE p = 0
    BY <1>1, <2>2 DEF Listed, Creation, TypeOK
  <2>3. CASE p >= 1
    BY <1>1, <2>1, <2>3 DEF Listed, Creation, TypeOK
  <2>. QED
    BY <2>1, <2>2, <2>3
<1>5. ASSUME NEW p \in Live PROVE prev[p] \in Live \cup {NULL}
  <2>1. p \in Proc /\ p < pid
    BY <1>1 DEF Live
  <2>2. CASE p <= 1
    BY <1>1, <2>1, <2>2 DEF Listed, Creation, TypeOK
  <2>3. CASE p >= 2
    BY <1>1, <2>1, <2>3 DEF Listed, Creation, TypeOK
  <2>. QED
    BY <2>1, <2>2, <2>3
<1>. QED
  BY <1>2, <1>3, <1>4, <1>5 DEF NoWildPointer, k

THEOREM NoWildPointers == Spec => []NoWildPointer
BY Invariance, IInvNoWildPointer, PTL

\* next and prev stay inverse of each other: the list is the pids in order.
LEMMA IInvLinksAgree == IInv => LinksAgree
<1> SUFFICES ASSUME IInv, NEW p \in Live, NEW q \in Live,
                    ~BeingLinked(p), ~BeingLinked(q)
             PROVE  next[p] = q <=> prev[q] = p
  BY DEF LinksAgree
<1>1. p \in Proc /\ q \in Proc /\ p < pid /\ q < pid
  BY DEF Live, Creation, TypeOK
<1>2. /\ k = "reaped" => p # 1 /\ q # 1 /\ pid = 2
      /\ k = "create" => p = 0 /\ q = 0
      /\ k \in {"link", "prev"} => p # 1 /\ q # 1 /\ pid = 2
  BY <1>1 DEF Live, Creation, BeingLinked, k, TypeOK
<1>3. next[p] = q <=> p + 1 = q
  BY <1>1, <1>2 DEF Listed, Creation, TypeOK
<1>4. prev[q] = p <=> p + 1 = q
  BY <1>1, <1>2 DEF Listed, Creation, TypeOK
<1>. QED
  BY <1>3, <1>4

THEOREM LinksAlwaysAgree == Spec => []LinksAgree
BY Invariance, IInvLinksAgree, PTL

\* The list and what the walk of it has reached after n steps: the processes
\* up to the last that is linked, in the order of their creation.
LastListed == IF k \in BeforeNext \cup {"reaped"} THEN 0 ELSE pid - 1
WalkedTo == [n \in Nat |-> {p \in Proc : p <= n /\ p <= LastListed}]
WalkOf(f) ==
  [n \in Nat |-> IF n = 0 THEN {processes} \cap Proc
                 ELSE f[n - 1] \cup ({next[p] : p \in f[n - 1]} \ {NULL})]

LEMMA NextInList ==
  ASSUME IInv
  PROVE  /\ LastListed \in Proc /\ processes = 0
         /\ \A p \in Proc : p < LastListed => next[p] = p + 1
         /\ next[LastListed] = NULL
<1>1. pid \in Nat /\ pid >= 1 /\ pid <= MaxProcs /\ processes = 0  BY DEF TypeOK, Creation, Listed
<1>2. k # "create" => pid >= 2  BY DEF Creation
<1>3. LastListed \in Proc  BY <1>1 DEF LastListed
<1>4. \A p \in Proc : p >= 1 => next[p] = IF p < pid - 1 THEN p + 1 ELSE NULL  BY DEF Listed
<1>5. next[0] = IF k \in BeforeNext \cup {"reaped"} THEN NULL ELSE 1  BY DEF Listed
<1>6. ASSUME NEW p \in Proc, p < LastListed
      PROVE  next[p] = p + 1
  <2>1. LastListed = pid - 1 /\ k \notin BeforeNext \cup {"reaped"}  BY <1>6 DEF LastListed
  <2>2. p = 0 => next[p] = p + 1  BY <1>5, <2>1
  <2>3. p # 0 => next[p] = p + 1  BY <1>1, <1>4, <1>6, <2>1
  <2> QED  BY <2>2, <2>3
<1>7. next[LastListed] = NULL
  <2>1. CASE k \in BeforeNext \cup {"reaped"}  BY <1>5, <2>1 DEF LastListed
  <2>2. CASE k \notin BeforeNext \cup {"reaped"}
    <3>1. LastListed = pid - 1 /\ LastListed >= 1  BY <1>1, <1>2, <2>2 DEF LastListed
    <3> QED  BY <1>1, <1>3, <1>4, <3>1
  <2> QED  BY <2>1, <2>2
<1> QED  BY <1>1, <1>3, <1>6, <1>7

LEMMA OneStepFurther ==
  ASSUME IInv, NEW n \in Nat, n # 0
  PROVE  WalkedTo[n] = WalkedTo[n - 1] \cup ({next[p] : p \in WalkedTo[n - 1]} \ {NULL})
<1>1. /\ LastListed \in Proc
      /\ \A p \in Proc : p < LastListed => next[p] = p + 1
      /\ next[LastListed] = NULL
  BY NextInList
<1>2. n - 1 \in Nat  OBVIOUS
<1>3. WalkedTo[n] = {p \in Proc : p <= n /\ p <= LastListed}  BY DEF WalkedTo
<1>4. WalkedTo[n - 1] = {p \in Proc : p <= n - 1 /\ p <= LastListed}  BY <1>2 DEF WalkedTo
<1>5. ASSUME NEW q \in WalkedTo[n]
      PROVE  q \in WalkedTo[n - 1] \cup ({next[p] : p \in WalkedTo[n - 1]} \ {NULL})
  <2>0. q \in Proc /\ q <= n /\ q <= LastListed  BY <1>3, <1>5
  <2>1. CASE q <= n - 1  BY <1>4, <2>0, <2>1
  <2>2. CASE q = n
    <3>1. q - 1 \in Proc /\ q - 1 < LastListed /\ q - 1 <= n - 1  BY <1>1, <2>0, <2>2
    <3>2. q - 1 \in WalkedTo[n - 1]  BY <1>1, <1>4, <3>1
    <3>3. next[q - 1] = q  BY <1>1, <2>0, <3>1
    <3>4. q # NULL  BY <2>0
    <3> QED  BY <3>2, <3>3, <3>4
  <2> QED  BY <2>0, <2>1, <2>2
<1>6. ASSUME NEW p \in WalkedTo[n - 1], next[p] # NULL
      PROVE  next[p] \in WalkedTo[n]
  <2>1. p \in Proc /\ p <= n - 1 /\ p <= LastListed  BY <1>4
  <2>2. p # LastListed  BY <1>1, <1>6
  <2>3. p < LastListed  BY <1>1, <2>1, <2>2
  <2>4. next[p] = p + 1  BY <1>1, <2>1, <2>3
  <2>5. p + 1 \in Proc /\ p + 1 <= n /\ p + 1 <= LastListed  BY <1>1, <2>1, <2>3
  <2> QED  BY <1>3, <2>4, <2>5
<1>7. WalkedTo[n - 1] \subseteq WalkedTo[n]  BY <1>3, <1>4
<1> QED  BY <1>5, <1>6, <1>7

LEMMA TheWalk ==
  ASSUME IInv
  PROVE  Reached = WalkOf(Reached)
<1>1. WalkedTo[0] = {processes} \cap Proc
  <2>1. LastListed \in Proc /\ processes = 0  BY NextInList
  <2>2. WalkedTo[0] = {p \in Proc : p <= 0 /\ p <= LastListed}  BY DEF WalkedTo
  <2> QED  BY <2>1, <2>2
<1>2. WalkedTo = WalkOf(WalkedTo)
  <2>1. \A n \in Nat : WalkedTo[n] = WalkOf(WalkedTo)[n]
    <3> SUFFICES ASSUME NEW n \in Nat PROVE WalkedTo[n] = WalkOf(WalkedTo)[n]  OBVIOUS
    <3>1. CASE n = 0  BY <1>1, <3>1 DEF WalkOf
    <3>2. CASE n # 0  BY <3>2, OneStepFurther DEF WalkOf
    <3> QED  BY <3>1, <3>2
  <2>2. WalkedTo = [n \in Nat |-> WalkedTo[n]]  BY DEF WalkedTo
  <2>3. WalkOf(WalkedTo) = [n \in Nat |-> WalkOf(WalkedTo)[n]]  BY DEF WalkOf
  <2> QED  BY <2>1, <2>2, <2>3
<1>3. \E f : f = WalkOf(f)  BY <1>2
<1>4. Reached = CHOOSE f : f = WalkOf(f)  BY DEF Reached, WalkOf
<1> QED  BY <1>3, <1>4

\* A process is reached in as many steps as processes were made before it.
LEMMA ReachedAre ==
  ASSUME IInv, NEW n \in Nat
  PROVE  Reached[n] = WalkedTo[n]
<1> DEFINE S == {m \in Nat : Reached[m] # WalkedTo[m]}
<1> SUFFICES ASSUME S # {} PROVE FALSE  OBVIOUS
<1>1. PICK m \in S : \A i \in S : ~ (<<i, m>> \in OpToRel(<, Nat))
  <2>1. IsWellFoundedOn(OpToRel(<, Nat), Nat)  BY NatLessThanWellFounded
  <2>2. S \subseteq Nat  OBVIOUS
  <2> HIDE DEF S
  <2> QED  BY <2>1, <2>2, WFMin
<1>2. \A i \in S : ~ (i < m)  BY <1>1 DEF OpToRel
<1>3. m \in Nat /\ Reached[m] # WalkedTo[m]  OBVIOUS
<1>4. Reached[m] = WalkOf(Reached)[m]  BY TheWalk
<1>5. CASE m = 0
  <2>1. LastListed \in Proc /\ processes = 0  BY NextInList
  <2>2. WalkedTo[0] = {p \in Proc : p <= 0 /\ p <= LastListed}  BY DEF WalkedTo
  <2>3. WalkedTo[0] = {processes} \cap Proc  BY <2>1, <2>2
  <2> QED  BY <1>3, <1>4, <1>5, <2>3 DEF WalkOf
<1>6. CASE m # 0
  <2>1. m - 1 \in Nat /\ m - 1 < m  BY <1>3, <1>6
  <2>2. Reached[m - 1] = WalkedTo[m - 1]  BY <1>2, <2>1
  <2>3. Reached[m] = Reached[m - 1] \cup ({next[p] : p \in Reached[m - 1]} \ {NULL})
    BY <1>3, <1>4, <1>6 DEF WalkOf
  <2>4. Reached[m] = WalkedTo[m]  BY <1>3, <1>6, <2>2, <2>3, OneStepFurther
  <2> QED  BY <1>3, <2>4
<1> QED  BY <1>5, <1>6

LEMMA IInvEveryProcessListed == IInv => EveryProcessListed
<1> SUFFICES ASSUME IInv, NEW p \in Live, ~BeingLinked(p)
             PROVE  p \in Reached[MaxProcs]
  BY DEF EveryProcessListed
<1>1. p \in Proc /\ alloc[p] = "live"  BY DEF Live
<1>2. p < pid /\ ~(p = 1 /\ k = "reaped")
  <2>1. pid \in 0 .. MaxProcs  BY DEF TypeOK
  <2>2. (alloc[p] = "unborn") <=> p >= pid  BY <1>1 DEF Creation
  <2>3. (alloc[p] = "freed") <=> (p = 1 /\ k = "reaped")  BY <1>1 DEF Creation
  <2> QED  BY <1>1, <2>1, <2>2, <2>3
<1>3. pid \in Nat /\ (k = "create" => pid = 1) /\ (k \in BeforeNext \cup {"reaped"} => pid <= 2)
  BY DEF TypeOK, Creation
<1>4. ~(p = 1 /\ k = "link")  BY DEF BeingLinked, k
<1>5. p <= LastListed  BY <1>1, <1>2, <1>3, <1>4 DEF LastListed
<1>6. p \in WalkedTo[MaxProcs]  BY <1>1, <1>5 DEF WalkedTo
<1> QED  BY <1>6, ReachedAre

\* No process is lost to sched_next and to the reaper, which know only the
\* list: each is reached from its head, while proc_create, fork and
\* proc_destroy change it.
THEOREM EveryProcessIsListed == Spec => []EveryProcessListed
BY Invariance, IInvEveryProcessListed, PTL

\* No tick, wherever it falls in kmain, schedules a half-built process: until
\* its stack is mapped it is READY or BLOCKED, and sched_next passes it over.
LEMMA IInvScheduledOnlyWhenBuilt == IInv => ScheduledOnlyWhenBuilt
<1> SUFFICES ASSUME IInv, mode = "load", current_proc = 1
             PROVE  saved[1].pc # "zero" /\ space[1] = "own" /\ stack[1]
  BY DEF ScheduledOnlyWhenBuilt
<1>1. state[1] = "RUNNING"
  BY DEF Current
<1>2. k \in Reaping
  BY <1>1 DEF Built
<1>3. saved[1].pc \in UserPc
  BY <1>2 DEF Built
<1>4. saved[1].pc # "zero"
  BY <1>3 DEF UserPc
<1>. QED
  BY <1>2, <1>4 DEF Built

THEOREM BuiltBeforeScheduled == Spec => []ScheduledOnlyWhenBuilt
BY Invariance, IInvScheduledOnlyWhenBuilt, PTL

\* What runs is the owner of current_task, with the registers it last had.
THEOREM ContextKept == Spec => []ResumesWhereInterrupted
<1>1. IInv => ResumesWhereInterrupted
  BY DEF Current, ResumesWhereInterrupted, IsRunning
<1>. QED
  BY Invariance, <1>1, PTL

\* After exit a process may only go on spinning until the next tick: it is
\* never loaded again and its registers are never stored again.
THEOREM ExitFinal == Spec => ExitIsFinal
<1> DEFINE Final(p) ==
      /\ awaiting'[p]
      /\ mode' = "run" /\ current_proc' = p => mode = "run" /\ current_proc = p
      /\ alloc'[p] = "live" => saved'[p] = saved[p]
<1>1. ASSUME IInv, [Next]_vars, NEW p \in Proc, awaiting[p]
      PROVE  Final(p)
  <2>1. /\ p = 1 /\ k \in Reaping \cup {"reaped"}
        /\ p \in DOMAIN awaiting /\ p \in DOMAIN saved
    BY <1>1 DEF Built, TypeOK
  <2>2. ASSUME UNCHANGED <<awaiting, saved, mode, current_proc>>
        PROVE  Final(p)
    BY <1>1, <2>2
  <2>3. CASE \/ ProcCreate \/ LinkNext \/ LinkPrev \/ LinkTail \/ SetSpace
             \/ TaskCount \/ TaskBlock \/ MapStack \/ Publish \/ Advance
             \/ CheckAwaiting \/ Reaped \/ Yield
    BY <2>2, <2>3, Zenon DEF ProcCreate, LinkNext, LinkPrev, LinkTail, SetSpace,
       TaskCount, TaskBlock, MapStack, Publish, Advance, CheckAwaiting,
       Reaped, Yield
  <2>4. CASE SetRegs
    <3>1. k = "regs"
      BY <1>1, <2>4 DEF SetRegs, KmainAt, IsRunning, Current, k, KmainPlace
    <3>. QED
      BY <2>1, <3>1
  <2>5. CASE ProcDestroy
    <3>1. walker = 1 /\ k = "destroy" /\ current_proc = 0
      BY <1>1, <2>5 DEF ProcDestroy, KmainAt, IsRunning, Current, k,
         KmainPlace, Creation
    <3>2. /\ UNCHANGED <<awaiting, mode, current_proc>>
          /\ UNCHANGED saved \/ alloc' = [alloc EXCEPT ![1] = "freed"]
      BY <2>5, <3>1 DEF ProcDestroy
    <3>. QED
      BY <1>1, <2>1, <3>2 DEF TypeOK
  <2>6. CASE Exec \/ Compute \/ ProgramReturns \/ SysForkFaults \/ SysOther
    BY <2>2, <2>6, Zenon DEF Exec, Compute, ProgramReturns, SysForkFaults, SysOther
  <2>7. CASE SysExit
    BY <1>1, <2>7 DEF SysExit, TypeOK
  <2>8. CASE SysFork
    <3>1. ~awaiting[1]
      BY <1>1, <2>8, UserNotExited DEF SysFork
    <3>. QED
      BY <1>1, <2>1, <3>1
  <2>9. CASE TimerInt
    <3>1. current_task = current_proc /\ UNCHANGED awaiting /\ mode' = "next"
      BY <1>1, <2>9 DEF TimerInt, IsRunning, Current
    <3>2. saved'[p] = saved[p]
      BY <1>1, <2>9, <3>1 DEF TimerInt, MaySave, TypeOK
    <3>. QED
      BY <1>1, <3>1, <3>2
  <2>10. CASE SchedNext
    <3>1. UNCHANGED <<awaiting, saved>> /\ mode' # "run"
      BY <2>10 DEF SchedNext
    <3>. QED
      BY <1>1, <3>1
  <2>11. CASE SchedLoad
    <3>1. UNCHANGED <<awaiting, saved, current_proc>> /\ mode = "load"
      BY <2>11 DEF SchedLoad
    <3>2. current_proc # p
      BY <1>1, <3>1 DEF Current
    <3>. QED
      BY <1>1, <3>1, <3>2
  <2>12. CASE Stopped \/ UNCHANGED vars
    BY <2>2, <2>12, Zenon DEF Stopped, vars
  <2> HIDE DEF Final
  <2>. QED
    BY <1>1, <2>3, <2>4, <2>5, <2>6, <2>7, <2>8, <2>9, <2>10, <2>11, <2>12
       DEF Next, Kmain, User, Interrupt
<1>2. IInv /\ [Next]_vars
        => [\A p \in Proc : awaiting[p] => Final(p)]_vars
  BY <1>1
<1>. QED
  BY Invariance, <1>2, PTL DEF Spec, ExitIsFinal

\* What the reaper frees is a process that exited and is not running.
THEOREM FreedOnlyAfterExit == Spec => FreedAfterExit
<1>1. ASSUME IInv, [Next]_vars, NEW p \in Proc,
             alloc[p] = "live", alloc'[p] = "freed"
      PROVE  awaiting[p] /\ current_proc # p /\ current_task # p
  <2>1. k' = "reaped" /\ p = 1
    BY <1>1, NextIInv DEF Creation
  <2>2. k # "reaped"
    BY <1>1, <2>1 DEF Creation
  <2>3. CASE ProcDestroy
    BY <1>1, <2>1, <2>3 DEF ProcDestroy, KmainAt, IsRunning, Current, k,
       KmainPlace, Creation
  <2>4. CASE \/ ProcCreate \/ SysFork
    BY <1>1, <2>1, <2>4 DEF ProcCreate, SysFork, TypeOK
  <2>5. ASSUME UNCHANGED alloc PROVE FALSE
    BY <1>1, <2>5
  <2>6. CASE \/ LinkNext \/ LinkPrev \/ LinkTail \/ SetSpace \/ TaskCount
             \/ TaskBlock \/ SetRegs \/ MapStack \/ Publish \/ Advance
             \/ CheckAwaiting \/ Reaped \/ Yield
    BY <2>5, <2>6, Zenon DEF LinkNext, LinkPrev, LinkTail, SetSpace, TaskCount,
       TaskBlock, SetRegs, MapStack, Publish, Advance, CheckAwaiting, Reaped,
       Yield
  <2>7. CASE \/ Exec \/ Compute \/ ProgramReturns \/ SysExit \/ SysOther
             \/ SysForkFaults \/ TimerInt \/ SchedNext \/ SchedLoad
    BY <2>5, <2>7, Zenon DEF SysForkFaults, Exec, Compute, ProgramReturns, SysExit, SysOther,
       TimerInt, SchedNext, SchedLoad
  <2>8. CASE Stopped \/ UNCHANGED vars
    BY <2>5, <2>8, Zenon DEF Stopped, vars
  <2>. QED
    BY <1>1, <2>3, <2>4, <2>6, <2>7, <2>8 DEF Next, Kmain, User, Interrupt
<1>2. IInv /\ [Next]_vars
        => [\A p \in Proc : alloc[p] = "live" /\ alloc'[p] = "freed"
              => awaiting[p] /\ current_proc # p /\ current_task # p]_vars
  BY <1>1
<1>. QED
  BY Invariance, <1>2, PTL DEF Spec, FreedAfterExit
=============================================================================
