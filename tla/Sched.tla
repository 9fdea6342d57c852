------------------------------- MODULE Sched -------------------------------
(***************************************************************************)
(* Processes and the timer-driven scheduler of J/Unix.                      *)
(*                                                                          *)
(* One CPU executes either a process (mode "run", interrupts enabled) or    *)
(* the timer handler trap_next (modes "next" and "load", interrupts         *)
(* disabled).  The kernel process runs kmain, which creates the first user  *)
(* process with interrupts enabled, so that a tick may find it half built;  *)
(* it then reaps the processes that called exit.  System calls run with     *)
(* interrupts disabled and are one step each.                               *)
(*                                                                          *)
(* A process is identified by its pid: proc_create takes both from counters *)
(* that only grow (`pid` and the bump allocator under kmalloc), so neither  *)
(* is ever used twice.  task_create is called once per process, so a        *)
(* process has no task yet or its single task, tasks[0].                    *)
(***************************************************************************)
EXTENDS Integers, FiniteSets

CONSTANTS MaxProcs,  \* bound: processes created over a run of the system
          NULL       \* the C null pointer

ASSUME MaxProcsAssumption == MaxProcs \in Nat /\ MaxProcs >= 2
ASSUME NullAssumption == NULL \notin Int \cup {"kernel", "own"}

VARIABLES
  alloc,      \* [Proc -> "unborn" | "live" | "freed"]: the proc_t's memory
  next, prev, \* proc_t.next, proc_t.prev
  processes,  \* head of the process list
  tail,       \* where proc_create appends
  pid,        \* the static counter of proc_create
  taskcount,  \* proc_t.taskcount
  state,      \* tasks[0].state
  saved,      \* tasks[0].regs
  space,      \* proc_t.space: NULL, the kernel's, or one of its own
  stack,      \* whether kmain's loop has mapped the user stack
  awaiting,   \* proc_t.awaiting_destruction
  hole,       \* whether a slot among the first fd.count of its table is NULL
  current_proc, current_task,  \* current_task: the process owning that task
  override_store,
  cpu,        \* registers: the running code's, or the handler's `scratch`
  mode,       \* "run", or the place reached in trap_next
  proc, walker, \* kmain's locals proc and _proc
  halted,     \* "no", or how all came to a stop with interrupts disabled:
              \* "panic" (panic_impl spins), "fault" (page fault), or "hung"
              \* in a system call that polls or loops for ever
  last        \* history: the registers each process last ran with

procVars == <<alloc, next, prev, processes, tail, pid, taskcount, state, saved,
              space, stack, awaiting, hole>>
schedVars == <<current_proc, current_task, override_store, mode>>
vars == <<procVars, schedVars, cpu, proc, walker, halted, last>>
-----------------------------------------------------------------------------
Proc == 0 .. MaxProcs - 1
Pointer == Proc \cup {NULL}
KernelProc == 0     \* kernel_proc, the first process created
InitProc == 1       \* the process kmain creates

\* task_state_t; kmalloc clears memory, so a new task is TASK_READY (0).
TaskState == {"READY", "RUNNING", "BLOCKED"}

\* Places in kmain (in the order of the code), then in the user process.
KmainPc == {"create", "link", "prev", "tail", "space", "count", "block",
            "regs", "stack", "publish", "advance", "check", "destroy",
            "reaped", "yield", "hlt"}
UserPc == {"exec", "user", "spin"}

\* System call numbers (sys.h); the others do not touch processes.
SYS_EXIT == 1
SYS_FORK == 2
\* eax holds a call number, a pid, or a result; -1 stands for a result.
Word == -1 .. (IF MaxProcs > 3 THEN MaxProcs ELSE 3)

Registers == [pc : KmainPc \cup UserPc \cup {"zero"}, eax : Word]
ZeroRegisters == [pc |-> "zero", eax |-> 0]

IsRunning == halted = "no" /\ mode = "run"
KmainAt(pc) == IsRunning /\ current_proc = KernelProc /\ cpu.pc = pc
UserAt(pc) == IsRunning /\ current_proc # KernelProc /\ cpu.pc = pc

\* The running code changes its registers to r (no interrupt in between).
Execute(r) ==
  /\ cpu' = r
  /\ last' = [last EXCEPT ![current_task] = r]
KmainGoto(pc) == Execute([cpu EXCEPT !.pc = pc])
-----------------------------------------------------------------------------
(* The state in which kmain starts: sched_init has made the kernel process. *)
Init ==
  /\ alloc = [p \in Proc |-> IF p = KernelProc THEN "live" ELSE "unborn"]
  /\ next = [p \in Proc |-> NULL]
  /\ prev = [p \in Proc |-> NULL]
  /\ processes = KernelProc
  /\ tail = KernelProc
  /\ pid = 1
  /\ taskcount = [p \in Proc |-> IF p = KernelProc THEN 1 ELSE 0]
  /\ state = [p \in Proc |-> IF p = KernelProc THEN "RUNNING" ELSE "READY"]
  /\ saved = [p \in Proc |-> ZeroRegisters]
  /\ space = [p \in Proc |-> IF p = KernelProc THEN "kernel" ELSE NULL]
  /\ stack = [p \in Proc |-> FALSE]
  /\ awaiting = [p \in Proc |-> FALSE]
  /\ hole = [p \in Proc |-> FALSE]
  /\ current_proc = KernelProc
  /\ current_task = KernelProc
  /\ override_store = FALSE
  /\ cpu = [pc |-> "create", eax |-> 0]
  /\ mode = "run"
  /\ proc = NULL
  /\ walker = NULL
  /\ halted = "no"
  /\ last = [p \in Proc |-> IF p = KernelProc THEN [pc |-> "create", eax |-> 0]
                                              ELSE ZeroRegisters]
-----------------------------------------------------------------------------

(* proc_create appends to the list: p is linked after the tail, and back to *)
(* it.  kmain may be interrupted between the two, sys_fork may not.         *)
LinkAfterHead(p) == [next EXCEPT ![processes] = p]
LinkAfterTail(p) == IF tail = NULL THEN next ELSE [next EXCEPT ![tail] = p]
LinkBackToHead(p) == [prev EXCEPT ![p] = processes]
LinkBackToTail(p) == [prev EXCEPT ![p] = tail]
HeadWith(p) == IF processes = NULL THEN p ELSE processes

\* The process after p in the rounds of sched_next and of kmain's reaper.
SuccessorStays(p) == IF next[p] = NULL THEN p ELSE next[p]
SuccessorRestarts(p) == processes
Successor(p) == IF next[p] = NULL THEN processes ELSE next[p]
-----------------------------------------------------------------------------
(* kmain, with a tick possible between any two of these steps.              *)

\* proc_create: kmalloc clears the block, then pid, taskcount, awaiting.
ProcCreate ==
  /\ KmainAt("create")
  /\ pid < MaxProcs
  /\ alloc' = [alloc EXCEPT ![pid] = "live"]
  /\ proc' = pid
  /\ pid' = pid + 1
  /\ KmainGoto("link")
  /\ UNCHANGED <<next, prev, processes, tail, taskcount, state, saved, space,
                 stack, awaiting, hole, schedVars, walker, halted>>

\* if (tail) tail->next = proc
LinkNext ==
  /\ KmainAt("link")
  /\ next' = LinkAfterTail(proc)
  /\ KmainGoto("prev")
  /\ UNCHANGED <<alloc, prev, processes, tail, pid, taskcount, state, saved,
                 space, stack, awaiting, hole, schedVars, proc, walker, halted>>

\* proc->prev = tail
LinkPrev ==
  /\ KmainAt("prev")
  /\ prev' = LinkBackToTail(proc)
  /\ KmainGoto("tail")
  /\ UNCHANGED <<alloc, next, processes, tail, pid, taskcount, state, saved,
                 space, stack, awaiting, hole, schedVars, proc, walker, halted>>

\* tail = proc; if (!processes) processes = proc
LinkTail ==
  /\ KmainAt("tail")
  /\ tail' = proc
  /\ processes' = HeadWith(proc)
  /\ KmainGoto("space")
  /\ UNCHANGED <<alloc, next, prev, pid, taskcount, state, saved, space, stack,
                 awaiting, hole, schedVars, proc, walker, halted>>

\* The new space is a copy of the kernel's.
SetSpace ==
  /\ KmainAt("space")
  /\ space' = [space EXCEPT ![proc] = "own"]
  /\ KmainGoto("count")
  /\ UNCHANGED <<alloc, next, prev, processes, tail, pid, taskcount, state,
                 saved, stack, awaiting, hole, schedVars, proc, walker, halted>>

\* task_create counts the task while it builds paging_map's arguments...
TaskCount ==
  /\ KmainAt("count")
  /\ taskcount' = [taskcount EXCEPT ![proc] = @ + 1]
  /\ KmainGoto("block")
  /\ UNCHANGED <<alloc, next, prev, processes, tail, pid, state, saved, space,
                 stack, awaiting, hole, schedVars, proc, walker, halted>>

\* ... and blocks it only after paging_map has returned.
TaskBlock ==
  /\ KmainAt("block")
  /\ state' = [state EXCEPT ![proc] = "BLOCKED"]
  /\ KmainGoto("regs")
  /\ UNCHANGED <<alloc, next, prev, processes, tail, pid, taskcount, saved,
                 space, stack, awaiting, hole, schedVars, proc, walker, halted>>

\* The register file of the new task: eip = exec.
SetRegs ==
  /\ KmainAt("regs")
  /\ saved' = [saved EXCEPT ![proc] = [@ EXCEPT !.pc = "exec"]]
  /\ cpu' = [cpu EXCEPT !.pc = "stack"]
  /\ last' = [last EXCEPT ![current_task] = cpu', ![proc] = saved'[proc]]
  /\ UNCHANGED <<alloc, next, prev, processes, tail, pid, taskcount, state,
                 space, stack, awaiting, hole, schedVars, proc, walker, halted>>

MapStack ==
  /\ KmainAt("stack")
  /\ stack' = [stack EXCEPT ![proc] = TRUE]
  /\ KmainGoto("publish")
  /\ UNCHANGED <<alloc, next, prev, processes, tail, pid, taskcount, state,
                 saved, space, awaiting, hole, schedVars, proc, walker, halted>>

\* task->state = TASK_RUNNING; _proc = processes
Publish ==
  /\ KmainAt("publish")
  /\ state' = [state EXCEPT ![proc] = "RUNNING"]
  /\ walker' = processes
  /\ KmainGoto("advance")
  /\ UNCHANGED <<alloc, next, prev, processes, tail, pid, taskcount, saved,
                 space, stack, awaiting, hole, schedVars, proc, halted>>

Advance ==
  /\ KmainAt("advance")
  /\ walker' = Successor(walker)
  /\ KmainGoto("check")
  /\ UNCHANGED <<procVars, schedVars, proc, halted>>

ReapsWhenCurrentExited(p) == awaiting[current_proc]
ReapsAnyOther(p) == p # processes
Reapable(p) == awaiting[p]

CheckAwaiting ==
  /\ KmainAt("check")
  /\ KmainGoto(IF Reapable(walker) THEN "destroy" ELSE "yield")
  /\ UNCHANGED <<procVars, schedVars, proc, walker, halted>>

\* p's neighbours are linked to each other; processes and tail stay.
UnlinkForgetsNext(p) ==
  /\ prev' = IF next[p] = NULL THEN prev ELSE [prev EXCEPT ![next[p]] = prev[p]]
  /\ next' = next
Unlink(p) ==
  /\ prev' = IF next[p] = NULL THEN prev ELSE [prev EXCEPT ![next[p]] = prev[p]]
  /\ next' = IF prev[p] = NULL THEN next ELSE [next EXCEPT ![prev[p]] = next[p]]

\* proc_clear, which closes the first fd.count descriptors and then clears
\* the address space: a hole among them is closed all the same, and vfs_close
\* panics; a process without a space makes a null dereference.
ClearStopsAt(p) ==
  IF hole[p] THEN "panic" ELSE IF space[p] = NULL THEN "fault" ELSE "no"

\* proc_destroy, one step because it disables interrupts.  When proc_clear
\* stops the machine the process is still in the list, and nobody sees what
\* was cleared; the kernel would spin on its own process.
ProcDestroy ==
  /\ KmainAt("destroy")
  /\ halted' = ClearStopsAt(walker)
  /\ IF halted' # "no"
     THEN UNCHANGED <<procVars, override_store, cpu, last>>
     ELSE /\ state' = [state EXCEPT ![walker] = "READY"]
          /\ saved' = [saved EXCEPT ![walker] = ZeroRegisters]
          /\ Unlink(walker)
          /\ override_store' = (override_store \/ walker = current_proc)
          /\ alloc' = IF walker = current_proc THEN alloc
                      ELSE [alloc EXCEPT ![walker] = "freed"]
          /\ KmainGoto(IF walker = current_proc THEN "spin" ELSE "reaped")
          /\ UNCHANGED <<processes, tail, pid, taskcount, space, stack,
                         awaiting, hole>>
  /\ UNCHANGED <<current_proc, current_task, mode, proc, walker>>

\* The death of the first user process stops the system.
Reaped ==
  /\ KmainAt("reaped")
  /\ IF walker = proc
     THEN /\ halted' = "panic"
          /\ UNCHANGED <<walker, cpu, last>>
     ELSE /\ walker' = processes
          /\ KmainGoto("yield")
          /\ UNCHANGED halted
  /\ UNCHANGED <<procVars, schedVars, proc>>

\* sys_yield enables interrupts, then waits in hlt for the next one.
Yield ==
  /\ KmainAt("yield")
  /\ KmainGoto("hlt")
  /\ UNCHANGED <<procVars, schedVars, proc, walker, halted>>
-----------------------------------------------------------------------------
(* The user process.                                                        *)

\* exec loads the program and enters it, or panics when it is not found.
Exec ==
  /\ UserAt("exec")
  /\ \/ Execute([cpu EXCEPT !.pc = "user"]) /\ UNCHANGED halted
     \/ halted' = "panic" /\ UNCHANGED <<cpu, last>>
  /\ UNCHANGED <<procVars, schedVars, proc, walker>>

\* The program computes: eax takes any value, a call number among them.
Compute ==
  /\ UserAt("user")
  /\ \E w \in Word : Execute([cpu EXCEPT !.eax = w])
  /\ UNCHANGED <<procVars, schedVars, proc, walker, halted>>

\* The program returns to exec, which loops for ever.
ProgramReturns ==
  /\ UserAt("user")
  /\ Execute([cpu EXCEPT !.pc = "spin"])
  /\ UNCHANGED <<procVars, schedVars, proc, walker, halted>>

\* proc_kill(current_proc), then spin with interrupts enabled.
SysExit ==
  /\ UserAt("user") /\ cpu.eax = SYS_EXIT
  /\ awaiting' = [awaiting EXCEPT ![current_proc] = TRUE]
  /\ Execute([cpu EXCEPT !.pc = "spin"])
  /\ UNCHANGED <<alloc, next, prev, processes, tail, pid, taskcount, state,
                 saved, space, stack, hole, schedVars, proc, walker, halted>>

ForkCountsTwice == taskcount[current_proc] + 1
ForkTaskcount == taskcount[current_proc]

\* sys_fork.  The copied space stays in a local: the child's space is NULL.
\* The child gets the registers of the parent's last tick; the parent's eax
\* is stored where the next tick overwrites it, and scratch keeps SYS_FORK.
\* The child's descriptors are not counted, so its table shows no hole.
SysFork ==
  /\ UserAt("user") /\ cpu.eax = SYS_FORK
  /\ pid < MaxProcs /\ ~hole[current_proc]
  /\ alloc' = [alloc EXCEPT ![pid] = "live"]
  /\ pid' = pid + 1
  /\ next' = LinkAfterTail(pid)
  /\ prev' = LinkBackToTail(pid)
  /\ tail' = pid
  /\ processes' = HeadWith(pid)
  /\ taskcount' = [taskcount EXCEPT ![pid] = ForkTaskcount]
  /\ state' = [state EXCEPT ![pid] = state[current_proc]]
  /\ saved' = [saved EXCEPT ![pid] = [saved[current_proc] EXCEPT !.eax = 0],
                            ![current_task].eax = pid]
  /\ UNCHANGED <<space, stack, awaiting, hole, schedVars, cpu, last, proc,
                 walker, halted>>

\* The copy of a descriptor that is a hole of the parent's dereferences null;
\* the child that was begun is never seen.
SysForkFaults ==
  /\ UserAt("user") /\ cpu.eax = SYS_FORK
  /\ hole[current_proc]
  /\ halted' = "fault"
  /\ UNCHANGED <<procVars, schedVars, cpu, last, proc, walker>>

\* Any other call returns a result in eax, or leaves it alone; opening and
\* closing descriptors may make a hole or fill one.  Or it does not return:
\* it panics, faults on an address of the program's, or runs on for ever
\* with interrupts disabled (ramfs_write's doubling, the serial port's poll).
SysOther ==
  /\ UserAt("user") /\ cpu.eax \notin {SYS_EXIT, SYS_FORK}
  /\ \/ /\ \E w \in {cpu.eax, -1} : Execute([cpu EXCEPT !.eax = w])
        /\ \E b \in BOOLEAN : hole' = [hole EXCEPT ![current_proc] = b]
        /\ UNCHANGED halted
     \/ /\ halted' \in {"panic", "fault", "hung"}
        /\ UNCHANGED <<hole, cpu, last>>
  /\ UNCHANGED <<alloc, next, prev, processes, tail, pid, taskcount, state,
                 saved, space, stack, awaiting, schedVars, proc, walker>>
-----------------------------------------------------------------------------
(* The timer interrupt: trap_next.                                          *)

\* An interrupt ends a hlt; the saved eip is the instruction after it.
Interrupted(r) == IF r.pc = "hlt" THEN [r EXCEPT !.pc = "advance"] ELSE r

\* sched_save: a process that called exit is not saved.
SavesOnlyExited == ~override_store /\ awaiting[current_proc]
MaySave == ~override_store /\ ~awaiting[current_proc]

TimerInt ==
  /\ IsRunning
  /\ cpu' = Interrupted(cpu)
  /\ last' = [last EXCEPT ![current_task] = Interrupted(cpu)]
  /\ saved' = IF MaySave
              THEN [saved EXCEPT ![current_task] = Interrupted(cpu)]
              ELSE saved
  /\ mode' = "next"
  /\ UNCHANGED <<alloc, next, prev, processes, tail, pid, taskcount, state,
                 space, stack, awaiting, hole, current_proc, current_task,
                 override_store, proc, walker, halted>>

PickableIgnoringExit(p) == state[p] = "RUNNING"
PickableUnlessBlocked(p) == state[p] # "BLOCKED" /\ ~awaiting[p]
Pickable(p) == state[p] = "RUNNING" /\ ~awaiting[p]

\* One round of the loop of sched_next.  A process without a task is passed
\* over with current_task still at the old one.
SchedNext ==
  /\ halted = "no" /\ mode = "next"
  /\ LET p == Successor(current_proc) IN
       /\ current_proc' = p
       /\ current_task' = IF taskcount[p] = 0 THEN current_task ELSE p
       /\ mode' = IF taskcount[p] # 0 /\ Pickable(p) THEN "load" ELSE "next"
  /\ UNCHANGED <<procVars, override_store, cpu, proc, walker, halted, last>>

\* sched_load and the return from the interrupt; paging_switch faults on the
\* null pointer of a process without a space.
SchedLoad ==
  /\ halted = "no" /\ mode = "load"
  /\ cpu' = saved[current_task]
  /\ IF space[current_proc] = NULL
     THEN halted' = "fault" /\ UNCHANGED mode
     ELSE mode' = "run" /\ UNCHANGED halted
  /\ UNCHANGED <<procVars, current_proc, current_task, override_store, proc,
                 walker, last>>
-----------------------------------------------------------------------------
\* panic_impl spins with interrupts disabled.
Stopped == halted # "no" /\ UNCHANGED vars

Kmain ==
  \/ ProcCreate \/ LinkNext \/ LinkPrev \/ LinkTail \/ SetSpace \/ TaskCount
  \/ TaskBlock \/ SetRegs \/ MapStack \/ Publish \/ Advance \/ CheckAwaiting
  \/ ProcDestroy \/ Reaped \/ Yield
User ==
  \/ Exec \/ Compute \/ ProgramReturns \/ SysExit \/ SysFork
  \/ SysForkFaults \/ SysOther
Interrupt == TimerInt \/ SchedNext \/ SchedLoad

Next == Kmain \/ User \/ Interrupt \/ Stopped

Spec == Init /\ [][Next]_vars

\* The PIT ticks for ever, a handler with interrupts disabled runs on, and a
\* period is far longer than an instruction, so that a process scheduled
\* again and again executes its next one (strong fairness).
Fairness ==
  /\ WF_vars(TimerInt) /\ WF_vars(SchedNext) /\ WF_vars(SchedLoad)
  /\ SF_vars(Kmain)

FairSpec == Spec /\ Fairness
-----------------------------------------------------------------------------
(* Properties.                                                              *)

\* Every variable has the type of its C counterpart.
TypeOK ==
  /\ alloc \in [Proc -> {"unborn", "live", "freed"}]
  /\ next \in [Proc -> Pointer] /\ prev \in [Proc -> Pointer]
  /\ processes \in Pointer /\ tail \in Pointer
  /\ pid \in 0 .. MaxProcs
  /\ taskcount \in [Proc -> 0 .. 1]
  /\ state \in [Proc -> TaskState]
  /\ saved \in [Proc -> Registers]
  /\ space \in [Proc -> {NULL, "kernel", "own"}]
  /\ stack \in [Proc -> BOOLEAN] /\ awaiting \in [Proc -> BOOLEAN]
  /\ hole \in [Proc -> BOOLEAN]
  /\ current_proc \in Proc /\ current_task \in Proc
  /\ override_store \in BOOLEAN
  /\ cpu \in Registers
  /\ mode \in {"run", "next", "load"}
  /\ proc \in Pointer /\ walker \in Pointer
  /\ halted \in {"no", "panic", "fault", "hung"}
  /\ last \in [Proc -> Registers]

Live == {p \in Proc : alloc[p] = "live"}
KmainPlace == last[KernelProc].pc  \* kmain's next step, also when preempted

\* No pointer the scheduler or the reaper follows leads to freed memory: the
\* head, current_proc and current_task, the reaper's _proc until the process
\* it names is destroyed, and the links between live processes (sched_next,
\* kmain and proc_destroy dereference all of them).
NoWildPointer ==
  /\ {processes, current_proc, current_task} \subseteq Live
  /\ walker \in Live \cup {NULL} \/ KmainPlace = "reaped"
  /\ \A p \in Live : next[p] \in Live \cup {NULL} /\ prev[p] \in Live \cup {NULL}

\* The links stay inverse of each other while processes are created by kmain
\* and by fork, and destroyed; only a process being linked lags behind.
BeingLinked(p) == p = InitProc /\ KmainPlace \in {"link", "prev"}
LinksAgree ==
  \A p, q \in Live : ~BeingLinked(p) /\ ~BeingLinked(q)
                       => (next[p] = q <=> prev[q] = p)

\* Processes reached from the head in at most n steps of sched_next's walk.
Reached[n \in Nat] ==
  IF n = 0 THEN {processes} \cap Proc
  ELSE Reached[n - 1] \cup ({next[p] : p \in Reached[n - 1]} \ {NULL})

\* No process is lost: sched_next and kmain, which know only the list, reach
\* every live process, the one kmain is linking excepted.
EveryProcessListed ==
  \A p \in Live : ~BeingLinked(p) => p \in Reached[MaxProcs]

\* A tick may find the process kmain creates at any point of its creation:
\* it is scheduled only with its registers, its address space and its stack.
ScheduledOnlyWhenBuilt ==
  mode = "load" /\ current_proc = InitProc =>
    /\ saved[InitProc].pc # "zero"
    /\ space[InitProc] = "own" /\ stack[InitProc]

\* What the code runs with is what it was interrupted with, however many
\* ticks, system calls and other processes came between.
ResumesWhereInterrupted ==
  IsRunning => current_task = current_proc /\ cpu = last[current_proc]

\* A process that has called exit spins until the next tick, and is then
\* never loaded, nor are its registers stored, until it is freed.
ExitIsFinal ==
  [][\A p \in Proc : awaiting[p] =>
       /\ awaiting'[p]
       /\ mode' = "run" /\ current_proc' = p => mode = "run" /\ current_proc = p
       /\ alloc'[p] = "live" => saved'[p] = saved[p]]_vars

\* The reaper only frees a process that asked for it and that no longer runs.
FreedAfterExit ==
  [][\A p \in Proc : alloc[p] = "live" /\ alloc'[p] = "freed" =>
       awaiting[p] /\ current_proc # p /\ current_task # p]_vars

\* The loop of sched_next, with interrupts disabled, comes to an end.
InterruptReturns == mode # "run" ~> (mode = "run" \/ halted # "no")

\* Once a process has called exit the reaper frees it.  Only two things may
\* stop the machine before: the process left a hole among its descriptors,
\* on which proc_clear panics, or a forked child was scheduled, which faults.
HoleClosed(p) == halted = "panic" /\ hole[p]
ChildLoaded == halted = "fault" /\ space[current_proc] = NULL
ExitedIsReaped ==
  \A p \in Proc : awaiting[p] ~> (alloc[p] = "freed" \/ HoleClosed(p) \/ ChildLoaded)

\* A process that has become runnable is given the CPU, unless it exits or
\* the machine stops; a system call that never returns stops it too.
RunnableRuns ==
  \A p \in Proc : state[p] = "RUNNING" ~>
    (IsRunning /\ current_proc = p) \/ awaiting[p] \/ halted # "no"

\* fork_exit.c:21 says that fork copies "proc && address space": every
\* process that may be scheduled has one.
RunnableHasSpace ==
  \A p \in Live : state[p] = "RUNNING" => space[p] # NULL

\* core.h:70 says that proc_destroy removes the process from the list: no
\* pointer of the list (processes, tail, the links) leads to it any more.
DestroyedIsUnlinked ==
  \A p \in Proc : alloc[p] = "freed" =>
    /\ p \notin {processes, tail}
    /\ \A q \in Live : next[q] # p /\ prev[q] # p
=============================================================================
