------------------------------- MODULE Files -------------------------------
(***************************************************************************)
(* Descriptor tables, open files and vnodes of J/Unix, and the lifetime of  *)
(* what ramfs keeps for a file.                                             *)
(*                                                                          *)
(* System calls run with interrupts disabled, and in Sched only the first   *)
(* user process ever executes one: its calls are the steps here, and the    *)
(* children it forks have tables of their own but do nothing with them.     *)
(*                                                                          *)
(* Addresses are never used twice (kmalloc's vmalloc only grows), and kfree *)
(* unmaps the block at once, so freed memory that is touched is a fault.    *)
(***************************************************************************)
EXTENDS Integers, FiniteSets

CONSTANTS
  FdChunk,   \* slots by which a descriptor table grows (8 in proc_open)
  BlockSlots,\* slots that fit in the block of a table, see Within (1022)
  MaxProcs,  \* bound: processes
  MaxNodes,  \* bound: vnodes
  MaxFiles,  \* bound: file_t's opened over a run
  MaxData,   \* bound: ramfs_file_t's allocated over a run
  Path,      \* bound: the paths given to open and creat
  NULL

Root == 0    \* "/", of ramfs
Ipc == 1     \* "/ipc", of ramfs
Dev == 2     \* "/dev", a dir_ops directory
Serial == 3  \* "/dev/serial", a device without open, close and release
Jwm == 4     \* "/mnt/bin/jwm.o", the program
Permanent == Root .. Jwm

\* What a vnode can do: only ramfs directories make files, only ramfs files
\* have a release, only files and devices can be read.
Ops == {"dir", "ramdir", "ramfile", "device"}

\* A path is that of a permanent vnode, or names a leaf of a directory.
ASSUME PathAssumption ==
  Path \subseteq [node : Permanent, leaf : {FALSE}] \cup
                 [node : {Root, Ipc, Dev}, leaf : {TRUE}]
ASSUME FilesAssumption ==
  /\ FdChunk \in Nat \ {0} /\ MaxProcs \in Nat \ {0} /\ MaxNodes \in Nat
  /\ MaxNodes > Jwm /\ MaxFiles \in Nat \ {0}
  /\ BlockSlots \in Nat \ {0} /\ BlockSlots % FdChunk # 0
  /\ MaxData \in Nat /\ NULL \notin Int \cup Ops

VARIABLES
  ops,      \* [Node -> vnode_t.ops, NULL for a vnode not created yet]
  parent,   \* vnode_t.parent, used to resolve the leaf of a path
  refcount, \* vnode_t.refcount
  priv,     \* vnode_t.priv: the ramfs_file_t of a ramfs file
  data,     \* [Data -> "unborn" | "live" | "freed"]: ramfs_file_t memory
  file,     \* [File -> file_t.vnode, NULL unless allocated]
  opened,   \* file_t's allocated so far
  items,    \* [Proc -> [slots in the block -> file_t or NULL]]: proc_t.fd.items
  count,    \* [Proc -> proc_t.fd.count]
  pid,      \* processes created so far
  exited,   \* the first process has called exit
  halted    \* "no", "panic", "fault" or "hung"

nodeVars == <<ops, parent, refcount, priv, data>>
tableVars == <<items, count>>
vars == <<nodeVars, file, opened, tableVars, pid, exited, halted>>

Node == 0 .. MaxNodes - 1
File == 0 .. MaxFiles - 1
Data == 0 .. MaxData - 1
Proc == 0 .. MaxProcs - 1   \* 0 is the first user process
Program == 0                \* the file_t exec opens and never closes
Slots(p) == DOMAIN items[p] \* the slots below fd.capacity that are in its block
Fd == 0 .. BlockSlots + FdChunk - 1  \* the descriptors calls are given

Running == halted = "no" /\ ~exited
Exists(n) == ops[n] # NULL

\* vfs_lookup.  The name of a vnode made by sys_creat is a pointer to a dead
\* stack frame: whether it still reads as the leaf looked for is anyone's
\* guess, so a leaf resolves to a file created in that directory or to none.
Lookup(path) ==
  IF path.leaf
  THEN {NULL} \cup {n \in Node \ Permanent : Exists(n) /\ parent[n] = path.node}
  ELSE {path.node}
-----------------------------------------------------------------------------
Init ==
  /\ ops = [n \in Node |-> CASE n \in {Root, Ipc} -> "ramdir"
                             [] n = Dev -> "dir"
                             [] n \in {Serial, Jwm} -> "device"
                             [] OTHER -> NULL]
  /\ parent = [n \in Node |-> CASE n \in {Ipc, Dev} -> Root
                                [] n = Serial -> Dev
                                [] OTHER -> NULL]
  /\ refcount = [n \in Node |-> IF n = Jwm THEN 1 ELSE 0]
  /\ priv = [n \in Node |-> NULL]
  /\ data = [d \in Data |-> "unborn"]
  /\ file = [f \in File |-> IF f = Program THEN Jwm ELSE NULL]
  /\ opened = 1
  /\ items = [p \in Proc |-> <<>>]
  /\ count = [p \in Proc |-> 0]
  /\ pid = 1
  /\ exited = FALSE
  /\ halted = "no"
-----------------------------------------------------------------------------
(* Descriptor tables.                                                       *)

\* proc_open allocates capacity + 8 * sizeof(file_t *) bytes for a table of
\* capacity + 8 slots.  kmalloc rounds that up to a page, cleared, so that the
\* slots are there until the page ends; capacity grows past it by whole
\* chunks all the same.
Within(capacity) == IF capacity < BlockSlots THEN capacity ELSE BlockSlots
WholeChunks(n) == ((n + FdChunk - 1) \div FdChunk) * FdChunk
Capacity(p) == WholeChunks(Cardinality(Slots(p)))

\* A slot below fd.capacity that lies in the next page of the heap: that page
\* is not mapped, or starts with the header of another block, whose size and
\* pages are no file_t.
Foreign(p, fd) == fd \notin Slots(p) /\ fd < Capacity(p)

\* The table proc_open stores into: it grows by a chunk when all is taken.
HasFree(t) == \E fd \in DOMAIN t : t[fd] = NULL
Grown(t) ==
  [fd \in 0 .. Within(Cardinality(DOMAIN t) + FdChunk) - 1 |->
     IF fd \in DOMAIN t THEN t[fd] ELSE NULL]
TableWithRoom(t) == IF HasFree(t) THEN t ELSE Grown(t)

\* When every slot of the block is taken the next open faults: it reads a
\* foreign slot that is not mapped, or finds it taken, and then copies the
\* old capacity past the end of the new block.
BlockFull(t) == ~HasFree(t) /\ Cardinality(DOMAIN t) = BlockSlots

\* The descriptor it takes: the lowest free one.
FreeSlot(t) ==
  CHOOSE fd \in DOMAIN t : t[fd] = NULL /\ \A g \in 0 .. fd - 1 : t[g] # NULL

\* vfs_open_direct: a new file_t on node n.
ReferencedOnce(n) == [refcount EXCEPT ![n] = 1]
Referenced(n) == [refcount EXCEPT ![n] = @ + 1]

\* proc_open on what the path resolved to: the table has grown even when
\* there is nothing to open.
CountOnGrowth(p) == IF HasFree(items[p]) THEN count[p] ELSE count[p] + 1
CountAfterOpen(p) == count[p] + 1
ProcOpen(p, n) ==
  \/ /\ BlockFull(items[p])
     /\ halted' = "fault"
     /\ UNCHANGED <<tableVars, file, opened, refcount>>
  \/ /\ ~BlockFull(items[p])
     /\ LET t == TableWithRoom(items[p]) IN
        IF n = NULL
        THEN /\ items' = [items EXCEPT ![p] = t]
             /\ UNCHANGED <<count, file, opened, refcount>>
        ELSE /\ items' = [items EXCEPT ![p] = [t EXCEPT ![FreeSlot(t)] = opened]]
             /\ count' = [count EXCEPT ![p] = CountAfterOpen(p)]
             /\ file' = [file EXCEPT ![opened] = n]
             /\ opened' = opened + 1
             /\ refcount' = Referenced(n)
     /\ UNCHANGED halted

MayOpen == opened < MaxFiles   \* within the bounds
-----------------------------------------------------------------------------
(* System calls of process 0.                                               *)

SysOpen(path) ==
  /\ Running /\ MayOpen
  /\ \E n \in Lookup(path) : ProcOpen(0, n)
  /\ UNCHANGED <<ops, parent, priv, data, pid, exited>>

\* split_path cuts the caller's string at its last slash, except in the root:
\* what sys_creat then opens is the parent.  In the root it is the leaf, and
\* an older file whose name has come to read the same goes before the new one.
OpensAfterCreat(path, made) ==
  IF path.node = Root THEN {made} \cup (Lookup(path) \ {NULL}) ELSE {path.node}

\* sys_creat of a leaf that is not found: the parent makes a file (kind
\* "ramfile") or, by the mode bits, a directory ("ramdir"); a directory that
\* cannot make one is a panic.
CreatNew(path, kind) ==
  IF ops[path.node] # "ramdir"
  THEN /\ halted' = "panic"
       /\ UNCHANGED <<ops, parent, refcount, file, opened, tableVars>>
  ELSE \E n \in Node \ Permanent :
         /\ ~Exists(n) /\ \A m \in Node : m < n => Exists(m)
         /\ ops' = [ops EXCEPT ![n] = kind]
         /\ parent' = [parent EXCEPT ![n] = path.node]
         /\ \E m \in OpensAfterCreat(path, n) : ProcOpen(0, m)

SysCreat(path, kind) ==
  /\ Running /\ MayOpen
  /\ \E n \in Lookup(path) :
       IF n # NULL
       THEN ProcOpen(0, n) /\ UNCHANGED <<ops, parent>>
       ELSE CreatNew(path, kind)
  /\ UNCHANGED <<priv, data, pid, exited>>

\* ramfs_release frees the ramfs_file_t of the vnode, and leaves priv alone.
ReleasesEarly(n, uses) == ops[n] = "ramfile" /\ refcount[n] <= uses + 1
ReleasesBeforeDecrement(n, uses) == ops[n] = "ramfile" /\ refcount[n] = 0
Releases(n, uses) == ops[n] = "ramfile" /\ refcount[n] = uses
Dangling(n) == priv[n] # NULL /\ data[priv[n]] = "freed"

\* vfs_close of all the files in fs, in one system call.  It faults when it
\* releases a vnode a second time; a machine that has stopped is not
\* described further.
Uses(n, fs) == Cardinality({f \in fs : file[f] = n})
Released(fs) ==
  {n \in Node : /\ Uses(n, fs) > 0 /\ Releases(n, Uses(n, fs))
               /\ priv[n] # NULL}
CloseFaults(fs) == \E n \in Released(fs) : Dangling(n)
VfsClose(fs) ==
  /\ refcount' = [n \in Node |-> refcount[n] - Uses(n, fs)]
  /\ data' = [d \in Data |-> IF \E n \in Released(fs) : priv[n] = d
                            THEN "freed" ELSE data[d]]
  /\ file' = [f \in File |-> IF f \in fs THEN NULL ELSE file[f]]

IsOpen(p, fd) == fd \in Slots(p) /\ items[p][fd] # NULL
NodeOf(p, fd) == file[items[p][fd]]

\* proc_close: the slot is emptied, the file closed, the count decremented.
\* A descriptor past the capacity and an empty slot are a panic.
TableAfterClose(p, fd) == [items EXCEPT ![p][fd] = NULL]
SysClose(fd) ==
  /\ Running
  /\ IF ~IsOpen(0, fd) \/ CloseFaults({items[0][fd]})
     THEN /\ halted' = IF IsOpen(0, fd) \/ Foreign(0, fd) THEN "fault" ELSE "panic"
          /\ UNCHANGED <<refcount, data, file, tableVars>>
     ELSE /\ items' = TableAfterClose(0, fd)
          /\ count' = [count EXCEPT ![0] = @ - 1]
          /\ VfsClose({items[0][fd]})
          /\ UNCHANGED halted
  /\ UNCHANGED <<ops, parent, priv, opened, pid, exited>>

\* sys_read reads what priv points to; when the serial port has nothing to
\* read the CPU is halted with its interrupts disabled.
SysRead(fd) ==
  /\ Running /\ IsOpen(0, fd)
  /\ LET n == NodeOf(0, fd) IN
     \/ halted' = IF ops[n] = "ramfile" /\ Dangling(n) THEN "fault" ELSE halted
     \/ (n = Serial /\ halted' = "hung")
  /\ UNCHANGED <<nodeVars, file, opened, tableVars, pid, exited>>

\* sys_read and sys_write of a foreign slot, unless the count is zero or the
\* caller's buffer is refused before the file is looked at.
SysForeign(fd) ==
  /\ Running /\ Foreign(0, fd)
  /\ halted' = "fault"
  /\ UNCHANGED <<nodeVars, file, opened, tableVars, pid, exited>>

\* ramfs_write allocates the ramfs_file_t at the first write.
NeedsData(n) == ops[n] = "ramfile" /\ priv[n] = NULL
SysWrite(fd) ==
  /\ Running /\ IsOpen(0, fd)
  /\ LET n == NodeOf(0, fd) IN
     IF ops[n] = "ramfile" /\ Dangling(n)
     THEN halted' = "fault" /\ UNCHANGED <<priv, data>>
     ELSE /\ IF NeedsData(n)
             THEN \E d \in Data :
                    /\ data[d] = "unborn"
                    /\ \A e \in Data : e < d => data[e] # "unborn"
                    /\ priv' = [priv EXCEPT ![n] = d]
                    /\ data' = [data EXCEPT ![d] = "live"]
             ELSE UNCHANGED <<priv, data>>
          /\ UNCHANGED halted
  /\ UNCHANGED <<ops, parent, refcount, file, opened, tableVars, pid, exited>>

\* sys_lseek checks the range of the descriptor and not what is there.  From
\* the end, ramfs looks at what priv points to, and every other file system
\* panics for want of a length function.
SysLseek(fd, whence) ==
  /\ Running /\ fd < Capacity(0)
  /\ halted' =
       IF Foreign(0, fd) THEN "fault"
       ELSE IF ~IsOpen(0, fd) THEN "panic"
       ELSE IF whence # "SEEK_END" THEN halted
       ELSE LET n == NodeOf(0, fd) IN
            IF ops[n] \in {"dir", "device"} THEN "panic"
            ELSE IF ops[n] = "ramfile" /\ Dangling(n) THEN "fault" ELSE halted
  /\ UNCHANGED <<nodeVars, file, opened, tableVars, pid, exited>>

\* sys_fork opens the vnodes of descriptors 0 .. fd.count - 1 again for the
\* child, without counting them; an empty slot among them is a fault.
ForkReadsOneLess(n) == 0 .. n - 2
ForkReadsOneMore(n) == 0 .. n
ForkReads(n) == 0 .. n - 1
SysFork ==
  LET n == count[0]
      fds == ForkReads(n)
      table == [fd \in 0 .. Within(WholeChunks(n)) - 1 |->
                  IF fd \in fds THEN opened + fd ELSE NULL]
  IN
  /\ Running /\ pid < MaxProcs /\ opened + n <= MaxFiles
  /\ IF \E fd \in fds : ~IsOpen(0, fd)
     THEN /\ halted' = "fault"
          /\ UNCHANGED <<items, file, opened, refcount, pid>>
     ELSE /\ items' = [items EXCEPT ![pid] = table]
          /\ file' = [f \in File |-> IF f - opened \in fds
                                     THEN NodeOf(0, f - opened) ELSE file[f]]
          /\ opened' = opened + Cardinality(fds)
          /\ refcount' = [v \in Node |-> refcount[v] +
                            Cardinality({fd \in fds : NodeOf(0, fd) = v})]
          /\ pid' = pid + 1
          /\ UNCHANGED halted
  /\ UNCHANGED <<ops, parent, priv, data, count, exited>>

SysExit ==
  /\ Running
  /\ exited' = TRUE
  /\ UNCHANGED <<nodeVars, file, opened, tableVars, pid, halted>>

\* kmain's proc_destroy of the first process, and its panic at that process's
\* death.  proc_clear closes descriptors 0 .. fd.count - 1, or panics at an empty one.
ClearCloses(n) == 0 .. n - 1
ProcClear ==
  LET fds == ClearCloses(count[0])
      hole == \E fd \in fds : ~IsOpen(0, fd)
      fs == {items[0][fd] : fd \in fds}
  IN
  /\ halted = "no" /\ exited
  /\ IF hole \/ CloseFaults(fs)
     THEN /\ halted' = IF hole THEN "panic" ELSE "fault"
          /\ UNCHANGED <<refcount, data, file, tableVars>>
     ELSE /\ halted' = "panic"
          /\ items' = [items EXCEPT ![0] = <<>>]
          /\ count' = [count EXCEPT ![0] = 0]
          /\ VfsClose(fs)
  /\ UNCHANGED <<ops, parent, priv, opened, pid, exited>>
-----------------------------------------------------------------------------
\* A panic, a fault or a hlt stops the machine.
Stopped == halted # "no" /\ UNCHANGED vars

Syscall ==
  \/ \E path \in Path : \/ SysOpen(path)
                        \/ \E kind \in {"ramfile", "ramdir"} : SysCreat(path, kind)
  \/ \E fd \in Fd :
       \/ SysClose(fd) \/ SysRead(fd) \/ SysWrite(fd) \/ SysForeign(fd)
       \/ \E whence \in {"SEEK_SET", "SEEK_CUR", "SEEK_END"} : SysLseek(fd, whence)
  \/ SysFork \/ SysExit

Next == Syscall \/ ProcClear \/ Stopped

Spec == Init /\ [][Next]_vars
-----------------------------------------------------------------------------
(* Properties.                                                              *)

\* Every variable has the type of its C counterpart; no count is negative.
TypeOK ==
  /\ ops \in [Node -> Ops \cup {NULL}]
  /\ parent \in [Node -> {Root, Ipc, Dev, NULL}]
  /\ refcount \in [Node -> 0 .. MaxFiles]
  /\ priv \in [Node -> Data \cup {NULL}]
  /\ data \in [Data -> {"unborn", "live", "freed"}]
  /\ file \in [File -> Node \cup {NULL}]
  /\ opened \in 1 .. MaxFiles
  /\ \A p \in Proc : \E capacity \in 0 .. BlockSlots :
       items[p] \in [0 .. capacity - 1 -> File \cup {NULL}]
  /\ count \in [Proc -> 0 .. BlockSlots]
  /\ pid \in 1 .. MaxProcs
  /\ exited \in BOOLEAN
  /\ halted \in {"no", "panic", "fault", "hung"}

Live == {f \in File : file[f] # NULL}
Descriptor == {pf \in Proc \X (0 .. BlockSlots - 1) : IsOpen(pf[1], pf[2])}
FileOf(pf) == items[pf[1]][pf[2]]

\* vnode_t.refcount, which decides when a vnode is released, is the number
\* of open files on it, after any sequence of opens, closes, forks and exits.
RefcountIsOpenFiles ==
  \A n \in Node : refcount[n] = Cardinality({f \in Live : file[f] = n})

\* The descriptor tables and the open files agree, through the growth of a
\* table, fork and exit: every used slot holds an open file of its own, so
\* that no close frees another's; no open file is lost (exec keeps the one
\* of the program); and fd.count of the first process, which fork and exit
\* take for the bound of its table, is the number of its descriptors.
DescriptorTables ==
  /\ \A d \in Descriptor : FileOf(d) \in Live \ {Program}
  /\ \A d, e \in Descriptor : FileOf(d) = FileOf(e) => d = e
  /\ Live \ {Program} \subseteq {FileOf(d) : d \in Descriptor}
  /\ count[0] = Cardinality({fd \in Slots(0) : items[0][fd] # NULL})

\* A page fault in a call has one of three reasons: an empty slot among the
\* first fd.count, which fork dereferences; a file whose contents its last
\* close has freed, opened again; or a table whose capacity has passed the
\* end of its block.
Hole(p) == \E fd \in 0 .. count[p] - 1 : ~IsOpen(p, fd)
StaleFile(p) == \E fd \in Slots(p) : IsOpen(p, fd) /\ Dangling(NodeOf(p, fd))
PastBlock(p) == Slots(p) = 0 .. BlockSlots - 1
FaultsExplained == halted = "fault" => Hole(0) \/ StaleFile(0) \/ PastBlock(0)

\* A fork that returns has copied every descriptor, with its number: fork
\* looks only at the first fd.count slots, and stops the machine at a hole.
ForkCopiesDescriptors ==
  [][pid' # pid =>
       LET child == items'[pid] IN
       \A fd \in 0 .. BlockSlots - 1 :
         /\ IsOpen(0, fd) <=> fd \in DOMAIN child /\ child[fd] # NULL
         /\ IsOpen(0, fd) => file'[child[fd]] = NodeOf(0, fd)]_vars

\* What has been written to a ramfs file stays until its last descriptor is
\* closed, whoever opens and closes it meanwhile.
ContentsKeptWhileOpen ==
  [][\A n \in Node : priv[n] # NULL /\ data[priv[n]] = "live" =>
       /\ priv'[n] = priv[n]
       /\ data'[priv[n]] = "live" \/ refcount'[n] = 0]_vars

\* Nor does it stay longer: what a file that nobody has open kept has been
\* freed, and no two files ever share it.
ContentsFreedWhenClosed ==
  /\ \A n \in Node : priv[n] # NULL /\ refcount[n] = 0 => data[priv[n]] = "freed"
  /\ \A m, n \in Node : priv[m] # NULL /\ priv[m] = priv[n] => m = n
  /\ \A d \in Data : data[d] # "unborn" => \E n \in Node : priv[n] = d

\* init.c:45-47 mounts ramfs on /ipc to "create a file and pass the path to a
\* created process": what sys_creat makes is what it opens.
CreatOpensTheFile ==
  [][\A n \in Node : ~Exists(n) /\ Exists(n)' => file'[opened] = n]_vars

\* fs.h:26-28 pairs release ("called when refcount == 0") with capture
\* ("called when refcount goes from == 0 to > 0"): a vnode opened again after
\* its release is fit for use.
ReopenedIsUsable == \A n \in Node : refcount[n] > 0 => ~Dangling(n)
=============================================================================
