------------------------------- MODULE Memory -------------------------------
(***************************************************************************)
(* Physical frames, page tables, the kernel heap, and the program's memory: *)
(* from the end of paging_init to the end of the program.                   *)
(*                                                                          *)
(* What init allocates and maps before kmain starts is there from the       *)
(* start, as entries of the kernel's list: device pages cost no frame.      *)
(*                                                                          *)
(* Two address spaces: "kernel", that kmain runs in, and "program", that    *)
(* kmain copies from it for the process it starts.  Addresses are page      *)
(* numbers: the program's pages, then the kernel's image, then the heap.    *)
(* The direct map of the frames is not spelled out: its entries come first  *)
(* in every list and are never removed, so that phys_to_virt of a table     *)
(* always answers the table's direct address.                               *)
(*                                                                          *)
(* System calls and proc_destroy run with interrupts disabled: the pages    *)
(* they touch are operations in work, done one by one before anything else. *)
(***************************************************************************)
EXTENDS Integers, Sequences, FiniteSets

CONSTANTS
  PerTable,    \* entries of a page table, 1024
  LowTables,   \* page tables below 0xC0000000, 768
  HeapEnd,     \* KHEAP_END, as a page number
  Frames,      \* frames the direct map reaches
  Skew,        \* (mem_start - physical mem_start) / PAGE_SIZE
  TotalBitmap, \* TOTAL_BITMAP
  MaxItems,    \* MAX_KERNEL_MAPPINGS, entries of the kernel's list
  BlockItems,  \* entries the block of a copied list has room for
  Booted,      \* entries paging_init put into the kernel's list
  Devices,     \* entries of device pages pciRegister and fb_init put there
  ItemPages,   \* pages of a list of mappings
  Value        \* what a page can hold

ASSUME MemoryAssumption ==
  /\ PerTable \in Nat \ {0} /\ LowTables \in Nat \ {0} /\ LowTables * PerTable > 1
  /\ HeapEnd \in Nat /\ HeapEnd > (LowTables + 1) * PerTable
  /\ Frames \in Nat /\ Frames > 1 /\ Skew \in Nat /\ Skew >= Frames + 2
  /\ TotalBitmap \in Nat /\ TotalBitmap > Frames
  /\ MaxItems \in Nat /\ BlockItems \in Nat /\ BlockItems >= MaxItems
  /\ Booted \in Nat /\ Devices \in Nat
  /\ ItemPages \in Nat \ {0} /\ 0 \in Value /\ -1 \notin Value

VARIABLES
  bitmap,    \* page_bitmap: the marked indices
  dirs,      \* [Space -> [Dir -> frame of the table, or None]]
  tables,    \* [Frame -> [Entry -> frame, Image or None]]
  items,     \* [Space -> the pages of address_space_t.items]
  capacity,  \* [Space -> address_space_t.capacity]
  heap_next, \* the first heap page never given out
  blocks,    \* the blocks of kmalloc
  mem,       \* [Frame -> Value], of the frames that hold the program's pages
  work,      \* the operations left of the call in progress
  stage,     \* "boot", "running", "exited", "destroyed"
  halted     \* "no"; "panic", "fault"; from here on nothing is described:
             \* "overrun" (an entry written past a list), "taken" (a page
             \* the kernel runs on was mapped or unmapped by the program)

mapVars == <<bitmap, dirs, tables, items>>
vars == <<mapVars, capacity, heap_next, blocks, mem, work, stage, halted>>

None == -1
Image == -2      \* a frame of the kernel's image, outside the bitmap
Space == {"kernel", "program"}
Frame == 0 .. Frames - 1
LowPage == 0 .. LowTables * PerTable - 1
LastLow == LowTables * PerTable - 1     \* 0xbffff000
StackPage == LowTables * PerTable       \* KERNEL_STACK_VIRT
HeapStart == (LowTables + 1) * PerTable
DirectPageSwapped(f) == f - HeapEnd   \* mutant: subtracts the offset
DirectPage(f) == HeapEnd + f
Dir == 0 .. (HeapEnd - 1) \div PerTable
Entry == 0 .. PerTable - 1
DirOf(p) == p \div PerTable
EntryOf(p) == p % PerTable
NoTable == [e \in Entry |-> None]

\* What a block is for.
Use == {"proc", "space", "items", "file", "child", "none"}

Op == [op : {"kmalloc", "map", "unmap", "kfree", "closefiles", "clear", "copy", "destroyed"},
       space : Space, page : Nat, n : Nat, of : Use]
Do(op, s, p, n, of) == [op |-> op, space |-> s, page |-> p, n |-> n, of |-> of]
Kmalloc(s, n, of) == Do("kmalloc", s, 0, n, of)
Map(s, p) == Do("map", s, p, 1, "none")
Unmap(s, p) == Do("unmap", s, p, 1, "none")
Kfree(of) == Do("kfree", "kernel", 0, 0, of)
Run(op) == Do(op, "kernel", 0, 0, "none")
Each(op, s, p, n) == [i \in 1 .. n |-> Do(op, s, p + i - 1, 1, "none")]

\* kmain: the first process, its space, its kernel stack and its stack.
Start == <<Kmalloc("kernel", 1, "proc"), Kmalloc("kernel", 1, "space"),
           Kmalloc("kernel", ItemPages, "items"), Run("copy"),
           Map("program", StackPage), Map("program", LastLow - 1)>>

Init ==
  /\ bitmap = {0, 1}            \* the kernel's directory and its image's table
  /\ dirs = [s \in Space |-> [d \in Dir |->
              IF s = "kernel" /\ d = DirOf(StackPage) THEN 1 ELSE None]]
  /\ tables = [f \in Frame |-> IF f = 1 THEN [e \in Entry |-> Image] ELSE NoTable]
  /\ items = [s \in Space |-> <<>>]
  /\ capacity = [s \in Space |-> IF s = "kernel" THEN MaxItems ELSE 0]
  /\ heap_next = HeapStart
  /\ blocks = {}
  /\ mem = [f \in Frame |-> 0]
  /\ work = Start
  /\ stage = "boot"
  /\ halted = IF Booted + Devices > MaxItems THEN "overrun" ELSE "no"
-----------------------------------------------------------------------------
\* Frames.
PmmNextLast(used) ==   \* mutant: the last marked frame
  {i \in 0 .. TotalBitmap - 1 : i + 1 \notin used /\ \A j \in 0 .. i : j \in used}
PmmNext(used) ==
  {i \in 0 .. TotalBitmap - 1 : i \notin used /\ \A j \in 0 .. i - 1 : j \in used}

\* pmm_free takes a physical address for a virtual one.
PmmFree(f) == bitmap \ {f + Skew}

\* Entries.
TableOf(s, p) == dirs[s][DirOf(p)]
PageOf(s, p) == IF TableOf(s, p) = None THEN None ELSE tables[TableOf(s, p)][EntryOf(p)]
Present(s, p) == PageOf(s, p) # None

\* mutant: does not look at the last entry
RemoveMappingBeforeLast(list, p) ==
  IF \A i \in 1 .. Len(list) - 1 : list[i] # p THEN list
  ELSE LET first == CHOOSE i \in 1 .. Len(list) - 1 :
                      list[i] = p /\ \A j \in 1 .. i - 1 : list[j] # p
       IN [i \in 1 .. Len(list) - 1 |-> IF i = first THEN list[Len(list)] ELSE list[i]]

\* The last entry over the first one of that page.
RemoveMapping(list, p) ==
  IF \A i \in 1 .. Len(list) : list[i] # p THEN list
  ELSE LET first == CHOOSE i \in 1 .. Len(list) :
                      list[i] = p /\ \A j \in 1 .. i - 1 : list[j] # p
       IN [i \in 1 .. Len(list) - 1 |-> IF i = first THEN list[Len(list)] ELSE list[i]]

ListedAlways(new, t, p) == <<DirectPage(t), p>>   \* mutant: lists the table each time
Listed(new, t, p) == IF new THEN <<DirectPage(t), p>> ELSE <<p>>

\* The entries of a list, and what its block has room for.
Count(s) == Booted + Devices + Len(items[s])
Room(s) == IF s = "kernel" THEN MaxItems ELSE BlockItems

\* paging_map of a frame taken before the table's: beyond the direct map,
\* clearing the frame faults.  Nothing looks at the room of the list.
PagingMap(s, p) ==
  LET new == TableOf(s, p) = None IN
  \E f \in PmmNext(bitmap) :
  \E t \in IF new THEN PmmNext(bitmap \cup {f}) ELSE {TableOf(s, p)} :
    /\ bitmap' = bitmap \cup {f, t}
    /\ \/ /\ {f, t} \subseteq Frame /\ Count(s) + Len(Listed(new, t, p)) <= Room(s)
          /\ dirs' = [dirs EXCEPT ![s][DirOf(p)] = t]
          /\ tables' = [tables EXCEPT ![t][EntryOf(p)] = f]
          /\ items' = [items EXCEPT ![s] = @ \o Listed(new, t, p)]
          /\ mem' = [mem EXCEPT ![f] = 0]
          /\ halted' = halted
       \/ /\ {f, t} \subseteq Frame /\ Count(s) + Len(Listed(new, t, p)) > Room(s)
          /\ halted' = "overrun" /\ UNCHANGED <<dirs, tables, items, mem>>
       \/ /\ ~({f, t} \subseteq Frame)
          /\ halted' = "fault" /\ UNCHANGED <<dirs, tables, items, mem>>

PagingUnmap(s, p) ==
  IF TableOf(s, p) = None THEN UNCHANGED mapVars
  ELSE /\ items' = [items EXCEPT ![s] = RemoveMapping(@, p)]
       /\ tables' = [tables EXCEPT ![TableOf(s, p)][EntryOf(p)] = None]
       /\ bitmap' = IF Present(s, p) THEN PmmFree(PageOf(s, p)) ELSE bitmap
       /\ UNCHANGED dirs
-----------------------------------------------------------------------------
\* The operations of a call, from the head of work.
Next1 == Head(work)
Doing(op) == halted = "no" /\ work # <<>> /\ Next1.op = op
Done == work' = Tail(work)

\* The addresses of a block are never given out again.  The kernel's list is
\* counted, for the copy's capacity, before the block of the copy is mapped.
DoKmalloc ==
  LET n == Next1.n IN
  /\ Doing("kmalloc")
  /\ heap_next' = heap_next + n
  /\ IF heap_next' >= HeapEnd
     THEN halted' = "panic" /\ UNCHANGED <<blocks, work>>
     ELSE /\ blocks' = blocks \cup
               {[page |-> heap_next, pages |-> n, of |-> Next1.of]}
          /\ work' = Each("map", Next1.space, heap_next, n) \o Tail(work)
          /\ halted' = halted
  /\ capacity' = IF Next1.of = "items"
                 THEN [capacity EXCEPT !["program"] = Count("kernel")] ELSE capacity
  /\ UNCHANGED <<mapVars, mem, stage>>

\* The first process starts when the last page of its stack is there.
DoMap ==
  /\ Doing("map")
  /\ PagingMap(Next1.space, Next1.page)
  /\ Done
  /\ stage' = IF Tail(work) = <<>> /\ stage = "boot" THEN "running" ELSE stage
  /\ UNCHANGED <<capacity, heap_next, blocks>>

DoUnmap ==
  /\ Doing("unmap")
  /\ PagingUnmap(Next1.space, Next1.page)
  /\ Done
  /\ UNCHANGED <<capacity, heap_next, blocks, mem, stage, halted>>

\* kfree reads the block's header, in the space it runs in.
Free(s, b, rest) ==
  /\ IF Present(s, b.page)
     THEN /\ blocks' = blocks \ {b}
          /\ work' = Each("unmap", s, b.page, b.pages) \o rest
          /\ halted' = halted
     ELSE halted' = "fault" /\ UNCHANGED <<blocks, work>>
  /\ UNCHANGED <<mapVars, capacity, heap_next, mem, stage>>

DoKfree ==
  /\ Doing("kfree")
  /\ \E b \in blocks : b.of = Next1.of /\ Free("kernel", b, Tail(work))

\* proc_clear: vfs_close of each file of the process.
DoCloseFiles ==
  /\ Doing("closefiles")
  /\ IF \E b \in blocks : b.of = "file"
     THEN \E b \in blocks : b.of = "file" /\ Free("kernel", b, work)
     ELSE Done /\ UNCHANGED <<mapVars, capacity, heap_next, blocks, mem, stage, halted>>

\* paging_clear_address_space: the first low page, until there is none.
Low(list) == {i \in 1 .. Len(list) : list[i] \in LowPage}
FirstLow(list) == list[CHOOSE i \in Low(list) : \A j \in Low(list) : i <= j]

DoClear ==
  /\ Doing("clear")
  /\ IF Low(items["program"]) # {}
     THEN PagingUnmap("program", FirstLow(items["program"])) /\ UNCHANGED work
     ELSE Done /\ UNCHANGED mapVars
  /\ UNCHANGED <<capacity, heap_next, blocks, mem, stage, halted>>

TablesFrom(d0) == [d \in Dir |-> IF d >= d0 THEN dirs["kernel"][d] ELSE None]
KernelTablesPast == TablesFrom(LowTables + 3)   \* mutant: misses tables
KernelTables == TablesFrom(LowTables)

\* paging_copy_space of the kernel's space: a directory frame, the tables of
\* the kernel and the entries of its list.  The kernel has no low page.
DoCopy ==
  /\ Doing("copy")
  /\ \E f \in PmmNext(bitmap) :
       /\ bitmap' = bitmap \cup {f}
       /\ IF f \in Frame
          THEN /\ dirs' = [dirs EXCEPT !["program"] = KernelTables]
               /\ items' = [items EXCEPT !["program"] = items["kernel"]]
               /\ halted' = halted
          ELSE halted' = "fault" /\ UNCHANGED <<dirs, items>>
  /\ Done
  /\ UNCHANGED <<tables, capacity, heap_next, blocks, mem, stage>>

\* kmain panics when the process it started is gone.
DoDestroyed ==
  /\ Doing("destroyed")
  /\ stage' = "destroyed" /\ halted' = "panic"
  /\ Done
  /\ UNCHANGED <<mapVars, capacity, heap_next, blocks, mem>>
-----------------------------------------------------------------------------
\* What the program does, and the kernel for it.
Running == halted = "no" /\ work = <<>> /\ stage = "running"
Calls(ops) ==
  /\ work' = ops
  /\ UNCHANGED <<mapVars, capacity, heap_next, blocks, mem, stage, halted>>

\* The image and its stack, the direct map, and the blocks of the heap.
Address == 0 .. HeapEnd + Frames - 1
OfKernel(p) ==
  \/ DirOf(p) = DirOf(StackPage)
  \/ p >= HeapEnd
  \/ \E b \in blocks : p \in b.page .. b.page + b.pages - 1

\* Any address is taken from the program as it is.  A page the kernel runs on
\* that is empty or gone makes it do anything.
Takes ==
  /\ halted' = "taken"
  /\ UNCHANGED <<mapVars, capacity, heap_next, blocks, mem, work, stage>>

SysMap(p) == Running /\ ~OfKernel(p) /\ Calls(<<Map("program", p)>>)
SysUmap(p) == Running /\ ~OfKernel(p) /\ Calls(<<Unmap("program", p)>>)
SysMapsKernel(p) == Running /\ OfKernel(p) /\ Takes

Put(S, v) ==
  /\ mem' = [f \in Frame |-> IF \E p \in S : PageOf("program", p) = f THEN v ELSE mem[f]]
  /\ UNCHANGED <<mapVars, capacity, heap_next, blocks, work, stage, halted>>

Store(p, v) == Running /\ Present("program", p) /\ Put({p}, v)

\* Programs' buffers lie below the last page.
AddressIsUser(p) == p < LastLow /\ Present("program", p)

\* copy_to_user of two pages' bytes: each is looked at, then all are copied.
CopyToUser(p, v) ==
  LET S == {p, p + 1} IN
  Running /\ (\A q \in S : AddressIsUser(q)) /\ Put(S, v)

Open == Running /\ Calls(<<Kmalloc("program", 1, "file")>>)

Close ==
  /\ Running
  /\ \E b \in blocks : b.of = "file" /\ Free("program", b, <<>>)

\* fork: the process, its space, and an empty copy: the program's capacity
\* is its count, which refuses the copy.
SysFork ==
  /\ Running /\ capacity["program"] < MaxItems
  /\ Calls(<<Kmalloc("program", 1, "child"), Kmalloc("program", 1, "child")>>)

\* The child's tick switches to a space without a directory.
Child == {b \in blocks : b.of = "child"}
SchedLoad ==
  /\ Running /\ Child # {}
  /\ halted' = "fault"
  /\ UNCHANGED <<mapVars, capacity, heap_next, blocks, mem, work, stage>>

\* exit marks the process; kmain's loop then destroys it in its own space.
SysExit ==
  /\ Running
  /\ stage' = "exited"
  /\ UNCHANGED <<mapVars, capacity, heap_next, blocks, mem, work, halted>>

Reap ==
  /\ halted = "no" /\ stage = "exited" /\ work = <<>>
  /\ Calls(<<Run("closefiles"), Run("clear"), Kfree("items"), Kfree("space"),
             Kfree("proc"), Run("destroyed")>>)

Operation ==
  \/ DoKmalloc \/ DoMap \/ DoUnmap \/ DoKfree \/ DoCloseFiles
  \/ DoClear \/ DoCopy \/ DoDestroyed

Program ==
  \/ \E p \in Address : SysMap(p) \/ SysUmap(p) \/ SysMapsKernel(p)
  \/ \E p \in LowPage, v \in Value : Store(p, v) \/ CopyToUser(p, v)
  \/ Open \/ Close \/ SysFork \/ SysExit \/ SchedLoad

Next == Operation \/ Program \/ Reap

Spec == Init /\ [][Next]_vars

\* The kernel runs on with what it started, and kmain's loop comes round:
\* nothing is asked of the program.
FairSpec == Spec /\ WF_vars(Operation) /\ WF_vars(Reap)
-----------------------------------------------------------------------------
TypeOK ==
  /\ bitmap \subseteq 0 .. TotalBitmap - 1
  /\ dirs \in [Space -> [Dir -> Frame \cup {None}]]
  /\ tables \in [Frame -> [Entry -> Frame \cup {None, Image}]]
  /\ items \in [Space -> Seq(Nat)]
  /\ capacity \in [Space -> 0 .. MaxItems]
  /\ heap_next \in Nat
  /\ \A b \in blocks : b.page \in Nat /\ b.pages \in Nat /\ b.of \in Use
  /\ mem \in [Frame -> Value]
  /\ work \in Seq(Op)
  /\ stage \in {"boot", "running", "exited", "destroyed"}
  /\ halted \in {"no", "panic", "fault", "overrun", "taken"}

\* Whatever is mapped, unmapped, allocated and freed, a frame serves one
\* purpose: it is one table, or what one entry of one table maps, and it is
\* marked in the bitmap.
Tables == {t \in Frame : \E s \in Space, d \in Dir : dirs[s][d] = t}
Slots == {s \in Tables \X Entry : tables[s[1]][s[2]] \in Frame}
FramesHaveOneOwner ==
  /\ \A a, b \in Slots : tables[a[1]][a[2]] = tables[b[1]][b[2]] => a = b
  /\ \A a \in Slots : tables[a[1]][a[2]] \in bitmap \ Tables
  /\ Tables \subseteq bitmap

\* paging_map never looks at the room of a list of mappings.  Every entry made
\* from kmain on costs a frame and a freed frame never comes back, so that a
\* list is outgrown only when the device pages left it no room for an entry of
\* each frame but the two of the kernel's directory and first table.
ItemsFit ==
  /\ \A s \in Space : Len(items[s]) + 2 <= Cardinality(bitmap)
  /\ halted = "overrun" => Booted + Devices + Frames - 2 > MaxItems

\* As long as the program keeps its SYS_MAP and SYS_UMAP off the kernel's pages
\* ("taken") and the lists hold ("overrun", ItemsFit), the machine stops only
\* for want of frames or heap addresses, for a child without a space, after
\* the process is gone, or because the process left a block in a heap table
\* that is not the kernel's.
Private(b) == dirs["kernel"][DirOf(b.page)] = None
StopsExplained ==
  /\ halted = "fault" =>
       \/ \E i \in bitmap : i >= Frames
       \/ Child # {}
       \/ stage = "exited" /\ \E b \in blocks : b.of = "file" /\ Private(b)
  /\ halted = "panic" => heap_next >= HeapEnd \/ stage = "destroyed"

\* A program's memory behaves as pages of its own, whatever the kernel maps.
AS == INSTANCE AddressSpace WITH
        Page <- LowPage, Zero <- 0, Absent <- -1,
        memory <- [p \in LowPage |-> IF Present("program", p) THEN mem[PageOf("program", p)] ELSE -1]
IsAddressSpace == AS!Spec

\* A process that exits is taken apart to the end: no list of mappings keeps
\* the loops of proc_clear from ending.
ReapEnds == stage = "exited" ~> halted # "no"
=============================================================================
