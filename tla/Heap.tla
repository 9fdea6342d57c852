-------------------------------- MODULE Heap --------------------------------
(***************************************************************************)
(* The heap of a program: malloc and free of its C library, over the system *)
(* calls that map and unmap a page.                                         *)
(*                                                                          *)
(* A page is fresh when it is mapped, whatever was there.  Of its contents  *)
(* we keep whose bytes they are and the header malloc has put there.        *)
(***************************************************************************)
EXTENDS Integers, Sequences

CONSTANTS
  SizeLimit,   \* values of a size_t
  PageSize,
  HeaderBytes, \* sizeof(header_t)
  MaxBlocks,   \* bound: the blocks a program allocates
  NoBlock

ASSUME HeapAssumption ==
  /\ {SizeLimit, PageSize, MaxBlocks} \subseteq Nat \ {0} /\ HeaderBytes \in 0 .. PageSize
  /\ SizeLimit % PageSize = 0

VARIABLES
  heapnext,  \* __heap_next, in pages
  page,      \* [mapped page -> its block, and the header or NoBlock]
  blocks,    \* every block malloc has returned, in order
  faulted    \* whether the program has used a page that is not there

heapVars == <<heapnext, page, blocks, faulted>>

HeapInit ==
  /\ heapnext = 0
  /\ page = [p \in {} |-> NoBlock]
  /\ blocks = <<>>
  /\ faulted = FALSE
-----------------------------------------------------------------------------
Fresh == [by |-> NoBlock, header |-> NoBlock]
\* map and umap.  Mapping a page again loses what it held.
Map(pages) == [p \in DOMAIN page \cup pages |-> IF p \in pages THEN Fresh ELSE page[p]]
Umap(p) == [q \in DOMAIN page \ {p} |-> page[q]]

\* malloc: __heap_next moves by the page of the header only.
PagesFor(bytes) == ((HeaderBytes + bytes + PageSize - 1) % SizeLimit) \div PageSize
Run(b) == b.at .. b.at + b.pages - 1
Staying == heapnext   \* mutant: maps the same page for every block
Advanced == heapnext + 1

Malloc(bytes) ==
  LET pages == PagesFor(bytes)
      mapped == Map({heapnext} \cup heapnext .. heapnext + pages - 1) IN
  /\ ~faulted /\ Len(blocks) < MaxBlocks /\ bytes > 0
  /\ page' = [mapped EXCEPT ![heapnext].header = pages]
  /\ blocks' = Append(blocks, [at |-> heapnext, pages |-> pages, bytes |-> bytes, filled |-> FALSE])
  /\ heapnext' = Advanced
  /\ UNCHANGED faulted

\* The program writes its block, after the header to the end.
Fill(i) ==
  LET b == blocks[i] IN
  /\ ~faulted /\ Run(b) \subseteq DOMAIN page
  /\ page' = [p \in DOMAIN page |->
                IF p \notin Run(b) THEN page[p]
                ELSE [by |-> i, header |-> IF p = b.at THEN page[p].header ELSE NoBlock]]
  /\ blocks' = [blocks EXCEPT ![i].filled = TRUE]
  /\ UNCHANGED <<heapnext, faulted>>

\* free: the loop looks at the header before each page, and the first page it
\* unmaps is the header's.  (A header another block has written over may be
\* any number.)
Free(i) ==
  LET at == blocks[i].at
      header == page[at].header IN
  /\ ~faulted
  /\ \/ header \in {0, NoBlock} /\ UNCHANGED <<page, faulted>>
     \/ header # 0 /\ page' = Umap(at) /\ faulted' = TRUE
  /\ UNCHANGED <<heapnext, blocks>>

\* What a program does with its heap.
HeapNext(sizes) ==
  \/ \E bytes \in sizes : Malloc(bytes)
  \/ \E i \in DOMAIN blocks : Fill(i) \/ Free(i)
-----------------------------------------------------------------------------
Fits(b) == HeaderBytes + b.bytes + PageSize - 1 < SizeLimit
Intact(i) ==
  LET b == blocks[i] IN
  /\ Run(b) \subseteq DOMAIN page /\ page[b.at].header = b.pages
  /\ b.filled => \A p \in Run(b) : page[p].by = i
  /\ b.pages * PageSize >= HeaderBytes + b.bytes

\* A program that asks for more than a page in its last call only has blocks
\* as large as it asked for that keep what it writes in them, in any order,
\* as long as it does not free one.  (Without that, malloc maps the second
\* page of an earlier block again; and free faults.)
BlocksIntact ==
  (/\ \A i \in 1 .. Len(blocks) - 1 : blocks[i].pages = 1
   /\ \A i \in DOMAIN blocks : Fits(blocks[i])
   /\ ~faulted)
    => \A i \in DOMAIN blocks : Intact(i)
=============================================================================
