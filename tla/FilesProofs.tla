----------------------------- MODULE FilesProofs -----------------------------
(***************************************************************************)
(* Proofs about Files, for every number of processes, vnodes, files, slots  *)
(* and paths, every chunk and every size of a table's block.                *)
(*                                                                          *)
(* The counts are what everything hangs on: fd.count is the number of       *)
(* descriptors of the first process, so that when the slots below it are    *)
(* all taken they are all there are, and fork and exit, which look at no    *)
(* others, miss none.                                                       *)
(***************************************************************************)
EXTENDS Files, TLAPS, FiniteSetTheorems, WellFoundedInduction

\* The descriptors of a process, and the open files of a vnode.
Used(p) == {fd \in Slots(p) : items[p][fd] # NULL}
On(n) == {f \in File : file[f] = n}

\* The tables' and the files' part of TypeOK.
TableTypes ==
  /\ refcount \in [Node -> 0 .. MaxFiles]
  /\ file \in [File -> Node \cup {NULL}]
  /\ opened \in 1 .. MaxFiles
  /\ \A p \in Proc : \E capacity \in 0 .. BlockSlots :
       items[p] \in [0 .. capacity - 1 -> File \cup {NULL}]
  /\ count \in [Proc -> 0 .. BlockSlots]
  /\ pid \in 1 .. MaxProcs

\* The rest of it.
NodeTypes ==
  /\ ops \in [Node -> Ops \cup {NULL}]
  /\ parent \in [Node -> {Root, Ipc, Dev, NULL}]
  /\ priv \in [Node -> Data \cup {NULL}]
  /\ data \in [Data -> {"unborn", "live", "freed"}]
  /\ exited \in BOOLEAN
  /\ halted \in {"no", "panic", "fault", "hung"}

\* What is yet to be opened or forked is empty, and the table of the first
\* process has grown by whole chunks, as far as its block goes.
Fresh ==
  /\ \A f \in File : f >= opened => file[f] = NULL
  /\ DOMAIN items = Proc
  /\ \A p \in Proc : p >= pid => Slots(p) = {}
  /\ \E k \in Nat : Slots(0) = 0 .. Within(k * FdChunk) - 1

\* RefcountIsOpenFiles and DescriptorTables, over Used and On.
Counted == \A n \in Node : refcount[n] = Cardinality(On(n))
Owned == \A p \in Proc : \A fd \in Used(p) : items[p][fd] \in Live \ {Program}
Distinct ==
  \A p, q \in Proc : \A fd \in Used(p), g \in Used(q) :
    items[p][fd] = items[q][g] => p = q /\ fd = g
Held == \A f \in Live \ {Program} : \E p \in Proc : \E fd \in Used(p) : items[p][fd] = f
FdCount == count[0] = Cardinality(Used(0))

Tables ==
  /\ TableTypes /\ Fresh /\ Counted /\ Owned /\ Distinct /\ Held /\ FdCount

\* Only ramfs files have memory, and it has been allocated.
Written ==
  \A n \in Node : priv[n] # NULL => ops[n] = "ramfile" /\ data[priv[n]] # "unborn"

IInv == Tables /\ NodeTypes /\ Written /\ ContentsFreedWhenClosed

-----------------------------------------------------------------------------
(* Lemmas about the operators.                                              *)

\* Numbers are not NULL, and there is a process, a file and a chunk.
LEMMA Numbers ==
  /\ NULL \notin Ops /\ NULL \notin Node /\ NULL \notin File /\ NULL \notin Data /\ NULL \notin Int
  /\ Program \in File /\ 0 \in Proc /\ FdChunk \in Nat /\ FdChunk > 0
  /\ BlockSlots \in Nat /\ MaxFiles \in Nat /\ MaxProcs \in Nat
  /\ Permanent \subseteq Node
BY FilesAssumption DEF Node, File, Data, Proc, Program, Permanent, Jwm, Root

\* A table has the slots of its chunks, or those of its block.
LEMMA WithinBlock ==
  ASSUME NEW c \in Nat
  PROVE  /\ Within(c) \in 0 .. BlockSlots /\ Within(c) \in Nat
         /\ Within(c) = c \/ (c >= BlockSlots /\ Within(c) = BlockSlots)
BY Numbers DEF Within

\* Every set of files is finite and has at most MaxFiles members.
LEMMA FewFiles ==
  ASSUME NEW S \in SUBSET File
  PROVE  IsFiniteSet(S) /\ Cardinality(S) \in 0 .. MaxFiles
<1>1. IsFiniteSet(File) /\ Cardinality(File) = MaxFiles
  BY Numbers, FS_Interval DEF File
<1>2. IsFiniteSet(S) /\ Cardinality(S) <= MaxFiles
  BY <1>1, FS_Subset
<1> QED  BY <1>2, Numbers, FS_CardinalityType

\* A table has finitely many slots.
LEMMA FewSlots ==
  ASSUME NEW n \in Int, NEW S \in SUBSET (0 .. n - 1)
  PROVE  /\ IsFiniteSet(S) /\ Cardinality(S) \in Nat
         /\ n >= 0 => Cardinality(S) <= n
<1>1. IsFiniteSet(0 .. n - 1) /\ (n >= 0 => Cardinality(0 .. n - 1) = n)
  BY FS_Interval
<1>2. IsFiniteSet(S) /\ Cardinality(S) <= Cardinality(0 .. n - 1)
  BY <1>1, FS_Subset
<1> QED  BY <1>1, <1>2, FS_CardinalityType

\* A nonempty set of naturals has a least element.
LEMMA LeastExists ==
  ASSUME NEW S \in SUBSET Nat, S # {}
  PROVE  \E n \in S : \A m \in S : n <= m
<1>1. IsWellFoundedOn(OpToRel(<, Nat), Nat)
  BY NatLessThanWellFounded
<1>2. PICK n \in S : \A m \in S : ~ (<<m, n>> \in OpToRel(<, Nat))
  BY <1>1, WFMin
<1>3. \A m \in S : ~ (m < n)
  BY <1>2 DEF OpToRel
<1> QED  BY <1>3

\* proc_open finds a free slot in a table that has one.
LEMMA FreeSlotIsFree ==
  ASSUME NEW t, NEW c \in Nat, DOMAIN t = 0 .. c - 1, HasFree(t)
  PROVE  FreeSlot(t) \in DOMAIN t /\ t[FreeSlot(t)] = NULL
<1> DEFINE S == {fd \in DOMAIN t : t[fd] = NULL}
<1>1. S \in SUBSET Nat /\ S # {}
  BY DEF HasFree
<1> HIDE DEF S
<1>2. PICK fd \in S : \A g \in S : fd <= g
  BY <1>1, LeastExists
<1>3. fd \in DOMAIN t /\ t[fd] = NULL /\ \A g \in 0 .. fd - 1 : t[g] # NULL
  <2>1. fd \in DOMAIN t /\ t[fd] = NULL  BY <1>2 DEF S
  <2>2. ASSUME NEW g \in 0 .. fd - 1, t[g] = NULL PROVE FALSE
    <3>1. g \in S  BY <2>1, <2>2 DEF S
    <3> QED  BY <1>2, <2>1, <3>1
  <2> QED  BY <2>1, <2>2
<1> QED  BY <1>3 DEF FreeSlot

\* The table proc_open stores into has a free slot, the descriptors of the
\* one it has grown from, and whole chunks, unless its block is full.
LEMMA Room ==
  ASSUME NEW t, NEW k \in Nat, DOMAIN t = 0 .. Within(k * FdChunk) - 1,
         t \in [0 .. Within(k * FdChunk) - 1 -> File \cup {NULL}], ~BlockFull(t)
  PROVE  LET u == TableWithRoom(t) IN
         /\ \E j \in Nat : /\ DOMAIN u = 0 .. Within(j * FdChunk) - 1
                           /\ u \in [0 .. Within(j * FdChunk) - 1 -> File \cup {NULL}]
         /\ FreeSlot(u) \in DOMAIN u /\ u[FreeSlot(u)] = NULL
         /\ \A fd \in DOMAIN t : fd \in DOMAIN u /\ u[fd] = t[fd]
         /\ \A fd \in DOMAIN u : u[fd] # NULL => fd \in DOMAIN t
<1> DEFINE u == TableWithRoom(t)  a == k * FdChunk  c == Within(a)
<1>1. a \in Nat /\ (k + 1) * FdChunk = a + FdChunk /\ a + FdChunk \in Nat
  BY Numbers
<1> HIDE DEF a
<1>2. c \in Nat /\ c <= BlockSlots /\ (c = a \/ c = BlockSlots)
  BY <1>1, WithinBlock, Numbers
<1> HIDE DEF c
<1>3. DOMAIN t = 0 .. c - 1 /\ t \in [0 .. c - 1 -> File \cup {NULL}]
  BY DEF c, a
<1>4. Cardinality(DOMAIN t) = c
  BY <1>2, <1>3, FS_Interval
<1>5. /\ \E j \in Nat : /\ DOMAIN u = 0 .. Within(j * FdChunk) - 1
                        /\ u \in [0 .. Within(j * FdChunk) - 1 -> File \cup {NULL}]
      /\ HasFree(u)
      /\ \A fd \in DOMAIN t : fd \in DOMAIN u /\ u[fd] = t[fd]
      /\ \A fd \in DOMAIN u : u[fd] # NULL => fd \in DOMAIN t
  <2>1. CASE HasFree(t)
    <3>1. u = t  BY <2>1 DEF TableWithRoom
    <3> QED  BY <2>1, <3>1
  <2>2. CASE ~HasFree(t)
    <3>1. c # BlockSlots
      BY <1>4, <2>2 DEF BlockFull
    <3>2. c = a /\ c < BlockSlots
      BY <1>2, <3>1, Numbers
    <3> DEFINE d == Within(c + FdChunk)
    <3>3. d \in Nat /\ c < d
      <4>1. c + FdChunk \in Nat /\ c < c + FdChunk
        BY <1>2, Numbers
      <4>2. d \in Nat /\ (d = c + FdChunk \/ d = BlockSlots)
        BY <4>1, WithinBlock
      <4> QED  BY <3>2, <4>1, <4>2
    <3>4. d = Within((k + 1) * FdChunk)
      BY <1>1, <3>2
    <3>5. u = [fd \in 0 .. d - 1 |-> IF fd \in 0 .. c - 1 THEN t[fd] ELSE NULL]
      <4>1. u = Grown(t)
        BY <2>2 DEF TableWithRoom
      <4> QED  BY <1>3, <1>4, <4>1 DEF Grown
    <3> HIDE DEF d
    <3>6. DOMAIN u = 0 .. d - 1 /\ u \in [0 .. d - 1 -> File \cup {NULL}]
      BY <1>3, <3>5
    <3>7. c \in DOMAIN u /\ u[c] = NULL
      BY <1>2, <3>3, <3>5
    <3>8. \A fd \in 0 .. c - 1 : fd \in DOMAIN u /\ u[fd] = t[fd]
      BY <1>2, <3>3, <3>5
    <3>9. \A fd \in DOMAIN u : u[fd] # NULL => fd \in 0 .. c - 1
      BY <3>5
    <3>10. HasFree(u)
      BY <3>7 DEF HasFree
    <3>11. \E j \in Nat : /\ DOMAIN u = 0 .. Within(j * FdChunk) - 1
                          /\ u \in [0 .. Within(j * FdChunk) - 1 -> File \cup {NULL}]
      <4>1. k + 1 \in Nat  OBVIOUS
      <4> HIDE DEF u
      <4> QED  BY <3>4, <3>6, <4>1
    <3> QED  BY <1>3, <3>8, <3>9, <3>10, <3>11
  <2> QED  BY <2>1, <2>2
<1> HIDE DEF u
<1>6. PICK j \in Nat : DOMAIN u = 0 .. Within(j * FdChunk) - 1
  BY <1>5
<1>7. Within(j * FdChunk) \in Nat
  <2>1. j * FdChunk \in Nat  BY Numbers
  <2> QED  BY <2>1, WithinBlock
<1>8. FreeSlot(u) \in DOMAIN u /\ u[FreeSlot(u)] = NULL
  BY <1>5, <1>6, <1>7, FreeSlotIsFree
<1> QED  BY <1>5, <1>8 DEF u

\* Descriptors are slots of a bounded table, and hold files.
LEMMA UsedBounded ==
  ASSUME TableTypes, NEW p \in Proc
  PROVE  /\ Slots(p) \subseteq 0 .. BlockSlots - 1
         /\ Used(p) \subseteq Slots(p)
         /\ IsFiniteSet(Used(p)) /\ Cardinality(Used(p)) \in 0 .. BlockSlots
         /\ \A fd \in Used(p) : items[p][fd] \in File
<1>1. PICK capacity \in 0 .. BlockSlots : items[p] \in [0 .. capacity - 1 -> File \cup {NULL}]
  BY DEF TableTypes
<1>2. Slots(p) = 0 .. capacity - 1
  BY <1>1 DEF Slots
<1>3. Slots(p) \subseteq 0 .. BlockSlots - 1
  BY <1>2, Numbers
<1>4. Used(p) \in SUBSET (0 .. BlockSlots - 1)
  BY <1>3 DEF Used
<1>5. IsFiniteSet(Used(p)) /\ Cardinality(Used(p)) \in 0 .. BlockSlots
  BY <1>4, FewSlots, Numbers
<1>6. \A fd \in Used(p) : items[p][fd] \in File
  BY <1>1, <1>2 DEF Used
<1> QED  BY <1>3, <1>5, <1>6 DEF Used

-----------------------------------------------------------------------------
(* Opening.                                                                 *)

\* What proc_open does to the table: one more descriptor, of the new file,
\* or none.
LEMMA OpenedTable ==
  ASSUME Tables, NEW n \in Node \cup {NULL}, MayOpen, ~BlockFull(items[0]),
         ProcOpen(0, n), UNCHANGED pid
  PROVE  /\ DOMAIN items' = Proc
         /\ \A p \in Proc \ {0} : items'[p] = items[p]
         /\ \E k \in Nat : DOMAIN items'[0] = 0 .. Within(k * FdChunk) - 1
         /\ \E capacity \in 0 .. BlockSlots :
              items'[0] \in [0 .. capacity - 1 -> File \cup {NULL}]
         /\ \A fd \in Used(0) : items'[0][fd] = items[0][fd]
         /\ n = NULL => Used(0)' = Used(0)
         /\ n # NULL => \E fd : /\ fd \notin Used(0) /\ Used(0)' = Used(0) \cup {fd}
                                /\ items'[0][fd] = opened
<1> DEFINE t == items[0]  u == TableWithRoom(t)  s == FreeSlot(u)
           w == IF n = NULL THEN u ELSE [u EXCEPT ![s] = opened]
<1>1. TableTypes /\ DOMAIN items = Proc
  BY DEF Tables, Fresh
<1>2. PICK k \in Nat : DOMAIN t = 0 .. Within(k * FdChunk) - 1
  BY DEF Tables, Fresh, Slots
<1>3. t \in [0 .. Within(k * FdChunk) - 1 -> File \cup {NULL}]
  BY <1>1, <1>2, Numbers DEF TableTypes
<1>4. opened \in File /\ opened # NULL
  BY <1>1, Numbers DEF MayOpen, TableTypes, File
<1>5. ~BlockFull(t)
  OBVIOUS
<1>6. items' = [items EXCEPT ![0] = w]
  <2>1. CASE n = NULL  BY <2>1 DEF ProcOpen
  <2>2. CASE n # NULL  BY <2>2 DEF ProcOpen
  <2> QED  BY <2>1, <2>2
<1>7. /\ \E j \in Nat : /\ DOMAIN u = 0 .. Within(j * FdChunk) - 1
                        /\ u \in [0 .. Within(j * FdChunk) - 1 -> File \cup {NULL}]
      /\ s \in DOMAIN u /\ u[s] = NULL
      /\ \A fd \in DOMAIN t : fd \in DOMAIN u /\ u[fd] = t[fd]
      /\ \A fd \in DOMAIN u : u[fd] # NULL => fd \in DOMAIN t
  BY <1>2, <1>3, <1>5, Room
<1> HIDE DEF t, u, s
<1>8. PICK j \in Nat : /\ DOMAIN u = 0 .. Within(j * FdChunk) - 1
                       /\ u \in [0 .. Within(j * FdChunk) - 1 -> File \cup {NULL}]
  BY <1>7
<1> DEFINE c == Within(j * FdChunk)
<1>9. c \in 0 .. BlockSlots
  <2>1. j * FdChunk \in Nat  BY Numbers
  <2> QED  BY <2>1, WithinBlock
<1>10. w \in [0 .. c - 1 -> File \cup {NULL}]
  BY <1>4, <1>7, <1>8
<1> HIDE DEF w, c
<1>11. DOMAIN items' = Proc /\ items'[0] = w /\ \A p \in Proc \ {0} : items'[p] = items[p]
  BY <1>1, <1>6, Numbers
<1>12. DOMAIN w = 0 .. c - 1
  BY <1>10
<1>13. Used(0) = {fd \in DOMAIN t : t[fd] # NULL}
  BY DEF Used, Slots, t
<1>14. Used(0)' = {fd \in DOMAIN w : w[fd] # NULL}
  BY <1>11 DEF Used, Slots
<1>15. \A fd \in Used(0) : fd \in DOMAIN u /\ u[fd] = t[fd] /\ fd # s
  BY <1>7, <1>13
<1>16. \A fd \in Used(0) : w[fd] = t[fd]
  BY <1>15 DEF w
<1>17. ASSUME n = NULL PROVE Used(0)' = Used(0)
  BY <1>7, <1>13, <1>14, <1>17 DEF w
<1>18. ASSUME n # NULL
       PROVE  s \notin Used(0) /\ Used(0)' = Used(0) \cup {s} /\ w[s] = opened
  <2>1. w = [u EXCEPT ![s] = opened]
    BY <1>18 DEF w
  <2>2. DOMAIN w = DOMAIN u /\ w[s] = opened /\ \A fd \in DOMAIN u \ {s} : w[fd] = u[fd]
    BY <1>7, <2>1
  <2>3. \A fd : fd \in Used(0)' <=> fd \in Used(0) \/ fd = s
    BY <1>4, <1>7, <1>13, <1>14, <1>15, <2>2
  <2> QED  BY <1>15, <2>2, <2>3
<1>19. \E i \in Nat : DOMAIN items'[0] = 0 .. Within(i * FdChunk) - 1
  BY <1>11, <1>12 DEF c
<1>20. \E capacity \in 0 .. BlockSlots : items'[0] \in [0 .. capacity - 1 -> File \cup {NULL}]
  BY <1>9, <1>10, <1>11
<1>21. \A fd \in Used(0) : items'[0][fd] = items[0][fd]
  BY <1>11, <1>16 DEF t
<1> QED  BY <1>11, <1>17, <1>18, <1>19, <1>20, <1>21

LEMMA OpenTables ==
  ASSUME Tables, NEW n \in Node \cup {NULL}, MayOpen, ~BlockFull(items[0]),
         ProcOpen(0, n), UNCHANGED pid
  PROVE  Tables'
<1>1. /\ DOMAIN items' = Proc
      /\ \A p \in Proc \ {0} : items'[p] = items[p]
      /\ \E k \in Nat : DOMAIN items'[0] = 0 .. Within(k * FdChunk) - 1
      /\ \E capacity \in 0 .. BlockSlots :
           items'[0] \in [0 .. capacity - 1 -> File \cup {NULL}]
      /\ \A fd \in Used(0) : items'[0][fd] = items[0][fd]
  BY OpenedTable
<1>2. TableTypes /\ Fresh /\ Counted /\ Owned /\ Distinct /\ Held /\ FdCount
  BY DEF Tables
<1>3. opened \in File /\ opened # NULL /\ opened # Program /\ file[opened] = NULL
  BY <1>2, Numbers DEF MayOpen, TableTypes, File, Fresh, Program
<1>4. \A p \in Proc \ {0} : Used(p)' = Used(p)
  BY <1>1 DEF Used, Slots
<1>5. \A p \in Proc : \A fd \in Used(p) : items'[p][fd] = items[p][fd]
  BY <1>1
<1>6. \A p \in Proc : \E capacity \in 0 .. BlockSlots :
        items'[p] \in [0 .. capacity - 1 -> File \cup {NULL}]
  BY <1>1, <1>2 DEF TableTypes
<1>7. \A p \in Proc : p >= pid' => Slots(p)' = {}
  <2>1. ASSUME NEW p \in Proc, p >= pid' PROVE Slots(p)' = {}
    <3>1. p # 0 /\ p >= pid  BY <1>2, <2>1 DEF TableTypes
    <3>2. Slots(p) = {}  BY <1>2, <3>1 DEF Fresh
    <3>3. items'[p] = items[p]  BY <1>1, <3>1
    <3> QED  BY <3>2, <3>3 DEF Slots
  <2> QED  BY <2>1
<1>8. \E k \in Nat : Slots(0)' = 0 .. Within(k * FdChunk) - 1
  BY <1>1 DEF Slots
<1>9. CASE n = NULL
  <2>1. Used(0)' = Used(0)  BY <1>9, OpenedTable
  <2>2. UNCHANGED <<count, file, opened, refcount>>  BY <1>9 DEF ProcOpen
  <2>3. \A p \in Proc : Used(p)' = Used(p)  BY <1>4, <2>1
  <2>4. TableTypes'  BY <1>2, <1>6, <2>2 DEF TableTypes
  <2>5. Fresh'  BY <1>1, <1>2, <1>7, <1>8, <2>2 DEF Fresh
  <2>6. Counted'  BY <1>2, <2>2 DEF Counted, On
  <2>7. Owned'  BY <1>2, <1>5, <2>2, <2>3 DEF Owned, Live
  <2>8. Distinct'  BY <1>2, <1>5, <2>3 DEF Distinct
  <2>9. Held'  BY <1>2, <1>5, <2>2, <2>3 DEF Held, Live
  <2>10. FdCount'  BY <1>2, <2>1, <2>2 DEF FdCount
  <2> QED  BY <2>4, <2>5, <2>6, <2>7, <2>8, <2>9, <2>10 DEF Tables
<1>10. CASE n # NULL
  <2>1. PICK s : s \notin Used(0) /\ Used(0)' = Used(0) \cup {s} /\ items'[0][s] = opened
    BY <1>10, OpenedTable
  <2>2. /\ count' = [count EXCEPT ![0] = CountAfterOpen(0)]
        /\ file' = [file EXCEPT ![opened] = n]
        /\ opened' = opened + 1
        /\ refcount' = Referenced(n)
    BY <1>10 DEF ProcOpen
  <2>3. n \in Node  BY <1>10
  <2>4. Live' = Live \cup {opened}
    BY <1>2, <1>3, <1>10, <2>2 DEF Live, TableTypes
  <2>5. \A m \in Node \ {n} : On(m)' = On(m)
    BY <1>2, <1>3, <2>2, <2>3, Numbers DEF On, TableTypes
  <2>6. On(n)' = On(n) \cup {opened} /\ opened \notin On(n)
    BY <1>2, <1>3, <2>2, <2>3, Numbers DEF On, TableTypes
  <2>7. Cardinality(On(n)') = Cardinality(On(n)) + 1
    <3>1. IsFiniteSet(On(n))  BY FewFiles DEF On
    <3> QED  BY <2>6, <3>1, FS_AddElement
  <2>8. Counted'
    <3>1. \A m \in Node : refcount[m] = Cardinality(On(m))
      BY <1>2 DEF Counted
    <3>2. refcount'[n] = refcount[n] + 1 /\ \A m \in Node \ {n} : refcount'[m] = refcount[m]
      BY <1>2, <2>2, <2>3 DEF Referenced, TableTypes
    <3>3. \A m \in Node : refcount'[m] = Cardinality(On(m)')
      BY <2>5, <2>7, <3>1, <3>2
    <3> QED  BY <3>3 DEF Counted
  <2>9. file' \in [File -> Node \cup {NULL}]
    BY <1>2, <2>2, <2>3 DEF TableTypes
  <2>10. refcount' \in [Node -> 0 .. MaxFiles]
    <3>1. \A m \in Node : Cardinality(On(m)') \in 0 .. MaxFiles
      BY FewFiles DEF On
    <3>2. DOMAIN refcount' = Node /\ refcount' = [m \in Node |-> refcount'[m]]
      BY <1>2, <2>2 DEF Referenced, TableTypes
    <3> QED  BY <2>8, <3>1, <3>2 DEF Counted
  <2>11. IsFiniteSet(Used(0)) /\ Cardinality(Used(0)') = Cardinality(Used(0)) + 1
    <3>1. IsFiniteSet(Used(0))  BY <1>2, UsedBounded, Numbers
    <3> QED  BY <2>1, <3>1, FS_AddElement
  <2>12. FdCount'
    BY <1>2, <2>2, <2>11, Numbers DEF FdCount, CountAfterOpen, TableTypes
  <2>13. opened' \in 1 .. MaxFiles
    BY <1>2, <2>2, Numbers DEF MayOpen, TableTypes
  <2>14. count' \in [Proc -> 0 .. BlockSlots]
    <3>1. Cardinality(Used(0)') \in 0 .. BlockSlots
      <4>1. PICK capacity \in 0 .. BlockSlots :
              items'[0] \in [0 .. capacity - 1 -> File \cup {NULL}]
        BY <1>1
      <4>2. Used(0)' \in SUBSET (0 .. BlockSlots - 1)
        BY <4>1, Numbers DEF Used, Slots
      <4> QED  BY <4>2, FewSlots, Numbers
    <3>2. count'[0] \in 0 .. BlockSlots
      BY <2>12, <3>1 DEF FdCount
    <3> QED  BY <1>2, <2>2, <3>2, Numbers DEF TableTypes
  <2>15. TableTypes'
    BY <1>2, <1>6, <2>9, <2>10, <2>13, <2>14 DEF TableTypes
  <2>16. Fresh'
    <3>1. \A f \in File : f >= opened' => file'[f] = NULL
      BY <1>2, <2>2 DEF Fresh, TableTypes, File
    <3> QED  BY <1>1, <1>7, <1>8, <3>1 DEF Fresh
  <2>17. Owned'
    <3>1. \A p \in Proc : \A fd \in Used(p) : items'[p][fd] \in Live' \ {Program}
      BY <1>2, <1>5, <2>4 DEF Owned
    <3>2. items'[0][s] \in Live' \ {Program}
      BY <1>3, <2>1, <2>4
    <3> QED  BY <1>4, <2>1, <3>1, <3>2 DEF Owned
  <2>18. \A p \in Proc : \A fd \in Used(p) : items'[p][fd] # opened
    BY <1>2, <1>3, <1>5 DEF Owned, Live
  <2>19. Distinct'
    <3> SUFFICES ASSUME NEW p \in Proc, NEW q \in Proc,
                        NEW fd \in Used(p)', NEW g \in Used(q)',
                        items'[p][fd] = items'[q][g]
                 PROVE  p = q /\ fd = g
      BY DEF Distinct
    <3>1. fd \in Used(p) \/ (p = 0 /\ fd = s)  BY <1>4, <2>1
    <3>2. g \in Used(q) \/ (q = 0 /\ g = s)  BY <1>4, <2>1
    <3>3. CASE fd \in Used(p) /\ g \in Used(q)
      BY <1>2, <1>5, <3>3 DEF Distinct
    <3>4. CASE fd \in Used(p) /\ q = 0 /\ g = s
      BY <2>1, <2>18, <3>4
    <3>5. CASE g \in Used(q) /\ p = 0 /\ fd = s
      BY <2>1, <2>18, <3>5
    <3> QED  BY <3>1, <3>2, <3>3, <3>4, <3>5
  <2>20. Held'
    <3>1. \A f \in Live \ {Program} : \E p \in Proc : \E fd \in Used(p) : items[p][fd] = f
      BY <1>2 DEF Held
    <3>2. \A p \in Proc : Used(p) \subseteq Used(p)'
      BY <1>4, <2>1
    <3>3. \A f \in Live \ {Program} : \E p \in Proc : \E fd \in Used(p)' : items'[p][fd] = f
      BY <1>5, <3>1, <3>2
    <3>4. \E p \in Proc : \E fd \in Used(p)' : items'[p][fd] = opened
      BY <2>1, Numbers
    <3> QED  BY <2>4, <3>3, <3>4 DEF Held
  <2> QED  BY <2>8, <2>12, <2>15, <2>16, <2>17, <2>19, <2>20 DEF Tables
<1> QED  BY <1>9, <1>10

-----------------------------------------------------------------------------
(* Closing.                                                                 *)

\* An open descriptor is a used one.
LEMMA OpenIsUsed == \A p \in Proc : \A fd : IsOpen(p, fd) <=> fd \in Used(p)
BY DEF IsOpen, Used

\* Emptying the descriptors D of the first process and closing their files.
LEMMA CloseTables ==
  ASSUME Tables, NEW D \in SUBSET Used(0), VfsClose({items[0][fd] : fd \in D}),
         UNCHANGED <<opened, pid>>,
         DOMAIN items' = Proc,
         \A p \in Proc \ {0} : items'[p] = items[p],
         \E k \in Nat : DOMAIN items'[0] = 0 .. Within(k * FdChunk) - 1,
         \E capacity \in 0 .. BlockSlots :
           items'[0] \in [0 .. capacity - 1 -> File \cup {NULL}],
         Used(0)' = Used(0) \ D,
         \A fd \in Used(0) \ D : items'[0][fd] = items[0][fd],
         count' = [count EXCEPT ![0] = Cardinality(Used(0) \ D)]
  PROVE  Tables'
<1> DEFINE fs == {items[0][fd] : fd \in D}
<1>1. TableTypes /\ Fresh /\ Counted /\ Owned /\ Distinct /\ Held /\ FdCount
  BY DEF Tables
<1>2. \A p \in Proc \ {0} : Used(p)' = Used(p)
  BY DEF Used, Slots
<1>3. /\ \A fd \in D : items[0][fd] \in fs
      /\ \A f \in fs : \E fd \in D : f = items[0][fd]
      /\ fs \subseteq File
  BY <1>1, UsedBounded, Numbers
<1>4. /\ refcount' = [n \in Node |-> refcount[n] - Uses(n, fs)]
      /\ file' = [f \in File |-> IF f \in fs THEN NULL ELSE file[f]]
  BY DEF VfsClose
<1> HIDE DEF fs
<1>5. Live' = Live \ fs
  BY <1>4 DEF Live
<1>6. \A n \in Node : On(n)' = On(n) \ fs
  BY <1>4, Numbers DEF On
<1>7. \A n \in Node : refcount'[n] = Cardinality(On(n)')
  <2> SUFFICES ASSUME NEW n \in Node PROVE refcount'[n] = Cardinality(On(n)')
    OBVIOUS
  <2>1. On(n) \cap fs = {f \in fs : file[f] = n}
    BY <1>3 DEF On
  <2>2. Uses(n, fs) = Cardinality(On(n) \cap fs)
    BY <2>1 DEF Uses
  <2>3. IsFiniteSet(On(n))
    BY FewFiles DEF On
  <2>4. Cardinality(On(n) \ fs) = Cardinality(On(n)) - Cardinality(On(n) \cap fs)
    BY <2>3, FS_Difference
  <2>5. refcount[n] = Cardinality(On(n))
    BY <1>1 DEF Counted
  <2>6. refcount'[n] = refcount[n] - Uses(n, fs)
    BY <1>4
  <2> QED  BY <1>6, <2>2, <2>4, <2>5, <2>6
<1>8. Counted'
  BY <1>7 DEF Counted
<1>9. refcount' \in [Node -> 0 .. MaxFiles]
  <2>1. \A n \in Node : Cardinality(On(n)') \in 0 .. MaxFiles
    BY FewFiles DEF On
  <2> QED  BY <1>4, <1>7, <2>1
<1>10. file' \in [File -> Node \cup {NULL}]
  BY <1>1, <1>4 DEF TableTypes
<1>11. \A p \in Proc : \E capacity \in 0 .. BlockSlots :
         items'[p] \in [0 .. capacity - 1 -> File \cup {NULL}]
  BY <1>1 DEF TableTypes
<1>12. FdCount'
  <2>1. count'[0] = Cardinality(Used(0) \ D)
    BY <1>1, Numbers DEF TableTypes
  <2> QED  BY <2>1 DEF FdCount
<1>13. count' \in [Proc -> 0 .. BlockSlots]
  <2>1. /\ IsFiniteSet(Used(0)) /\ Cardinality(Used(0)) \in 0 .. BlockSlots
        /\ Used(0) \subseteq 0 .. BlockSlots - 1
    BY <1>1, UsedBounded, Numbers
  <2>2. Cardinality(Used(0) \ D) \in 0 .. BlockSlots
    BY <2>1, FewSlots, Numbers
  <2> QED  BY <1>1, <2>2 DEF TableTypes
<1>14. TableTypes'
  BY <1>1, <1>9, <1>10, <1>11, <1>13 DEF TableTypes
<1>15. Fresh'
  <2>1. \A f \in File : f >= opened' => file'[f] = NULL
    BY <1>1, <1>4 DEF Fresh
  <2>2. ASSUME NEW p \in Proc, p >= pid' PROVE Slots(p)' = {}
    <3>1. p # 0 /\ p >= pid  BY <1>1, <2>2 DEF TableTypes
    <3>2. Slots(p) = {}  BY <1>1, <3>1 DEF Fresh
    <3>3. items'[p] = items[p]  BY <3>1
    <3> QED  BY <3>2, <3>3 DEF Slots
  <2>3. \E k \in Nat : Slots(0)' = 0 .. Within(k * FdChunk) - 1
    BY DEF Slots
  <2> QED  BY <2>1, <2>2, <2>3 DEF Fresh
<1> DEFINE Rest(p) == IF p = 0 THEN Used(0) \ D ELSE Used(p)
<1>16. \A p \in Proc : Used(p)' = Rest(p)
  BY <1>2
<1>17. \A p \in Proc : \A fd \in Rest(p) : fd \in Used(p) /\ items'[p][fd] = items[p][fd]
  OBVIOUS
<1>18. \A p \in Proc : \A fd \in Used(p) : fd \in Rest(p) <=> items[p][fd] \notin fs
  <2> SUFFICES ASSUME NEW p \in Proc, NEW fd \in Used(p)
               PROVE  fd \in Rest(p) <=> items[p][fd] \notin fs
    OBVIOUS
  <2>1. CASE items[p][fd] \in fs
    <3>1. PICK g \in D : items[p][fd] = items[0][g]  BY <1>3, <2>1
    <3>2. p = 0 /\ fd = g  BY <1>1, <3>1, Numbers DEF Distinct
    <3> QED  BY <2>1, <3>2
  <2>2. CASE items[p][fd] \notin fs
    BY <1>3, <2>2
  <2> QED  BY <2>1, <2>2
<1> HIDE DEF Rest
<1>19. Owned'
  BY <1>1, <1>5, <1>16, <1>17, <1>18 DEF Owned
<1>20. Distinct'
  BY <1>1, <1>16, <1>17 DEF Distinct
<1>21. Held'
  <2> SUFFICES ASSUME NEW f \in Live' \ {Program}
               PROVE  \E p \in Proc : \E fd \in Used(p)' : items'[p][fd] = f
    BY DEF Held
  <2>1. f \in Live \ {Program} /\ f \notin fs  BY <1>5
  <2>2. PICK p \in Proc : \E fd \in Used(p) : items[p][fd] = f  BY <1>1, <2>1 DEF Held
  <2>3. PICK fd \in Used(p) : items[p][fd] = f  BY <2>2
  <2>4. fd \in Rest(p)  BY <1>18, <2>1, <2>3
  <2> QED  BY <1>16, <1>17, <2>3, <2>4
<1> QED  BY <1>8, <1>12, <1>14, <1>15, <1>19, <1>20, <1>21 DEF Tables

-----------------------------------------------------------------------------
(* Forking.                                                                 *)

\* Slots rounded up to a chunk hold the descriptors, if the block does.
LEMMA Ceiling ==
  ASSUME NEW n \in Nat
  PROVE  WholeChunks(n) \in Nat /\ n <= WholeChunks(n) /\ WholeChunks(n) < n + FdChunk
         /\ \E k \in Nat : WholeChunks(n) = k * FdChunk
<1> DEFINE F == FdChunk  q == (n + F - 1) \div F
<1>1. F \in Nat /\ F > 0
  BY Numbers
<1> HIDE DEF F
<1>2. q \in Nat /\ q * F <= n + F - 1 /\ n + F - 1 < (q + 1) * F
  BY <1>1
<1> HIDE DEF q
<1>3. (q + 1) * F = q * F + F
  BY <1>1, <1>2
<1>4. q * F \in Nat
  BY <1>1, <1>2
<1>5. n <= q * F
  BY <1>1, <1>2, <1>3, <1>4
<1>6. WholeChunks(n) = q * F
  BY DEF WholeChunks, q, F
<1> QED  BY <1>1, <1>2, <1>4, <1>5, <1>6 DEF F

LEMMA ChildTable ==
  ASSUME NEW n \in Nat, n <= BlockSlots
  PROVE  LET c == Within(WholeChunks(n)) IN c \in 0 .. BlockSlots /\ n <= c
<1>1. WholeChunks(n) \in Nat /\ n <= WholeChunks(n)
  BY Ceiling
<1> DEFINE w == WholeChunks(n)
<1> HIDE DEF w
<1>2. w \in Nat /\ n <= w
  BY <1>1 DEF w
<1>3. Within(w) \in 0 .. BlockSlots /\ n <= Within(w)
  BY <1>2, WithinBlock, Numbers
<1> QED  BY <1>3 DEF w

\* The slots sys_fork reads are the descriptors, when none of them is empty.
LEMMA ForkReadsUsed ==
  ASSUME Tables, NEW fds, fds = 0 .. count[0] - 1, ~ \E fd \in fds : ~IsOpen(0, fd)
  PROVE  fds = Used(0)
<1>1. TableTypes /\ FdCount
  BY DEF Tables
<1>2. count[0] \in Nat
  BY <1>1, Numbers DEF TableTypes
<1>3. Cardinality(fds) = count[0] /\ IsFiniteSet(fds)
  BY <1>2, FS_Interval
<1>4. fds \in SUBSET Used(0)
  BY OpenIsUsed, Numbers
<1>5. IsFiniteSet(Used(0))
  BY <1>1, UsedBounded, Numbers
<1> QED  BY <1>1, <1>3, <1>4, <1>5, FS_Subset DEF FdCount

\* Files opened one after the other are as many as the descriptors they are for.
LEMMA ShiftKeepsCount ==
  ASSUME NEW b \in Int, NEW G, IsFiniteSet(G), G \subseteq Int,
         NEW H, \A fd \in G : b + fd \in H, \A f \in H : \E fd \in G : f = b + fd
  PROVE  IsFiniteSet(H) /\ Cardinality(H) = Cardinality(G)
<1> DEFINE m == [fd \in G |-> b + fd]
<1>1. m \in [G -> H]
  OBVIOUS
<1>2. \A x, y \in G : m[x] = m[y] => x = y
  OBVIOUS
<1>3. \A f \in H : \E fd \in G : m[fd] = f
  OBVIOUS
<1> HIDE DEF m
<1>4. m \in Bijection(G, H)
  BY <1>1, <1>2, <1>3 DEF Bijection, Injection, Surjection, IsInjective
<1>5. ExistsBijection(G, H)
  BY <1>4 DEF ExistsBijection
<1> QED  BY <1>5, FS_Bijection

\* The step of sys_fork that returns.
Forked ==
  LET fds == Used(0) IN
  /\ items' = [items EXCEPT ![pid] =
       [fd \in 0 .. Within(WholeChunks(count[0])) - 1 |->
          IF fd \in fds THEN opened + fd ELSE NULL]]
  /\ file' = [f \in File |-> IF f - opened \in fds THEN NodeOf(0, f - opened) ELSE file[f]]
  /\ opened' = opened + Cardinality(fds)
  /\ refcount' = [v \in Node |-> refcount[v] + Cardinality({fd \in fds : NodeOf(0, fd) = v})]
  /\ pid' = pid + 1
  /\ UNCHANGED count

LEMMA ForkTables ==
  ASSUME Tables, pid < MaxProcs, opened + count[0] <= MaxFiles,
         Used(0) = 0 .. count[0] - 1, Forked
  PROVE  Tables'
<1> DEFINE n == count[0]  fds == Used(0)
           c == Within(WholeChunks(n))
           table == [fd \in 0 .. c - 1 |-> IF fd \in fds THEN opened + fd ELSE NULL]
<1>1. TableTypes /\ Fresh /\ Counted /\ Owned /\ Distinct /\ Held /\ FdCount
  BY DEF Tables
<1>2. /\ n \in Nat /\ n <= BlockSlots /\ opened \in Nat /\ opened >= 1
      /\ pid \in Nat /\ pid >= 1 /\ pid \in Proc
  BY <1>1, Numbers DEF TableTypes, Proc
<1>3. fds = 0 .. n - 1 /\ Cardinality(fds) = n /\ IsFiniteSet(fds)
  <2> HIDE DEF n, fds
  <2>1. IsFiniteSet(0 .. n - 1) /\ Cardinality(0 .. n - 1) = n
    <3>1. n - 1 \in Int /\ n - 1 - 0 + 1 = n /\ (0 > n - 1 => n = 0)
      BY <1>2
    <3> QED  BY <3>1, FS_Interval
  <2>2. fds = 0 .. n - 1  BY DEF fds, n
  <2> QED  BY <2>1, <2>2
<1>4. PICK k \in Nat : Slots(0) = 0 .. Within(k * FdChunk) - 1
  BY <1>1 DEF Fresh
<1>7. c \in Nat /\ n <= c /\ c <= BlockSlots
  <2>1. c \in 0 .. BlockSlots /\ n <= c
    BY <1>2, ChildTable
  <2> HIDE DEF c
  <2> QED  BY <2>1, Numbers
<1>8. /\ items' = [items EXCEPT ![pid] = table]
      /\ file' = [f \in File |-> IF f - opened \in fds THEN NodeOf(0, f - opened) ELSE file[f]]
      /\ opened' = opened + n
      /\ refcount' = [v \in Node |-> refcount[v] + Cardinality({fd \in fds : NodeOf(0, fd) = v})]
      /\ pid' = pid + 1
      /\ UNCHANGED count
  BY <1>3 DEF Forked
<1>9. \A fd \in fds : opened + fd \in File /\ opened + fd # NULL /\ opened + fd # Program
  BY <1>2, <1>3, Numbers DEF File, Program
<1>10. table \in [0 .. c - 1 -> File \cup {NULL}]
  BY <1>9
<1>11. /\ DOMAIN table = 0 .. c - 1
       /\ \A fd \in fds : fd \in DOMAIN table /\ table[fd] = opened + fd
       /\ \A fd \in DOMAIN table : fd \notin fds => table[fd] = NULL
  BY <1>2, <1>3, <1>7
<1> HIDE DEF table, c, fds, n
<1>12. /\ DOMAIN items' = Proc /\ items'[pid] = table
       /\ \A p \in Proc \ {pid} : items'[p] = items[p]
  BY <1>1, <1>2, <1>8 DEF Fresh
<1>13. \A p \in Proc : p # pid => Used(p)' = Used(p)
  BY <1>12 DEF Used, Slots
<1>14. \A p \in Proc : p = pid => Used(p)' = fds /\ Used(p) = {}
  <2>1. Slots(pid) = {}  BY <1>1, <1>2 DEF Fresh
  <2>2. {fd \in DOMAIN table : table[fd] # NULL} = fds
    BY <1>9, <1>11
  <2> QED  BY <1>12, <2>1, <2>2 DEF Used, Slots
<1> DEFINE made == {opened + fd : fd \in fds}
<1>15. /\ \A f \in File : f \in made <=> f - opened \in fds
       /\ made \subseteq File /\ made \cap Live = {}
  <2>1. \A f \in File : f \in made <=> f - opened \in fds
    BY <1>2, <1>3 DEF File, n
  <2>2. made \subseteq File  BY <1>9
  <2>3. \A fd \in fds : opened + fd >= opened  BY <1>2, <1>3
  <2>4. \A fd \in fds : file[opened + fd] = NULL  BY <1>1, <1>9, <2>3 DEF Fresh
  <2> QED  BY <2>1, <2>2, <2>4 DEF Live
<1>16. \A fd \in fds : NodeOf(0, fd) \in Node /\ NodeOf(0, fd) # NULL
  <2>1. \A fd \in fds : items[0][fd] \in Live  BY <1>1, Numbers DEF Owned, fds
  <2> QED  BY <1>1, <2>1, Numbers DEF NodeOf, Live, TableTypes
<1>17. \A fd \in fds : file'[opened + fd] = NodeOf(0, fd)
  <2> SUFFICES ASSUME NEW fd \in fds PROVE file'[opened + fd] = NodeOf(0, fd)
    OBVIOUS
  <2>1. (opened + fd) - opened = fd  BY <1>2, <1>3
  <2> QED  BY <1>8, <1>9, <2>1
<1>18. \A f \in File \ made : file'[f] = file[f]
  BY <1>8, <1>15
<1>19. Live' = Live \cup made
  <2>1. \A f \in made : file'[f] # NULL
    BY <1>16, <1>17
  <2> QED  BY <1>15, <1>18, <2>1 DEF Live
<1>20. file' \in [File -> Node \cup {NULL}]
  <2>1. \A f \in made : file'[f] \in Node
    BY <1>16, <1>17
  <2>2. \A f \in File : file'[f] \in Node \cup {NULL}
    BY <1>1, <1>18, <2>1 DEF TableTypes
  <2> QED  BY <1>8, <2>2
<1>21. \A v \in Node : refcount'[v] = Cardinality(On(v)')
  <2> SUFFICES ASSUME NEW v \in Node PROVE refcount'[v] = Cardinality(On(v)')
    OBVIOUS
  <2> DEFINE G == {fd \in fds : NodeOf(0, fd) = v}  H == {opened + fd : fd \in G}
  <2>1. On(v)' = On(v) \cup H /\ On(v) \cap H = {}
    <3>1. \A f \in made : file'[f] = v <=> f \in H
      BY <1>2, <1>3, <1>17 DEF n
    <3>2. H \subseteq made
      OBVIOUS
    <3>3. \A f \in File \ made : file'[f] = v <=> file[f] = v
      BY <1>18
    <3>4. \A f \in made : file[f] # v
      BY <1>15, Numbers DEF Live
    <3> HIDE DEF H, made
    <3> QED  BY <1>15, <3>1, <3>2, <3>3, <3>4 DEF On
  <2>2. IsFiniteSet(G) /\ G \subseteq Int
    <3>1. G \in SUBSET fds  OBVIOUS
    <3>2. IsFiniteSet(G)  BY <1>3, <3>1, FS_Subset
    <3>3. fds \subseteq Int  BY <1>2, <1>3
    <3> QED  BY <3>1, <3>2, <3>3
  <2> HIDE DEF G
  <2>3. IsFiniteSet(H) /\ Cardinality(H) = Cardinality(G)
    <3>1. (\A fd \in G : opened + fd \in H) /\ \A f \in H : \E fd \in G : f = opened + fd
      OBVIOUS
    <3> HIDE DEF H
    <3>2. opened \in Int  BY <1>2
    <3> QED  BY <2>2, <3>1, <3>2, ShiftKeepsCount, Zenon
  <2>4. IsFiniteSet(On(v)) /\ Cardinality(On(v)) \in Nat
    BY FewFiles, Numbers DEF On
  <2>5. Cardinality(G) \in Nat
    BY <2>2, FS_CardinalityType
  <2> HIDE DEF H
  <2>6. Cardinality(On(v) \cup H) = Cardinality(On(v)) + Cardinality(H)
    <3>1. Cardinality(On(v) \cap H) = 0
      BY <2>1, FS_EmptySet
    <3>2. Cardinality(On(v) \cup H) = Cardinality(On(v)) + Cardinality(H) - Cardinality(On(v) \cap H)
      BY <2>3, <2>4, FS_Union
    <3> QED  BY <2>3, <2>4, <2>5, <3>1, <3>2
  <2>7. refcount'[v] = refcount[v] + Cardinality(G)
    BY <1>8 DEF G
  <2>8. refcount[v] = Cardinality(On(v))
    BY <1>1 DEF Counted
  <2> QED  BY <2>1, <2>3, <2>6, <2>7, <2>8
<1>22. Counted'
  BY <1>21 DEF Counted
<1>23. refcount' \in [Node -> 0 .. MaxFiles]
  <2>1. \A v \in Node : Cardinality(On(v)') \in 0 .. MaxFiles
    BY FewFiles DEF On
  <2> QED  BY <1>8, <1>21, <2>1
<1>24. TableTypes'
  <2>1. \A p \in Proc : \E capacity \in 0 .. BlockSlots :
          items'[p] \in [0 .. capacity - 1 -> File \cup {NULL}]
    <3>1. c \in 0 .. BlockSlots  BY <1>7, Numbers
    <3>2. items'[pid] \in [0 .. c - 1 -> File \cup {NULL}]  BY <1>10, <1>12
    <3>3. \A p \in Proc \ {pid} : \E capacity \in 0 .. BlockSlots :
            items'[p] \in [0 .. capacity - 1 -> File \cup {NULL}]
      BY <1>1, <1>12 DEF TableTypes
    <3> QED  BY <3>1, <3>2, <3>3
  <2>2. opened' \in 1 .. MaxFiles
    BY <1>2, <1>8, Numbers DEF n
  <2>3. pid' \in 1 .. MaxProcs
    BY <1>2, <1>8, Numbers
  <2> QED  BY <1>1, <1>8, <1>20, <1>23, <2>1, <2>2, <2>3 DEF TableTypes
<1>25. Fresh'
  <2>1. \A f \in File : f >= opened' => file'[f] = NULL
    <3> SUFFICES ASSUME NEW f \in File, f >= opened' PROVE file'[f] = NULL
      OBVIOUS
    <3>1. f - opened \notin fds /\ f >= opened
      BY <1>2, <1>3, <1>8 DEF File
    <3> QED  BY <1>1, <1>8, <3>1 DEF Fresh
  <2>2. ASSUME NEW p \in Proc, p >= pid' PROVE Slots(p)' = {}
    <3>1. p # pid /\ p >= pid  BY <1>2, <1>8, <2>2 DEF Proc
    <3>2. Slots(p) = {}  BY <1>1, <3>1 DEF Fresh
    <3>3. items'[p] = items[p]  BY <1>12, <3>1
    <3> QED  BY <3>2, <3>3 DEF Slots
  <2>3. \E i \in Nat : Slots(0)' = 0 .. Within(i * FdChunk) - 1
    <3>1. 0 \in Proc \ {pid}  BY <1>2, Numbers
    <3>2. items'[0] = items[0]  BY <1>12, <3>1
    <3> QED  BY <1>4, <3>2 DEF Slots
  <2> QED  BY <1>12, <2>1, <2>2, <2>3 DEF Fresh
<1>26. \A p \in Proc : \A fd \in Used(p) : p # pid /\ items'[p][fd] = items[p][fd]
  BY <1>12, <1>14
<1>27. \A fd \in fds : items'[pid][fd] = opened + fd
  BY <1>11, <1>12
<1>28. \A p \in Proc : \A fd \in Used(p)' : fd \in Used(p) \/ (p = pid /\ fd \in fds)
  BY <1>13, <1>14
<1>29. Owned'
  <2>1. \A fd \in fds : opened + fd \in Live' \ {Program}
    BY <1>9, <1>19
  <2>2. \A p \in Proc : \A fd \in Used(p) : items'[p][fd] \in Live' \ {Program}
    BY <1>1, <1>19, <1>26 DEF Owned
  <2> QED  BY <1>27, <1>28, <2>1, <2>2 DEF Owned
<1>30. Distinct'
  <2> SUFFICES ASSUME NEW p \in Proc, NEW q \in Proc,
                      NEW fd \in Used(p)', NEW g \in Used(q)',
                      items'[p][fd] = items'[q][g]
               PROVE  p = q /\ fd = g
    BY DEF Distinct
  <2>1. fd \in Used(p) \/ (p = pid /\ fd \in fds)  BY <1>28
  <2>2. g \in Used(q) \/ (q = pid /\ g \in fds)  BY <1>28
  <2>3. \A r \in Proc : \A h \in Used(r) : items'[r][h] \in Live
    BY <1>1, <1>26 DEF Owned
  <2>4. CASE fd \in Used(p) /\ g \in Used(q)
    BY <1>1, <1>26, <2>4 DEF Distinct
  <2>5. CASE fd \in Used(p) /\ q = pid /\ g \in fds
    BY <1>15, <1>27, <2>3, <2>5
  <2>6. CASE g \in Used(q) /\ p = pid /\ fd \in fds
    BY <1>15, <1>27, <2>3, <2>6
  <2>7. CASE p = pid /\ q = pid /\ fd \in fds /\ g \in fds
    <3>1. opened + fd = opened + g  BY <1>27, <2>7
    <3> QED  BY <1>2, <1>3, <2>7, <3>1
  <2> QED  BY <2>1, <2>2, <2>4, <2>5, <2>6, <2>7
<1>31. Held'
  <2>1. \A p \in Proc : Used(p) \subseteq Used(p)'
    BY <1>13, <1>14
  <2>2. \A f \in Live \ {Program} : \E p \in Proc : \E fd \in Used(p)' : items'[p][fd] = f
    BY <1>1, <1>26, <2>1 DEF Held
  <2>3. \A f \in made : \E p \in Proc : \E fd \in Used(p)' : items'[p][fd] = f
    BY <1>2, <1>14, <1>27
  <2> QED  BY <1>19, <2>2, <2>3 DEF Held
<1>32. FdCount'
  <2>1. Used(0)' = Used(0)  BY <1>2, <1>13, Numbers
  <2> QED  BY <1>1, <1>8, <2>1 DEF FdCount
<1> QED  BY <1>22, <1>24, <1>25, <1>29, <1>30, <1>31, <1>32 DEF Tables

-----------------------------------------------------------------------------
(* The contents of files.                                                   *)

\* What opening and forking leave of the invariants about contents: all.
LEMMA MoreReferences ==
  ASSUME IInv, UNCHANGED <<priv, data>>,
         \A n \in Node : priv[n] # NULL => ops'[n] = ops[n],
         \A n \in Node : refcount'[n] >= refcount[n]
  PROVE  Written' /\ ContentsFreedWhenClosed'
<1>1. Written /\ ContentsFreedWhenClosed /\ TableTypes
  BY DEF IInv, Tables
<1>2. Written'
  BY <1>1 DEF Written
<1>3. \A n \in Node : refcount'[n] = 0 => refcount[n] = 0
  BY <1>1 DEF TableTypes
<1> QED  BY <1>1, <1>2, <1>3 DEF ContentsFreedWhenClosed

\* A close frees what the last reference to a file kept, and nothing else.
LEMMA CloseContents ==
  ASSUME IInv, NEW fs \in SUBSET File, VfsClose(fs), UNCHANGED <<ops, priv>>
  PROVE  /\ Written' /\ ContentsFreedWhenClosed'
         /\ data' \in [Data -> {"unborn", "live", "freed"}]
         /\ \A n \in Node : priv[n] # NULL /\ data[priv[n]] = "live" =>
              data'[priv[n]] = "live" \/ refcount'[n] = 0
<1>1. Written /\ ContentsFreedWhenClosed /\ TableTypes /\ NodeTypes
  BY DEF IInv, Tables
<1>2. /\ refcount' = [n \in Node |-> refcount[n] - Uses(n, fs)]
      /\ data' = [d \in Data |-> IF \E n \in Released(fs) : priv[n] = d
                                 THEN "freed" ELSE data[d]]
  BY DEF VfsClose
<1>3. \A n \in Node : Uses(n, fs) \in Nat
  <2> SUFFICES ASSUME NEW n \in Node PROVE Uses(n, fs) \in Nat
    OBVIOUS
  <2>1. {f \in fs : file[f] = n} \in SUBSET File  OBVIOUS
  <2> QED  BY <2>1, FewFiles, Numbers DEF Uses
<1>4. \A n \in Node : priv[n] # NULL => priv[n] \in Data
  BY <1>1 DEF NodeTypes
<1>5. data' \in [Data -> {"unborn", "live", "freed"}]
  BY <1>1, <1>2 DEF NodeTypes
<1>6. \A n \in Released(fs) : n \in Node /\ priv[n] # NULL /\ refcount'[n] = 0
  BY <1>1, <1>2 DEF Released, Releases, TableTypes
<1>7. \A n \in Node : priv[n] # NULL /\ Uses(n, fs) > 0 /\ refcount'[n] = 0 => n \in Released(fs)
  BY <1>1, <1>2, <1>3 DEF Released, Releases, TableTypes, Written
<1>8. Written'
  BY <1>1, <1>2, <1>4 DEF Written
<1>9. \A n \in Node : priv[n] # NULL /\ refcount'[n] = 0 => data'[priv[n]] = "freed"
  <2> SUFFICES ASSUME NEW n \in Node, priv[n] # NULL, refcount'[n] = 0
               PROVE  data'[priv[n]] = "freed"
    OBVIOUS
  <2>1. CASE Uses(n, fs) > 0
    <3>1. n \in Released(fs)  BY <1>7, <2>1
    <3> QED  BY <1>2, <1>4, <3>1
  <2>2. CASE Uses(n, fs) = 0
    <3>1. refcount[n] = 0  BY <1>1, <1>2, <2>2 DEF TableTypes
    <3>2. data[priv[n]] = "freed"  BY <1>1, <3>1 DEF ContentsFreedWhenClosed
    <3> QED  BY <1>2, <1>4, <3>2
  <2> QED  BY <1>3, <2>1, <2>2
<1>10. \A d \in Data : data'[d] # "unborn" => \E n \in Node : priv[n] = d
  BY <1>1, <1>2, <1>6 DEF ContentsFreedWhenClosed
<1>11. ContentsFreedWhenClosed'
  BY <1>1, <1>9, <1>10 DEF ContentsFreedWhenClosed
<1>12. ASSUME NEW n \in Node, priv[n] # NULL, data[priv[n]] = "live"
       PROVE  data'[priv[n]] = "live" \/ refcount'[n] = 0
  <2>1. CASE n \in Released(fs)  BY <1>6, <2>1
  <2>2. CASE n \notin Released(fs)
    <3>1. \A m \in Released(fs) : priv[m] # priv[n]
      BY <1>1, <1>6, <1>12, <2>2 DEF ContentsFreedWhenClosed
    <3> QED  BY <1>2, <1>4, <1>12, <3>1
  <2> QED  BY <2>1, <2>2
<1> QED  BY <1>5, <1>8, <1>11, <1>12

\* The vnode of a descriptor exists and counts it.
LEMMA NodeOfDescriptor ==
  ASSUME Tables, NEW fd \in Used(0)
  PROVE  /\ items[0][fd] \in File
         /\ NodeOf(0, fd) \in Node /\ refcount[NodeOf(0, fd)] > 0
<1>1. TableTypes /\ Counted /\ Owned
  BY DEF Tables
<1>2. items[0][fd] \in Live
  BY <1>1, Numbers DEF Owned
<1> DEFINE n == NodeOf(0, fd)
<1>3. n \in Node /\ items[0][fd] \in On(n)
  BY <1>1, <1>2, Numbers DEF NodeOf, Live, On, TableTypes
<1> HIDE DEF n
<1>4. IsFiniteSet(On(n)) /\ Cardinality(On(n)) # 0 /\ Cardinality(On(n)) \in Nat
  <2>1. IsFiniteSet(On(n)) /\ Cardinality(On(n)) \in Nat  BY FewFiles, Numbers DEF On
  <2> QED  BY <1>3, <2>1, FS_EmptySet
<1>5. refcount[n] > 0
  BY <1>1, <1>3, <1>4 DEF Counted
<1> QED  BY <1>2, <1>3, <1>5 DEF n, Live

\* The first write to a file allocates what it keeps.
LEMMA WriteContents ==
  ASSUME IInv, NEW n \in Node, refcount[n] > 0, NeedsData(n), NEW d \in Data,
         data[d] = "unborn", priv' = [priv EXCEPT ![n] = d],
         data' = [data EXCEPT ![d] = "live"], UNCHANGED <<ops, refcount>>
  PROVE  /\ Written' /\ ContentsFreedWhenClosed'
         /\ priv' \in [Node -> Data \cup {NULL}]
         /\ data' \in [Data -> {"unborn", "live", "freed"}]
         /\ \A m \in Node : priv[m] # NULL /\ data[priv[m]] = "live" =>
              priv'[m] = priv[m] /\ data'[priv[m]] = "live"
<1>1. Written /\ ContentsFreedWhenClosed /\ NodeTypes
  BY DEF IInv
<1>2. \A m \in Node : priv[m] # NULL => priv[m] \in Data /\ priv[m] # d
  BY <1>1 DEF NodeTypes, Written
<1>3. /\ priv'[n] = d /\ \A m \in Node \ {n} : priv'[m] = priv[m]
      /\ data'[d] = "live" /\ \A e \in Data \ {d} : data'[e] = data[e]
  BY <1>1 DEF NodeTypes
<1>4. ops[n] = "ramfile" /\ priv[n] = NULL
  BY DEF NeedsData
<1>5. Written'
  BY <1>1, <1>2, <1>3, <1>4 DEF Written
<1>6. \A m \in Node : priv'[m] # NULL /\ refcount'[m] = 0 => data'[priv'[m]] = "freed"
  BY <1>1, <1>2, <1>3 DEF ContentsFreedWhenClosed
<1>7. \A l, m \in Node : priv'[l] # NULL /\ priv'[l] = priv'[m] => l = m
  BY <1>1, <1>2, <1>3 DEF ContentsFreedWhenClosed
<1>8. \A e \in Data : data'[e] # "unborn" => \E m \in Node : priv'[m] = e
  <2>1. ASSUME NEW e \in Data \ {d}, data'[e] # "unborn"
        PROVE  \E m \in Node : priv'[m] = e
    <3>1. PICK m \in Node : priv[m] = e
      BY <1>1, <1>3, <2>1 DEF ContentsFreedWhenClosed
    <3>2. e # NULL  BY Numbers
    <3> QED  BY <1>3, <1>4, <3>1, <3>2
  <2> QED  BY <1>3, <2>1
<1>9. ContentsFreedWhenClosed'
  BY <1>6, <1>7, <1>8 DEF ContentsFreedWhenClosed
<1>10. priv' \in [Node -> Data \cup {NULL}] /\ data' \in [Data -> {"unborn", "live", "freed"}]
  BY <1>1 DEF NodeTypes
<1> QED  BY <1>2, <1>3, <1>4, <1>5, <1>9, <1>10

-----------------------------------------------------------------------------
(* The invariants hold initially and after every system call.               *)

LEMMA TypesAre == TypeOK <=> TableTypes /\ NodeTypes
BY DEF TypeOK, TableTypes, NodeTypes

LEMMA InitInv == Init => IInv
<1> SUFFICES ASSUME Init PROVE IInv
  OBVIOUS
<1>1. /\ refcount = [n \in Node |-> IF n = Jwm THEN 1 ELSE 0]
      /\ priv = [n \in Node |-> NULL] /\ data = [d \in Data |-> "unborn"]
      /\ file = [f \in File |-> IF f = Program THEN Jwm ELSE NULL]
      /\ opened = 1 /\ items = [p \in Proc |-> <<>>] /\ count = [p \in Proc |-> 0]
      /\ pid = 1 /\ exited = FALSE /\ halted = "no"
  BY DEF Init
<1>2. Jwm \in Node /\ Jwm # NULL
  BY Numbers DEF Permanent, Jwm, Root
<1>3. DOMAIN <<>> = {} /\ <<>> \in [0 .. 0 - 1 -> File \cup {NULL}]
  OBVIOUS
<1>4. \A p \in Proc : Slots(p) = {} /\ Used(p) = {}
  BY <1>1, <1>3 DEF Slots, Used
<1>5. TableTypes
  <2>1. refcount \in [Node -> 0 .. MaxFiles] /\ file \in [File -> Node \cup {NULL}]
    BY <1>1, <1>2, Numbers, FilesAssumption
  <2>2. opened \in 1 .. MaxFiles /\ pid \in 1 .. MaxProcs /\ count \in [Proc -> 0 .. BlockSlots]
    BY <1>1, Numbers, FilesAssumption
  <2>3. \A p \in Proc : \E capacity \in 0 .. BlockSlots :
          items[p] \in [0 .. capacity - 1 -> File \cup {NULL}]
    <3>1. 0 \in 0 .. BlockSlots  BY Numbers
    <3>2. \A p \in Proc : items[p] \in [0 .. 0 - 1 -> File \cup {NULL}]  BY <1>1, <1>3
    <3> QED  BY <3>1, <3>2
  <2> QED  BY <2>1, <2>2, <2>3 DEF TableTypes
<1>6. NodeTypes
  <2>1. /\ ops \in [Node -> Ops \cup {NULL}]
        /\ parent \in [Node -> {Root, Ipc, Dev, NULL}]
    BY DEF Init, Ops
  <2> QED  BY <1>1, <2>1 DEF NodeTypes
<1>7. Fresh
  <2>1. \A f \in File : f >= opened => file[f] = NULL
    BY <1>1 DEF Program
  <2>2. 0 .. Within(0 * FdChunk) - 1 = {}
    BY Numbers DEF Within
  <2>3. Slots(0) = 0 .. Within(0 * FdChunk) - 1
    BY <1>4, <2>2, Numbers
  <2>4. \E k \in Nat : Slots(0) = 0 .. Within(k * FdChunk) - 1
    BY <2>3
  <2> QED  BY <1>1, <1>4, <2>1, <2>4 DEF Fresh
<1>8. Counted
  <2>1. On(Jwm) = {Program}
    BY <1>1, <1>2, Numbers DEF On
  <2>2. \A n \in Node \ {Jwm} : On(n) = {}
    BY <1>1, Numbers DEF On
  <2> QED  BY <1>1, <1>2, <2>1, <2>2, FS_EmptySet, FS_Singleton DEF Counted
<1>9. Owned /\ Distinct
  BY <1>4 DEF Owned, Distinct
<1>10. Held
  BY <1>1 DEF Held, Live
<1>11. FdCount
  BY <1>1, <1>4, Numbers, FS_EmptySet DEF FdCount
<1>12. Written /\ ContentsFreedWhenClosed
  BY <1>1 DEF Written, ContentsFreedWhenClosed
<1> QED  BY <1>5, <1>6, <1>7, <1>8, <1>9, <1>10, <1>11, <1>12 DEF IInv, Tables

\* A step that leaves the tables alone.
LEMMA SameTables ==
  ASSUME Tables, UNCHANGED <<refcount, file, opened, items, count, pid>>
  PROVE  Tables'
<1>1. \A p \in Proc : Used(p)' = Used(p) /\ Slots(p)' = Slots(p)
  BY DEF Used, Slots
<1>2. \A n \in Node : On(n)' = On(n)
  BY DEF On
<1>3. Live' = Live
  BY DEF Live
<1>4. TableTypes'  BY DEF Tables, TableTypes
<1>5. Fresh'  BY <1>1, Numbers DEF Tables, Fresh
<1>6. Counted'  BY <1>2 DEF Tables, Counted
<1>7. Owned'  BY <1>1, <1>3 DEF Tables, Owned
<1>8. Distinct'  BY <1>1 DEF Tables, Distinct
<1>9. Held'  BY <1>1, <1>3 DEF Tables, Held
<1>10. FdCount'  BY <1>1, Numbers DEF Tables, FdCount
<1> QED  BY <1>4, <1>5, <1>6, <1>7, <1>8, <1>9, <1>10 DEF Tables

\* A step that only stops the machine.
LEMMA OnlyStops ==
  ASSUME IInv, UNCHANGED <<nodeVars, file, opened, tableVars, pid>>,
         exited' \in BOOLEAN, halted' \in {"no", "panic", "fault", "hung"}
  PROVE  IInv'
<1>1. Tables'  BY SameTables DEF IInv, nodeVars, tableVars
<1>2. NodeTypes'  BY DEF IInv, NodeTypes, nodeVars
<1>3. Written' /\ ContentsFreedWhenClosed'
  BY DEF IInv, Written, ContentsFreedWhenClosed, nodeVars
<1> QED  BY <1>1, <1>2, <1>3 DEF IInv

\* What a path resolves to.
LEMMA LookupNode ==
  ASSUME NEW path \in Path
  PROVE  /\ Lookup(path) \subseteq Node \cup {NULL}
         /\ path.node \in Node
         /\ NULL \in Lookup(path) => path.leaf /\ path.node \in {Root, Ipc, Dev}
<1>1. /\ path.node \in Permanent
      /\ path.leaf => path.node \in {Root, Ipc, Dev}
  <2>1. {Root, Ipc, Dev} \subseteq Permanent
    BY DEF Permanent, Root, Ipc, Dev, Jwm
  <2>2. \/ path \in [node : Permanent, leaf : {FALSE}]
        \/ path \in [node : {Root, Ipc, Dev}, leaf : {TRUE}]
    BY PathAssumption
  <2>3. ASSUME path \in [node : Permanent, leaf : {FALSE}]
        PROVE  path.node \in Permanent /\ path.leaf = FALSE
    BY <2>3
  <2>4. ASSUME path \in [node : {Root, Ipc, Dev}, leaf : {TRUE}]
        PROVE  path.node \in {Root, Ipc, Dev}
    BY <2>4
  <2> QED  BY <2>1, <2>2, <2>3, <2>4
<1>2. path.node \in Node /\ path.node # NULL
  BY <1>1, Numbers
<1> QED  BY <1>1, <1>2 DEF Lookup

\* Opening raises at most one count, and only counts.
LEMMA OpenReferences ==
  ASSUME Tables, NEW n \in Node \cup {NULL}, ProcOpen(0, n)
  PROVE  \A m \in Node : refcount'[m] >= refcount[m]
<1>1. refcount \in [Node -> 0 .. MaxFiles]
  BY DEF Tables, TableTypes
<1>2. CASE UNCHANGED refcount
  BY <1>1, <1>2, Numbers
<1>3. CASE n # NULL /\ refcount' = Referenced(n)
  BY <1>1, <1>3, Numbers DEF Referenced
<1> QED  BY <1>2, <1>3 DEF ProcOpen

\* proc_open, at the end of an open or a creat.
LEMMA OpenedInv ==
  ASSUME IInv, NEW m \in Node \cup {NULL}, MayOpen, ProcOpen(0, m),
         UNCHANGED <<priv, data, pid, exited>>,
         ops' \in [Node -> Ops \cup {NULL}], parent' \in [Node -> {Root, Ipc, Dev, NULL}],
         \A l \in Node : priv[l] # NULL => ops'[l] = ops[l]
  PROVE  IInv'
<1>1. Tables' /\ halted' \in {"no", "panic", "fault", "hung"}
  <2>1. CASE BlockFull(items[0])
    <3>1. halted' = "fault" /\ UNCHANGED <<tableVars, file, opened, refcount>>
      BY <2>1 DEF ProcOpen
    <3> QED  BY <3>1, SameTables DEF IInv, tableVars
  <2>2. CASE ~BlockFull(items[0])
    <3>1. UNCHANGED halted
      BY <2>2 DEF ProcOpen
    <3>2. halted' \in {"no", "panic", "fault", "hung"}
      BY <3>1 DEF IInv, NodeTypes
    <3>3. Tables'
      BY <2>2, OpenTables DEF IInv
    <3> QED  BY <3>2, <3>3
  <2> QED  BY <2>1, <2>2
<1>2. \A l \in Node : refcount'[l] >= refcount[l]
  BY OpenReferences DEF IInv
<1>3. Written' /\ ContentsFreedWhenClosed'
  BY <1>2, MoreReferences
<1>4. NodeTypes'
  BY <1>1 DEF IInv, NodeTypes
<1> QED  BY <1>1, <1>3, <1>4 DEF IInv

LEMMA OpenInv ==
  ASSUME IInv, NEW path \in Path, SysOpen(path)
  PROVE  IInv'
<1>1. PICK n \in Lookup(path) : ProcOpen(0, n)
  BY DEF SysOpen
<1>2. n \in Node \cup {NULL}
  BY LookupNode
<1>3. MayOpen /\ UNCHANGED <<ops, parent, priv, data, pid, exited>>
  BY DEF SysOpen
<1>4. /\ ops' \in [Node -> Ops \cup {NULL}] /\ parent' \in [Node -> {Root, Ipc, Dev, NULL}]
      /\ \A l \in Node : priv[l] # NULL => ops'[l] = ops[l]
  BY <1>3 DEF IInv, NodeTypes
<1> QED  BY <1>1, <1>2, <1>3, <1>4, OpenedInv

LEMMA CreatInv ==
  ASSUME IInv, NEW path \in Path, NEW kind \in {"ramfile", "ramdir"}, SysCreat(path, kind)
  PROVE  IInv'
<1>1. MayOpen /\ UNCHANGED <<priv, data, pid, exited>>
  BY DEF SysCreat
<1>2. PICK n \in Lookup(path) :
        IF n # NULL
        THEN ProcOpen(0, n) /\ UNCHANGED <<ops, parent>>
        ELSE CreatNew(path, kind)
  BY DEF SysCreat
<1>3. CASE n # NULL
  <2>1. n \in Node  BY <1>3, LookupNode
  <2>2. ProcOpen(0, n) /\ UNCHANGED <<ops, parent>>  BY <1>2, <1>3
  <2>3. /\ ops' \in [Node -> Ops \cup {NULL}] /\ parent' \in [Node -> {Root, Ipc, Dev, NULL}]
        /\ \A l \in Node : priv[l] # NULL => ops'[l] = ops[l]
    BY <2>2 DEF IInv, NodeTypes
  <2> QED  BY <1>1, <2>1, <2>2, <2>3, OpenedInv
<1>4. CASE n = NULL /\ ops[path.node] # "ramdir"
  <2>1. halted' = "panic" /\ UNCHANGED <<ops, parent, refcount, file, opened, tableVars>>
    BY <1>2, <1>4 DEF CreatNew
  <2>2. exited' \in BOOLEAN  BY <1>1 DEF IInv, NodeTypes
  <2> QED  BY <1>1, <2>1, <2>2, OnlyStops DEF nodeVars, tableVars
<1>5. CASE n = NULL /\ ops[path.node] = "ramdir"
  <2>1. PICK made \in Node \ Permanent :
          /\ ~Exists(made)
          /\ ops' = [ops EXCEPT ![made] = kind]
          /\ parent' = [parent EXCEPT ![made] = path.node]
          /\ \E m \in OpensAfterCreat(path, made) : ProcOpen(0, m)
    BY <1>2, <1>5 DEF CreatNew
  <2>2. PICK m \in OpensAfterCreat(path, made) : ProcOpen(0, m)
    BY <2>1
  <2>3. m \in Node
    BY <2>1, <2>2, LookupNode DEF OpensAfterCreat
  <2>4. path.node \in {Root, Ipc, Dev}
    BY <1>5, LookupNode
  <2>5. ops' \in [Node -> Ops \cup {NULL}] /\ parent' \in [Node -> {Root, Ipc, Dev, NULL}]
    BY <2>1, <2>4 DEF IInv, NodeTypes, Ops
  <2>6. \A l \in Node : priv[l] # NULL => ops'[l] = ops[l]
    <3>1. priv[made] = NULL
      BY <2>1, Numbers DEF IInv, Written, Exists, Ops
    <3> QED  BY <2>1, <3>1 DEF IInv, NodeTypes
  <2> QED  BY <1>1, <2>2, <2>3, <2>5, <2>6, OpenedInv
<1> QED  BY <1>3, <1>4, <1>5

\* What close and exit have in common: the contents and the types.
LEMMA ClosedInv ==
  ASSUME IInv, NEW fs \in SUBSET File, VfsClose(fs), Tables',
         UNCHANGED <<ops, parent, priv, exited>>,
         halted' \in {"no", "panic", "fault", "hung"}
  PROVE  IInv'
<1>1. /\ Written' /\ ContentsFreedWhenClosed'
      /\ data' \in [Data -> {"unborn", "live", "freed"}]
  BY CloseContents
<1>2. NodeTypes'
  BY <1>1 DEF IInv, NodeTypes
<1> QED  BY <1>1, <1>2 DEF IInv

LEMMA CloseInv ==
  ASSUME IInv, NEW fd \in Fd, SysClose(fd)
  PROVE  IInv'
<1> DEFINE D == {fd}  fs == {items[0][fd]}
<1>1. UNCHANGED <<ops, parent, priv, opened, pid, exited>>
  BY DEF SysClose
<1>2. CASE ~IsOpen(0, fd) \/ CloseFaults(fs)
  <2>1. halted' \in {"fault", "panic"} /\ UNCHANGED <<refcount, data, file, tableVars>>
    BY <1>2 DEF SysClose
  <2>2. exited' \in BOOLEAN  BY <1>1 DEF IInv, NodeTypes
  <2> QED  BY <1>1, <2>1, <2>2, OnlyStops DEF nodeVars, tableVars
<1>3. CASE ~(~IsOpen(0, fd) \/ CloseFaults(fs))
  <2>1. /\ items' = [items EXCEPT ![0][fd] = NULL]
        /\ count' = [count EXCEPT ![0] = @ - 1]
        /\ VfsClose(fs) /\ UNCHANGED halted
    BY <1>3 DEF SysClose, TableAfterClose
  <2>2. fd \in Used(0)
    BY <1>3, OpenIsUsed, Numbers
  <2>3. Tables /\ TableTypes /\ Fresh /\ FdCount
    BY DEF IInv, Tables
  <2>4. fs = {items[0][g] : g \in D}
    OBVIOUS
  <2> DEFINE w == [items[0] EXCEPT ![fd] = NULL]
  <2>5. items' = [items EXCEPT ![0] = w]
    BY <2>1
  <2>6. PICK capacity \in 0 .. BlockSlots : items[0] \in [0 .. capacity - 1 -> File \cup {NULL}]
    BY <2>3, Numbers DEF TableTypes
  <2>7. w \in [0 .. capacity - 1 -> File \cup {NULL}] /\ DOMAIN w = DOMAIN items[0]
    BY <2>6
  <2>8. \A g \in DOMAIN w : w[g] = IF g = fd THEN NULL ELSE items[0][g]
    BY <2>6
  <2> HIDE DEF w
  <2>9. /\ DOMAIN items' = Proc /\ items'[0] = w
        /\ \A p \in Proc \ {0} : items'[p] = items[p]
    BY <2>3, <2>5, Numbers DEF Fresh
  <2>10. \A g : g \in Used(0)' <=> g \in Used(0) /\ g # fd
    BY <2>7, <2>8, <2>9 DEF Used, Slots
  <2>11. Used(0)' = Used(0) \ D
    BY <2>10
  <2>12. \A g \in Used(0) \ D : items'[0][g] = items[0][g]
    BY <2>7, <2>8, <2>9 DEF Used, Slots
  <2>13. \E k \in Nat : DOMAIN items'[0] = 0 .. Within(k * FdChunk) - 1
    BY <2>3, <2>7, <2>9 DEF Fresh, Slots
  <2>14. \E c \in 0 .. BlockSlots : items'[0] \in [0 .. c - 1 -> File \cup {NULL}]
    BY <2>7, <2>9
  <2>15. Cardinality(Used(0) \ D) = count[0] - 1
    <3>1. IsFiniteSet(Used(0))  BY <2>3, UsedBounded, Numbers
    <3>2. Cardinality(Used(0) \ {fd}) = Cardinality(Used(0)) - 1
      BY <2>2, <3>1, FS_RemoveElement
    <3> QED  BY <2>3, <3>2 DEF FdCount
  <2>16. count' = [count EXCEPT ![0] = Cardinality(Used(0) \ D)]
    BY <2>1, <2>15
  <2>17. D \in SUBSET Used(0)  BY <2>2
  <2> HIDE DEF D
  <2>18. VfsClose({items[0][g] : g \in D})
    BY <2>1, <2>4
  <2>19. Tables'
    BY <1>1, <2>3, <2>9, <2>11, <2>12, <2>13, <2>14, <2>16, <2>17, <2>18, CloseTables
  <2>20. fs \in SUBSET File
    BY <2>2, <2>3, UsedBounded, Numbers
  <2>21. halted' \in {"no", "panic", "fault", "hung"}
    BY <2>1 DEF IInv, NodeTypes
  <2> HIDE DEF fs
  <2> QED  BY <1>1, <2>1, <2>19, <2>20, <2>21, ClosedInv
<1> QED  BY <1>2, <1>3

LEMMA ReadInv ==
  ASSUME IInv, NEW fd \in Fd, SysRead(fd)
  PROVE  IInv'
<1>1. UNCHANGED <<nodeVars, file, opened, tableVars, pid, exited>>
  BY DEF SysRead
<1>2. halted' \in {"no", "panic", "fault", "hung"} /\ exited' \in BOOLEAN
  BY DEF SysRead, IInv, NodeTypes
<1> QED  BY <1>1, <1>2, OnlyStops

LEMMA LseekInv ==
  ASSUME IInv, NEW fd \in Fd,
         NEW whence \in {"SEEK_SET", "SEEK_CUR", "SEEK_END"}, SysLseek(fd, whence)
  PROVE  IInv'
<1>1. UNCHANGED <<nodeVars, file, opened, tableVars, pid, exited>>
  BY DEF SysLseek
<1>2. halted' \in {"no", "panic", "fault", "hung"} /\ exited' \in BOOLEAN
  BY DEF SysLseek, IInv, NodeTypes
<1> QED  BY <1>1, <1>2, OnlyStops

LEMMA ForeignInv ==
  ASSUME IInv, NEW fd \in Fd, SysForeign(fd)
  PROVE  IInv'
<1>1. UNCHANGED <<nodeVars, file, opened, tableVars, pid, exited>> /\ halted' = "fault"
  BY DEF SysForeign
<1>2. exited' \in BOOLEAN
  BY <1>1 DEF IInv, NodeTypes
<1> QED  BY <1>1, <1>2, OnlyStops

\* A write that allocates, for the vnode of an open descriptor.
LEMMA Allocates ==
  ASSUME IInv, NEW fd, SysWrite(fd), ~UNCHANGED <<priv, data>>
  PROVE  \E n \in Node, d \in Data :
           /\ refcount[n] > 0 /\ NeedsData(n) /\ data[d] = "unborn"
           /\ priv' = [priv EXCEPT ![n] = d] /\ data' = [data EXCEPT ![d] = "live"]
<1> DEFINE n == NodeOf(0, fd)
<1>1. fd \in Used(0)
  BY OpenIsUsed, Numbers DEF SysWrite
<1>2. n \in Node /\ refcount[n] > 0
  BY <1>1, NodeOfDescriptor DEF IInv
<1>3. NeedsData(n)
  BY DEF SysWrite
<1>4. \E d \in Data : /\ data[d] = "unborn" /\ priv' = [priv EXCEPT ![n] = d]
                      /\ data' = [data EXCEPT ![d] = "live"]
  BY <1>3 DEF SysWrite
<1> QED  BY <1>2, <1>3, <1>4

LEMMA WriteInv ==
  ASSUME IInv, NEW fd \in Fd, SysWrite(fd)
  PROVE  IInv'
<1>1. /\ UNCHANGED <<ops, parent, refcount, file, opened, tableVars, pid, exited>>
      /\ halted' \in {"no", "panic", "fault", "hung"}
  BY DEF SysWrite, IInv, NodeTypes
<1>2. CASE UNCHANGED <<priv, data>>
  <2>1. exited' \in BOOLEAN  BY <1>1 DEF IInv, NodeTypes
  <2> QED  BY <1>1, <1>2, <2>1, OnlyStops DEF nodeVars
<1>3. CASE ~UNCHANGED <<priv, data>>
  <2>1. /\ Written' /\ ContentsFreedWhenClosed'
        /\ priv' \in [Node -> Data \cup {NULL}]
        /\ data' \in [Data -> {"unborn", "live", "freed"}]
    BY <1>1, <1>3, Allocates, WriteContents
  <2>2. Tables'  BY <1>1, SameTables DEF IInv, tableVars
  <2>3. NodeTypes'  BY <1>1, <2>1 DEF IInv, NodeTypes
  <2> QED  BY <2>1, <2>2, <2>3 DEF IInv
<1> QED  BY <1>2, <1>3

\* A fork that returns is Forked, with the descriptors the slots it reads.
LEMMA ForkReturns ==
  ASSUME IInv, SysFork
  PROVE  \/ UNCHANGED <<nodeVars, file, opened, tableVars, pid, exited>> /\ halted' = "fault"
         \/ /\ pid < MaxProcs /\ opened + count[0] <= MaxFiles
            /\ Used(0) = 0 .. count[0] - 1 /\ Forked
            /\ UNCHANGED <<ops, parent, priv, data, exited, halted>>
<1> DEFINE fds == 0 .. count[0] - 1
<1>1. CASE \E fd \in fds : ~IsOpen(0, fd)
  BY <1>1 DEF SysFork, ForkReads, nodeVars, tableVars
<1>2. CASE ~ \E fd \in fds : ~IsOpen(0, fd)
  <2>1. fds = Used(0)
    <3> HIDE DEF fds
    <3>1. fds = 0 .. count[0] - 1  BY DEF fds
    <3> QED  BY <1>2, <3>1, ForkReadsUsed DEF IInv
  <2>2. /\ items' = [items EXCEPT ![pid] =
             [fd \in 0 .. Within(WholeChunks(count[0])) - 1 |->
                IF fd \in fds THEN opened + fd ELSE NULL]]
        /\ file' = [f \in File |-> IF f - opened \in fds
                                   THEN NodeOf(0, f - opened) ELSE file[f]]
        /\ opened' = opened + Cardinality(fds)
        /\ refcount' = [v \in Node |-> refcount[v] +
                          Cardinality({fd \in fds : NodeOf(0, fd) = v})]
        /\ pid' = pid + 1
        /\ UNCHANGED <<ops, parent, priv, data, count, exited, halted>>
    BY <1>2 DEF SysFork, ForkReads
  <2>3. pid < MaxProcs /\ opened + count[0] <= MaxFiles
    BY DEF SysFork
  <2> HIDE DEF fds
  <2>4. Forked
    BY <2>1, <2>2 DEF Forked
  <2>5. Used(0) = 0 .. count[0] - 1
    BY <2>1 DEF fds
  <2> QED  BY <2>2, <2>3, <2>4, <2>5
<1> QED  BY <1>1, <1>2

LEMMA ForkInv ==
  ASSUME IInv, SysFork
  PROVE  IInv'
<1>1. CASE UNCHANGED <<nodeVars, file, opened, tableVars, pid, exited>> /\ halted' = "fault"
  <2>1. exited' \in BOOLEAN  BY <1>1 DEF IInv, NodeTypes
  <2> QED  BY <1>1, <2>1, OnlyStops
<1>2. CASE /\ pid < MaxProcs /\ opened + count[0] <= MaxFiles
           /\ Used(0) = 0 .. count[0] - 1 /\ Forked
           /\ UNCHANGED <<ops, parent, priv, data, exited, halted>>
  <2>1. Tables'  BY <1>2, ForkTables DEF IInv
  <2>2. NodeTypes'  BY <1>2 DEF IInv, NodeTypes
  <2>3. \A n \in Node : refcount'[n] >= refcount[n]
    <3> SUFFICES ASSUME NEW n \in Node PROVE refcount'[n] >= refcount[n]
      OBVIOUS
    <3> DEFINE G == {fd \in Used(0) : NodeOf(0, fd) = n}
    <3>1. IsFiniteSet(Used(0))  BY UsedBounded, Numbers DEF IInv, Tables
    <3>2. G \in SUBSET Used(0)  OBVIOUS
    <3>3. refcount'[n] = refcount[n] + Cardinality(G)  BY <1>2 DEF Forked
    <3> HIDE DEF G
    <3>4. Cardinality(G) \in Nat  BY <3>1, <3>2, FS_Subset, FS_CardinalityType
    <3>5. refcount[n] \in Nat  BY Numbers DEF IInv, Tables, TableTypes
    <3> QED  BY <3>3, <3>4, <3>5
  <2>4. Written' /\ ContentsFreedWhenClosed'  BY <1>2, <2>3, MoreReferences
  <2> QED  BY <2>1, <2>2, <2>4 DEF IInv
<1> QED  BY <1>1, <1>2, ForkReturns

LEMMA ExitInv ==
  ASSUME IInv, SysExit
  PROVE  IInv'
<1>1. UNCHANGED <<nodeVars, file, opened, tableVars, pid, halted>> /\ exited' = TRUE
  BY DEF SysExit
<1>2. halted' \in {"no", "panic", "fault", "hung"}  BY <1>1 DEF IInv, NodeTypes
<1> QED  BY <1>1, <1>2, OnlyStops

LEMMA ClearInv ==
  ASSUME IInv, ProcClear
  PROVE  IInv'
<1> DEFINE fds == 0 .. count[0] - 1  fs == {items[0][fd] : fd \in fds}
           hole == \E fd \in fds : ~IsOpen(0, fd)
<1>1. UNCHANGED <<ops, parent, priv, opened, pid, exited>>
  BY DEF ProcClear
<1>2. CASE hole \/ CloseFaults(fs)
  <2>1. halted' \in {"fault", "panic"} /\ UNCHANGED <<refcount, data, file, tableVars>>
    BY <1>2 DEF ProcClear, ClearCloses
  <2>2. exited' \in BOOLEAN  BY <1>1 DEF IInv, NodeTypes
  <2> QED  BY <1>1, <2>1, <2>2, OnlyStops DEF nodeVars, tableVars
<1>3. CASE ~(hole \/ CloseFaults(fs))
  <2>1. /\ halted' = "panic"
        /\ items' = [items EXCEPT ![0] = <<>>]
        /\ count' = [count EXCEPT ![0] = 0]
        /\ VfsClose(fs)
    BY <1>3 DEF ProcClear, ClearCloses
  <2>2. Tables /\ TableTypes /\ Fresh
    BY DEF IInv, Tables
  <2>3. fds = Used(0)
    <3>1. ~ \E fd \in fds : ~IsOpen(0, fd)  BY <1>3
    <3> HIDE DEF fds
    <3>2. fds = 0 .. count[0] - 1  BY DEF fds
    <3> QED  BY <2>2, <3>1, <3>2, ForkReadsUsed
  <2>4. VfsClose({items[0][fd] : fd \in Used(0)})
    <3> HIDE DEF fds
    <3> QED  BY <2>1, <2>3
  <2>5. DOMAIN <<>> = {} /\ <<>> \in [0 .. 0 - 1 -> File \cup {NULL}]
    OBVIOUS
  <2>6. /\ DOMAIN items' = Proc /\ items'[0] = <<>>
        /\ \A p \in Proc \ {0} : items'[p] = items[p]
    BY <2>1, <2>2, Numbers DEF Fresh
  <2>7. Used(0)' = {}
    BY <2>5, <2>6 DEF Used, Slots
  <2>8. \E k \in Nat : DOMAIN items'[0] = 0 .. Within(k * FdChunk) - 1
    <3>1. 0 .. Within(0 * FdChunk) - 1 = {}  BY Numbers DEF Within
    <3>2. DOMAIN items'[0] = 0 .. Within(0 * FdChunk) - 1  BY <2>5, <2>6, <3>1
    <3> QED  BY <3>2
  <2>9. \E c \in 0 .. BlockSlots : items'[0] \in [0 .. c - 1 -> File \cup {NULL}]
    <3>1. 0 \in 0 .. BlockSlots  BY Numbers
    <3> QED  BY <2>5, <2>6, <3>1
  <2>10. count' = [count EXCEPT ![0] = Cardinality(Used(0) \ Used(0))]
    <3>1. Used(0) \ Used(0) = {}  OBVIOUS
    <3>2. Cardinality(Used(0) \ Used(0)) = 0  BY <3>1, FS_EmptySet
    <3> QED  BY <2>1, <3>2
  <2>11. Used(0)' = Used(0) \ Used(0)  BY <2>7
  <2>12. Tables'
    BY <1>1, <2>2, <2>4, <2>6, <2>8, <2>9, <2>10, <2>11, CloseTables
  <2>13. fs \in SUBSET File
    <3>1. \A fd \in fds : items[0][fd] \in File  BY <2>2, <2>3, UsedBounded, Numbers
    <3> HIDE DEF fds
    <3> QED  BY <3>1
  <2> HIDE DEF fs
  <2> QED  BY <1>1, <2>1, <2>12, <2>13, ClosedInv
<1> QED  BY <1>2, <1>3

LEMMA StutterInv ==
  ASSUME IInv, UNCHANGED vars
  PROVE  IInv'
<1>1. UNCHANGED <<nodeVars, file, opened, tableVars, pid, exited, halted>>
  BY DEF vars
<1>2. exited' \in BOOLEAN /\ halted' \in {"no", "panic", "fault", "hung"}
  BY <1>1 DEF IInv, NodeTypes
<1> QED  BY <1>1, <1>2, OnlyStops

LEMMA NextInv ==
  ASSUME IInv, Next
  PROVE  IInv'
<1>1. CASE \E path \in Path :
             SysOpen(path) \/ \E kind \in {"ramfile", "ramdir"} : SysCreat(path, kind)
  BY <1>1, OpenInv, CreatInv
<1>2. CASE \E fd \in Fd :
             \/ SysClose(fd) \/ SysRead(fd) \/ SysWrite(fd) \/ SysForeign(fd)
             \/ \E whence \in {"SEEK_SET", "SEEK_CUR", "SEEK_END"} : SysLseek(fd, whence)
  BY <1>2, CloseInv, ReadInv, WriteInv, ForeignInv, LseekInv
<1>3. CASE SysFork  BY <1>3, ForkInv
<1>4. CASE SysExit  BY <1>4, ExitInv
<1>5. CASE ProcClear  BY <1>5, ClearInv
<1>6. CASE Stopped  BY <1>6, StutterInv DEF Stopped
<1> QED  BY <1>1, <1>2, <1>3, <1>4, <1>5, <1>6 DEF Next, Syscall

\* The inductive invariant: the tables, the counts and the files agree, what
\* is yet to be opened or forked is empty, and what a file keeps is its own.
THEOREM Invariance == Spec => []IInv
<1>1. IInv /\ [Next]_vars => IInv'
  BY NextInv, StutterInv
<1> QED  BY <1>1, InitInv, PTL DEF Spec

-----------------------------------------------------------------------------
(* The properties.                                                          *)

\* Every variable keeps the type of its C counterpart: no reference count
\* goes below zero, and no count of descriptors above the slots there are.
THEOREM TypesKept == Spec => []TypeOK
<1>1. IInv => TypeOK
  BY TypesAre DEF IInv, Tables
<1> QED  BY <1>1, Invariance, PTL

\* After any system calls the count of a vnode is the number of its open
\* files: it is released when the last one is closed, and not before.
THEOREM RefcountsAreExact == Spec => []RefcountIsOpenFiles
<1>1. IInv => RefcountIsOpenFiles
  <2> SUFFICES ASSUME IInv, NEW n \in Node
               PROVE  refcount[n] = Cardinality({f \in Live : file[f] = n})
    BY DEF RefcountIsOpenFiles
  <2>1. {f \in Live : file[f] = n} = On(n)
    BY Numbers DEF Live, On
  <2> QED  BY <2>1 DEF IInv, Tables, Counted
<1> QED  BY <1>1, Invariance, PTL

\* The descriptors and the open files agree: no file is shared by two
\* descriptors or lost, and fd.count is the number of descriptors, which is
\* what makes it a bound of the table for fork and exit when there is no hole.
THEOREM TablesAgree == Spec => []DescriptorTables
<1>1. IInv => DescriptorTables
  <2> SUFFICES ASSUME IInv PROVE DescriptorTables
    OBVIOUS
  <2>1. TableTypes /\ Owned /\ Distinct /\ Held /\ FdCount
    BY DEF IInv, Tables
  <2>2. ASSUME NEW d \in Descriptor
        PROVE  /\ d[1] \in Proc /\ d[2] \in Used(d[1]) /\ d = <<d[1], d[2]>>
    BY <2>2, OpenIsUsed DEF Descriptor
  <2>3. ASSUME NEW p \in Proc, NEW fd \in Used(p)
        PROVE  <<p, fd>> \in Descriptor /\ FileOf(<<p, fd>>) = items[p][fd]
    <3>1. fd \in 0 .. BlockSlots - 1 /\ IsOpen(p, fd)
      BY <2>1, <2>3, UsedBounded, OpenIsUsed
    <3> QED  BY <3>1 DEF Descriptor, FileOf
  <2>4. \A d \in Descriptor : FileOf(d) \in Live \ {Program}
    BY <2>1, <2>2 DEF Owned, FileOf
  <2>5. \A d, e \in Descriptor : FileOf(d) = FileOf(e) => d = e
    <3> SUFFICES ASSUME NEW d \in Descriptor, NEW e \in Descriptor, FileOf(d) = FileOf(e)
                 PROVE  d = e
      OBVIOUS
    <3>1. d[1] = e[1] /\ d[2] = e[2]
      BY <2>1, <2>2 DEF Distinct, FileOf
    <3> QED  BY <2>2, <3>1
  <2>6. Live \ {Program} \subseteq {FileOf(d) : d \in Descriptor}
    <3> SUFFICES ASSUME NEW f \in Live \ {Program} PROVE \E d \in Descriptor : FileOf(d) = f
      OBVIOUS
    <3>1. PICK p \in Proc : \E fd \in Used(p) : items[p][fd] = f
      BY <2>1 DEF Held
    <3>2. PICK fd \in Used(p) : items[p][fd] = f
      BY <3>1
    <3>3. <<p, fd>> \in Descriptor /\ FileOf(<<p, fd>>) = f
      BY <2>3, <3>2
    <3> QED  BY <3>3
  <2> QED  BY <2>1, <2>4, <2>5, <2>6 DEF DescriptorTables, FdCount, Used
<1> QED  BY <1>1, Invariance, PTL

\* What a file kept has been freed when nobody has it open, and belongs to
\* no other file.
THEOREM ContentsAreFreed == Spec => []ContentsFreedWhenClosed
<1>1. IInv => ContentsFreedWhenClosed
  BY DEF IInv
<1> QED  BY <1>1, Invariance, PTL

\* A slot below the capacity that is not in the block: the block is full.
LEMMA ForeignIsPast ==
  ASSUME Tables, NEW fd \in Fd, Foreign(0, fd)
  PROVE  PastBlock(0)
<1>1. PICK k \in Nat : Slots(0) = 0 .. Within(k * FdChunk) - 1
  BY DEF Tables, Fresh
<1> DEFINE a == k * FdChunk
<1>2. a \in Nat /\ FdChunk \in Nat /\ FdChunk > 0
  BY Numbers
<1>3. WholeChunks(a) = a
  <2>1. (a + FdChunk - 1) \div FdChunk = k
    <3>1. a + FdChunk - 1 >= k * FdChunk /\ a + FdChunk - 1 < (k + 1) * FdChunk
      <4>1. (k + 1) * FdChunk = k * FdChunk + FdChunk  BY <1>2
      <4> QED  BY <1>2, <4>1
    <3> QED  BY <1>2, <3>1
  <2> QED  BY <2>1 DEF WholeChunks
<1> HIDE DEF a
<1>4. Slots(0) = 0 .. Within(a) - 1
  BY <1>1 DEF a
<1>5. Within(a) \in Nat /\ (Within(a) = a \/ Within(a) = BlockSlots)
  BY <1>2, WithinBlock
<1>6. CASE Within(a) = a
  <2>1. Cardinality(Slots(0)) = a
    <3>1. Slots(0) = 0 .. a - 1  BY <1>4, <1>6
    <3> QED  BY <1>2, <3>1, FS_Interval
  <2>2. fd < a /\ fd \notin 0 .. a - 1
    BY <1>3, <1>4, <1>6, <2>1 DEF Foreign, Capacity
  <2>3. fd \in Nat
    BY Numbers DEF Fd
  <2> QED  BY <1>2, <2>2, <2>3
<1>7. CASE Within(a) = BlockSlots
  BY <1>4, <1>7 DEF PastBlock
<1> QED  BY <1>5, <1>6, <1>7

\* So it is when proc_open can neither find a free slot nor add one.
LEMMA FullIsPast ==
  ASSUME Tables, BlockFull(items[0])
  PROVE  PastBlock(0)
<1>1. PICK k \in Nat : Slots(0) = 0 .. Within(k * FdChunk) - 1
  BY DEF Tables, Fresh
<1> DEFINE c == Within(k * FdChunk)
<1>2. c \in Nat
  <2>1. k * FdChunk \in Nat  BY Numbers
  <2> QED  BY <2>1, WithinBlock
<1> HIDE DEF c
<1>3. Slots(0) = 0 .. c - 1
  BY <1>1 DEF c
<1>4. Cardinality(0 .. c - 1) = c
  BY <1>2, FS_Interval
<1>5. c = BlockSlots
  BY <1>3, <1>4 DEF BlockFull, Slots
<1> QED  BY <1>3, <1>5 DEF PastBlock

\* A close faults for a descriptor whose file is stale.
LEMMA CloseIsStale ==
  ASSUME NEW D \in SUBSET Slots(0), \A fd \in D : IsOpen(0, fd),
         NEW fs, fs = {items[0][fd] : fd \in D}, CloseFaults(fs)
  PROVE  StaleFile(0)
<1>1. PICK n \in Released(fs) : Dangling(n)
  BY DEF CloseFaults
<1>2. Uses(n, fs) > 0
  BY <1>1 DEF Released
<1>3. {f \in fs : file[f] = n} # {}
  BY <1>2, FS_EmptySet DEF Uses
<1>4. PICK fd \in D : file[items[0][fd]] = n
  BY <1>3
<1> QED  BY <1>1, <1>4 DEF StaleFile, NodeOf

\* Every page fault of a system call has one of three reasons.
THEOREM FaultsAreExplained == Spec => []FaultsExplained
<1> DEFINE Reason == Hole(0) \/ StaleFile(0) \/ PastBlock(0)
           Same == UNCHANGED <<priv, data, file, tableVars>>
<1>1. Init => FaultsExplained
  BY DEF Init, FaultsExplained
<1>2. ASSUME Reason, Same PROVE Reason'
  BY <1>2 DEF Hole, StaleFile, PastBlock, IsOpen, NodeOf, Dangling, Slots, tableVars
<1> HIDE DEF Reason, Same
<1>3. ASSUME IInv, halted = "no", NEW n, ProcOpen(0, n), UNCHANGED <<priv, data>>
      PROVE  FaultsExplained'
  <2>1. CASE BlockFull(items[0])
    <3>1. Same  BY <1>3, <2>1 DEF ProcOpen, Same
    <3>2. Reason  BY <1>3, <2>1, FullIsPast DEF IInv, Reason
    <3> QED  BY <1>2, <3>1, <3>2 DEF FaultsExplained, Reason
  <2>2. CASE ~BlockFull(items[0])
    <3>1. halted' = "no"  BY <1>3, <2>2 DEF ProcOpen
    <3> QED  BY <3>1 DEF FaultsExplained
  <2> QED  BY <2>1, <2>2
<1>4. ASSUME IInv, NEW path \in Path, SysOpen(path) PROVE FaultsExplained'
  BY <1>3, <1>4 DEF SysOpen, Running
<1>5. ASSUME IInv, NEW path \in Path, NEW kind, SysCreat(path, kind) PROVE FaultsExplained'
  <2>1. halted = "no" /\ UNCHANGED <<priv, data>>  BY <1>5 DEF SysCreat, Running
  <2>2. halted' = "panic" \/ \E n : ProcOpen(0, n)  BY <1>5 DEF SysCreat, CreatNew
  <2>3. ASSUME halted' = "panic" PROVE FaultsExplained'  BY <2>3 DEF FaultsExplained
  <2> QED  BY <1>3, <1>5, <2>1, <2>2, <2>3
<1>6. ASSUME IInv, NEW fd \in Fd, SysClose(fd) PROVE FaultsExplained'
  <2>1. CASE IsOpen(0, fd) /\ CloseFaults({items[0][fd]})
    <3>1. Same  BY <1>6, <2>1 DEF SysClose, Same
    <3>2. {fd} \in SUBSET Slots(0)  BY <2>1 DEF IsOpen
    <3>3. {items[0][fd]} = {items[0][g] : g \in {fd}}  OBVIOUS
    <3>4. \A g \in {fd} : IsOpen(0, g)  BY <2>1
    <3>5. Reason  BY <2>1, <3>2, <3>3, <3>4, CloseIsStale DEF Reason
    <3> QED  BY <1>2, <3>1, <3>5 DEF FaultsExplained, Reason
  <2>2. CASE ~IsOpen(0, fd) /\ Foreign(0, fd)
    <3>1. Same  BY <1>6, <2>2 DEF SysClose, Same
    <3>2. Reason  BY <1>6, <2>2, ForeignIsPast DEF IInv, Reason
    <3> QED  BY <1>2, <3>1, <3>2 DEF FaultsExplained, Reason
  <2>3. CASE ~IsOpen(0, fd) /\ ~Foreign(0, fd)
    <3>1. halted' = "panic"  BY <1>6, <2>3 DEF SysClose
    <3> QED  BY <3>1 DEF FaultsExplained
  <2>4. CASE IsOpen(0, fd) /\ ~CloseFaults({items[0][fd]})
    <3>1. halted' = "no"  BY <1>6, <2>4 DEF SysClose, Running
    <3> QED  BY <3>1 DEF FaultsExplained
  <2> QED  BY <2>1, <2>2, <2>3, <2>4
<1>7. ASSUME NEW fd, IsOpen(0, fd), Dangling(NodeOf(0, fd)) PROVE Reason
  BY <1>7 DEF Reason, StaleFile, IsOpen
<1>8. ASSUME IInv, NEW fd \in Fd, SysRead(fd) \/ SysWrite(fd) PROVE FaultsExplained'
  <2>1. IsOpen(0, fd) /\ halted = "no"
    BY <1>8 DEF SysRead, SysWrite, Running
  <2>2. CASE halted' = "fault"
    <3>1. Dangling(NodeOf(0, fd)) /\ Same
      BY <1>8, <2>1, <2>2 DEF SysRead, SysWrite, Same, nodeVars
    <3> QED  BY <1>2, <1>7, <2>1, <3>1 DEF FaultsExplained, Reason
  <2> QED  BY <2>2 DEF FaultsExplained
<1>9. ASSUME IInv, NEW fd \in Fd, NEW whence, SysLseek(fd, whence) \/ SysForeign(fd)
      PROVE  FaultsExplained'
  <2>1. halted = "no" /\ Same
    BY <1>9 DEF SysLseek, SysForeign, Running, Same, nodeVars
  <2>2. CASE halted' = "fault"
    <3>1. Foreign(0, fd) \/ (IsOpen(0, fd) /\ Dangling(NodeOf(0, fd)))
      BY <1>9, <2>1, <2>2 DEF SysLseek, SysForeign
    <3>2. Reason
      BY <1>7, <1>9, <3>1, ForeignIsPast DEF IInv, Reason
    <3> QED  BY <1>2, <2>1, <3>2 DEF FaultsExplained, Reason
  <2> QED  BY <2>2 DEF FaultsExplained
<1>10. ASSUME SysFork PROVE FaultsExplained'
  <2>1. CASE \E fd \in ForkReads(count[0]) : ~IsOpen(0, fd)
    <3>1. UNCHANGED <<priv, data, file, items, count>>  BY <1>10, <2>1 DEF SysFork
    <3>2. Same  BY <3>1 DEF Same, tableVars
    <3>3. Reason  BY <2>1 DEF Reason, Hole, ForkReads
    <3> QED  BY <1>2, <3>2, <3>3 DEF FaultsExplained, Reason
  <2>2. CASE ~ \E fd \in ForkReads(count[0]) : ~IsOpen(0, fd)
    <3>1. halted' = "no"  BY <1>10, <2>2 DEF SysFork, Running
    <3> QED  BY <3>1 DEF FaultsExplained
  <2> QED  BY <2>1, <2>2
<1>11. ASSUME SysExit PROVE FaultsExplained'
  BY <1>11 DEF SysExit, Running, FaultsExplained
<1>12. ASSUME IInv, ProcClear PROVE FaultsExplained'
  <2> DEFINE fds == 0 .. count[0] - 1  fs == {items[0][fd] : fd \in fds}
  <2>1. CASE halted' = "fault"
    <3>1. CloseFaults(fs) /\ Same /\ \A fd \in fds : IsOpen(0, fd)
      BY <1>12, <2>1 DEF ProcClear, ClearCloses, Same
    <3>2. fds \in SUBSET Slots(0)
      BY <3>1 DEF IsOpen
    <3>3. fs = {items[0][fd] : fd \in fds}
      OBVIOUS
    <3> HIDE DEF fds, fs
    <3>4. Reason
      BY <3>1, <3>2, <3>3, CloseIsStale DEF Reason
    <3> QED  BY <1>2, <3>1, <3>4 DEF FaultsExplained, Reason
  <2> QED  BY <2>1 DEF FaultsExplained
<1>13. ASSUME FaultsExplained, UNCHANGED vars PROVE FaultsExplained'
  BY <1>13 DEF vars, nodeVars, tableVars, FaultsExplained, Hole, StaleFile, PastBlock,
               IsOpen, NodeOf, Dangling, Slots
<1>14. IInv /\ FaultsExplained /\ [Next]_vars => FaultsExplained'
  BY <1>4, <1>5, <1>6, <1>8, <1>9, <1>10, <1>11, <1>12, <1>13
  DEF Next, Syscall, Stopped
<1> QED  BY <1>1, <1>14, Invariance, PTL DEF Spec

\* A fork that returns has copied every descriptor, with its number: the
\* count being exact, the slots it reads are all there are.
THEOREM ForkIsFaithful == Spec => ForkCopiesDescriptors
<1> DEFINE Copied ==
      LET child == items'[pid] IN
      \A fd \in 0 .. BlockSlots - 1 :
        /\ IsOpen(0, fd) <=> fd \in DOMAIN child /\ child[fd] # NULL
        /\ IsOpen(0, fd) => file'[child[fd]] = NodeOf(0, fd)
<1>1. ASSUME IInv, SysFork, pid' # pid PROVE Copied
  <2>1. /\ pid < MaxProcs /\ opened + count[0] <= MaxFiles
        /\ Used(0) = 0 .. count[0] - 1 /\ Forked
    BY <1>1, ForkReturns
  <2> DEFINE fds == Used(0)
             c == Within(WholeChunks(count[0]))
             table == [fd \in 0 .. c - 1 |-> IF fd \in fds THEN opened + fd ELSE NULL]
  <2>2. /\ DOMAIN items = Proc /\ pid \in Proc /\ pid \in Nat
        /\ opened \in Nat /\ count[0] \in Nat
    BY <1>1, <2>1, Numbers DEF IInv, Tables, TableTypes, Fresh, Proc
  <2>3. items'[pid] = table
    BY <2>1, <2>2 DEF Forked
  <2>4. c \in Nat /\ count[0] <= c
    <3>1. count[0] <= BlockSlots
      BY <1>1, Numbers DEF IInv, Tables, TableTypes
    <3>2. c \in 0 .. BlockSlots /\ count[0] <= c
      BY <2>2, <3>1, ChildTable
    <3> HIDE DEF c
    <3> QED  BY <3>2, Numbers
  <2>5. /\ DOMAIN table = 0 .. c - 1
        /\ \A fd \in fds : fd \in DOMAIN table /\ table[fd] = opened + fd
        /\ \A fd \in DOMAIN table : fd \notin fds => table[fd] = NULL
    BY <2>1, <2>2, <2>4
  <2> HIDE DEF table, c, fds
  <2>6. \A fd \in fds : opened + fd \in File /\ opened + fd # NULL
    BY <2>1, <2>2, Numbers DEF File, fds
  <2>7. \A fd \in fds : file'[opened + fd] = NodeOf(0, fd)
    <3> SUFFICES ASSUME NEW fd \in fds PROVE file'[opened + fd] = NodeOf(0, fd)
      OBVIOUS
    <3>1. (opened + fd) - opened = fd  BY <2>1, <2>2 DEF fds
    <3> QED  BY <2>1, <2>6, <3>1 DEF Forked, fds
  <2>8. \A fd : IsOpen(0, fd) <=> fd \in fds
    BY OpenIsUsed, Numbers DEF fds
  <2>9. \A fd : fd \in fds <=> fd \in DOMAIN table /\ table[fd] # NULL
    BY <2>5, <2>6
  <2> QED  BY <2>3, <2>5, <2>7, <2>8, <2>9
<1>2. ASSUME Next, pid' # pid PROVE SysFork
  BY <1>2 DEF Next, Syscall, SysOpen, SysCreat, SysClose, SysRead, SysWrite, SysForeign,
             SysLseek, SysExit, ProcClear, Stopped, vars
<1>3. IInv /\ [Next]_vars => [pid' # pid => Copied]_vars
  BY <1>1, <1>2
<1> QED  BY <1>3, Invariance, PTL DEF Spec, ForkCopiesDescriptors

\* No call takes away what was written to a file but the close of its last
\* descriptor.
THEOREM ContentsAreKept == Spec => ContentsKeptWhileOpen
<1> DEFINE Kept ==
      \A n \in Node : priv[n] # NULL /\ data[priv[n]] = "live" =>
        /\ priv'[n] = priv[n]
        /\ data'[priv[n]] = "live" \/ refcount'[n] = 0
<1>1. ASSUME UNCHANGED <<priv, data>> PROVE Kept
  BY <1>1
<1>2. ASSUME IInv, NEW fs \in SUBSET File, VfsClose(fs), UNCHANGED <<ops, priv>>
      PROVE  Kept
  BY <1>2, CloseContents
<1>3. ASSUME IInv, NEW fd, SysClose(fd) PROVE Kept
  <2>1. CASE UNCHANGED <<priv, data>>  BY <1>1, <2>1
  <2>2. CASE ~UNCHANGED <<priv, data>>
    <3>1. /\ IsOpen(0, fd) /\ VfsClose({items[0][fd]}) /\ UNCHANGED <<ops, priv>>
      BY <1>3, <2>2 DEF SysClose
    <3>2. {items[0][fd]} \in SUBSET File
      BY <1>3, <3>1, OpenIsUsed, UsedBounded, Numbers DEF IInv, Tables
    <3> QED  BY <1>2, <1>3, <3>1, <3>2
  <2> QED  BY <2>1, <2>2
<1>4. ASSUME IInv, ProcClear PROVE Kept
  <2> DEFINE fds == 0 .. count[0] - 1  fs == {items[0][fd] : fd \in fds}
  <2>1. CASE UNCHANGED <<priv, data>>  BY <1>1, <2>1
  <2>2. CASE ~UNCHANGED <<priv, data>>
    <3>1. /\ \A fd \in fds : IsOpen(0, fd)
          /\ VfsClose(fs) /\ UNCHANGED <<ops, priv>>
      BY <1>4, <2>2 DEF ProcClear, ClearCloses
    <3>2. \A fd \in fds : items[0][fd] \in File
      BY <1>4, <3>1, OpenIsUsed, UsedBounded, Numbers DEF IInv, Tables
    <3>3. fs \in SUBSET File
      BY <3>2
    <3> HIDE DEF fs
    <3> QED  BY <1>2, <1>4, <3>1, <3>3
  <2> QED  BY <2>1, <2>2
<1>5. ASSUME IInv, NEW fd, SysWrite(fd) PROVE Kept
  <2>1. CASE UNCHANGED <<priv, data>>  BY <1>1, <2>1
  <2>2. CASE ~UNCHANGED <<priv, data>>
    <3>1. UNCHANGED <<ops, refcount>>  BY <1>5 DEF SysWrite
    <3>2. PICK n \in Node, d \in Data :
            /\ refcount[n] > 0 /\ NeedsData(n) /\ data[d] = "unborn"
            /\ priv' = [priv EXCEPT ![n] = d] /\ data' = [data EXCEPT ![d] = "live"]
      BY <1>5, <2>2, Allocates
    <3> QED  BY <1>5, <3>1, <3>2, WriteContents
  <2> QED  BY <2>1, <2>2
<1> HIDE DEF Kept
<1>6. ASSUME IInv, Next PROVE Kept
  <2>1. CASE UNCHANGED <<priv, data>>  BY <1>1, <2>1
  <2>2. CASE ~UNCHANGED <<priv, data>>
    <3>1. ProcClear \/ \E fd : SysClose(fd) \/ SysWrite(fd)
      BY <1>6, <2>2 DEF Next, Syscall, SysOpen, SysCreat, SysRead, SysForeign, SysLseek, SysFork,
                        SysExit, Stopped, vars, nodeVars
    <3> QED  BY <1>3, <1>4, <1>5, <1>6, <3>1
  <2> QED  BY <2>1, <2>2
<1>7. IInv /\ [Next]_vars => [Kept]_vars
  BY <1>6
<1>8. Spec => [][Kept]_vars
  BY <1>7, Invariance, PTL DEF Spec
<1> QED  BY <1>8 DEF Kept, ContentsKeptWhileOpen
=============================================================================
