---------------------------- MODULE MemoryProofs ----------------------------
(***************************************************************************)
(* Proofs about Memory, for every size of tables, spaces, heap, bitmap and  *)
(* lists: what a frame serves, how long the lists of mappings get, that the *)
(* program's pages are its own, and what the machine stops for.             *)
(*                                                                          *)
(* They rest on what pmm_free does not do: it clears a bit past every bit   *)
(* that is set, so that the bitmap only grows, from its start, and a frame  *)
(* taken is one that nothing has ever used.                                 *)
(***************************************************************************)
EXTENDS Memory, TLAPS, SequenceTheorems, FiniteSetTheorems, WellFoundedInduction

\* The operations on pages of the address space.
Inside == {o \in Op : o.page < HeapEnd}

\* The types of what maps, and of what is left to do.
MapTypes ==
  /\ dirs \in [Space -> [Dir -> Frame \cup {None}]]
  /\ tables \in [Frame -> [Entry -> Frame \cup {None, Image}]]
  /\ items \in [Space -> Seq(Nat)]
  /\ mem \in [Frame -> Value]
WorkTypes ==
  /\ work \in Seq(Inside)
  /\ heap_next \in Nat
  /\ \A b \in blocks : /\ b.page \in Nat /\ b.pages \in Nat /\ b.of \in Use
                       /\ b.page + b.pages <= HeapEnd
StateTypes ==
  /\ stage \in {"boot", "running", "exited", "destroyed"}
  /\ halted \in {"no", "panic", "fault", "overrun", "taken"}

\* The first k frames are marked: the machine stops when the direct map does
\* not reach one of them.
Marked(k) ==
  /\ bitmap = 0 .. k - 1 /\ k <= Frames + 2 /\ k <= TotalBitmap
  /\ halted = "no" => k <= Frames

\* Every entry of a list has cost a frame, two frames are nobody's entry, and a
\* frame never marked has never been a table.
Costs(k) == \A s \in Space : Len(items[s]) + 2 <= k /\ Len(items[s]) + 2 <= Frames
CapacityOK == capacity \in [Space -> 0 .. MaxItems]
\* The kernel's list has fitted so far; a list is outgrown only when device
\* pages left too little room.
Roomy ==
  /\ halted = "no" => Count("kernel") <= MaxItems
  /\ halted = "overrun" => Booted + Devices + Frames - 2 > MaxItems
Unused == \A f \in Frame \ bitmap : \A e \in Entry : tables[f][e] \notin Frame

\* FramesHaveOneOwner, over tables and entries.
OneOwner ==
  /\ \A t, u \in Tables : \A e, g \in Entry :
       tables[t][e] \in Frame /\ tables[t][e] = tables[u][g] => t = u /\ e = g
  /\ \A t \in Tables : \A e \in Entry :
       tables[t][e] \in Frame => tables[t][e] \in bitmap \ Tables
  /\ Tables \subseteq bitmap

IInv ==
  /\ MapTypes /\ WorkTypes /\ StateTypes /\ CapacityOK /\ Roomy /\ Unused /\ OneOwner
  /\ \E k \in Nat : Marked(k) /\ Costs(k)

-----------------------------------------------------------------------------
(* Lemmas about the operators.                                              *)

LEMMA Limits ==
  /\ PerTable \in Nat /\ PerTable > 0 /\ LowTables \in Nat /\ HeapEnd \in Nat
  /\ LowTables * PerTable \in Nat /\ LowTables * PerTable < HeapEnd
  /\ LowTables * PerTable > 1 /\ HeapStart \in Nat
  /\ Frames \in Nat /\ Frames > 1 /\ Skew \in Nat /\ Skew >= Frames + 2
  /\ TotalBitmap \in Nat /\ TotalBitmap > Frames
  /\ MaxItems \in Nat /\ BlockItems \in Nat /\ BlockItems >= MaxItems
  /\ Booted \in Nat /\ Devices \in Nat
  /\ ItemPages \in Nat /\ 0 \in Value
<1> DEFINE L == LowTables * PerTable
<1>1. /\ PerTable \in Nat /\ PerTable > 0 /\ LowTables \in Nat /\ LowTables > 0
      /\ HeapEnd \in Nat /\ HeapEnd > (LowTables + 1) * PerTable
  BY MemoryAssumption
<1>2. L \in Nat /\ (LowTables + 1) * PerTable = L + PerTable
  BY <1>1
<1>3. L > 1
  BY MemoryAssumption
<1> HIDE DEF L
<1>4. L < HeapEnd /\ HeapStart \in Nat
  BY <1>1, <1>2 DEF HeapStart
<1> QED  BY <1>1, <1>2, <1>3, <1>4, MemoryAssumption DEF L

LEMMA Numbers ==
  /\ Frames \in Nat /\ MaxItems \in Nat /\ BlockItems \in Nat /\ BlockItems >= MaxItems
  /\ Booted \in Nat /\ Devices \in Nat
BY MemoryAssumption

\* Entries of a list, counted.
LEMMA Entries ==
  ASSUME NEW n \in Nat, NEW m \in Nat
  PROVE  /\ Booted + Devices + n + m = Booted + Devices + (n + m)
         /\ m <= n /\ Booted + Devices + n <= MaxItems => Booted + Devices + m <= MaxItems
         /\ \A room \in Nat : \A l \in Nat :
              /\ Booted + Devices + n + m > room /\ room >= MaxItems
              /\ n + 2 <= l /\ l + m <= Frames
              => Booted + Devices + Frames - 2 > MaxItems
<1> DEFINE d == Booted + Devices
<1>1. d \in Nat  BY Numbers
<1> HIDE DEF d
<1>2. d + n + m = d + (n + m)  BY <1>1
<1>3. m <= n /\ d + n <= MaxItems => d + m <= MaxItems  BY <1>1, Numbers
<1>4. ASSUME NEW room \in Nat, NEW l \in Nat, d + n + m > room, room >= MaxItems,
             n + 2 <= l, l + m <= Frames
      PROVE  d + Frames - 2 > MaxItems
  BY <1>1, <1>4, Numbers
<1> QED  BY <1>2, <1>3, <1>4 DEF d

\* An address has a directory entry and a table entry.
LEMMA AddressHasEntries ==
  ASSUME NEW p \in Nat, p < HeapEnd
  PROVE  DirOf(p) \in Dir /\ EntryOf(p) \in Entry
<1>1. p \div PerTable \in Nat /\ p % PerTable \in 0 .. PerTable - 1
  BY Limits
<1>2. p \div PerTable <= (HeapEnd - 1) \div PerTable
  <2> DEFINE a == p \div PerTable  b == (HeapEnd - 1) \div PerTable
  <2>1. /\ a \in Nat /\ a * PerTable <= p
        /\ b \in Nat /\ HeapEnd - 1 < (b + 1) * PerTable
    BY Limits
  <2> HIDE DEF a, b
  <2>2. ASSUME a >= b + 1 PROVE FALSE
    <3>1. a * PerTable >= (b + 1) * PerTable  BY <2>1, <2>2, Limits
    <3>2. a * PerTable \in Nat /\ (b + 1) * PerTable \in Nat  BY <2>1, Limits
    <3> QED  BY <2>1, <3>1, <3>2, Limits
  <2>3. a <= b  BY <2>1, <2>2
  <2> QED  BY <2>3 DEF a, b
<1> QED  BY <1>1, <1>2, Limits DEF DirOf, EntryOf, Dir, Entry

\* What is done on pages of the address space is inside.
LEMMA DoIsInside ==
  ASSUME NEW op \in {"kmalloc", "map", "unmap", "kfree", "closefiles", "clear", "copy", "destroyed"},
         NEW s \in Space, NEW p \in Nat, p < HeapEnd, NEW n \in Nat, NEW of \in Use
  PROVE  Do(op, s, p, n, of) \in Inside
BY DEF Do, Inside, Op

LEMMA EachIsInside ==
  ASSUME NEW op \in {"map", "unmap"}, NEW s \in Space,
         NEW p \in Nat, NEW n \in Nat, p + n <= HeapEnd
  PROVE  Each(op, s, p, n) \in Seq(Inside)
<1>1. \A i \in 1 .. n : Do(op, s, p + i - 1, 1, "none") \in Inside
  <2> SUFFICES ASSUME NEW i \in 1 .. n PROVE Do(op, s, p + i - 1, 1, "none") \in Inside
    OBVIOUS
  <2>1. p + i - 1 \in Nat /\ p + i - 1 < HeapEnd  BY Limits
  <2> DEFINE q == p + i - 1
  <2> HIDE DEF q
  <2>2. q \in Nat /\ q < HeapEnd  BY <2>1 DEF q
  <2>3. "none" \in Use  BY DEF Use
  <2>4. 1 \in Nat  OBVIOUS
  <2>5. Do(op, s, q, 1, "none") \in Op  BY <2>2, <2>3 DEF Do, Op
  <2>6. Do(op, s, q, 1, "none").page < HeapEnd  BY <2>2 DEF Do
  <2> QED  BY <2>5, <2>6 DEF q, Inside
<1> DEFINE e == [i \in 1 .. n |-> Do(op, s, p + i - 1, 1, "none")]
<1>2. e \in [1 .. n -> Inside]
  BY <1>1
<1> HIDE DEF e
<1>3. e \in Seq(Inside)
  BY <1>2
<1> QED  BY <1>3 DEF Each, e

\* The next frame is the first unmarked one.
LEMMA NextFrame ==
  ASSUME NEW k \in Nat, NEW f \in PmmNext(0 .. k - 1)
  PROVE  f = k /\ k < TotalBitmap
<1>1. f \in 0 .. TotalBitmap - 1 /\ f \notin 0 .. k - 1 /\ \A j \in 0 .. f - 1 : j \in 0 .. k - 1
  BY DEF PmmNext
<1>2. f >= k  BY <1>1, Limits
<1>3. ASSUME f > k PROVE FALSE
  <2>1. k \in 0 .. f - 1  BY <1>1, <1>3, Limits
  <2> QED  BY <1>1, <2>1
<1> QED  BY <1>1, <1>2, <1>3, Limits

\* Freeing a frame clears no bit.
LEMMA FreeingFreesNothing ==
  ASSUME NEW k \in Nat, Marked(k), halted = "no", NEW f \in Frame \cup {Image}
  PROVE  PmmFree(f) = bitmap
<1>1. f \in Frame => f + Skew \notin bitmap
  BY Limits DEF Marked, Frame
<1>2. f = Image => f + Skew \notin bitmap
  BY Limits DEF Marked, Image
<1> QED  BY <1>1, <1>2 DEF PmmFree

\* Removing a mapping leaves a list that is not longer.
LEMMA RemoveShortens ==
  ASSUME NEW list \in Seq(Nat), NEW p
  PROVE  RemoveMapping(list, p) \in Seq(Nat) /\ Len(RemoveMapping(list, p)) <= Len(list)
<1>1. CASE \A i \in 1 .. Len(list) : list[i] # p
  BY <1>1 DEF RemoveMapping
<1>2. CASE ~ \A i \in 1 .. Len(list) : list[i] # p
  <2> DEFINE first == CHOOSE i \in 1 .. Len(list) :
                        list[i] = p /\ \A j \in 1 .. i - 1 : list[j] # p
             new == [i \in 1 .. Len(list) - 1 |-> IF i = first THEN list[Len(list)] ELSE list[i]]
  <2> HIDE DEF first
  <2>1. Len(list) \in Nat /\ Len(list) >= 1 /\ \A i \in 1 .. Len(list) : list[i] \in Nat
    BY <1>2
  <2>2. new \in [1 .. Len(list) - 1 -> Nat]
    BY <2>1
  <2>3. new \in Seq(Nat) /\ Len(new) = Len(list) - 1
    <3>1. Len(list) - 1 \in Nat  BY <2>1
    <3> HIDE DEF new
    <3> QED  BY <2>2, <3>1
  <2>4. RemoveMapping(list, p) = new
    BY <1>2 DEF RemoveMapping, first
  <2> QED  BY <2>1, <2>3, <2>4
<1> QED  BY <1>1, <1>2

\* The tables are what the directories point to, and they are frames.
LEMMA TableIs ==
  \A t : t \in Tables <=> t \in Frame /\ \E s \in Space : \E d \in Dir : dirs[s][d] = t
BY DEF Tables

\* What an address's table and page are.
LEMMA PageTypes ==
  ASSUME MapTypes, NEW s \in Space, NEW p \in Nat, p < HeapEnd
  PROVE  /\ DirOf(p) \in Dir /\ EntryOf(p) \in Entry
         /\ TableOf(s, p) \in Tables \cup {None}
         /\ TableOf(s, p) # None =>
              /\ TableOf(s, p) \in Frame
              /\ PageOf(s, p) \in Frame \cup {None, Image}
<1>1. DirOf(p) \in Dir /\ EntryOf(p) \in Entry
  BY AddressHasEntries
<1>2. TableOf(s, p) \in Frame \cup {None}
  BY <1>1 DEF TableOf, MapTypes
<1>3. TableOf(s, p) # None => TableOf(s, p) \in Tables
  BY <1>1, <1>2, TableIs DEF TableOf
<1>4. TableOf(s, p) # None => PageOf(s, p) \in Frame \cup {None, Image}
  BY <1>1, <1>2 DEF PageOf, MapTypes
<1> QED  BY <1>1, <1>2, <1>3, <1>4

\* More marks and fewer tables take no owner away.
LEMMA MoreMarks ==
  ASSUME OneOwner, UNCHANGED tables, bitmap \subseteq bitmap', Tables' \subseteq Tables
  PROVE  OneOwner'
<1>1. \A t, u \in Tables' : \A e, g \in Entry :
        tables[t][e] \in Frame /\ tables[t][e] = tables[u][g] => t = u /\ e = g
  BY DEF OneOwner
<1>2. \A t \in Tables' : \A e \in Entry :
        tables[t][e] \in Frame => tables[t][e] \in bitmap' \ Tables'
  BY DEF OneOwner
<1>3. Tables' \subseteq bitmap'
  BY DEF OneOwner
<1> QED  BY <1>1, <1>2, <1>3 DEF OneOwner

-----------------------------------------------------------------------------
(* Mapping and unmapping a page.                                            *)

\* What a mapped page adds: one entry, of a frame that was never marked, in a
\* table that was there or was never marked either.
LEMMA MapPage ==
  ASSUME MapTypes, Unused, OneOwner, Roomy, NEW k \in Nat, Marked(k), Costs(k), halted = "no",
         NEW s \in Space, NEW p \in Nat, p < HeapEnd, PagingMap(s, p)
  PROVE  /\ MapTypes' /\ Unused' /\ OneOwner' /\ Roomy' /\ halted' \in {"no", "fault", "overrun"}
         /\ \E j \in Nat : Marked(j)' /\ Costs(j)'
<1> DEFINE new == TableOf(s, p) = None
<1>1. PICK f \in PmmNext(bitmap) :
        \E t \in IF new THEN PmmNext(bitmap \cup {f}) ELSE {TableOf(s, p)} :
          /\ bitmap' = bitmap \cup {f, t}
          /\ \/ /\ {f, t} \subseteq Frame /\ Count(s) + Len(Listed(new, t, p)) <= Room(s)
                /\ dirs' = [dirs EXCEPT ![s][DirOf(p)] = t]
                /\ tables' = [tables EXCEPT ![t][EntryOf(p)] = f]
                /\ items' = [items EXCEPT ![s] = @ \o Listed(new, t, p)]
                /\ mem' = [mem EXCEPT ![f] = 0]
                /\ halted' = halted
             \/ /\ {f, t} \subseteq Frame /\ Count(s) + Len(Listed(new, t, p)) > Room(s)
                /\ halted' = "overrun" /\ UNCHANGED <<dirs, tables, items, mem>>
             \/ /\ ~({f, t} \subseteq Frame)
                /\ halted' = "fault" /\ UNCHANGED <<dirs, tables, items, mem>>
  BY DEF PagingMap
<1>2. PICK t \in IF new THEN PmmNext(bitmap \cup {f}) ELSE {TableOf(s, p)} :
          /\ bitmap' = bitmap \cup {f, t}
          /\ \/ /\ {f, t} \subseteq Frame /\ Count(s) + Len(Listed(new, t, p)) <= Room(s)
                /\ dirs' = [dirs EXCEPT ![s][DirOf(p)] = t]
                /\ tables' = [tables EXCEPT ![t][EntryOf(p)] = f]
                /\ items' = [items EXCEPT ![s] = @ \o Listed(new, t, p)]
                /\ mem' = [mem EXCEPT ![f] = 0]
                /\ halted' = halted
             \/ /\ {f, t} \subseteq Frame /\ Count(s) + Len(Listed(new, t, p)) > Room(s)
                /\ halted' = "overrun" /\ UNCHANGED <<dirs, tables, items, mem>>
             \/ /\ ~({f, t} \subseteq Frame)
                /\ halted' = "fault" /\ UNCHANGED <<dirs, tables, items, mem>>
  BY <1>1
<1>3. bitmap = 0 .. k - 1 /\ k <= Frames /\ k <= TotalBitmap
  BY DEF Marked
<1>4. f = k /\ k < TotalBitmap
  BY <1>3, NextFrame
<1>5. DirOf(p) \in Dir /\ EntryOf(p) \in Entry /\ TableOf(s, p) \in Tables \cup {None}
  BY PageTypes
<1>6. bitmap \cup {f} = 0 .. (k + 1) - 1
  BY <1>3, <1>4
<1>7. new => t = k + 1 /\ k + 1 < TotalBitmap
  <2>1. SUFFICES ASSUME new PROVE t = k + 1 /\ k + 1 < TotalBitmap
    OBVIOUS
  <2>2. t \in PmmNext(0 .. (k + 1) - 1)  BY <1>2, <1>6, <2>1
  <2>3. k + 1 \in Nat  OBVIOUS
  <2> QED  BY <2>2, <2>3, NextFrame
<1>8. ~new => t \in Tables /\ t \in bitmap /\ t = TableOf(s, p)
  BY <1>2, <1>5 DEF OneOwner
<1>0. PICK j \in Nat : j = IF new THEN k + 2 ELSE k + 1
  OBVIOUS
<1>9. j \in Nat /\ bitmap' = 0 .. j - 1 /\ j <= TotalBitmap /\ j <= Frames + 2
  <2>1. CASE new
    <3>1. j = k + 2 /\ t = k + 1 /\ bitmap' = bitmap \cup {f, t}
      BY <1>0, <1>2, <1>7, <2>1
    <3>2. \A i : i \in bitmap' <=> i \in 0 .. j - 1
      BY <1>3, <1>4, <3>1
    <3>3. bitmap' = 0 .. j - 1
      BY <3>2
    <3> QED  BY <1>3, <1>7, <2>1, <3>1, <3>3, Limits
  <2>2. CASE ~new
    <3>1. j = k + 1 /\ t \in bitmap /\ bitmap' = bitmap \cup {f, t}
      BY <1>0, <1>2, <1>8, <2>2
    <3>2. bitmap' = 0 .. j - 1
      BY <1>6, <3>1
    <3> QED  BY <1>3, <1>4, <3>1, <3>2, Limits
  <2> QED  BY <2>1, <2>2
<1>10. {f, t} \subseteq Frame <=> j <= Frames
  <2>1. CASE new
    BY <1>0, <1>4, <1>7, <2>1, Limits DEF Frame
  <2>2. CASE ~new
    BY <1>0, <1>3, <1>4, <1>8, <2>2, Limits DEF Frame
  <2> QED  BY <2>1, <2>2
<1> DEFINE more == IF new THEN 2 ELSE 1
<1>13. more \in {1, 2} /\ j = k + more
  BY <1>0
<1>14. Len(Listed(new, t, p)) = more
  BY DEF Listed
<1>15. \A q \in Space : /\ Len(items[q]) \in Nat /\ Len(items[q]) + 2 <= k
                        /\ Len(items[q]) + 2 <= Frames
  BY DEF Costs, MapTypes
<1>16. "kernel" \in Space
  BY DEF Space
<1> HIDE DEF more
<1>11. CASE \/ /\ {f, t} \subseteq Frame /\ Count(s) + Len(Listed(new, t, p)) > Room(s)
               /\ halted' = "overrun" /\ UNCHANGED <<dirs, tables, items, mem>>
            \/ /\ ~({f, t} \subseteq Frame)
               /\ halted' = "fault" /\ UNCHANGED <<dirs, tables, items, mem>>
  <2>1. halted' \in {"fault", "overrun"} /\ UNCHANGED <<dirs, tables, items, mem>>
    BY <1>11
  <2>2. bitmap \subseteq bitmap'
    BY <1>2
  <2>3. MapTypes'  BY <2>1 DEF MapTypes
  <2>4. Unused'  BY <2>1, <2>2 DEF Unused
  <2>5. Tables' = Tables  BY <2>1 DEF Tables
  <2>6. OneOwner'  BY <2>1, <2>2, <2>5 DEF OneOwner
  <2>7. Marked(j)'  BY <1>9, <2>1 DEF Marked
  <2>8. Costs(j)'  BY <1>9, <1>13, <1>15, <2>1 DEF Costs
  <2>9. Roomy'
    <3>1. SUFFICES ASSUME halted' = "overrun" PROVE Booted + Devices + Frames - 2 > MaxItems
      BY <2>1 DEF Roomy
    <3>2. {f, t} \subseteq Frame /\ Count(s) + more > Room(s)
      BY <1>11, <1>14, <3>1
    <3>3. j <= Frames
      BY <1>10, <3>2
    <3>4. Room(s) \in Nat /\ Room(s) >= MaxItems
      BY Limits DEF Room
    <3>5. PICK n \in Nat : n = Len(items[s]) /\ n + 2 <= k
      BY <1>15
    <3>6. Booted + Devices + n + more > Room(s)
      BY <3>2, <3>5 DEF Count
    <3>7. PICK room \in Nat : room = Room(s) /\ room >= MaxItems
      BY <3>4
    <3>8. Booted + Devices + n + more > room
      BY <3>6, <3>7
    <3>9. k + more <= Frames
      BY <1>13, <3>3
    <3> QED  BY <1>13, <3>5, <3>7, <3>8, <3>9, Entries
  <2> QED  BY <1>9, <2>1, <2>3, <2>4, <2>6, <2>7, <2>8, <2>9
<1>12. CASE /\ {f, t} \subseteq Frame /\ Count(s) + Len(Listed(new, t, p)) <= Room(s)
            /\ dirs' = [dirs EXCEPT ![s][DirOf(p)] = t]
            /\ tables' = [tables EXCEPT ![t][EntryOf(p)] = f]
            /\ items' = [items EXCEPT ![s] = @ \o Listed(new, t, p)]
            /\ mem' = [mem EXCEPT ![f] = 0]
            /\ halted' = halted
  <2>1. /\ dirs' = [dirs EXCEPT ![s][DirOf(p)] = t]
        /\ tables' = [tables EXCEPT ![t][EntryOf(p)] = f]
        /\ items' = [items EXCEPT ![s] = @ \o Listed(new, t, p)]
        /\ mem' = [mem EXCEPT ![f] = 0]
        /\ halted' = halted
    BY <1>12
  <2>2. f \in Frame /\ t \in Frame /\ f # t /\ f \notin bitmap /\ (new => t \notin bitmap)
    BY <1>3, <1>4, <1>7, <1>8, <1>12
  <2> HIDE DEF new
  <2>3. dirs' \in [Space -> [Dir -> Frame \cup {None}]]
    BY <1>5, <2>1, <2>2 DEF MapTypes
  <2>4. tables' \in [Frame -> [Entry -> Frame \cup {None, Image}]]
    BY <1>5, <2>1, <2>2 DEF MapTypes
  <2>5. mem' \in [Frame -> Value]
    BY <2>1, Limits DEF MapTypes
  <2>6. /\ items[s] \in Seq(Nat) /\ Len(items[s]) \in Nat
        /\ Listed(new, t, p) \in Seq(Nat)
        /\ Len(Listed(new, t, p)) = IF new THEN 2 ELSE 1
    <3>1. DirectPage(t) \in Nat  BY <2>2, Limits DEF DirectPage, Frame
    <3>2. items[s] \in Seq(Nat)  BY DEF MapTypes
    <3> QED  BY <3>1, <3>2 DEF Listed
  <2> DEFINE list == items[s] \o Listed(new, t, p)
  <2>7. list \in Seq(Nat) /\ Len(list) \in Nat /\ Len(list) = Len(items[s]) + more
    <3>1. list \in Seq(Nat) /\ Len(list) = Len(items[s]) + Len(Listed(new, t, p))
      BY <2>6, ConcatProperties
    <3> HIDE DEF list
    <3> QED  BY <1>14, <3>1
  <2>8. items' = [items EXCEPT ![s] = list]
    BY <2>1
  <2> HIDE DEF list
  <2>9. items' \in [Space -> Seq(Nat)]
    BY <2>7, <2>8 DEF MapTypes
  <2>10. MapTypes'  BY <2>3, <2>4, <2>5, <2>9 DEF MapTypes
  <2>11. Costs(j)' /\ Roomy'
    <3>1. j <= Frames
      BY <1>10, <1>12
    <3>2. \A q \in Space : items'[q] = IF q = s THEN list ELSE items[q]
      BY <2>8 DEF MapTypes
    <3>3. \A q \in Space : Len(items'[q]) \in Nat /\ Len(items'[q]) + 2 <= j
      <4> SUFFICES ASSUME NEW q \in Space
                   PROVE  Len(items'[q]) \in Nat /\ Len(items'[q]) + 2 <= j
        OBVIOUS
      <4>1. PICK n \in Nat : n = Len(items[q]) /\ n + 2 <= k
        BY <1>15
      <4>2. CASE q = s
        <5>1. items'[q] = list /\ Len(list) = n + more
          BY <2>7, <3>2, <4>1, <4>2
        <5>2. n + more \in Nat /\ n + more + 2 <= j
          BY <1>13, <4>1
        <5> QED  BY <5>1, <5>2
      <4>3. CASE q # s
        <5>1. items'[q] = items[q]
          BY <3>2, <4>3
        <5>2. n + 2 <= j
          BY <1>13, <4>1
        <5> QED  BY <4>1, <5>1, <5>2
      <4> QED  BY <4>2, <4>3
    <3>4. Costs(j)'
      BY <1>9, <3>1, <3>3, Limits DEF Costs
    <3>5. Booted + Devices + Len(items'["kernel"]) <= MaxItems
      <4>1. CASE s = "kernel"
        <5>1. Booted + Devices + Len(items["kernel"]) + more <= MaxItems
          BY <1>12, <1>14, <4>1 DEF Count, Room
        <5>2. PICK n \in Nat : n = Len(items["kernel"])
          BY <1>15, <1>16
        <5>3. Len(items'["kernel"]) = n + more
          BY <1>16, <2>7, <3>2, <4>1, <5>2
        <5>4. Booted + Devices + (n + more) <= MaxItems
          <6>1. Booted + Devices + n + more <= MaxItems
            BY <5>1, <5>2
          <6>2. more \in Nat
            BY <1>13
          <6>3. Booted + Devices + n + more = Booted + Devices + (n + more)
            BY <6>2, Entries
          <6> QED  BY <6>1, <6>3
        <5> QED  BY <5>3, <5>4
      <4>2. CASE s # "kernel"
        BY <1>16, <3>2, <4>2 DEF Roomy, Count
      <4> QED  BY <4>1, <4>2
    <3> QED  BY <2>1, <3>4, <3>5 DEF Roomy, Count
  <2>12. Marked(j)'
    BY <1>9, <1>10, <1>12 DEF Marked
  <2>13. \A u \in Frame : \A e \in Entry :
           tables'[u][e] = IF u = t /\ e = EntryOf(p) THEN f ELSE tables[u][e]
    BY <1>5, <2>1, <2>2 DEF MapTypes
  <2>14. \A u \in Tables' : u = t \/ u \in Tables
    <3> SUFFICES ASSUME NEW u \in Tables', u # t PROVE u \in Tables
      OBVIOUS
    <3>1. u \in Frame /\ \E q \in Space : \E d \in Dir : dirs'[q][d] = u
      BY DEF Tables
    <3>2. PICK q \in Space : \E d \in Dir : dirs'[q][d] = u
      BY <3>1
    <3>3. PICK d \in Dir : dirs'[q][d] = u
      BY <3>2
    <3>4. dirs[q][d] = u
      BY <1>5, <2>1, <3>3 DEF MapTypes
    <3> QED  BY <3>1, <3>4, TableIs
  <2>15. bitmap' = bitmap \cup {f, t}
    BY <1>2
  <2>16. Unused'
    BY <2>2, <2>13, <2>15 DEF Unused
  <2>17. \A u \in Tables' : u \in Frame
    BY <2>2, <2>14, TableIs
  \* An entry of a table is the new one, or was there.
  <2>18. ASSUME NEW u \in Tables', NEW e \in Entry, tables'[u][e] \in Frame
         PROVE  \/ u = t /\ e = EntryOf(p) /\ tables'[u][e] = f
                \/ /\ u \in Tables /\ tables'[u][e] = tables[u][e]
                   /\ tables[u][e] \in bitmap \ Tables
    <3>1. CASE u = t /\ e = EntryOf(p)
      BY <2>2, <2>13, <3>1
    <3>2. CASE ~(u = t /\ e = EntryOf(p))
      <4>1. tables'[u][e] = tables[u][e]
        BY <2>13, <2>17, <3>2
      <4>2. u \in bitmap
        BY <2>2, <2>17, <2>18, <4>1 DEF Unused
      <4>3. u \in Tables
        BY <1>8, <2>2, <2>14, <4>2
      <4> QED  BY <2>18, <4>1, <4>3 DEF OneOwner
    <3> QED  BY <3>1, <3>2
  <2>19. \A u, v \in Tables' : \A e, g \in Entry :
           tables'[u][e] \in Frame /\ tables'[u][e] = tables'[v][g] => u = v /\ e = g
    <3> SUFFICES ASSUME NEW u \in Tables', NEW v \in Tables', NEW e \in Entry, NEW g \in Entry,
                        tables'[u][e] \in Frame, tables'[u][e] = tables'[v][g]
                 PROVE  u = v /\ e = g
      OBVIOUS
    <3>1. \/ u = t /\ e = EntryOf(p) /\ tables'[u][e] = f
          \/ u \in Tables /\ tables'[u][e] = tables[u][e] /\ tables[u][e] \in bitmap \ Tables
      BY <2>18
    <3>2. \/ v = t /\ g = EntryOf(p) /\ tables'[v][g] = f
          \/ v \in Tables /\ tables'[v][g] = tables[v][g] /\ tables[v][g] \in bitmap \ Tables
      BY <2>18
    <3> QED  BY <2>2, <3>1, <3>2 DEF OneOwner
  <2>20. \A u \in Tables' : \A e \in Entry :
           tables'[u][e] \in Frame => tables'[u][e] \in bitmap' \ Tables'
    <3> SUFFICES ASSUME NEW u \in Tables', NEW e \in Entry, tables'[u][e] \in Frame
                 PROVE  tables'[u][e] \in bitmap' \ Tables'
      OBVIOUS
    <3>1. \/ tables'[u][e] = f
          \/ tables'[u][e] \in bitmap \ Tables
      BY <2>18
    <3>2. f \notin Tables'
      BY <2>2, <2>14 DEF OneOwner
    <3>3. \A i \in bitmap \ Tables : i \notin Tables'
      BY <1>8, <2>2, <2>14
    <3> QED  BY <2>15, <3>1, <3>2, <3>3
  <2>21. Tables' \subseteq bitmap'
    BY <2>14, <2>15 DEF OneOwner
  <2>22. OneOwner'
    BY <2>19, <2>20, <2>21 DEF OneOwner
  <2>23. halted' \in {"no", "fault", "overrun"}
    BY <2>1
  <2> QED  BY <1>9, <2>10, <2>11, <2>12, <2>16, <2>22, <2>23
<1> QED  BY <1>2, <1>11, <1>12

\* An unmapped page takes away an entry, and no mark.
LEMMA UnmapPage ==
  ASSUME MapTypes, Unused, OneOwner, Roomy, NEW k \in Nat, Marked(k), Costs(k), halted = "no",
         NEW s \in Space, NEW p \in Nat, p < HeapEnd, PagingUnmap(s, p),
         UNCHANGED <<mem, halted>>
  PROVE  MapTypes' /\ Unused' /\ OneOwner' /\ Roomy' /\ Marked(k)' /\ Costs(k)'
<1> DEFINE t == TableOf(s, p)
<1>1. CASE t = None
  <2>1. UNCHANGED mapVars  BY <1>1 DEF PagingUnmap
  <2>2. MapTypes' /\ Unused' /\ Roomy' /\ Marked(k)' /\ Costs(k)'
    BY <2>1 DEF mapVars, MapTypes, Unused, Roomy, Count, Marked, Costs
  <2>3. Tables' = Tables  BY <2>1 DEF mapVars, Tables
  <2>4. OneOwner'  BY <2>1, <2>3 DEF mapVars, OneOwner
  <2> QED  BY <2>2, <2>4
<1>2. CASE t # None
  <2>1. /\ items' = [items EXCEPT ![s] = RemoveMapping(@, p)]
        /\ tables' = [tables EXCEPT ![t][EntryOf(p)] = None]
        /\ bitmap' = IF Present(s, p) THEN PmmFree(PageOf(s, p)) ELSE bitmap
        /\ UNCHANGED dirs
    BY <1>2 DEF PagingUnmap
  <2>2. EntryOf(p) \in Entry /\ t \in Frame /\ PageOf(s, p) \in Frame \cup {None, Image}
    BY <1>2, PageTypes
  <2>3. bitmap' = bitmap
    BY <2>1, <2>2, FreeingFreesNothing DEF Present
  <2> HIDE DEF t
  <2>4. \A u \in Frame : \A e \in Entry :
          tables'[u][e] = IF u = t /\ e = EntryOf(p) THEN None ELSE tables[u][e]
    BY <2>1, <2>2 DEF MapTypes
  <2>5. tables' \in [Frame -> [Entry -> Frame \cup {None, Image}]]
    BY <2>1, <2>2 DEF MapTypes
  <2>6. items[s] \in Seq(Nat)
    BY DEF MapTypes
  <2>7. /\ RemoveMapping(items[s], p) \in Seq(Nat)
        /\ Len(RemoveMapping(items[s], p)) <= Len(items[s])
    BY <2>6, RemoveShortens
  <2> DEFINE list == RemoveMapping(items[s], p)
  <2>8. items' = [items EXCEPT ![s] = list]
    BY <2>1
  <2>9. list \in Seq(Nat) /\ Len(list) <= Len(items[s]) /\ Len(items[s]) \in Nat /\ Len(list) \in Nat
    BY <2>6, <2>7
  <2> HIDE DEF list
  <2>10. items' \in [Space -> Seq(Nat)]
    BY <2>8, <2>9 DEF MapTypes
  <2>11. MapTypes'
    BY <2>1, <2>5, <2>10 DEF MapTypes
  <2>12. \A q \in Space : Len(items'[q]) \in Nat /\ Len(items'[q]) <= Len(items[q])
    BY <2>8, <2>9 DEF MapTypes
  <2>13. Costs(k)'
    <3>1. \A q \in Space : Len(items[q]) \in Nat  BY DEF MapTypes
    <3> QED  BY <2>12, <3>1, Limits DEF Costs
  <2>14. Marked(k)' /\ Roomy'
    <3>1. "kernel" \in Space /\ Len(items["kernel"]) \in Nat
      BY DEF MapTypes, Space
    <3>2. PICK n, m \in Nat : n = Len(items["kernel"]) /\ m = Len(items'["kernel"]) /\ m <= n
      BY <2>12, <3>1
    <3>3. Booted + Devices + n <= MaxItems => Booted + Devices + m <= MaxItems
      BY <3>2, Entries
    <3>4. Roomy'
      BY <3>2, <3>3 DEF Roomy, Count
    <3> QED  BY <2>3, <3>4 DEF Marked
  <2>15. None \notin Frame
    BY Limits DEF None, Frame
  <2>16. Unused'
    BY <2>3, <2>4, <2>15 DEF Unused
  <2>17. Tables' = Tables
    BY <2>1 DEF Tables
  <2>18. \A u \in Tables : \A e \in Entry :
           tables'[u][e] \in Frame => tables'[u][e] = tables[u][e]
    BY <2>4, <2>15, TableIs
  <2>19. OneOwner'
    BY <2>3, <2>17, <2>18 DEF OneOwner
  <2> QED  BY <2>11, <2>13, <2>14, <2>16, <2>19
<1> QED  BY <1>1, <1>2

-----------------------------------------------------------------------------
(* The invariant holds initially and after every step.                      *)

LEMMA InitInv == Init => IInv
<1> SUFFICES ASSUME Init PROVE IInv
  OBVIOUS
<1>1. /\ bitmap = {0, 1}
      /\ dirs = [s \in Space |-> [d \in Dir |->
                  IF s = "kernel" /\ d = DirOf(StackPage) THEN 1 ELSE None]]
      /\ tables = [f \in Frame |-> IF f = 1 THEN [e \in Entry |-> Image] ELSE NoTable]
      /\ items = [s \in Space |-> <<>>]
      /\ capacity = [s \in Space |-> IF s = "kernel" THEN MaxItems ELSE 0]
      /\ heap_next = HeapStart /\ blocks = {} /\ mem = [f \in Frame |-> 0]
      /\ work = Start /\ stage = "boot"
      /\ halted = IF Booted + Devices > MaxItems THEN "overrun" ELSE "no"
  BY DEF Init
<1>2. 1 \in Frame /\ None \notin Frame /\ Image \notin Frame
  BY Limits DEF Frame, None, Image
<1>3. MapTypes
  <2>1. dirs \in [Space -> [Dir -> Frame \cup {None}]]
    BY <1>1, <1>2
  <2>2. tables \in [Frame -> [Entry -> Frame \cup {None, Image}]]
    BY <1>1 DEF NoTable
  <2>3. items \in [Space -> Seq(Nat)] /\ mem \in [Frame -> Value]
    BY <1>1, Limits, EmptySeq
  <2> QED  BY <2>1, <2>2, <2>3 DEF MapTypes
<1>4. \A f \in Frame : \A e \in Entry : tables[f][e] \notin Frame
  BY <1>1, <1>2 DEF NoTable
<1>5. Unused
  BY <1>4 DEF Unused
<1>6. Tables \subseteq {1}
  BY <1>1, <1>2, TableIs
<1>7. OneOwner
  BY <1>1, <1>4, <1>6, TableIs DEF OneOwner
<1>8. Marked(2) /\ Costs(2) /\ Roomy
  <2>1. {0, 1} = 0 .. 2 - 1
    OBVIOUS
  <2>2. Marked(2)
    BY <1>1, <2>1, Limits DEF Marked
  <2>3. \A s \in Space : Len(items[s]) = 0
    BY <1>1, EmptySeq
  <2>4. Costs(2)
    BY <2>3, Limits DEF Costs
  <2>5. Count("kernel") = Booted + Devices
    <3>1. Len(items["kernel"]) = 0
      BY <2>3 DEF Space
    <3>2. Booted + Devices + 0 = Booted + Devices
      BY Limits
    <3> QED  BY <3>1, <3>2 DEF Count
  <2>6. Roomy
    BY <1>1, <2>5, Limits DEF Roomy
  <2> QED  BY <2>2, <2>4, <2>6
<1>9. WorkTypes
  <2>1. /\ StackPage \in Nat /\ StackPage < HeapEnd
        /\ LastLow - 1 \in Nat /\ LastLow - 1 < HeapEnd
        /\ 0 \in Nat /\ 0 < HeapEnd /\ 1 \in Nat
    BY Limits DEF StackPage, LastLow
  <2>2. {"kernel", "program"} = Space /\ {"proc", "space", "items", "none"} \subseteq Use
    BY DEF Space, Use
  <2>3. /\ Kmalloc("kernel", 1, "proc") \in Inside
        /\ Kmalloc("kernel", 1, "space") \in Inside
        /\ Kmalloc("kernel", ItemPages, "items") \in Inside
        /\ Run("copy") \in Inside
        /\ Map("program", StackPage) \in Inside
        /\ Map("program", LastLow - 1) \in Inside
    BY <2>1, <2>2, DoIsInside, Limits DEF Kmalloc, Run, Map
  <2>4. Start \in Seq(Inside)
    BY <2>3 DEF Start
  <2> QED  BY <1>1, <2>4, Limits DEF WorkTypes
<1>10. StateTypes /\ CapacityOK
  BY <1>1, Limits DEF StateTypes, CapacityOK
<1> QED  BY <1>3, <1>5, <1>7, <1>8, <1>9, <1>10 DEF IInv

\* A step that leaves the mappings alone.
LEMMA KeepsEntries ==
  ASSUME IInv, UNCHANGED mapVars, mem' \in [Frame -> Value],
         WorkTypes', StateTypes', CapacityOK', halted' \in {halted, "panic", "fault", "taken"}
  PROVE  IInv'
<1>1. UNCHANGED <<bitmap, dirs, tables, items>>
  BY DEF mapVars
<1>2. MapTypes' /\ Unused' /\ Roomy'
  BY <1>1 DEF IInv, MapTypes, Unused, Roomy, Count
<1>3. Tables' = Tables
  BY <1>1 DEF Tables
<1>4. OneOwner'
  BY <1>1, <1>3 DEF IInv, OneOwner
<1>5. \E k \in Nat : Marked(k)' /\ Costs(k)'
  <2>1. PICK k \in Nat : Marked(k) /\ Costs(k)
    BY DEF IInv
  <2>2. Marked(k)' /\ Costs(k)'
    BY <1>1, <2>1 DEF Marked, Costs
  <2> QED  BY <2>2
<1> QED  BY <1>2, <1>4, <1>5 DEF IInv

LEMMA KeepsMaps ==
  ASSUME IInv, UNCHANGED <<mapVars, capacity>>, mem' \in [Frame -> Value],
         WorkTypes', StateTypes', halted' \in {halted, "panic", "fault", "taken"}
  PROVE  IInv'
<1>1. CapacityOK'
  BY DEF IInv, CapacityOK
<1> QED  BY <1>1, KeepsEntries

\* The operation at the head of the work, and what is left.
LEMMA HeadOfWork ==
  ASSUME IInv, work # <<>>
  PROVE  /\ Next1 \in Inside /\ Tail(work) \in Seq(Inside)
         /\ Next1.space \in Space /\ Next1.page \in Nat /\ Next1.page < HeapEnd
         /\ Next1.n \in Nat /\ Next1.of \in Use
<1>1. work \in Seq(Inside)
  BY DEF IInv, WorkTypes
<1>2. Next1 \in Inside /\ Tail(work) \in Seq(Inside)
  BY <1>1, HeadTailProperties DEF Next1
<1> QED  BY <1>2 DEF Inside, Op

LEMMA KmallocInv == ASSUME IInv, DoKmalloc PROVE IInv'
<1> DEFINE n == Next1.n
<1>1. work # <<>> /\ halted = "no"
  BY DEF DoKmalloc, Doing
<1>2. /\ Tail(work) \in Seq(Inside) /\ Next1.space \in Space
      /\ n \in Nat /\ Next1.of \in Use
  BY <1>1, HeadOfWork
<1>3. /\ heap_next' = heap_next + n
      /\ IF heap_next' >= HeapEnd
         THEN halted' = "panic" /\ UNCHANGED <<blocks, work>>
         ELSE /\ blocks' = blocks \cup {[page |-> heap_next, pages |-> n, of |-> Next1.of]}
              /\ work' = Each("map", Next1.space, heap_next, n) \o Tail(work)
              /\ halted' = halted
      /\ capacity' \in {capacity, [capacity EXCEPT !["program"] = Count("kernel")]}
      /\ UNCHANGED <<mapVars, mem, stage>>
  BY DEF DoKmalloc
<1> HIDE DEF n
<1>8. CapacityOK'
  <2>1. Len(items["kernel"]) \in Nat
    BY DEF IInv, MapTypes, Space
  <2>2. Count("kernel") \in 0 .. MaxItems
    <3>1. PICK c \in Nat : c = Len(items["kernel"])
      BY <2>1
    <3>2. Booted + Devices + c <= MaxItems
      BY <1>1, <3>1 DEF IInv, Roomy, Count
    <3>3. Booted + Devices + c \in 0 .. MaxItems
      BY <3>2, Numbers
    <3> QED  BY <3>1, <3>3 DEF Count
  <2> QED  BY <1>3, <2>2 DEF IInv, CapacityOK
<1>4. WorkTypes
  BY DEF IInv
<1>5. heap_next \in Nat /\ heap_next' \in Nat
  BY <1>2, <1>3, <1>4 DEF WorkTypes
<1>6. CASE heap_next' >= HeapEnd
  <2>1. WorkTypes'
    BY <1>3, <1>4, <1>5, <1>6 DEF WorkTypes
  <2> QED  BY <1>1, <1>3, <1>6, <1>8, <2>1, KeepsEntries DEF IInv, StateTypes, MapTypes
<1>7. CASE ~(heap_next' >= HeapEnd)
  <2>1. heap_next + n <= HeapEnd
    BY <1>2, <1>3, <1>5, <1>7, Limits
  <2>2. Each("map", Next1.space, heap_next, n) \in Seq(Inside)
    BY <1>2, <1>5, <2>1, EachIsInside
  <2>6. Each("map", Next1.space, heap_next, n) \o Tail(work) \in Seq(Inside)
    BY <1>2, <2>2, ConcatProperties
  <2>3. work' \in Seq(Inside)
    BY <1>3, <1>7, <2>6
  <2>4. \A b \in blocks' : /\ b.page \in Nat /\ b.pages \in Nat /\ b.of \in Use
                           /\ b.page + b.pages <= HeapEnd
    BY <1>2, <1>3, <1>4, <1>5, <1>7, <2>1 DEF WorkTypes
  <2>5. WorkTypes'
    BY <1>5, <2>3, <2>4 DEF WorkTypes
  <2> QED  BY <1>1, <1>3, <1>7, <1>8, <2>5, KeepsEntries DEF IInv, StateTypes, MapTypes
<1> QED  BY <1>6, <1>7

LEMMA MapInv == ASSUME IInv, DoMap PROVE IInv'
<1>1. work # <<>> /\ halted = "no"
  BY DEF DoMap, Doing
<1>2. /\ Tail(work) \in Seq(Inside) /\ Next1.space \in Space
      /\ Next1.page \in Nat /\ Next1.page < HeapEnd
  BY <1>1, HeadOfWork
<1>3. /\ PagingMap(Next1.space, Next1.page) /\ work' = Tail(work)
      /\ stage' \in {stage, "running"} /\ UNCHANGED <<capacity, heap_next, blocks>>
  BY DEF DoMap, Done
<1>4. PICK s \in Space, p \in Nat : s = Next1.space /\ p = Next1.page
  BY <1>2
<1>5. /\ MapTypes' /\ Unused' /\ OneOwner' /\ Roomy' /\ halted' \in {"no", "fault", "overrun"}
      /\ \E j \in Nat : Marked(j)' /\ Costs(j)'
  <2>1. PICK k \in Nat : Marked(k) /\ Costs(k)
    BY DEF IInv
  <2>2. MapTypes /\ Unused /\ OneOwner /\ Roomy
    BY DEF IInv
  <2>3. p < HeapEnd /\ PagingMap(s, p)
    BY <1>2, <1>3, <1>4
  <2> QED  BY <1>1, <2>1, <2>2, <2>3, MapPage
<1>6. WorkTypes' /\ StateTypes' /\ CapacityOK'
  BY <1>2, <1>3, <1>5 DEF IInv, WorkTypes, StateTypes, CapacityOK
<1> QED  BY <1>5, <1>6 DEF IInv

\* A step that unmaps a page, and does with the work what is allowed.
LEMMA Unmaps ==
  ASSUME IInv, halted = "no", NEW s \in Space, NEW p \in Nat, p < HeapEnd,
         PagingUnmap(s, p), work' \in Seq(Inside),
         UNCHANGED <<capacity, heap_next, blocks, mem, stage, halted>>
  PROVE  IInv'
<1>1. PICK k \in Nat : Marked(k) /\ Costs(k)
  BY DEF IInv
<1>2. MapTypes /\ Unused /\ OneOwner /\ Roomy
  BY DEF IInv
<1>3. MapTypes' /\ Unused' /\ OneOwner' /\ Roomy' /\ Marked(k)' /\ Costs(k)'
  BY <1>1, <1>2, UnmapPage
<1>4. WorkTypes' /\ StateTypes' /\ CapacityOK'
  BY DEF IInv, WorkTypes, StateTypes, CapacityOK
<1> QED  BY <1>3, <1>4 DEF IInv

LEMMA UnmapInv == ASSUME IInv, DoUnmap PROVE IInv'
<1>1. work # <<>> /\ halted = "no"
  BY DEF DoUnmap, Doing
<1>2. /\ Tail(work) \in Seq(Inside) /\ Next1.space \in Space
      /\ Next1.page \in Nat /\ Next1.page < HeapEnd
  BY <1>1, HeadOfWork
<1>3. /\ PagingUnmap(Next1.space, Next1.page) /\ work' = Tail(work)
      /\ UNCHANGED <<capacity, heap_next, blocks, mem, stage, halted>>
  BY DEF DoUnmap, Done
<1>4. PICK s \in Space, p \in Nat : s = Next1.space /\ p = Next1.page
  BY <1>2
<1>5. p < HeapEnd /\ PagingUnmap(s, p) /\ work' \in Seq(Inside)
  BY <1>2, <1>3, <1>4
<1> QED  BY <1>1, <1>3, <1>5, Unmaps

\* The first low page of a list is one of its pages.
LEMMA FirstLowIsLow ==
  ASSUME NEW list \in Seq(Nat), Low(list) # {}
  PROVE  FirstLow(list) \in LowPage
<1>1. Low(list) \in SUBSET Nat
  BY DEF Low
<1>2. \E i \in Low(list) : \A j \in Low(list) : i <= j
  <2>1. IsWellFoundedOn(OpToRel(<, Nat), Nat)
    BY NatLessThanWellFounded
  <2>2. PICK i \in Low(list) : \A j \in Low(list) : ~ (<<j, i>> \in OpToRel(<, Nat))
    BY <1>1, <2>1, WFMin
  <2>3. \A j \in Low(list) : ~ (j < i)
    BY <1>1, <2>2 DEF OpToRel
  <2> QED  BY <1>1, <2>3
<1>3. (CHOOSE i \in Low(list) : \A j \in Low(list) : i <= j) \in Low(list)
  BY <1>2
<1> QED  BY <1>3 DEF FirstLow, Low

LEMMA ClearInv == ASSUME IInv, DoClear PROVE IInv'
<1>1. work # <<>> /\ halted = "no" /\ UNCHANGED <<capacity, heap_next, blocks, mem, stage, halted>>
  BY DEF DoClear, Doing
<1>2. CASE Low(items["program"]) # {}
  <2>1. PagingUnmap("program", FirstLow(items["program"])) /\ UNCHANGED work
    BY <1>2 DEF DoClear
  <2>2. items["program"] \in Seq(Nat)
    BY DEF IInv, MapTypes, Space
  <2>3. FirstLow(items["program"]) \in LowPage
    BY <1>2, <2>2, FirstLowIsLow
  <2>4. PICK p \in LowPage : p = FirstLow(items["program"])
    BY <2>3
  <2>5. p \in Nat /\ p < HeapEnd /\ PagingUnmap("program", p) /\ "program" \in Space
    BY <2>1, <2>4, Limits DEF LowPage, Space
  <2>6. work' \in Seq(Inside)
    BY <2>1 DEF IInv, WorkTypes
  <2> QED  BY <1>1, <2>5, <2>6, Unmaps
<1>3. CASE Low(items["program"]) = {}
  <2>1. work' = Tail(work) /\ UNCHANGED mapVars
    BY <1>3 DEF DoClear, Done
  <2>2. WorkTypes' /\ StateTypes'
    BY <1>1, <2>1, HeadOfWork DEF IInv, WorkTypes, StateTypes
  <2> QED  BY <1>1, <2>1, <2>2, KeepsMaps DEF IInv, MapTypes
<1> QED  BY <1>2, <1>3

\* kfree of a block: its pages are unmapped next.
LEMMA FreeInv ==
  ASSUME IInv, NEW s \in Space, NEW b \in blocks, NEW rest \in Seq(Inside), Free(s, b, rest)
  PROVE  IInv'
<1>1. /\ IF Present(s, b.page)
         THEN /\ blocks' = blocks \ {b}
              /\ work' = Each("unmap", s, b.page, b.pages) \o rest
              /\ halted' = halted
         ELSE halted' = "fault" /\ UNCHANGED <<blocks, work>>
      /\ UNCHANGED <<mapVars, capacity, heap_next, mem, stage>>
  BY DEF Free
<1>2. WorkTypes /\ StateTypes
  BY DEF IInv
<1>3. b.page \in Nat /\ b.pages \in Nat /\ b.page + b.pages <= HeapEnd
  BY <1>2 DEF WorkTypes
<1>4. Each("unmap", s, b.page, b.pages) \in Seq(Inside)
  BY <1>3, EachIsInside
<1>5. Each("unmap", s, b.page, b.pages) \o rest \in Seq(Inside)
  BY <1>4, ConcatProperties
<1>6. WorkTypes' /\ StateTypes'
  BY <1>1, <1>2, <1>5 DEF WorkTypes, StateTypes
<1>7. halted' \in {halted, "panic", "fault", "taken"}
  BY <1>1
<1>8. mem' \in [Frame -> Value]
  BY <1>1 DEF IInv, MapTypes
<1> QED  BY <1>1, <1>6, <1>7, <1>8, KeepsMaps

LEMMA KfreeInv == ASSUME IInv, DoKfree PROVE IInv'
<1>1. work # <<>>
  BY DEF DoKfree, Doing
<1>2. PICK b \in blocks : Free("kernel", b, Tail(work))
  BY DEF DoKfree
<1>3. "kernel" \in Space /\ Tail(work) \in Seq(Inside)
  BY <1>1, HeadOfWork DEF Space
<1> QED  BY <1>2, <1>3, FreeInv

LEMMA CloseFilesInv == ASSUME IInv, DoCloseFiles PROVE IInv'
<1>1. work # <<>> /\ "kernel" \in Space
  BY DEF DoCloseFiles, Doing, Space
<1>2. CASE \E b \in blocks : b.of = "file"
  <2>1. PICK b \in blocks : Free("kernel", b, work)
    BY <1>2 DEF DoCloseFiles
  <2>2. work \in Seq(Inside)
    BY DEF IInv, WorkTypes
  <2> QED  BY <1>1, <2>1, <2>2, FreeInv
<1>3. CASE ~ \E b \in blocks : b.of = "file"
  <2>1. work' = Tail(work) /\ UNCHANGED <<mapVars, capacity, heap_next, blocks, mem, stage, halted>>
    BY <1>3 DEF DoCloseFiles, Done
  <2>2. WorkTypes' /\ StateTypes'
    BY <1>1, <2>1, HeadOfWork DEF IInv, WorkTypes, StateTypes
  <2> QED  BY <2>1, <2>2, KeepsMaps DEF IInv, MapTypes
<1> QED  BY <1>2, <1>3

\* The program's space is copied: its tables are the kernel's, its list too.
LEMMA CopyInv == ASSUME IInv, DoCopy PROVE IInv'
<1>1. work # <<>> /\ halted = "no"
  BY DEF DoCopy, Doing
<1>2. PICK f \in PmmNext(bitmap) :
        /\ bitmap' = bitmap \cup {f}
        /\ IF f \in Frame
           THEN /\ dirs' = [dirs EXCEPT !["program"] = KernelTables]
                /\ items' = [items EXCEPT !["program"] = items["kernel"]]
                /\ halted' = halted
           ELSE halted' = "fault" /\ UNCHANGED <<dirs, items>>
  BY DEF DoCopy
<1>3. work' = Tail(work) /\ UNCHANGED <<tables, capacity, heap_next, blocks, mem, stage>>
  BY DEF DoCopy, Done
<1>4. PICK k \in Nat : Marked(k) /\ Costs(k)
  BY DEF IInv
<1>5. bitmap = 0 .. k - 1 /\ k <= Frames /\ k <= TotalBitmap
  BY <1>1, <1>4 DEF Marked
<1>6. f = k /\ k < TotalBitmap
  BY <1>5, NextFrame
<1>7. bitmap' = 0 .. (k + 1) - 1 /\ bitmap \subseteq bitmap'
  BY <1>2, <1>5, <1>6
<1>8. MapTypes /\ WorkTypes /\ StateTypes /\ CapacityOK /\ Roomy /\ Unused /\ OneOwner
  BY DEF IInv
<1>9. WorkTypes' /\ StateTypes'
  BY <1>1, <1>2, <1>3, <1>8, HeadOfWork DEF WorkTypes, StateTypes
<1>10. Unused'
  BY <1>3, <1>7, <1>8 DEF Unused
<1>11. "kernel" \in Space /\ "program" \in Space
  BY DEF Space
<1>12. CASE f \in Frame
  <2>1. /\ dirs' = [dirs EXCEPT !["program"] = KernelTables]
        /\ items' = [items EXCEPT !["program"] = items["kernel"]]
        /\ halted' = halted
    BY <1>2, <1>12
  <2>2. /\ KernelTables \in [Dir -> Frame \cup {None}]
        /\ \A d \in Dir : KernelTables[d] \in {dirs["kernel"][d], None}
    BY <1>8, <1>11 DEF KernelTables, TablesFrom, MapTypes
  <2>3. MapTypes'
    BY <1>3, <1>8, <1>11, <2>1, <2>2 DEF MapTypes
  <2>4. None \notin Frame
    BY Limits DEF None, Frame
  <2>5. Tables' \subseteq Tables
    <3> SUFFICES ASSUME NEW t \in Tables' PROVE t \in Tables
      OBVIOUS
    <3>1. t \in Frame /\ \E s \in Space : \E d \in Dir : dirs'[s][d] = t
      BY DEF Tables
    <3>2. PICK s \in Space : \E d \in Dir : dirs'[s][d] = t
      BY <3>1
    <3>3. PICK d \in Dir : dirs'[s][d] = t
      BY <3>2
    <3>4. CASE s = "program"
      <4>1. dirs'[s] = KernelTables  BY <1>8, <2>1, <3>4 DEF MapTypes
      <4>2. dirs["kernel"][d] = t  BY <2>2, <2>4, <3>1, <3>3, <4>1
      <4> QED  BY <1>11, <3>1, <4>2, TableIs
    <3>5. CASE s # "program"
      <4>1. dirs[s][d] = t  BY <1>8, <2>1, <3>3, <3>5 DEF MapTypes
      <4> QED  BY <3>1, <4>1, TableIs
    <3> QED  BY <3>4, <3>5
  <2>6. OneOwner'
    BY <1>3, <1>7, <1>8, <2>5, MoreMarks
  <2>7. k + 1 <= Frames
    BY <1>6, <1>12, Limits DEF Frame
  <2>8. Marked(k + 1)'
    BY <1>6, <1>7, <2>7, Limits DEF Marked
  <2>9. \A s \in Space : /\ Len(items[s]) \in Nat /\ Len(items[s]) + 2 <= k
                         /\ items'[s] \in {items[s], items["kernel"]}
    <3>1. \A s \in Space : Len(items[s]) \in Nat /\ Len(items[s]) + 2 <= k
      BY <1>4, <1>8 DEF Costs, MapTypes
    <3>2. \A s \in Space : items'[s] \in {items[s], items["kernel"]}
      BY <1>8, <2>1 DEF MapTypes
    <3> QED  BY <3>1, <3>2
  <2>10. Costs(k + 1)'
    <3>1. \A s \in Space : Len(items'[s]) \in Nat /\ Len(items'[s]) + 2 <= k
      BY <1>11, <2>9
    <3> QED  BY <2>7, <3>1, Limits DEF Costs
  <2>11. CapacityOK' /\ Roomy'
    <3>1. items'["kernel"] = items["kernel"]
      BY <1>8, <1>11, <2>1 DEF MapTypes
    <3> QED  BY <1>3, <1>8, <2>1, <3>1 DEF CapacityOK, Roomy, Count
  <2>12. k + 1 \in Nat  OBVIOUS
  <2> QED  BY <1>9, <1>10, <2>3, <2>6, <2>8, <2>10, <2>11, <2>12 DEF IInv
<1>13. CASE f \notin Frame
  <2>1. halted' = "fault" /\ UNCHANGED <<dirs, items>>
    BY <1>2, <1>13
  <2>2. MapTypes' /\ CapacityOK' /\ Roomy'
    BY <1>3, <1>8, <2>1 DEF MapTypes, CapacityOK, Roomy
  <2>3. Tables' = Tables
    BY <2>1 DEF Tables
  <2>4. OneOwner'
    BY <1>3, <1>7, <1>8, <2>3, MoreMarks
  <2>5. Marked(k + 1)'
    BY <1>5, <1>6, <1>7, <2>1, Limits DEF Marked
  <2>6. Costs(k + 1)'
    <3>1. \A s \in Space : /\ Len(items[s]) \in Nat /\ Len(items[s]) + 2 <= k
                           /\ Len(items[s]) + 2 <= Frames
      BY <1>4, <1>8 DEF Costs, MapTypes
    <3>2. \A s \in Space : Len(items[s]) + 2 <= k + 1
      BY <3>1
    <3> QED  BY <2>1, <3>1, <3>2 DEF Costs
  <2>7. k + 1 \in Nat  OBVIOUS
  <2> QED  BY <1>9, <1>10, <2>2, <2>4, <2>5, <2>6, <2>7 DEF IInv
<1> QED  BY <1>12, <1>13

LEMMA DestroyedInv == ASSUME IInv, DoDestroyed PROVE IInv'
<1>1. /\ work # <<>> /\ work' = Tail(work) /\ stage' = "destroyed" /\ halted' = "panic"
      /\ UNCHANGED <<mapVars, capacity, heap_next, blocks, mem>>
  BY DEF DoDestroyed, Doing, Done
<1>2. WorkTypes' /\ StateTypes'
  BY <1>1, HeadOfWork DEF IInv, WorkTypes, StateTypes
<1> QED  BY <1>1, <1>2, KeepsMaps DEF IInv, MapTypes

\* The calls the program makes, and the reaper, only set the work.
LEMMA CallsInv ==
  ASSUME IInv, NEW ops \in Seq(Inside), Calls(ops)
  PROVE  IInv'
<1>1. work' = ops /\ UNCHANGED <<mapVars, capacity, heap_next, blocks, mem, stage, halted>>
  BY DEF Calls
<1>2. WorkTypes' /\ StateTypes'
  BY <1>1 DEF IInv, WorkTypes, StateTypes
<1> QED  BY <1>1, <1>2, KeepsMaps DEF IInv, MapTypes

LEMMA PutInv ==
  ASSUME IInv, NEW S, NEW v \in Value, Put(S, v)
  PROVE  IInv'
<1>1. /\ mem' = [f \in Frame |-> IF \E p \in S : PageOf("program", p) = f THEN v ELSE mem[f]]
      /\ UNCHANGED <<mapVars, capacity, heap_next, blocks, work, stage, halted>>
  BY DEF Put
<1>2. mem' \in [Frame -> Value]
  BY <1>1 DEF IInv, MapTypes
<1>3. WorkTypes' /\ StateTypes'
  BY <1>1 DEF IInv, WorkTypes, StateTypes
<1> QED  BY <1>1, <1>2, <1>3, KeepsMaps

\* An address that is not the kernel's lies below the end of the heap.
LEMMA AddressIs ==
  ASSUME NEW p \in Address
  PROVE  p \in Nat /\ (~OfKernel(p) => p < HeapEnd)
BY Limits DEF Address, OfKernel

LEMMA ProgramInv == ASSUME IInv, Program \/ Reap PROVE IInv'
<1>1. /\ 0 \in Nat /\ 0 < HeapEnd /\ 1 \in Nat
      /\ \A p \in LowPage : p \in Nat /\ p < HeapEnd
  BY Limits DEF LowPage
<1>2. /\ "kernel" \in Space /\ "program" \in Space
      /\ {"proc", "space", "items", "file", "child", "none"} \subseteq Use
  BY DEF Space, Use
<1>3. ASSUME NEW p \in Address, SysMap(p) \/ SysUmap(p) PROVE IInv'
  <2>3. p \in Nat /\ p < HeapEnd
    BY <1>3, AddressIs DEF SysMap, SysUmap
  <2>1. Map("program", p) \in Inside /\ Unmap("program", p) \in Inside
    BY <1>1, <1>2, <2>3, DoIsInside DEF Map, Unmap
  <2>2. <<Map("program", p)>> \in Seq(Inside) /\ <<Unmap("program", p)>> \in Seq(Inside)
    BY <2>1
  <2> QED  BY <1>3, <2>2, CallsInv DEF SysMap, SysUmap
<1>4. ASSUME NEW p \in LowPage, NEW v \in Value, Store(p, v) \/ CopyToUser(p, v) PROVE IInv'
  BY <1>4, PutInv DEF Store, CopyToUser
<1>5. ASSUME Open PROVE IInv'
  <2>1. Kmalloc("program", 1, "file") \in Inside
    BY <1>1, <1>2, DoIsInside DEF Kmalloc
  <2>2. <<Kmalloc("program", 1, "file")>> \in Seq(Inside)
    BY <2>1
  <2> QED  BY <1>5, <2>2, CallsInv DEF Open
<1>6. ASSUME Close PROVE IInv'
  <2>1. PICK b \in blocks : Free("program", b, <<>>)
    BY <1>6 DEF Close
  <2>2. <<>> \in Seq(Inside)
    OBVIOUS
  <2> QED  BY <1>2, <2>1, <2>2, FreeInv
<1>7. ASSUME SysFork PROVE IInv'
  <2>1. Kmalloc("program", 1, "child") \in Inside
    BY <1>1, <1>2, DoIsInside DEF Kmalloc
  <2>2. <<Kmalloc("program", 1, "child"), Kmalloc("program", 1, "child")>> \in Seq(Inside)
    BY <2>1
  <2> QED  BY <1>7, <2>2, CallsInv DEF SysFork
<1>8. ASSUME SysExit \/ SchedLoad \/ Takes PROVE IInv'
  <2>1. /\ UNCHANGED <<mapVars, capacity, heap_next, blocks, mem, work>>
        /\ stage' \in {stage, "exited"} /\ halted' \in {halted, "fault", "taken"}
    BY <1>8 DEF SysExit, SchedLoad, Takes
  <2>2. WorkTypes' /\ StateTypes' /\ mem' \in [Frame -> Value]
    BY <2>1 DEF IInv, WorkTypes, StateTypes, MapTypes
  <2>3. halted' \in {halted, "panic", "fault", "taken"}
    BY <2>1
  <2> QED  BY <2>1, <2>2, <2>3, KeepsMaps
<1>9. ASSUME Reap PROVE IInv'
  <2>1. /\ Run("closefiles") \in Inside /\ Run("clear") \in Inside
        /\ Kfree("items") \in Inside /\ Kfree("space") \in Inside /\ Kfree("proc") \in Inside
        /\ Run("destroyed") \in Inside
    BY <1>1, <1>2, DoIsInside DEF Run, Kfree
  <2>2. <<Run("closefiles"), Run("clear"), Kfree("items"), Kfree("space"),
          Kfree("proc"), Run("destroyed")>> \in Seq(Inside)
    BY <2>1
  <2> QED  BY <1>9, <2>2, CallsInv DEF Reap
<1> QED  BY <1>3, <1>4, <1>5, <1>6, <1>7, <1>8, <1>9 DEF Program, SysMapsKernel

LEMMA StutterInv == ASSUME IInv, UNCHANGED vars PROVE IInv'
<1>1. UNCHANGED <<mapVars, capacity, heap_next, blocks, mem, work, stage, halted>>
  BY DEF vars
<1>2. WorkTypes' /\ StateTypes'
  BY <1>1 DEF IInv, WorkTypes, StateTypes
<1> QED  BY <1>1, <1>2, KeepsMaps DEF IInv, MapTypes

\* The inductive invariant: the bitmap is its own start, every entry of a
\* list cost a mark, and a frame serves one purpose.
THEOREM Invariance == Spec => []IInv
<1>1. IInv /\ [Next]_vars => IInv'
  BY KmallocInv, MapInv, UnmapInv, KfreeInv, CloseFilesInv, ClearInv, CopyInv,
     DestroyedInv, ProgramInv, StutterInv DEF Next, Operation
<1> QED  BY <1>1, InitInv, PTL DEF Spec

-----------------------------------------------------------------------------
(* The properties.                                                          *)

\* The variables keep their types: no mark leaves the bitmap, and the capacity
\* of a copied space, its count, does not exceed that of a list's block.
THEOREM TypesKept == Spec => []TypeOK
<1>1. IInv => TypeOK
  <2> SUFFICES ASSUME IInv PROVE TypeOK
    OBVIOUS
  <2>1. bitmap \subseteq 0 .. TotalBitmap - 1
    BY Limits DEF IInv, Marked
  <2>2. work \in Seq(Op)
    <3>1. work \in Seq(Inside) /\ Inside \subseteq Op  BY DEF IInv, WorkTypes, Inside
    <3> QED  BY <3>1, SeqMonotonic
  <2> QED  BY <2>1, <2>2 DEF IInv, TypeOK, MapTypes, WorkTypes, StateTypes, CapacityOK
<1> QED  BY <1>1, Invariance, PTL

\* Whatever is mapped, unmapped, copied and freed, and in spite of the bit
\* pmm_free clears, a frame is one table or what one entry maps.
THEOREM OneOwnerEach == Spec => []FramesHaveOneOwner
<1>1. IInv => FramesHaveOneOwner
  <2> SUFFICES ASSUME IInv PROVE FramesHaveOneOwner
    OBVIOUS
  <2>1. OneOwner
    BY DEF IInv
  <2>2. ASSUME NEW a \in Slots
        PROVE  /\ a[1] \in Tables /\ a[2] \in Entry /\ a = <<a[1], a[2]>>
               /\ tables[a[1]][a[2]] \in Frame
    BY DEF Slots
  <2>3. \A a, b \in Slots : tables[a[1]][a[2]] = tables[b[1]][b[2]] => a = b
    <3> SUFFICES ASSUME NEW a \in Slots, NEW b \in Slots,
                        tables[a[1]][a[2]] = tables[b[1]][b[2]]
                 PROVE  a = b
      OBVIOUS
    <3>1. a[1] = b[1] /\ a[2] = b[2]
      BY <2>1, <2>2 DEF OneOwner
    <3> QED  BY <2>2, <3>1
  <2>4. \A a \in Slots : tables[a[1]][a[2]] \in bitmap \ Tables
    BY <2>1, <2>2 DEF OneOwner
  <2> QED  BY <2>1, <2>3, <2>4 DEF OneOwner, FramesHaveOneOwner
<1> QED  BY <1>1, Invariance, PTL

\* ItemsFit: every entry of a list has cost a mark of the bitmap, and a list,
\* whose room paging_map never looks at, is outgrown only when the device pages
\* left less than an entry for each frame.
THEOREM ItemsAlwaysFit == Spec => []ItemsFit
<1>1. IInv => ItemsFit
  <2> SUFFICES ASSUME IInv PROVE ItemsFit
    OBVIOUS
  <2>1. PICK k \in Nat : Marked(k) /\ Costs(k)
    BY DEF IInv
  <2>2. \A s \in Space : Len(items[s]) \in Nat /\ Len(items[s]) + 2 <= k
    BY <2>1 DEF IInv, Costs, MapTypes
  <2>3. Cardinality(bitmap) = k
    <3>1. bitmap = 0 .. k - 1 /\ k >= 2
      BY <2>1, <2>2 DEF Marked, Space
    <3> QED  BY <3>1, FS_Interval
  <2> QED  BY <2>2, <2>3 DEF IInv, Roomy, ItemsFit
<1> QED  BY <1>1, Invariance, PTL

-----------------------------------------------------------------------------
(* Memory implements AddressSpace: the pages of the program are its own.    *)
(* Its page tables below the kernel's half belong to its directory alone,   *)
(* and to one entry of it, although the directory was copied from the       *)
(* kernel's and goes on sharing the kernel's tables.                        *)


\* What the program sees of its memory, the refinement mapping.
At(p) == IF Present("program", p) THEN mem[PageOf("program", p)] ELSE -1
ProgramMemory == [p \in LowPage |-> At(p)]

LowDir == {d \in Dir : d < LowTables}
Table(d) == dirs["program"][d]

\* A low table of the program is in one entry of one directory.
Own ==
  \A d \in LowDir : Table(d) # None =>
    \A s \in Space : \A e \in Dir : dirs[s][e] = Table(d) => s = "program" /\ e = d

\* It maps nothing of the kernel's image.
NoImage ==
  \A d \in LowDir : Table(d) # None => \A e \in Entry : tables[Table(d)][e] # Image

\* A frame never marked would make an empty table.
Fresh == \A f \in Frame \ bitmap : \A e \in Entry : tables[f][e] = None

Apart == Own /\ NoImage /\ Fresh

\* Until the program's space is copied, it has no low table, and what comes
\* before the copy is done in the kernel's space.
NoLow == \A d \in LowDir : Table(d) = None
CopyFirst(w) ==
  \A i \in 1 .. Len(w) : w[i].op = "copy" => \A j \in 1 .. i : w[j].space = "kernel"
Copies(w) == \E i \in 1 .. Len(w) : w[i].op = "copy"
Pending == CopyFirst(work) /\ (Copies(work) => NoLow)

RInv == Apart /\ Pending

-----------------------------------------------------------------------------
(* Low pages.                                                               *)

LEMMA LowAddress ==
  ASSUME NEW p \in LowPage
  PROVE  p \in Nat /\ p < HeapEnd /\ DirOf(p) \in LowDir /\ EntryOf(p) \in Entry
<1>1. p \in Nat /\ p < LowTables * PerTable /\ p < HeapEnd
  BY Limits DEF LowPage
<1>2. DirOf(p) \in Dir /\ EntryOf(p) \in Entry
  BY <1>1, AddressHasEntries
<1>3. DirOf(p) < LowTables
  <2> DEFINE a == p \div PerTable
  <2>1. a \in Nat /\ a * PerTable <= p  BY <1>1, Limits
  <2> HIDE DEF a
  <2>2. ASSUME a >= LowTables PROVE FALSE
    <3>1. a * PerTable >= LowTables * PerTable  BY <2>1, <2>2, Limits
    <3>2. a * PerTable \in Nat  BY <2>1, Limits
    <3> QED  BY <1>1, <2>1, <3>1, <3>2, Limits
  <2>3. a < LowTables  BY <2>1, <2>2, Limits
  <2> QED  BY <2>3 DEF a, DirOf
<1> QED  BY <1>1, <1>2, <1>3 DEF LowDir

LEMMA LowByDir ==
  ASSUME NEW p \in Nat, DirOf(p) \in LowDir
  PROVE  p \in LowPage
<1> DEFINE a == p \div PerTable
<1>1. a \in Nat /\ p < (a + 1) * PerTable  BY Limits
<1>2. a < LowTables  BY DEF LowDir, DirOf
<1> HIDE DEF a
<1>3. (a + 1) * PerTable <= LowTables * PerTable  BY <1>1, <1>2, Limits
<1>4. (a + 1) * PerTable \in Nat  BY <1>1, Limits
<1>5. p < LowTables * PerTable  BY <1>1, <1>3, <1>4, Limits
<1> QED  BY <1>5, Limits DEF LowPage

LEMMA SamePage ==
  ASSUME NEW p \in Nat, NEW q \in Nat, DirOf(p) = DirOf(q), EntryOf(p) = EntryOf(q)
  PROVE  p = q
<1>1. p = PerTable * (p \div PerTable) + (p % PerTable)  BY Limits
<1>2. q = PerTable * (q \div PerTable) + (q % PerTable)  BY Limits
<1> QED  BY <1>1, <1>2 DEF DirOf, EntryOf

\* A low page is absent, or a marked frame that is no table.
LEMMA LowPages ==
  ASSUME MapTypes, OneOwner, NoImage, NEW p \in LowPage
  PROVE  /\ TableOf("program", p) = Table(DirOf(p))
         /\ TableOf("program", p) # None =>
              /\ TableOf("program", p) \in Tables \cap Frame
              /\ PageOf("program", p) = tables[TableOf("program", p)][EntryOf(p)]
         /\ TableOf("program", p) = None => PageOf("program", p) = None
         /\ Present("program", p) =>
              /\ TableOf("program", p) # None
              /\ PageOf("program", p) \in Frame
              /\ PageOf("program", p) \in bitmap
<1>1. /\ p \in Nat /\ p < HeapEnd /\ DirOf(p) \in LowDir /\ EntryOf(p) \in Entry
      /\ "program" \in Space
  BY LowAddress DEF Space
<1>2. TableOf("program", p) = Table(DirOf(p))
  BY DEF TableOf, Table
<1>3. TableOf("program", p) # None =>
        /\ TableOf("program", p) \in Tables \cap Frame
        /\ PageOf("program", p) \in Frame \cup {None, Image}
  BY <1>1, PageTypes
<1>4. PageOf("program", p) = IF TableOf("program", p) = None THEN None
                             ELSE tables[TableOf("program", p)][EntryOf(p)]
  BY DEF PageOf
<1>5. Present("program", p) =>
        /\ TableOf("program", p) # None
        /\ PageOf("program", p) \in Frame
  BY <1>1, <1>2, <1>3, <1>4 DEF Present, NoImage
<1>6. Present("program", p) => PageOf("program", p) \in bitmap
  BY <1>1, <1>3, <1>4, <1>5 DEF OneOwner
<1> QED  BY <1>2, <1>3, <1>4, <1>5, <1>6

\* No two low pages share a frame.
LEMMA OnePage ==
  ASSUME MapTypes, OneOwner, Apart, NEW p \in LowPage, NEW q \in LowPage,
         Present("program", p), PageOf("program", p) = PageOf("program", q)
  PROVE  p = q
<1>1. NoImage /\ Own
  BY DEF Apart
<1>2. Present("program", q)
  BY DEF Present
<1>3. /\ TableOf("program", p) = Table(DirOf(p)) /\ TableOf("program", p) \in Tables
      /\ PageOf("program", p) = tables[TableOf("program", p)][EntryOf(p)]
      /\ PageOf("program", p) \in Frame /\ TableOf("program", p) # None
  BY <1>1, LowPages
<1>4. /\ TableOf("program", q) = Table(DirOf(q)) /\ TableOf("program", q) \in Tables
      /\ PageOf("program", q) = tables[TableOf("program", q)][EntryOf(q)]
  BY <1>1, <1>2, LowPages
<1>5. /\ p \in Nat /\ DirOf(p) \in LowDir /\ EntryOf(p) \in Entry
      /\ q \in Nat /\ DirOf(q) \in LowDir /\ EntryOf(q) \in Entry
  BY LowAddress
<1>6. TableOf("program", p) = TableOf("program", q) /\ EntryOf(p) = EntryOf(q)
  BY <1>3, <1>4, <1>5 DEF OneOwner
<1>7. DirOf(p) = DirOf(q)
  BY <1>1, <1>3, <1>4, <1>5, <1>6 DEF Own, Table, LowDir, Space
<1> QED  BY <1>5, <1>6, <1>7, SamePage

-----------------------------------------------------------------------------
(* Mapping and unmapping a page.                                            *)

\* The memory is what its pages hold.
LEMMA SameMemory ==
  ASSUME \A p \in LowPage : At(p)' = At(p)
  PROVE  ProgramMemory' = ProgramMemory
BY DEF ProgramMemory

LEMMA OneChange ==
  ASSUME NEW q \in LowPage, NEW v, At(q)' = v, \A p \in LowPage : p # q => At(p)' = At(p)
  PROVE  ProgramMemory' = [ProgramMemory EXCEPT ![q] = v]
BY DEF ProgramMemory

LEMMA SameMaps ==
  ASSUME UNCHANGED <<mapVars, mem>>
  PROVE  ProgramMemory' = ProgramMemory /\ (Apart => Apart') /\ (NoLow => NoLow')
<1>1. UNCHANGED <<bitmap, dirs, tables, mem>>
  BY DEF mapVars
<1>2. \A p \in LowPage : At(p)' = At(p)
  BY <1>1 DEF At, Present, PageOf, TableOf
<1>3. (Apart => Apart') /\ (NoLow => NoLow')
  BY <1>1 DEF Apart, Own, NoImage, Fresh, NoLow, Table
<1> QED  BY <1>2, <1>3, SameMemory

\* What directories point to is marked.
LEMMA TablesMarked ==
  ASSUME MapTypes, OneOwner, NEW s \in Space, NEW d \in Dir, dirs[s][d] # None
  PROVE  dirs[s][d] \in Tables /\ dirs[s][d] \in Frame /\ dirs[s][d] \in bitmap
<1>1. dirs[s][d] \in Frame
  BY DEF MapTypes
<1>2. dirs[s][d] \in Tables
  BY <1>1, TableIs
<1> QED  BY <1>1, <1>2 DEF OneOwner

\* A page mapped: frame f, never marked before, in a table t that was there or
\* was never marked either.
Mapped(s, p, f, t) ==
  /\ f \notin bitmap /\ f # t
  /\ IF TableOf(s, p) = None THEN t \notin bitmap ELSE t = TableOf(s, p)
  /\ bitmap' = bitmap \cup {f, t}
  /\ \A q \in Space : \A e \in Dir :
       dirs'[q][e] = IF q = s /\ e = DirOf(p) THEN t ELSE dirs[q][e]
  /\ \A u \in Frame : \A e \in Entry :
       tables'[u][e] = IF u = t /\ e = EntryOf(p) THEN f ELSE tables[u][e]
  /\ \A u \in Frame : mem'[u] = IF u = f THEN 0 ELSE mem[u]

LEMMA MapEffect ==
  ASSUME IInv, halted = "no", NEW s \in Space, NEW p \in Nat, p < HeapEnd, PagingMap(s, p)
  PROVE  \/ /\ UNCHANGED <<dirs, tables, mem>> /\ bitmap \subseteq bitmap'
            /\ halted' \in {"fault", "overrun"}
         \/ \E f, t \in Frame : Mapped(s, p, f, t)
<1>1. PICK f \in PmmNext(bitmap) :
        \E t \in IF TableOf(s, p) = None THEN PmmNext(bitmap \cup {f}) ELSE {TableOf(s, p)} :
          /\ bitmap' = bitmap \cup {f, t}
          /\ \/ UNCHANGED <<dirs, tables, mem>> /\ halted' \in {"fault", "overrun"}
             \/ /\ {f, t} \subseteq Frame
                /\ dirs' = [dirs EXCEPT ![s][DirOf(p)] = t]
                /\ tables' = [tables EXCEPT ![t][EntryOf(p)] = f]
                /\ mem' = [mem EXCEPT ![f] = 0]
  BY DEF PagingMap
<1>2. PICK t \in IF TableOf(s, p) = None THEN PmmNext(bitmap \cup {f}) ELSE {TableOf(s, p)} :
          /\ bitmap' = bitmap \cup {f, t}
          /\ \/ UNCHANGED <<dirs, tables, mem>> /\ halted' \in {"fault", "overrun"}
             \/ /\ {f, t} \subseteq Frame
                /\ dirs' = [dirs EXCEPT ![s][DirOf(p)] = t]
                /\ tables' = [tables EXCEPT ![t][EntryOf(p)] = f]
                /\ mem' = [mem EXCEPT ![f] = 0]
  BY <1>1
<1>3. CASE UNCHANGED <<dirs, tables, mem>> /\ halted' \in {"fault", "overrun"}
  BY <1>2, <1>3
<1>4. CASE /\ {f, t} \subseteq Frame
           /\ dirs' = [dirs EXCEPT ![s][DirOf(p)] = t]
           /\ tables' = [tables EXCEPT ![t][EntryOf(p)] = f]
           /\ mem' = [mem EXCEPT ![f] = 0]
  <2>1. MapTypes /\ OneOwner
    BY DEF IInv
  <2>2. /\ DirOf(p) \in Dir /\ EntryOf(p) \in Entry
        /\ TableOf(s, p) \in Tables \cup {None}
    BY <2>1, PageTypes
  <2>3. f \notin bitmap
    BY <1>1 DEF PmmNext
  <2>4. IF TableOf(s, p) = None THEN t \notin bitmap /\ f # t ELSE t = TableOf(s, p)
    BY <1>2 DEF PmmNext
  <2>5. TableOf(s, p) # None => t \in bitmap
    BY <2>1, <2>2, <2>4 DEF OneOwner
  <2>6. f # t
    BY <2>3, <2>4, <2>5
  <2>7. \A q \in Space : \A e \in Dir :
          dirs'[q][e] = IF q = s /\ e = DirOf(p) THEN t ELSE dirs[q][e]
    BY <1>4, <2>1, <2>2 DEF MapTypes
  <2>8. \A u \in Frame : \A e \in Entry :
          tables'[u][e] = IF u = t /\ e = EntryOf(p) THEN f ELSE tables[u][e]
    BY <1>4, <2>1, <2>2 DEF MapTypes
  <2>9. \A u \in Frame : mem'[u] = IF u = f THEN 0 ELSE mem[u]
    BY <1>4, <2>1 DEF MapTypes
  <2>10. Mapped(s, p, f, t)
    BY <1>2, <2>3, <2>4, <2>6, <2>7, <2>8, <2>9 DEF Mapped
  <2> QED  BY <1>4, <2>10
<1> QED  BY <1>2, <1>3, <1>4

LEMMA MappedApart ==
  ASSUME MapTypes, OneOwner, Apart, NEW s \in Space, NEW p \in Nat, p < HeapEnd,
         NEW f \in Frame, NEW t \in Frame, Mapped(s, p, f, t)
  PROVE  Apart' /\ (s # "program" /\ NoLow => NoLow')
<1>1. "program" \in Space /\ None \notin Frame /\ Image \notin Frame /\ LowDir \subseteq Dir
  BY Limits DEF Space, None, Image, Frame, LowDir
<1>2. \A q \in Space : \A e \in Dir : dirs[q][e] # None => dirs[q][e] \in bitmap
  BY TablesMarked
<1>3. \A q \in Space : \A e \in Dir :
        dirs'[q][e] = IF q = s /\ e = DirOf(p) THEN t ELSE dirs[q][e]
  BY DEF Mapped
<1>4. DirOf(p) \in Dir /\ TableOf(s, p) = dirs[s][DirOf(p)]
  BY PageTypes DEF TableOf
<1>5. TableOf(s, p) # None => \A q \in Space : \A e \in Dir : dirs'[q][e] = dirs[q][e]
  BY <1>3, <1>4 DEF Mapped
<1>6. TableOf(s, p) = None => t \notin bitmap
  BY DEF Mapped
<1>7. Own'
  <2> SUFFICES ASSUME NEW d \in LowDir, dirs'["program"][d] # None,
                      NEW q \in Space, NEW e \in Dir, dirs'[q][e] = dirs'["program"][d]
               PROVE  q = "program" /\ e = d
    BY DEF Own, Table, LowDir
  <2>1. CASE TableOf(s, p) # None
    BY <1>1, <1>5, <2>1 DEF Apart, Own, Table
  <2>2. CASE TableOf(s, p) = None
    BY <1>1, <1>2, <1>3, <1>6, <2>2 DEF Apart, Own, Table
  <2> QED  BY <2>1, <2>2
<1>8. \A u \in Frame : \A e \in Entry :
        tables'[u][e] = IF u = t /\ e = EntryOf(p) THEN f ELSE tables[u][e]
  BY DEF Mapped
<1>9. NoImage'
  <2> SUFFICES ASSUME NEW d \in LowDir, dirs'["program"][d] # None, NEW e \in Entry
               PROVE  tables'[dirs'["program"][d]][e] # Image
    BY DEF NoImage, Table, LowDir, Entry
  <2>1. dirs'["program"][d] \in Frame
    BY <1>1, <1>3 DEF MapTypes
  <2>2. CASE dirs'["program"][d] = dirs["program"][d]
    BY <1>1, <1>8, <2>1, <2>2 DEF Apart, NoImage, Table
  <2>3. CASE dirs'["program"][d] # dirs["program"][d]
    <3>1. dirs'["program"][d] = t /\ t \notin bitmap
      BY <1>1, <1>3, <1>5, <1>6, <2>3
    <3>2. tables[t][e] = None
      BY <3>1 DEF Apart, Fresh
    <3> QED  BY <1>1, <1>8, <3>1, <3>2 DEF None, Image
  <2> QED  BY <2>2, <2>3
<1>10. Fresh'
  <2> SUFFICES ASSUME NEW u \in Frame \ bitmap', NEW e \in Entry PROVE tables'[u][e] = None
    BY DEF Fresh, Frame, Entry, None
  <2>1. u # t /\ u \notin bitmap
    BY DEF Mapped
  <2> QED  BY <1>8, <2>1 DEF Apart, Fresh
<1>11. s # "program" /\ NoLow => NoLow'
  BY <1>1, <1>3 DEF NoLow, Table, LowDir, Dir, None
<1> QED  BY <1>7, <1>9, <1>10, <1>11 DEF Apart

\* The program sees the page it maps, zeroed, and no other change.
LEMMA MappedMemory ==
  ASSUME MapTypes, OneOwner, Apart, NEW s \in Space, NEW p \in Nat, p < HeapEnd,
         NEW f \in Frame, NEW t \in Frame, Mapped(s, p, f, t)
  PROVE  \/ ProgramMemory' = ProgramMemory
         \/ \E q \in LowPage : ProgramMemory' = [ProgramMemory EXCEPT ![q] = 0]
<1>1. "program" \in Space /\ None \notin Frame /\ Image \notin Frame /\ LowDir \subseteq Dir
  BY Limits DEF Space, None, Image, Frame, LowDir
<1>2. /\ \A q \in Space : \A e \in Dir :
           dirs'[q][e] = IF q = s /\ e = DirOf(p) THEN t ELSE dirs[q][e]
      /\ \A u \in Frame : \A e \in Entry :
           tables'[u][e] = IF u = t /\ e = EntryOf(p) THEN f ELSE tables[u][e]
      /\ \A u \in Frame : mem'[u] = IF u = f THEN 0 ELSE mem[u]
      /\ f \notin bitmap
      /\ IF TableOf(s, p) = None THEN t \notin bitmap ELSE t = TableOf(s, p)
  BY DEF Mapped
<1>3. DirOf(p) \in Dir /\ EntryOf(p) \in Entry /\ TableOf(s, p) = dirs[s][DirOf(p)]
  BY PageTypes DEF TableOf
<1>4. Own /\ NoImage /\ Fresh
  BY DEF Apart
<1>5. ASSUME NEW q \in LowPage, ~(s = "program" /\ q = p)
      PROVE  At(q)' = At(q)
  <2>1. q \in Nat /\ DirOf(q) \in LowDir /\ DirOf(q) \in Dir /\ EntryOf(q) \in Entry
    BY <1>1, LowAddress
  <2>2. ~(s = "program" /\ DirOf(q) = DirOf(p) /\ EntryOf(q) = EntryOf(p))
    BY <1>5, <2>1, SamePage
  <2> DEFINE d == DirOf(q)  e == EntryOf(q)  u == dirs["program"][d]
  <2>3. /\ PageOf("program", q) = IF u = None THEN None ELSE tables[u][e]
        /\ PageOf("program", q)' = IF dirs'["program"][d] = None THEN None
                                   ELSE tables'[dirs'["program"][d]][e]
    BY DEF PageOf, TableOf
  <2>4. CASE u # None
    <3>1. u \in Frame /\ u \in bitmap
      BY <1>1, <2>1, <2>4, TablesMarked
    <3>2. dirs'["program"][d] = u
      BY <1>1, <1>2, <1>3, <2>1, <2>4
    <3>3. ~(u = t /\ e = EntryOf(p))
      <4>1. SUFFICES ASSUME u = t, e = EntryOf(p) PROVE FALSE
        OBVIOUS
      <4>2. dirs[s][DirOf(p)] = u
        BY <1>2, <1>3, <3>1, <4>1
      <4>3. s = "program" /\ DirOf(p) = d
        BY <1>3, <1>4, <2>1, <2>4, <4>2 DEF Own, Table
      <4> QED  BY <2>2, <4>1, <4>3
    <3>4. PageOf("program", q)' = PageOf("program", q)
      BY <1>2, <2>1, <2>3, <2>4, <3>1, <3>2, <3>3
    <3>5. Present("program", q) => PageOf("program", q) \in Frame /\ PageOf("program", q) \in bitmap
      BY <1>4, LowPages
    <3>6. Present("program", q) => mem'[PageOf("program", q)] = mem[PageOf("program", q)]
      BY <1>2, <3>5
    <3> QED  BY <3>4, <3>6 DEF At, Present
  <2>5. CASE u = None
    <3>1. dirs'["program"][d] = None \/ dirs'["program"][d] = t
      BY <1>1, <1>2, <2>1, <2>5
    <3>2. CASE dirs'["program"][d] = None
      BY <2>3, <2>5, <3>2 DEF At, Present
    <3>3. CASE dirs'["program"][d] = t
      <4>1. s = "program" /\ d = DirOf(p) /\ t \notin bitmap
        BY <1>1, <1>2, <1>3, <2>1, <2>5, <3>3
      <4>2. tables'[t][e] = None
        BY <1>2, <1>4, <2>1, <2>2, <4>1 DEF Fresh
      <4>3. PageOf("program", q)' = None /\ PageOf("program", q) = None
        BY <2>3, <2>5, <3>3, <4>2
      <4> QED  BY <4>3 DEF At, Present
    <3> QED  BY <3>1, <3>2, <3>3
  <2> QED  BY <2>4, <2>5
<1>6. CASE s = "program" /\ p \in LowPage
  <2>1. dirs'["program"][DirOf(p)] = t /\ tables'[t][EntryOf(p)] = f /\ mem'[f] = 0
    BY <1>1, <1>2, <1>3, <1>6
  <2>2. PageOf("program", p)' = f
    BY <1>1, <2>1 DEF PageOf, TableOf
  <2>3. At(p)' = 0
    BY <1>1, <2>1, <2>2 DEF At, Present
  <2>4. ProgramMemory' = [ProgramMemory EXCEPT ![p] = 0]
    BY <1>5, <1>6, <2>3, OneChange
  <2> QED  BY <1>6, <2>4
<1>7. CASE ~(s = "program" /\ p \in LowPage)
  <2>1. ProgramMemory' = ProgramMemory
    BY <1>5, <1>7, SameMemory
  <2> QED  BY <2>1
<1> QED  BY <1>6, <1>7

\* A step that maps a page.
LEMMA MapStep ==
  ASSUME IInv, Apart, halted = "no", NEW s \in Space, NEW p \in Nat, p < HeapEnd, PagingMap(s, p)
  PROVE  /\ Apart' /\ (s # "program" /\ NoLow => NoLow')
         /\ \/ ProgramMemory' = ProgramMemory
            \/ \E q \in LowPage : ProgramMemory' = [ProgramMemory EXCEPT ![q] = 0]
<1>1. MapTypes /\ OneOwner
  BY DEF IInv
<1>2. CASE UNCHANGED <<dirs, tables, mem>> /\ bitmap \subseteq bitmap'
  <2>1. \A q \in LowPage : At(q)' = At(q)
    BY <1>2 DEF At, Present, PageOf, TableOf
  <2>2. Apart' /\ (NoLow => NoLow')
    BY <1>2 DEF Apart, Own, NoImage, Fresh, NoLow, Table
  <2> QED  BY <2>1, <2>2, SameMemory
<1>3. CASE \E f, t \in Frame : Mapped(s, p, f, t)
  <2>1. PICK f \in Frame, t \in Frame : Mapped(s, p, f, t)
    BY <1>3
  <2> QED  BY <1>1, <2>1, MappedApart, MappedMemory
<1> QED  BY <1>2, <1>3, MapEffect

\* A step that unmaps a page: the program sees it go, and no other change.
LEMMA UnmapStep ==
  ASSUME IInv, Apart, halted = "no", NEW s \in Space, NEW p \in Nat, p < HeapEnd,
         PagingUnmap(s, p), UNCHANGED mem
  PROVE  /\ Apart' /\ (NoLow => NoLow')
         /\ \/ ProgramMemory' = ProgramMemory
            \/ \E q \in LowPage : ProgramMemory' = [ProgramMemory EXCEPT ![q] = -1]
<1>1. MapTypes /\ OneOwner /\ Own /\ NoImage /\ Fresh
  BY DEF IInv, Apart
<1>2. CASE TableOf(s, p) = None
  <2>1. UNCHANGED <<mapVars, mem>>
    BY <1>2 DEF PagingUnmap
  <2> QED  BY <2>1, SameMaps
<1>3. CASE TableOf(s, p) # None
  <2> DEFINE t == TableOf(s, p)
  <2>1. /\ tables' = [tables EXCEPT ![t][EntryOf(p)] = None] /\ UNCHANGED dirs
        /\ bitmap' = IF Present(s, p) THEN PmmFree(PageOf(s, p)) ELSE bitmap
    BY <1>3 DEF PagingUnmap
  <2>2. /\ DirOf(p) \in Dir /\ EntryOf(p) \in Entry /\ t \in Frame
        /\ PageOf(s, p) \in Frame \cup {None, Image} /\ t = dirs[s][DirOf(p)]
    BY <1>1, <1>3, PageTypes DEF TableOf
  <2>3. bitmap' = bitmap
    <3>1. PICK k \in Nat : Marked(k)
      BY DEF IInv
    <3> QED  BY <2>1, <2>2, <3>1, FreeingFreesNothing DEF Present
  <2> HIDE DEF t
  <2>4. \A u \in Frame : \A e \in Entry :
          tables'[u][e] = IF u = t /\ e = EntryOf(p) THEN None ELSE tables[u][e]
    BY <1>1, <2>1, <2>2 DEF MapTypes
  <2>5. None # Image /\ "program" \in Space /\ LowDir \subseteq Dir
    BY DEF None, Image, Space, LowDir
  <2>6. \A d \in LowDir : Table(d) # None => Table(d) \in Frame
    BY <1>1, <2>5 DEF Table, MapTypes
  <2>7. Apart' /\ (NoLow => NoLow')
    <3>1. Own' /\ (NoLow => NoLow')
      BY <1>1, <2>1 DEF Own, NoLow, Table
    <3>2. NoImage'
      <4> SUFFICES ASSUME NEW d \in LowDir, dirs["program"][d] # None, NEW e \in Entry
                   PROVE  tables'[dirs["program"][d]][e] # Image
        BY <2>1 DEF NoImage, Table, LowDir, Entry
      <4> QED  BY <1>1, <2>4, <2>5, <2>6 DEF NoImage, Table
    <3>3. Fresh'
      <4> SUFFICES ASSUME NEW u \in Frame \ bitmap, NEW e \in Entry PROVE tables'[u][e] = None
        BY <2>3 DEF Fresh, Frame, Entry, None
      <4> QED  BY <1>1, <2>4 DEF Fresh
    <3> QED  BY <3>1, <3>2, <3>3 DEF Apart
  <2>8. ASSUME NEW q \in LowPage, ~(s = "program" /\ q = p)
        PROVE  At(q)' = At(q)
    <3>1. q \in Nat /\ DirOf(q) \in LowDir /\ DirOf(q) \in Dir /\ EntryOf(q) \in Entry
      BY <2>5, LowAddress
    <3>2. ~(s = "program" /\ DirOf(q) = DirOf(p) /\ EntryOf(q) = EntryOf(p))
      BY <2>8, <3>1, SamePage
    <3> DEFINE d == DirOf(q)  e == EntryOf(q)  u == dirs["program"][d]
    <3>3. /\ PageOf("program", q) = IF u = None THEN None ELSE tables[u][e]
          /\ PageOf("program", q)' = IF u = None THEN None ELSE tables'[u][e]
      BY <2>1 DEF PageOf, TableOf
    <3>4. u # None => tables'[u][e] = tables[u][e]
      <4> SUFFICES ASSUME u # None PROVE tables'[u][e] = tables[u][e]
        OBVIOUS
      <4>1. u \in Frame
        BY <2>6, <3>1 DEF Table
      <4>2. ~(u = t /\ e = EntryOf(p))
        BY <1>1, <2>2, <3>1, <3>2 DEF Own, Table
      <4> QED  BY <2>4, <3>1, <4>1, <4>2
    <3>5. PageOf("program", q)' = PageOf("program", q)
      BY <3>3, <3>4
    <3> QED  BY <3>5 DEF At, Present
  <2>9. CASE s = "program" /\ p \in LowPage
    <3>1. tables'[dirs'["program"][DirOf(p)]][EntryOf(p)] = None
      BY <2>1, <2>2, <2>4, <2>9
    <3>2. PageOf("program", p)' = None
      BY <3>1 DEF PageOf, TableOf
    <3>3. At(p)' = -1
      BY <3>2 DEF At, Present
    <3>4. ProgramMemory' = [ProgramMemory EXCEPT ![p] = -1]
      BY <2>8, <2>9, <3>3, OneChange
    <3> QED  BY <2>7, <2>9, <3>4
  <2>10. CASE ~(s = "program" /\ p \in LowPage)
    <3>1. ProgramMemory' = ProgramMemory
      BY <2>8, <2>10, SameMemory
    <3> QED  BY <2>7, <3>1
  <2> QED  BY <2>9, <2>10
<1> QED  BY <1>2, <1>3

\* A value put into pages that are there is seen in these and no other.
LEMMA PutStep ==
  ASSUME IInv, Apart, NEW S \in SUBSET LowPage, NEW v \in Value,
         \A p \in S : Present("program", p), Put(S, v)
  PROVE  /\ Apart' /\ (NoLow => NoLow')
         /\ \A p \in S : ProgramMemory[p] # -1
         /\ ProgramMemory' = [p \in LowPage |-> IF p \in S THEN v ELSE ProgramMemory[p]]
<1>1. /\ mem' = [f \in Frame |-> IF \E p \in S : PageOf("program", p) = f THEN v ELSE mem[f]]
      /\ UNCHANGED <<bitmap, dirs, tables>>
  BY DEF Put, mapVars
<1>2. MapTypes /\ OneOwner /\ NoImage
  BY DEF IInv, Apart
<1>3. Apart' /\ (NoLow => NoLow')
  BY <1>1 DEF Apart, Own, NoImage, Fresh, NoLow, Table
<1>4. \A p \in LowPage : Present("program", p) => PageOf("program", p) \in Frame
  BY <1>2, LowPages
<1>5. \A p \in S : ProgramMemory[p] # -1
  <2> SUFFICES ASSUME NEW p \in S PROVE ProgramMemory[p] # -1
    OBVIOUS
  <2>1. PageOf("program", p) \in Frame /\ ProgramMemory[p] = mem[PageOf("program", p)]
    BY <1>4 DEF ProgramMemory, At
  <2>2. mem[PageOf("program", p)] \in Value
    BY <1>2, <2>1 DEF MapTypes
  <2> QED  BY <2>1, <2>2, MemoryAssumption
<1>6. ASSUME NEW q \in LowPage PROVE At(q)' = IF q \in S THEN v ELSE At(q)
  <2>1. PageOf("program", q)' = PageOf("program", q)
    BY <1>1 DEF PageOf, TableOf
  <2>2. CASE q \in S
    <3>1. mem'[PageOf("program", q)] = v
      BY <1>1, <1>4, <2>2
    <3> QED  BY <2>1, <2>2, <3>1 DEF At, Present
  <2>3. CASE q \notin S /\ Present("program", q)
    <3>1. \A p \in S : PageOf("program", p) # PageOf("program", q)
      BY <1>2, <2>3, OnePage
    <3>2. mem'[PageOf("program", q)] = mem[PageOf("program", q)]
      BY <1>1, <1>4, <2>3, <3>1
    <3> QED  BY <2>1, <2>3, <3>2 DEF At, Present
  <2>4. CASE q \notin S /\ ~Present("program", q)
    BY <2>1, <2>4 DEF At, Present
  <2> QED  BY <2>2, <2>3, <2>4
<1>7. ProgramMemory' = [p \in LowPage |-> IF p \in S THEN v ELSE ProgramMemory[p]]
  BY <1>6 DEF ProgramMemory
<1> QED  BY <1>3, <1>5, <1>7

-----------------------------------------------------------------------------
(* The operations left.                                                     *)

LEMMA PendingTail ==
  ASSUME NEW w \in Seq(Inside), w # <<>>, CopyFirst(w)
  PROVE  /\ CopyFirst(Tail(w))
         /\ Copies(Tail(w)) => Copies(w) /\ Head(w).space = "kernel"
<1>1. /\ Tail(w) \in Seq(Inside) /\ Len(Tail(w)) = Len(w) - 1 /\ Len(w) \in Nat
      /\ \A i \in 1 .. Len(Tail(w)) : Tail(w)[i] = w[i + 1]
      /\ Head(w) = w[1]
  BY HeadTailProperties
<1> DEFINE r == Tail(w)
<1> HIDE DEF r
<1>2. ASSUME NEW i \in 1 .. Len(r), r[i].op = "copy"
      PROVE  /\ Copies(w) /\ Head(w).space = "kernel"
             /\ \A j \in 1 .. i : r[j].space = "kernel"
  <2>1. i + 1 \in 1 .. Len(w) /\ w[i + 1].op = "copy"
    BY <1>1, <1>2 DEF r
  <2>2. \A j \in 1 .. i + 1 : w[j].space = "kernel"
    BY <2>1 DEF CopyFirst
  <2>3. \A j \in 1 .. i : j \in 1 .. Len(r) /\ j + 1 \in 1 .. i + 1
    BY <1>1, <1>2 DEF r
  <2>4. \A j \in 1 .. i : r[j].space = "kernel"
    BY <1>1, <2>2, <2>3 DEF r
  <2>5. Head(w).space = "kernel"
    BY <1>1, <2>1, <2>2
  <2> QED  BY <2>1, <2>4, <2>5 DEF Copies
<1> QED  BY <1>2 DEF CopyFirst, Copies, r

LEMMA PendingBefore ==
  ASSUME NEW e \in Seq(Inside), NEW w \in Seq(Inside), CopyFirst(w),
         \A i \in 1 .. Len(e) : e[i].op # "copy",
         Copies(w) => \A i \in 1 .. Len(e) : e[i].space = "kernel"
  PROVE  CopyFirst(e \o w) /\ (Copies(e \o w) => Copies(w))
<1> DEFINE c == e \o w
<1>1. /\ Len(e) \in Nat /\ Len(w) \in Nat /\ Len(c) = Len(e) + Len(w)
      /\ \A i \in 1 .. Len(c) : c[i] = IF i <= Len(e) THEN e[i] ELSE w[i - Len(e)]
  BY ConcatProperties
<1> HIDE DEF c
<1>2. ASSUME NEW i \in 1 .. Len(c), c[i].op = "copy"
      PROVE  Copies(w) /\ \A j \in 1 .. i : c[j].space = "kernel"
  <2>1. i > Len(e)
    BY <1>1, <1>2
  <2> DEFINE h == i - Len(e)
  <2>2. h \in 1 .. Len(w) /\ w[h].op = "copy"
    BY <1>1, <1>2, <2>1
  <2>3. Copies(w) /\ \A j \in 1 .. h : w[j].space = "kernel"
    BY <2>2 DEF CopyFirst, Copies
  <2>4. ASSUME NEW j \in 1 .. i PROVE c[j].space = "kernel"
    <3>1. CASE j <= Len(e)
      BY <1>1, <2>3, <3>1
    <3>2. CASE j > Len(e)
      <4>1. j - Len(e) \in 1 .. h /\ c[j] = w[j - Len(e)]
        BY <1>1, <3>2
      <4> QED  BY <2>3, <4>1
    <3> QED  BY <1>1, <3>1, <3>2
  <2> QED  BY <2>3, <2>4
<1> QED  BY <1>2 DEF CopyFirst, Copies, c

LEMMA PendingEach ==
  ASSUME NEW op \in {"map", "unmap"}, NEW s \in Space, NEW p \in Nat, NEW n \in Nat,
         p + n <= HeapEnd, NEW w \in Seq(Inside), CopyFirst(w), Copies(w) => s = "kernel"
  PROVE  /\ CopyFirst(Each(op, s, p, n) \o w)
         /\ Copies(Each(op, s, p, n) \o w) => Copies(w)
<1>1. Each(op, s, p, n) \in Seq(Inside)
  BY EachIsInside
<1>2. Len(Each(op, s, p, n)) = n
  BY DEF Each
<1>3. \A i \in 1 .. n : Each(op, s, p, n)[i].op = op /\ Each(op, s, p, n)[i].space = s
  BY DEF Each, Do
<1> QED  BY <1>1, <1>2, <1>3, PendingBefore

-----------------------------------------------------------------------------
(* Every step.                                                              *)

\* What a step may do to the memory of the program.
Change ==
  \/ ProgramMemory' = ProgramMemory
  \/ \E q \in LowPage : \/ ProgramMemory' = [ProgramMemory EXCEPT ![q] = 0]
                        \/ ProgramMemory' = [ProgramMemory EXCEPT ![q] = -1]
  \/ \E S \in SUBSET LowPage, v \in Value :
       /\ \A p \in S : ProgramMemory[p] # -1
       /\ ProgramMemory' = [p \in LowPage |-> IF p \in S THEN v ELSE ProgramMemory[p]]

LEMMA InitRInv == Init => RInv /\ ProgramMemory = [p \in LowPage |-> -1]
<1> SUFFICES ASSUME Init PROVE RInv /\ ProgramMemory = [p \in LowPage |-> -1]
  OBVIOUS
<1>1. /\ bitmap = {0, 1} /\ work = Start
      /\ dirs = [s \in Space |-> [d \in Dir |->
                  IF s = "kernel" /\ d = DirOf(StackPage) THEN 1 ELSE None]]
      /\ tables = [f \in Frame |-> IF f = 1 THEN [e \in Entry |-> Image] ELSE NoTable]
  BY DEF Init
<1>2. \A d \in Dir : dirs["program"][d] = None
  BY <1>1 DEF Space
<1>3. NoLow
  BY <1>2 DEF NoLow, LowDir, Table
<1>4. Apart
  BY <1>1, <1>3 DEF Apart, Own, NoImage, Fresh, NoLow, NoTable
<1>5. \A p \in LowPage : At(p) = -1
  <2> SUFFICES ASSUME NEW p \in LowPage PROVE At(p) = -1
    OBVIOUS
  <2>1. TableOf("program", p) = None
    BY <1>2, LowAddress DEF TableOf, LowDir
  <2> QED  BY <2>1 DEF At, Present, PageOf
<1>6. CopyFirst(Start)
  <2>1. Len(Start) = 6
    BY DEF Start
  <2>2. /\ Start[1].space = "kernel" /\ Start[2].space = "kernel"
        /\ Start[3].space = "kernel" /\ Start[4].space = "kernel"
        /\ Start[5].op # "copy" /\ Start[6].op # "copy"
    BY DEF Start, Kmalloc, Run, Map, Do
  <2>3. ASSUME NEW i \in 1 .. 6, Start[i].op = "copy", NEW j \in 1 .. i
        PROVE  Start[j].space = "kernel"
    <3>1. j = 1 \/ j = 2 \/ j = 3 \/ j = 4
      BY <2>2, <2>3
    <3> QED  BY <2>2, <3>1
  <2> QED  BY <2>1, <2>3 DEF CopyFirst
<1> QED  BY <1>1, <1>3, <1>4, <1>5, <1>6 DEF RInv, Pending, ProgramMemory

\* A step that leaves the mappings and what pages hold.
LEMMA KeepsMemory ==
  ASSUME RInv, UNCHANGED <<mapVars, mem>>, CopyFirst(work'), Copies(work') => Copies(work)
  PROVE  RInv' /\ Change
<1>1. ProgramMemory' = ProgramMemory /\ Apart' /\ (NoLow => NoLow')
  BY SameMaps DEF RInv
<1>2. CopyFirst(work)' /\ (Copies(work)' => Copies(work))
  BY DEF CopyFirst, Copies
<1>3. Pending'
  BY <1>1, <1>2 DEF RInv, Pending
<1> QED  BY <1>1, <1>3 DEF RInv, Change

LEMMA WorkTail ==
  ASSUME IInv, RInv, work # <<>>
  PROVE  /\ CopyFirst(Tail(work))
         /\ Copies(Tail(work)) => Copies(work) /\ Next1.space = "kernel" /\ NoLow
<1>1. work \in Seq(Inside) /\ CopyFirst(work) /\ (Copies(work) => NoLow)
  BY DEF IInv, WorkTypes, RInv, Pending
<1> QED  BY <1>1, PendingTail DEF Next1

LEMMA KmallocStep == ASSUME IInv, RInv, DoKmalloc PROVE RInv' /\ Change
<1> DEFINE n == Next1.n  s == Next1.space
<1>1. work # <<>>
  BY DEF DoKmalloc, Doing
<1>2. Tail(work) \in Seq(Inside) /\ s \in Space /\ n \in Nat
  BY <1>1, HeadOfWork
<1>3. /\ heap_next' = heap_next + n
      /\ IF heap_next' >= HeapEnd
         THEN UNCHANGED work
         ELSE work' = Each("map", s, heap_next, n) \o Tail(work)
      /\ UNCHANGED <<mapVars, mem>>
  BY DEF DoKmalloc
<1> HIDE DEF n, s
<1>4. heap_next \in Nat
  BY DEF IInv, WorkTypes
<1>5. CASE heap_next' >= HeapEnd
  <2>1. CopyFirst(work') /\ (Copies(work') => Copies(work))
    BY <1>3, <1>5 DEF RInv, Pending
  <2> QED  BY <1>3, <2>1, KeepsMemory
<1>6. CASE ~(heap_next' >= HeapEnd)
  <2>1. heap_next + n <= HeapEnd
    BY <1>2, <1>3, <1>4, <1>6, Limits
  <2>2. CopyFirst(Tail(work)) /\ (Copies(Tail(work)) => Copies(work) /\ s = "kernel")
    BY <1>1, WorkTail DEF s
  <2>3. CopyFirst(work') /\ (Copies(work') => Copies(work))
    BY <1>2, <1>3, <1>4, <1>6, <2>1, <2>2, PendingEach
  <2> QED  BY <1>3, <2>3, KeepsMemory
<1> QED  BY <1>5, <1>6

LEMMA FreeStep ==
  ASSUME IInv, RInv, NEW s \in Space, NEW b \in blocks, NEW rest \in Seq(Inside),
         Free(s, b, rest), CopyFirst(rest),
         Copies(rest) => Copies(work) /\ s = "kernel"
  PROVE  RInv' /\ Change
<1>1. /\ \/ work' = Each("unmap", s, b.page, b.pages) \o rest
         \/ UNCHANGED work
      /\ UNCHANGED <<mapVars, mem>>
  BY DEF Free
<1>2. b.page \in Nat /\ b.pages \in Nat /\ b.page + b.pages <= HeapEnd
  BY DEF IInv, WorkTypes
<1>3. CASE work' = Each("unmap", s, b.page, b.pages) \o rest
  <2>1. CopyFirst(work') /\ (Copies(work') => Copies(work))
    BY <1>2, <1>3, PendingEach
  <2> QED  BY <1>1, <2>1, KeepsMemory
<1>4. CASE UNCHANGED work
  <2>1. CopyFirst(work') /\ (Copies(work') => Copies(work))
    BY <1>4 DEF RInv, Pending
  <2> QED  BY <1>1, <2>1, KeepsMemory
<1> QED  BY <1>1, <1>3, <1>4

LEMMA FreesStep == ASSUME IInv, RInv, DoKfree \/ DoCloseFiles PROVE RInv' /\ Change
<1>1. work # <<>> /\ "kernel" \in Space
  BY DEF DoKfree, DoCloseFiles, Doing, Space
<1>2. /\ Tail(work) \in Seq(Inside) /\ work \in Seq(Inside)
      /\ CopyFirst(Tail(work)) /\ (Copies(Tail(work)) => Copies(work)) /\ CopyFirst(work)
  BY <1>1, HeadOfWork, WorkTail DEF IInv, WorkTypes, RInv, Pending
<1>3. CASE \E b \in blocks : Free("kernel", b, Tail(work)) \/ Free("kernel", b, work)
  <2>1. PICK b \in blocks : Free("kernel", b, Tail(work)) \/ Free("kernel", b, work)
    BY <1>3
  <2> QED  BY <1>1, <1>2, <2>1, FreeStep
<1>4. CASE work' = Tail(work) /\ UNCHANGED <<mapVars, mem>>
  BY <1>2, <1>4, KeepsMemory
<1>5. \/ \E b \in blocks : Free("kernel", b, Tail(work)) \/ Free("kernel", b, work)
      \/ work' = Tail(work) /\ UNCHANGED <<mapVars, mem>>
  <2>1. CASE DoKfree
    BY <2>1 DEF DoKfree
  <2>2. CASE DoCloseFiles /\ \E b \in blocks : b.of = "file"
    BY <2>2 DEF DoCloseFiles
  <2>3. CASE DoCloseFiles /\ ~ \E b \in blocks : b.of = "file"
    BY <2>3 DEF DoCloseFiles, Done
  <2> QED  BY <2>1, <2>2, <2>3
<1> QED  BY <1>3, <1>4, <1>5

\* What maps or unmaps, and goes on with the rest of the work.
LEMMA MapsStep == ASSUME IInv, RInv, DoMap \/ DoUnmap PROVE RInv' /\ Change
<1>1. work # <<>> /\ halted = "no" /\ work' = Tail(work)
  BY DEF DoMap, DoUnmap, Doing, Done
<1>2. Next1.space \in Space /\ Next1.page \in Nat /\ Next1.page < HeapEnd
  BY <1>1, HeadOfWork
<1>3. PICK s \in Space, p \in Nat : s = Next1.space /\ p = Next1.page
  BY <1>2
<1>4. /\ CopyFirst(Tail(work))
      /\ Copies(Tail(work)) => Next1.space = "kernel" /\ NoLow
  BY <1>1, WorkTail
<1>5. Apart /\ p < HeapEnd
  BY <1>2, <1>3 DEF RInv
<1>6. Apart' /\ Change /\ (s # "program" /\ NoLow => NoLow')
  <2>1. CASE DoMap
    <3>1. PagingMap(s, p)
      BY <1>3, <2>1 DEF DoMap
    <3> QED  BY <1>1, <1>5, <3>1, MapStep DEF Change
  <2>2. CASE DoUnmap
    <3>1. PagingUnmap(s, p) /\ UNCHANGED mem
      BY <1>3, <2>2 DEF DoUnmap
    <3> QED  BY <1>1, <1>5, <3>1, UnmapStep DEF Change
  <2> QED  BY <2>1, <2>2
<1>7. CopyFirst(work') /\ (Copies(work') => NoLow')
  BY <1>1, <1>3, <1>4, <1>6
<1>8. Pending'
  BY <1>7 DEF Pending, CopyFirst, Copies
<1> QED  BY <1>6, <1>8 DEF RInv

LEMMA ClearStep == ASSUME IInv, RInv, DoClear PROVE RInv' /\ Change
<1>1. work # <<>> /\ halted = "no" /\ UNCHANGED mem
  BY DEF DoClear, Doing
<1>2. CASE Low(items["program"]) # {}
  <2>1. PagingUnmap("program", FirstLow(items["program"])) /\ UNCHANGED work
    BY <1>2 DEF DoClear
  <2>2. items["program"] \in Seq(Nat)
    BY DEF IInv, MapTypes, Space
  <2>3. PICK p \in LowPage : p = FirstLow(items["program"])
    BY <1>2, <2>2, FirstLowIsLow
  <2>4. p \in Nat /\ p < HeapEnd /\ PagingUnmap("program", p) /\ "program" \in Space
    BY <2>1, <2>3, LowAddress DEF Space
  <2>5. Apart' /\ (NoLow => NoLow') /\ Change
    BY <1>1, <2>4, UnmapStep DEF RInv, Change
  <2>6. Pending'
    BY <2>1, <2>5 DEF RInv, Pending, CopyFirst, Copies
  <2> QED  BY <2>5, <2>6 DEF RInv
<1>3. CASE Low(items["program"]) = {}
  <2>1. work' = Tail(work) /\ UNCHANGED mapVars
    BY <1>3 DEF DoClear, Done
  <2> QED  BY <1>1, <2>1, WorkTail, KeepsMemory
<1> QED  BY <1>2, <1>3

\* The copied directory has the kernel's tables and no low one, and the program
\* had no page.
LEMMA CopyStep == ASSUME IInv, RInv, DoCopy PROVE RInv' /\ Change
<1>1. work # <<>> /\ work[1].op = "copy" /\ work' = Tail(work)
      /\ UNCHANGED <<tables, mem>> /\ work \in Seq(Inside)
  BY DEF DoCopy, Doing, Done, Next1, IInv, WorkTypes
<1>2. NoLow
  <2>1. 1 \in 1 .. Len(work)
    BY <1>1
  <2> QED  BY <1>1, <2>1 DEF RInv, Pending, Copies
<1>3. /\ bitmap \subseteq bitmap'
      /\ dirs' = [dirs EXCEPT !["program"] = KernelTables] \/ UNCHANGED dirs
  BY DEF DoCopy
<1>4. \A d \in LowDir : dirs'["program"][d] = None
  <2>1. \A d \in LowDir : d \in Dir /\ ~(d >= LowTables) /\ KernelTables[d] = None
    <3> SUFFICES ASSUME NEW d \in LowDir
                 PROVE  d \in Dir /\ ~(d >= LowTables) /\ KernelTables[d] = None
      OBVIOUS
    <3>1. d \in Dir /\ d < LowTables /\ d \in Int
      BY DEF LowDir, Dir
    <3>2. ~(d >= LowTables)
      BY <3>1, Limits
    <3> QED  BY <3>1, <3>2 DEF KernelTables, TablesFrom
  <2>2. "program" \in Space /\ dirs \in [Space -> [Dir -> Frame \cup {None}]]
    BY DEF Space, IInv, MapTypes
  <2>3. dirs' = [dirs EXCEPT !["program"] = KernelTables] => dirs'["program"] = KernelTables
    BY <2>2
  <2> QED  BY <1>2, <1>3, <2>1, <2>3 DEF NoLow, Table
<1>5. NoLow'
  BY <1>4 DEF NoLow, LowDir, Dir, Table, None
<1>6. Apart'
  <2>1. Own' /\ NoImage'
    BY <1>5 DEF Own, NoImage, NoLow
  <2>2. Fresh'
    BY <1>1, <1>3 DEF RInv, Apart, Fresh
  <2> QED  BY <2>1, <2>2 DEF Apart
<1>7. Pending'
  <2>1. CopyFirst(work')
    BY <1>1, WorkTail
  <2> QED  BY <1>5, <2>1 DEF Pending, CopyFirst, Copies
<1>8. \A p \in LowPage : At(p)' = At(p)
  <2> SUFFICES ASSUME NEW p \in LowPage PROVE At(p)' = At(p)
    OBVIOUS
  <2>1. DirOf(p) \in LowDir
    BY LowAddress
  <2>2. TableOf("program", p) = None /\ TableOf("program", p)' = None
    BY <1>2, <1>4, <2>1 DEF TableOf, NoLow, Table
  <2> QED  BY <2>2 DEF At, Present, PageOf
<1> QED  BY <1>6, <1>7, <1>8, SameMemory DEF RInv, Change

LEMMA DestroyedStep == ASSUME IInv, RInv, DoDestroyed PROVE RInv' /\ Change
<1>1. work # <<>> /\ work' = Tail(work) /\ UNCHANGED <<mapVars, mem>>
  BY DEF DoDestroyed, Doing, Done
<1> QED  BY <1>1, WorkTail, KeepsMemory

\* A call that copies no space.
LEMMA CallsStep ==
  ASSUME RInv, NEW ops, Calls(ops), ~Copies(ops)
  PROVE  RInv' /\ Change
<1>1. work' = ops /\ UNCHANGED <<mapVars, mem>>
  BY DEF Calls
<1>2. CopyFirst(work') /\ ~Copies(work')
  BY <1>1 DEF CopyFirst, Copies
<1> QED  BY <1>1, <1>2, KeepsMemory

LEMMA PutsStep ==
  ASSUME IInv, RInv, NEW p \in LowPage, NEW v \in Value, Store(p, v) \/ CopyToUser(p, v)
  PROVE  RInv' /\ Change
<1>1. PICK S \in SUBSET LowPage : Put(S, v) /\ \A q \in S : Present("program", q)
  <2>1. CASE Store(p, v)
    <3>1. {p} \in SUBSET LowPage /\ Put({p}, v) /\ \A q \in {p} : Present("program", q)
      BY <2>1 DEF Store
    <3> QED  BY <3>1
  <2>2. CASE CopyToUser(p, v)
    <3>1. Put({p, p + 1}, v) /\ \A q \in {p, p + 1} : AddressIsUser(q)
      BY <2>2 DEF CopyToUser
    <3>2. p + 1 \in Nat /\ p + 1 < LastLow
      BY <3>1, LowAddress DEF AddressIsUser
    <3>3. p + 1 \in LowPage
      BY <3>2, Limits DEF LowPage, LastLow
    <3>4. {p, p + 1} \in SUBSET LowPage
      BY <3>3
    <3> QED  BY <3>1, <3>4 DEF AddressIsUser
  <2> QED  BY <2>1, <2>2
<1>2. Apart' /\ (NoLow => NoLow') /\ Change
  BY <1>1, PutStep DEF RInv, Change
<1>3. Pending'
  BY <1>1, <1>2 DEF Put, RInv, Pending, CopyFirst, Copies
<1> QED  BY <1>2, <1>3 DEF RInv

LEMMA ProgramStep == ASSUME IInv, RInv, Program \/ Reap PROVE RInv' /\ Change
<1>1. ASSUME NEW p \in Address, SysMap(p) \/ SysUmap(p) PROVE RInv' /\ Change
  <2>1. ~Copies(<<Map("program", p)>>) /\ ~Copies(<<Unmap("program", p)>>)
    BY DEF Copies, Map, Unmap, Do
  <2> QED  BY <1>1, <2>1, CallsStep DEF SysMap, SysUmap
<1>2. ASSUME NEW p \in LowPage, NEW v \in Value, Store(p, v) \/ CopyToUser(p, v)
      PROVE  RInv' /\ Change
  BY <1>2, PutsStep
<1>3. ASSUME Open PROVE RInv' /\ Change
  <2>1. ~Copies(<<Kmalloc("program", 1, "file")>>)
    BY DEF Copies, Kmalloc, Do
  <2> QED  BY <1>3, <2>1, CallsStep DEF Open
<1>4. ASSUME Close PROVE RInv' /\ Change
  <2>1. PICK b \in blocks : Free("program", b, <<>>)
    BY <1>4 DEF Close
  <2>2. <<>> \in Seq(Inside) /\ CopyFirst(<<>>) /\ ~Copies(<<>>) /\ "program" \in Space
    BY DEF CopyFirst, Copies, Space
  <2> QED  BY <2>1, <2>2, FreeStep
<1>5. ASSUME SysFork PROVE RInv' /\ Change
  <2>1. ~Copies(<<Kmalloc("program", 1, "child"), Kmalloc("program", 1, "child")>>)
    <3> DEFINE o == Kmalloc("program", 1, "child")
    <3>1. o.op # "copy"  BY DEF Kmalloc, Do
    <3> HIDE DEF o
    <3>2. \A i \in 1 .. Len(<<o, o>>) : <<o, o>>[i] = o
      OBVIOUS
    <3> QED  BY <3>1, <3>2 DEF Copies, o
  <2> QED  BY <1>5, <2>1, CallsStep DEF SysFork
<1>6. ASSUME SysExit \/ SchedLoad \/ Takes PROVE RInv' /\ Change
  <2>1. UNCHANGED <<mapVars, mem, work>>
    BY <1>6 DEF SysExit, SchedLoad, Takes
  <2>2. CopyFirst(work') /\ (Copies(work') => Copies(work))
    BY <2>1 DEF RInv, Pending
  <2> QED  BY <2>1, <2>2, KeepsMemory
<1>7. ASSUME Reap PROVE RInv' /\ Change
  <2> DEFINE ops == <<Run("closefiles"), Run("clear"), Kfree("items"), Kfree("space"),
                      Kfree("proc"), Run("destroyed")>>
  <2>1. /\ Run("closefiles").op # "copy" /\ Run("clear").op # "copy"
        /\ Kfree("items").op # "copy" /\ Kfree("space").op # "copy"
        /\ Kfree("proc").op # "copy" /\ Run("destroyed").op # "copy"
    BY DEF Run, Kfree, Do
  <2>2. \A i \in 1 .. Len(ops) : ops[i].op # "copy"
    BY <2>1
  <2>3. Calls(ops)
    BY <1>7 DEF Reap
  <2> HIDE DEF ops
  <2>4. ~Copies(ops)
    BY <2>2 DEF Copies
  <2> QED  BY <2>3, <2>4, CallsStep
<1> QED  BY <1>1, <1>2, <1>3, <1>4, <1>5, <1>6, <1>7 DEF Program, SysMapsKernel

LEMMA EveryStep == ASSUME IInv, RInv, [Next]_vars PROVE RInv' /\ Change
<1>1. CASE UNCHANGED vars
  <2>1. UNCHANGED <<mapVars, mem, work>>
    BY <1>1 DEF vars
  <2>2. CopyFirst(work') /\ (Copies(work') => Copies(work))
    BY <2>1 DEF RInv, Pending
  <2> QED  BY <2>1, <2>2, KeepsMemory
<1> QED
  BY <1>1, KmallocStep, FreesStep, MapsStep, ClearStep, CopyStep, DestroyedStep, ProgramStep
  DEF Next, Operation

-----------------------------------------------------------------------------
(* The refinement.                                                          *)

\* The low tables of the program stay its own, from the copy of the kernel's
\* directory to the end.
THEOREM StaysApart == Spec => []RInv
<1>1. Init => IInv /\ RInv
  BY InitInv, InitRInv
<1>2. IInv /\ RInv /\ [Next]_vars => RInv'
  BY EveryStep
<1> QED  BY <1>1, <1>2, Invariance, PTL DEF Spec

\* Whatever the kernel maps, allocates and frees meanwhile, the program's memory
\* is the abstract one: each page is its own, zero when it is mapped, and keeps
\* its value until it is stored to or unmapped.
THEOREM ImplementsAddressSpace == Spec => IsAddressSpace
<1>1. Init => AS!Init
  BY InitRInv DEF AS!Init, ProgramMemory, At
<1>2. Change => [AS!Next]_(ProgramMemory)
  BY DEF Change, AS!Next, AS!Map, AS!Unmap, AS!Put, ProgramMemory, At
<1>3. IInv /\ RInv /\ [Next]_vars => Change
  BY EveryStep
<1> QED
  BY <1>1, <1>2, <1>3, StaysApart, Invariance, PTL
  DEF Spec, IsAddressSpace, AS!Spec, ProgramMemory, At
-----------------------------------------------------------------------------
(* What the machine stops for.                                              *)

\* The space whose heap a block is in, and the pages of it.
SpaceOf(of) == IF of \in {"file", "child"} THEN "program" ELSE "kernel"
PagesOf(b) == b.page .. b.page + b.pages - 1

\* Blocks are below heap_next, and share no page.
BlocksApart ==
  /\ HeapStart <= heap_next
  /\ \A b \in blocks : b.pages >= 1 /\ HeapStart <= b.page /\ b.page + b.pages <= heap_next
  /\ \A b, c \in blocks : b # c => b.page + b.pages <= c.page \/ c.page + c.pages <= b.page

\* What is left to do is to build or to take apart; a page of a block is not
\* unmapped before the block is freed; and whatever the kernel does for itself
\* comes before the copy, of which there is one.
OpFits(o, B) ==
  /\ o.op = "kmalloc" => o.n >= 1 /\ o.space = SpaceOf(o.of)
  /\ o.op = "unmap" => \A b \in B : o.page \notin PagesOf(b)
  /\ o.op = "kfree" => SpaceOf(o.of) = "kernel"
  /\ o.op = "closefiles" => stage = "exited"
WorkFits(w, B) == \A i \in 1 .. Len(w) : OpFits(w[i], B)
Builds(w) == \A i \in 1 .. Len(w) : w[i].op \in {"kmalloc", "map", "copy"}
Removes(w) == \A i \in 1 .. Len(w) : w[i].op \notin {"kmalloc", "map", "copy"}
KernelFirst(w) ==
  \A i \in 1 .. Len(w) : w[i].op \in {"map", "kmalloc"} /\ w[i].space = "kernel" =>
    \E j \in 1 .. Len(w) : j > i /\ w[j].op = "copy"
OneCopy(w) == \A i, j \in 1 .. Len(w) : w[i].op = "copy" /\ w[j].op = "copy" => i = j
Ordered(w) == (Builds(w) \/ Removes(w)) /\ KernelFirst(w) /\ OneCopy(w)

\* The first page of a block is there, or about to be.
Awaited(b, w) ==
  \E i \in 1 .. Len(w) : w[i].op = "map" /\ w[i].space = SpaceOf(b.of) /\ w[i].page = b.page
There(b) == Present(SpaceOf(b.of), b.page)
Held == \A b \in blocks : There(b) \/ Awaited(b, work)
EarlyBlocks == Copies(work) => \A b \in blocks : SpaceOf(b.of) = "kernel"

\* A table is in one entry of the directories, and once the kernel's has been
\* copied, what it has there the program's has too.
DirsApart ==
  \A s, q \in Space : \A d, e \in Dir : dirs[s][d] # None /\ dirs[s][d] = dirs[q][e] => d = e
Shared ==
  ~Copies(work) => \A d \in Dir : d >= LowTables /\ dirs["kernel"][d] # None =>
                     dirs["program"][d] = dirs["kernel"][d]

Orderly ==
  /\ BlocksApart /\ WorkFits(work, blocks) /\ Ordered(work)
  /\ Held /\ EarlyBlocks /\ DirsApart /\ Shared

\* What a step may stop for.
Why ==
  /\ halted = "fault" =>
       \/ \E i \in bitmap : i >= Frames
       \/ Child # {}
       \/ stage = "exited" /\ \E b \in blocks : b.of = "file" /\ Private(b)
  /\ halted = "panic" => heap_next >= HeapEnd \/ stage = "destroyed"
  /\ halted = "no" => Orderly

LEMMA TailOrdered ==
  ASSUME NEW w \in Seq(Inside), w # <<>>, NEW B, Ordered(w), WorkFits(w, B)
  PROVE  /\ Ordered(Tail(w)) /\ WorkFits(Tail(w), B) /\ OpFits(Head(w), B)
         /\ Copies(Tail(w)) => Copies(w)
         /\ Copies(w) => Copies(Tail(w)) \/ Head(w).op = "copy"
         /\ Head(w).op = "copy" => ~Copies(Tail(w))
         /\ Head(w).op \in {"map", "kmalloc"} /\ Head(w).space = "kernel" => Copies(Tail(w))
         /\ Head(w).op \in {"kmalloc", "map", "copy"} => Builds(Tail(w))
         /\ Head(w).op \notin {"kmalloc", "map", "copy"} => Removes(w) /\ Removes(Tail(w))
         /\ \A b : Awaited(b, w) => \/ Awaited(b, Tail(w))
                                    \/ Head(w).op = "map" /\ Head(w).space = SpaceOf(b.of) /\ Head(w).page = b.page
<1>1. /\ Tail(w) \in Seq(Inside) /\ Len(Tail(w)) = Len(w) - 1 /\ Len(w) \in Nat /\ Len(w) > 0
      /\ \A i \in 1 .. Len(Tail(w)) : Tail(w)[i] = w[i + 1]
      /\ Head(w) = w[1]
  BY HeadTailProperties
<1> DEFINE r == Tail(w)
           n == Len(w)
<1>2. /\ n \in Nat /\ n > 0 /\ Len(r) = n - 1 /\ \A i \in 1 .. n - 1 : r[i] = w[i + 1]
      /\ \A i \in 2 .. n : i - 1 \in 1 .. n - 1 /\ r[i - 1] = w[i]
      /\ 1 \in 1 .. n
  <2>1. \A i \in 2 .. n : i - 1 \in 1 .. n - 1 /\ (i - 1) + 1 = i  BY <1>1
  <2> QED  BY <1>1, <2>1
<1> HIDE DEF r, n
<1>3. (Builds(w) => Builds(r)) /\ (Removes(w) => Removes(r)) /\ WorkFits(r, B) /\ OpFits(w[1], B)
  BY <1>2 DEF Builds, Removes, WorkFits, n
<1>4. /\ w[1].op \in {"kmalloc", "map", "copy"} => Builds(w)
      /\ w[1].op \notin {"kmalloc", "map", "copy"} => Removes(w)
  BY <1>2 DEF Ordered, Builds, Removes, n
<1>5. \A i \in 1 .. n : w[i].op = "copy" => i = 1 \/ \E j \in 1 .. n - 1 : r[j] = w[i] /\ j = i - 1
  BY <1>2
<1>6. (Copies(r) => Copies(w)) /\ (Copies(w) => Copies(r) \/ w[1].op = "copy")
  BY <1>2 DEF Copies, n
<1>7. w[1].op = "copy" => ~Copies(r)
  <2> SUFFICES ASSUME w[1].op = "copy", NEW i \in 1 .. n - 1, r[i].op = "copy" PROVE FALSE
    BY <1>2 DEF Copies
  <2>1. i + 1 \in 1 .. n /\ w[i + 1].op = "copy" /\ i + 1 # 1  BY <1>2
  <2> QED  BY <1>2, <2>1 DEF Ordered, OneCopy, n
<1>8. OneCopy(r)
  <2> SUFFICES ASSUME NEW i \in 1 .. n - 1, NEW j \in 1 .. n - 1, r[i].op = "copy", r[j].op = "copy" PROVE i = j
    BY <1>2 DEF OneCopy
  <2>1. i + 1 \in 1 .. n /\ j + 1 \in 1 .. n /\ w[i + 1].op = "copy" /\ w[j + 1].op = "copy"  BY <1>2
  <2>2. i + 1 = j + 1  BY <2>1 DEF Ordered, OneCopy, n
  <2> QED  BY <2>2
<1>9. KernelFirst(r)
  <2> SUFFICES ASSUME NEW i \in 1 .. n - 1, r[i].op \in {"map", "kmalloc"}, r[i].space = "kernel"
               PROVE  \E j \in 1 .. n - 1 : j > i /\ r[j].op = "copy"
    BY <1>2 DEF KernelFirst
  <2>1. i + 1 \in 1 .. n /\ w[i + 1] = r[i]  BY <1>2
  <2>2. PICK j \in 1 .. n : j > i + 1 /\ w[j].op = "copy"  BY <2>1 DEF Ordered, KernelFirst, n
  <2>3. j \in 2 .. n /\ j - 1 > i  BY <1>2, <2>2
  <2>4. j - 1 \in 1 .. n - 1 /\ r[j - 1] = w[j]  BY <1>2, <2>3
  <2> QED  BY <2>2, <2>3, <2>4
<1>10. w[1].op \in {"map", "kmalloc"} /\ w[1].space = "kernel" => Copies(r)
  <2> SUFFICES ASSUME w[1].op \in {"map", "kmalloc"}, w[1].space = "kernel" PROVE Copies(r)  OBVIOUS
  <2>1. PICK j \in 1 .. n : j > 1 /\ w[j].op = "copy"  BY <1>2 DEF Ordered, KernelFirst, n
  <2>2. j - 1 \in 1 .. n - 1 /\ r[j - 1].op = "copy"  BY <1>2, <2>1
  <2> QED  BY <1>2, <2>2 DEF Copies
<1>11. ASSUME NEW b, Awaited(b, w)
       PROVE  \/ Awaited(b, r)
              \/ w[1].op = "map" /\ w[1].space = SpaceOf(b.of) /\ w[1].page = b.page
  <2>1. PICK i \in 1 .. n : w[i].op = "map" /\ w[i].space = SpaceOf(b.of) /\ w[i].page = b.page
    BY <1>11 DEF Awaited, n
  <2>2. CASE i = 1  BY <2>1, <2>2
  <2>3. CASE i # 1
    <3>1. i - 1 \in 1 .. n - 1 /\ r[i - 1] = w[i]  BY <1>2, <2>3
    <3> QED  BY <1>2, <2>1, <3>1 DEF Awaited
  <2> QED  BY <2>2, <2>3
<1>12. Ordered(r)  BY <1>3, <1>8, <1>9 DEF Ordered
<1> QED  BY <1>1, <1>3, <1>4, <1>6, <1>7, <1>10, <1>11, <1>12 DEF r

\* Pages mapped or unmapped before the rest.
LEMMA EachOrdered ==
  ASSUME NEW op \in {"map", "unmap"}, NEW s \in Space, NEW p \in Nat, NEW n \in Nat,
         p + n <= HeapEnd, NEW w \in Seq(Inside), NEW B, Ordered(w), WorkFits(w, B),
         op = "map" => Builds(w) /\ (s = "kernel" => Copies(w)),
         op = "unmap" => Removes(w) /\ \A b \in B : \A i \in 1 .. n : p + i - 1 \notin PagesOf(b)
  PROVE  LET c == Each(op, s, p, n) \o w IN
         /\ Ordered(c) /\ WorkFits(c, B) /\ (op = "map" => Builds(c)) /\ (Copies(c) <=> Copies(w))
         /\ \A b : Awaited(b, w) => Awaited(b, c)
         /\ \A b : op = "map" /\ s = SpaceOf(b.of) /\ p = b.page /\ n >= 1 => Awaited(b, c)
<1> DEFINE e == Each(op, s, p, n)
           c == e \o w
           m == Len(w)
<1>1. e \in Seq(Inside) /\ Len(e) = n /\ m \in Nat
  <2>1. e \in Seq(Inside)  BY EachIsInside
  <2>2. Len(e) = n  BY DEF Each
  <2> QED  BY <2>1, <2>2
<1>2. \A i \in 1 .. n : e[i].op = op /\ e[i].space = s /\ e[i].page = p + i - 1  BY DEF Each, Do
<1> HIDE DEF e
<1>3. Len(c) = n + m /\ \A i \in 1 .. n + m : c[i] = IF i <= n THEN e[i] ELSE w[i - n]
  BY <1>1, ConcatProperties
<1> HIDE DEF c, m
<1>4. /\ \A i \in 1 .. n : i \in 1 .. n + m /\ c[i].op = op /\ c[i].space = s /\ c[i].page = p + i - 1
      /\ \A i \in 1 .. m : i + n \in 1 .. n + m /\ c[i + n] = w[i]
      /\ \A i \in 1 .. n + m : i \in 1 .. n \/ (i - n \in 1 .. m /\ c[i] = w[i - n])
  <2>1. \A i \in 1 .. n : i \in 1 .. n + m /\ c[i] = e[i]  BY <1>1, <1>3
  <2>2. \A i \in 1 .. m : i + n \in 1 .. n + m /\ ~(i + n <= n) /\ (i + n) - n = i  BY <1>1
  <2>3. \A i \in 1 .. n + m : i \in 1 .. n \/ (i - n \in 1 .. m /\ ~(i <= n))  BY <1>1
  <2> QED  BY <1>2, <1>3, <2>1, <2>2, <2>3
<1>5. Copies(c) <=> Copies(w)
  BY <1>3, <1>4 DEF Copies, m
<1>6. WorkFits(c, B)
  <2> SUFFICES ASSUME NEW i \in 1 .. n + m PROVE OpFits(c[i], B)  BY <1>3 DEF WorkFits
  <2>1. CASE i \in 1 .. n  BY <1>4, <2>1 DEF OpFits
  <2>2. CASE i \notin 1 .. n
    <3>1. i - n \in 1 .. m /\ c[i] = w[i - n]  BY <1>4, <2>2
    <3> QED  BY <3>1 DEF WorkFits, m
  <2> QED  BY <2>1, <2>2
<1>7. (Builds(c) \/ Removes(c)) /\ (op = "map" => Builds(c))
  <2>1. op = "map" => Builds(c)
    <3> SUFFICES ASSUME op = "map" PROVE Builds(c)  OBVIOUS
    <3>1. \A i \in 1 .. n + m : c[i].op \in {"kmalloc", "map", "copy"}  BY <1>4 DEF Builds, m
    <3> QED  BY <1>3, <3>1 DEF Builds
  <2>2. op = "unmap" => Removes(c)
    <3> SUFFICES ASSUME op = "unmap" PROVE Removes(c)  OBVIOUS
    <3>1. \A i \in 1 .. n + m : c[i].op \notin {"kmalloc", "map", "copy"}  BY <1>4 DEF Removes, m
    <3> QED  BY <1>3, <3>1 DEF Removes
  <2> QED  BY <2>1, <2>2
<1>8. OneCopy(c)
  <2> SUFFICES ASSUME NEW i \in 1 .. n + m, NEW j \in 1 .. n + m, c[i].op = "copy", c[j].op = "copy" PROVE i = j
    BY <1>3 DEF OneCopy
  <2>1. i - n \in 1 .. m /\ w[i - n].op = "copy" /\ j - n \in 1 .. m /\ w[j - n].op = "copy"  BY <1>4
  <2>2. i - n = j - n  BY <2>1 DEF Ordered, OneCopy, m
  <2> QED  BY <1>1, <2>2
<1>9. KernelFirst(c)
  <2> SUFFICES ASSUME NEW i \in 1 .. n + m, c[i].op \in {"map", "kmalloc"}, c[i].space = "kernel"
               PROVE  \E j \in 1 .. n + m : j > i /\ c[j].op = "copy"
    BY <1>3 DEF KernelFirst
  <2>1. CASE i \in 1 .. n
    <3>1. Copies(w)  BY <1>4, <2>1
    <3>2. PICK j \in 1 .. m : w[j].op = "copy"  BY <3>1 DEF Copies, m
    <3>3. j + n \in 1 .. n + m /\ j + n > i /\ c[j + n].op = "copy"  BY <1>1, <1>4, <2>1, <3>2
    <3> QED  BY <3>3
  <2>2. CASE i \notin 1 .. n
    <3>1. i - n \in 1 .. m /\ c[i] = w[i - n]  BY <1>4, <2>2
    <3>2. PICK j \in 1 .. m : j > i - n /\ w[j].op = "copy"  BY <3>1 DEF Ordered, KernelFirst, m
    <3>3. j + n \in 1 .. n + m /\ j + n > i /\ c[j + n].op = "copy"  BY <1>1, <1>4, <3>1, <3>2
    <3> QED  BY <3>3
  <2> QED  BY <2>1, <2>2
<1>10. \A b : Awaited(b, w) => Awaited(b, c)
  BY <1>3, <1>4 DEF Awaited, m
<1>11. \A b : op = "map" /\ s = SpaceOf(b.of) /\ p = b.page /\ n >= 1 => Awaited(b, c)
  <2> SUFFICES ASSUME NEW b, op = "map", s = SpaceOf(b.of), p = b.page, n >= 1 PROVE Awaited(b, c)  OBVIOUS
  <2>1. 1 \in 1 .. n /\ p + 1 - 1 = p  OBVIOUS
  <2>2. 1 \in 1 .. n + m /\ c[1].op = "map" /\ c[1].space = s /\ c[1].page = p  BY <1>4, <2>1
  <2> QED  BY <1>3, <2>2 DEF Awaited
<1>12. Ordered(c)  BY <1>7, <1>8, <1>9 DEF Ordered
<1> QED  BY <1>5, <1>6, <1>7, <1>10, <1>11, <1>12 DEF c, e

\* What is left to do, in the next state.
LEMMA NextWork ==
  /\ Ordered(work)' <=> Ordered(work')
  /\ Copies(work)' <=> Copies(work')
  /\ \A b : Awaited(b, work)' <=> Awaited(b, work')
  /\ UNCHANGED stage => (WorkFits(work, blocks)' <=> WorkFits(work', blocks'))
<1>1. Ordered(work)' <=> Ordered(work')  BY DEF Ordered, Builds, Removes, KernelFirst, OneCopy
<1>2. Copies(work)' <=> Copies(work')  BY DEF Copies
<1>3. \A b : Awaited(b, work)' <=> Awaited(b, work')  BY DEF Awaited, SpaceOf
<1>4. UNCHANGED stage => (WorkFits(work, blocks)' <=> WorkFits(work', blocks'))
  BY DEF WorkFits, OpFits, PagesOf, SpaceOf
<1> QED  BY <1>1, <1>2, <1>3, <1>4

\* A step that leaves the directories and the tables, and takes blocks away at
\* most, keeps what is said of blocks.
LEMMA FewerBlocks ==
  ASSUME Orderly, blocks' \subseteq blocks, UNCHANGED <<dirs, tables, heap_next>>,
         Ordered(work'), WorkFits(work, blocks)', Copies(work') <=> Copies(work),
         \A b \in blocks' : Awaited(b, work) => Awaited(b, work')
  PROVE  Orderly'
<1>1. BlocksApart'  BY DEF Orderly, BlocksApart
<1>2. \A b \in blocks' : There(b) => There(b)'  BY DEF There, Present, PageOf, TableOf, SpaceOf
<1>3. Held'
  <2> SUFFICES ASSUME NEW b \in blocks' PROVE There(b)' \/ Awaited(b, work)'  BY DEF Held
  <2>1. There(b) \/ Awaited(b, work)  BY DEF Orderly, Held
  <2> QED  BY <1>2, <2>1, NextWork
<1>4. EarlyBlocks'  BY NextWork DEF Orderly, EarlyBlocks, SpaceOf
<1>5. DirsApart' /\ Shared'  BY NextWork DEF Orderly, DirsApart, Shared
<1> QED  BY <1>1, <1>3, <1>4, <1>5, NextWork DEF Orderly

LEMMA FitsLess ==
  ASSUME NEW w, NEW B, NEW C \in SUBSET B, WorkFits(w, B)
  PROVE  WorkFits(w, C)
BY DEF WorkFits, OpFits

LEMMA KmallocWhy == ASSUME IInv, RInv, Orderly, halted = "no", DoKmalloc PROVE Why'
<1> DEFINE n == Next1.n
           s == Next1.space
           new == [page |-> heap_next, pages |-> n, of |-> Next1.of]
           c == Each("map", s, heap_next, n) \o Tail(work)
<1>1. work # <<>> /\ Next1.op = "kmalloc"  BY DEF DoKmalloc, Doing
<1>2. /\ heap_next' = heap_next + n /\ UNCHANGED <<dirs, tables, stage>>
      /\ IF heap_next' >= HeapEnd THEN halted' = "panic"
         ELSE blocks' = blocks \cup {new} /\ work' = c /\ halted' = halted
  BY DEF DoKmalloc, mapVars
<1>3. CASE heap_next' >= HeapEnd  BY <1>2, <1>3 DEF Why
<1>4. CASE ~(heap_next' >= HeapEnd)
  <2>1. /\ Tail(work) \in Seq(Inside) /\ s \in Space /\ n \in Nat /\ heap_next \in Nat /\ work \in Seq(Inside)
        /\ \A b \in blocks : b.page \in Nat /\ b.pages \in Nat
    BY <1>1, HeadOfWork DEF IInv, WorkTypes
  <2>2. heap_next + n <= HeapEnd  BY <1>2, <1>4, <2>1, Limits
  <2>3. /\ Ordered(Tail(work)) /\ WorkFits(Tail(work), blocks) /\ OpFits(Next1, blocks)
        /\ Copies(Tail(work)) <=> Copies(work)
        /\ s = "kernel" => Copies(Tail(work))
        /\ Builds(Tail(work))
        /\ \A b : Awaited(b, work) => Awaited(b, Tail(work))
    BY <1>1, <2>1, TailOrdered DEF Next1, Orderly
  <2>4. n >= 1 /\ s = SpaceOf(Next1.of)  BY <1>1, <2>3 DEF OpFits
  <2>5. /\ Ordered(c) /\ WorkFits(c, blocks) /\ Builds(c) /\ (Copies(c) <=> Copies(Tail(work)))
        /\ \A b : Awaited(b, Tail(work)) => Awaited(b, c)
        /\ \A b : s = SpaceOf(b.of) /\ heap_next = b.page => Awaited(b, c)
    BY <2>1, <2>2, <2>3, <2>4, EachOrdered
  <2> HIDE DEF c, n, s
  <2>6. blocks' = blocks \cup {new} /\ work' = c /\ halted' = "no"  BY <1>2, <1>4
  <2>7. new.page = heap_next /\ new.pages = n /\ new.of = Next1.of  OBVIOUS
  <2> HIDE DEF new
  <2>8. WorkFits(c, blocks')  BY <2>5 DEF WorkFits, OpFits, Builds
  <2>9. BlocksApart'
    <3>1. heap_next' = heap_next + n /\ n >= 1 /\ n \in Nat /\ heap_next \in Nat /\ HeapStart \in Nat
      BY <1>2, <2>1, <2>4, Limits
    <3>2. BlocksApart  BY DEF Orderly
    <3>3. \A b \in blocks' : b.pages >= 1 /\ HeapStart <= b.page /\ b.page + b.pages <= heap_next'
      BY <2>1, <2>6, <2>7, <3>1, <3>2 DEF BlocksApart
    <3>4. \A b, d \in blocks' : b # d => b.page + b.pages <= d.page \/ d.page + d.pages <= b.page
      <4> SUFFICES ASSUME NEW b \in blocks', NEW d \in blocks', b # d
                   PROVE  b.page + b.pages <= d.page \/ d.page + d.pages <= b.page
        OBVIOUS
      <4>1. CASE b \in blocks /\ d \in blocks  BY <3>2, <4>1 DEF BlocksApart
      <4>2. CASE b = new /\ d \in blocks
        <5>1. d.page + d.pages <= heap_next  BY <3>2, <4>2 DEF BlocksApart
        <5> QED  BY <2>7, <4>2, <5>1
      <4>3. CASE d = new /\ b \in blocks
        <5>1. b.page + b.pages <= heap_next  BY <3>2, <4>3 DEF BlocksApart
        <5> QED  BY <2>7, <4>3, <5>1
      <4> QED  BY <2>6, <4>1, <4>2, <4>3
    <3>5. HeapStart <= heap_next'  BY <3>1, <3>2 DEF BlocksApart
    <3> QED  BY <3>3, <3>4, <3>5 DEF BlocksApart, HeapStart
  <2>10. \A b : There(b) => There(b)'  BY <1>2 DEF There, Present, PageOf, TableOf, SpaceOf
  <2>11. Held'
    <3> SUFFICES ASSUME NEW b \in blocks' PROVE There(b)' \/ Awaited(b, work')  BY NextWork DEF Held
    <3>1. CASE b \in blocks
      <4>1. There(b) \/ Awaited(b, work)  BY <3>1 DEF Orderly, Held
      <4> QED  BY <2>3, <2>5, <2>6, <2>10, <4>1
    <3>2. CASE b = new  BY <2>4, <2>5, <2>6, <2>7, <3>2
    <3> QED  BY <2>6, <3>1, <3>2
  <2>12. EarlyBlocks'
    <3> SUFFICES ASSUME Copies(work'), NEW b \in blocks' PROVE SpaceOf(b.of) = "kernel"
      BY NextWork DEF EarlyBlocks, SpaceOf
    <3>1. Copies(Tail(work)) /\ Copies(work)  BY <2>3, <2>5, <2>6
    <3>2. CASE b \in blocks  BY <3>1, <3>2 DEF Orderly, EarlyBlocks
    <3>3. CASE b = new
      <4>1. s = "kernel"  BY <1>1, <3>1, WorkTail DEF s
      <4> QED  BY <2>4, <2>7, <3>3, <4>1
    <3> QED  BY <2>6, <3>2, <3>3
  <2>13. DirsApart' /\ Shared'
    BY <1>2, <2>3, <2>5, <2>6, NextWork DEF Orderly, DirsApart, Shared
  <2>14. Orderly'
    BY <1>2, <2>5, <2>6, <2>8, <2>9, <2>11, <2>12, <2>13, NextWork DEF Orderly
  <2> QED  BY <2>6, <2>14 DEF Why
<1> QED  BY <1>3, <1>4

\* A page unmapped that is no block's takes none of the blocks' pages away.
LEMMA UnmapKeeps ==
  ASSUME IInv, Orderly, NEW s \in Space, NEW p \in Nat, p < HeapEnd, PagingUnmap(s, p),
         \A b \in blocks : p # b.page
  PROVE  UNCHANGED dirs /\ \A b \in blocks : There(b) => There(b)'
<1>1. CASE TableOf(s, p) = None
  BY <1>1 DEF PagingUnmap, mapVars, There, Present, PageOf, TableOf, SpaceOf
<1>2. CASE TableOf(s, p) # None
  <2>1. UNCHANGED dirs /\ tables' = [tables EXCEPT ![TableOf(s, p)][EntryOf(p)] = None]
    BY <1>2 DEF PagingUnmap
  <2>2. MapTypes /\ DirsApart  BY DEF IInv, Orderly
  <2> DEFINE t == TableOf(s, p)
  <2>3. t \in Frame /\ DirOf(p) \in Dir /\ EntryOf(p) \in Entry /\ t = dirs[s][DirOf(p)]
    BY <1>2, <2>2, PageTypes DEF TableOf
  <2> HIDE DEF t
  <2>4. \A u \in Frame : \A e \in Entry :
          tables'[u][e] = IF u = t /\ e = EntryOf(p) THEN None ELSE tables[u][e]
    BY <2>1, <2>2, <2>3 DEF MapTypes, t
  <2>5. ASSUME NEW b \in blocks, There(b) PROVE There(b)'
    <3> DEFINE q == SpaceOf(b.of)
               r == b.page
               u == TableOf(q, r)
    <3>1. b.page \in Nat /\ b.pages \in Nat /\ b.page + b.pages <= HeapEnd /\ b.pages >= 1
      BY DEF IInv, WorkTypes, Orderly, BlocksApart
    <3>2. q \in Space /\ r \in Nat /\ r < HeapEnd  BY <3>1, Limits DEF SpaceOf, Space
    <3> HIDE DEF q, r
    <3>3. Present(q, r)  BY <2>5 DEF There, q, r
    <3>4. u # None /\ tables[u][EntryOf(r)] # None  BY <3>3 DEF Present, PageOf
    <3>5. u \in Frame /\ DirOf(r) \in Dir /\ EntryOf(r) \in Entry /\ u = dirs[q][DirOf(r)]
      BY <2>2, <3>2, <3>4, PageTypes DEF TableOf
    <3> HIDE DEF u
    <3>6. ~(u = t /\ EntryOf(r) = EntryOf(p))
      <4> SUFFICES ASSUME u = t, EntryOf(r) = EntryOf(p) PROVE FALSE  OBVIOUS
      <4>1. DirOf(r) = DirOf(p)  BY <2>2, <2>3, <3>2, <3>4, <3>5 DEF DirsApart
      <4>2. r = p  BY <3>2, <4>1, SamePage
      <4> QED  BY <4>2 DEF r
    <3>7. tables'[u][EntryOf(r)] # None  BY <2>4, <3>4, <3>5, <3>6
    <3>8. TableOf(q, r)' = u  BY <2>1, <3>5 DEF TableOf
    <3>9. Present(q, r)'  BY <3>4, <3>7, <3>8 DEF Present, PageOf
    <3> QED  BY <3>9 DEF There, q, r
  <2> QED  BY <2>1, <2>5
<1> QED  BY <1>1, <1>2

\* A step that unmaps a page no block has, and goes on.
LEMMA UnmapWhy ==
  ASSUME IInv, Orderly, NEW s \in Space, NEW p \in Nat, p < HeapEnd, PagingUnmap(s, p),
         \A b \in blocks : p # b.page, UNCHANGED <<blocks, heap_next, stage>>, halted' = "no",
         Ordered(work'), WorkFits(work', blocks), Copies(work') <=> Copies(work),
         \A b \in blocks : Awaited(b, work) => Awaited(b, work')
  PROVE  Why'
<1>1. UNCHANGED dirs /\ \A b \in blocks : There(b) => There(b)'  BY UnmapKeeps
<1>2. BlocksApart'  BY DEF Orderly, BlocksApart
<1>3. Held'
  <2> SUFFICES ASSUME NEW b \in blocks PROVE There(b)' \/ Awaited(b, work')  BY NextWork DEF Held
  <2>1. There(b) \/ Awaited(b, work)  BY DEF Orderly, Held
  <2> QED  BY <1>1, <2>1
<1>4. EarlyBlocks'  BY NextWork DEF Orderly, EarlyBlocks, SpaceOf
<1>5. DirsApart' /\ Shared'  BY <1>1, NextWork DEF Orderly, DirsApart, Shared
<1>6. WorkFits(work, blocks)'  BY NextWork
<1> QED  BY <1>2, <1>3, <1>4, <1>5, <1>6, NextWork DEF Orderly, Why

LEMMA RemovingWhy == ASSUME IInv, RInv, Orderly, halted = "no", DoUnmap \/ DoClear PROVE Why'
<1>1. work # <<>> /\ Next1.op \in {"unmap", "clear"} /\ UNCHANGED <<blocks, heap_next, stage>> /\ halted' = "no"
  BY DEF DoUnmap, DoClear, Doing
<1>2. /\ Next1.space \in Space /\ Next1.page \in Nat /\ Next1.page < HeapEnd /\ work \in Seq(Inside)
  BY <1>1, HeadOfWork DEF IInv, WorkTypes
<1>3. /\ Ordered(Tail(work)) /\ WorkFits(Tail(work), blocks) /\ OpFits(Next1, blocks)
      /\ Copies(Tail(work)) <=> Copies(work)
      /\ \A b : Awaited(b, work) => Awaited(b, Tail(work))
  BY <1>1, <1>2, TailOrdered DEF Next1, Orderly
<1>4. \A b \in blocks : b.page \in Nat /\ b.pages \in Nat /\ b.pages >= 1 /\ HeapStart <= b.page
  BY DEF IInv, WorkTypes, Orderly, BlocksApart
<1>5. CASE DoUnmap
  <2>1. PagingUnmap(Next1.space, Next1.page) /\ work' = Tail(work) /\ Next1.op = "unmap"
    BY <1>5 DEF DoUnmap, Done, Doing
  <2>2. \A b \in blocks : Next1.page # b.page
    <3> SUFFICES ASSUME NEW b \in blocks, Next1.page = b.page PROVE FALSE  OBVIOUS
    <3>1. b.page \in PagesOf(b)  BY <1>4 DEF PagesOf
    <3> QED  BY <1>3, <2>1, <3>1 DEF OpFits
  <2> QED  BY <1>1, <1>2, <1>3, <2>1, <2>2, UnmapWhy
<1>6. CASE DoClear /\ Low(items["program"]) # {}
  <2>1. FirstLow(items["program"]) \in LowPage
    <3>1. items["program"] \in Seq(Nat)  BY DEF IInv, MapTypes, Space
    <3> QED  BY <1>6, <3>1, FirstLowIsLow
  <2>2. PICK p \in LowPage : p = FirstLow(items["program"])  BY <2>1
  <2>3. PagingUnmap("program", p) /\ work' = work  BY <1>6, <2>2 DEF DoClear
  <2>4. p \in Nat /\ p < HeapEnd /\ p < HeapStart /\ "program" \in Space
    <3>1. p \in Nat /\ p < LowTables * PerTable /\ p < HeapEnd  BY Limits DEF LowPage
    <3>2. HeapStart = LowTables * PerTable + PerTable  BY Limits DEF HeapStart
    <3> QED  BY <3>1, <3>2, Limits DEF Space
  <2>5. \A b \in blocks : p # b.page  BY <1>4, <2>4, Limits
  <2> QED  BY <1>1, <2>3, <2>4, <2>5, UnmapWhy DEF Orderly
<1>7. CASE DoClear /\ Low(items["program"]) = {}
  <2>1. work' = Tail(work) /\ UNCHANGED <<dirs, tables>>  BY <1>7 DEF DoClear, Done, mapVars
  <2>2. WorkFits(work, blocks)'  BY <1>1, <1>3, <2>1, NextWork
  <2>3. Orderly'  BY <1>1, <1>3, <2>1, <2>2, FewerBlocks
  <2> QED  BY <1>1, <2>3 DEF Why
<1> QED  BY <1>5, <1>6, <1>7

\* A page that cannot be mapped has taken a frame the direct map does not reach.
LEMMA MapFaults ==
  ASSUME IInv, halted = "no", NEW s \in Space, NEW p \in Nat, p < HeapEnd, PagingMap(s, p)
  PROVE  halted' \in {"no", "overrun"} \/ (halted' = "fault" /\ \E i \in bitmap' : i >= Frames)
<1>1. PICK f \in PmmNext(bitmap) :
        \E t \in IF TableOf(s, p) = None THEN PmmNext(bitmap \cup {f}) ELSE {TableOf(s, p)} :
          /\ bitmap' = bitmap \cup {f, t}
          /\ halted' \in {halted, "overrun"} \/ (halted' = "fault" /\ ~({f, t} \subseteq Frame))
  BY DEF PagingMap
<1>2. PICK t \in IF TableOf(s, p) = None THEN PmmNext(bitmap \cup {f}) ELSE {TableOf(s, p)} :
          /\ bitmap' = bitmap \cup {f, t}
          /\ halted' \in {halted, "overrun"} \/ (halted' = "fault" /\ ~({f, t} \subseteq Frame))
  BY <1>1
<1>3. f \in Nat  BY Limits DEF PmmNext
<1>4. t \in Nat
  <2>1. CASE TableOf(s, p) = None  BY <1>2, <2>1, Limits DEF PmmNext
  <2>2. CASE TableOf(s, p) # None
    <3>1. t = TableOf(s, p) /\ TableOf(s, p) \in Frame  BY <1>2, <2>2, PageTypes DEF IInv
    <3> QED  BY <3>1 DEF Frame
  <2> QED  BY <2>1, <2>2
<1>5. \A i \in {f, t} : i \notin Frame => i >= Frames  BY <1>3, <1>4, Limits DEF Frame
<1> QED  BY <1>2, <1>5

\* A mapped page is there, and those that were there still are.
LEMMA MappedThere ==
  ASSUME MapTypes, NEW s \in Space, NEW p \in Nat, p < HeapEnd,
         NEW f \in Frame, NEW t \in Frame, Mapped(s, p, f, t)
  PROVE  /\ Present(s, p)'
         /\ \A q \in Space : \A r \in Nat : r < HeapEnd /\ Present(q, r) => Present(q, r)'
<1>1. DirOf(p) \in Dir /\ EntryOf(p) \in Entry  BY AddressHasEntries
<1>2. f # None /\ t # None  BY DEF Frame, None
<1>3. TableOf(s, p)' = t /\ tables'[t][EntryOf(p)] = f  BY <1>1 DEF Mapped, TableOf
<1>4. Present(s, p)'  BY <1>2, <1>3 DEF Present, PageOf
<1>5. ASSUME NEW q \in Space, NEW r \in Nat, r < HeapEnd, Present(q, r) PROVE Present(q, r)'
  <2>1. PICK u : u = TableOf(q, r)  OBVIOUS
  <2>2. u # None /\ tables[u][EntryOf(r)] # None  BY <1>5, <2>1 DEF Present, PageOf
  <2>3. u \in Frame /\ DirOf(r) \in Dir /\ EntryOf(r) \in Entry /\ u = dirs[q][DirOf(r)]
    BY <1>5, <2>1, <2>2, PageTypes DEF TableOf
  <2>4. dirs'[q][DirOf(r)] = u
    <3>1. CASE q = s /\ DirOf(r) = DirOf(p)
      <4>1. TableOf(s, p) = u  BY <2>3, <3>1 DEF TableOf
      <4> QED  BY <2>2, <2>3, <3>1, <4>1 DEF Mapped
    <3>2. CASE ~(q = s /\ DirOf(r) = DirOf(p))  BY <2>3, <3>2 DEF Mapped
    <3> QED  BY <3>1, <3>2
  <2>5. tables'[u][EntryOf(r)] # None  BY <1>2, <2>2, <2>3 DEF Mapped
  <2> QED  BY <2>2, <2>4, <2>5 DEF Present, PageOf, TableOf
<1> QED  BY <1>4, <1>5

LEMMA MappedDirs ==
  ASSUME MapTypes, OneOwner, DirsApart, NEW s \in Space, NEW p \in Nat, p < HeapEnd,
         NEW f \in Frame, NEW t \in Frame, Mapped(s, p, f, t)
  PROVE  DirsApart'
<1>1. DirOf(p) \in Dir  BY AddressHasEntries
<1>2. \A q \in Space : \A e \in Dir : dirs[q][e] = t => e = DirOf(p)
  <2> SUFFICES ASSUME NEW q \in Space, NEW e \in Dir, dirs[q][e] = t PROVE e = DirOf(p)  OBVIOUS
  <2>1. t # None  BY DEF Frame, None
  <2>2. t \in bitmap  BY <2>1, TablesMarked
  <2>3. dirs[s][DirOf(p)] = t  BY <2>2 DEF Mapped, TableOf
  <2> QED  BY <1>1, <2>1, <2>3 DEF DirsApart
<1>3. \A q \in Space : \A e \in Dir :
        dirs'[q][e] = t \/ (dirs'[q][e] = dirs[q][e] /\ ~(q = s /\ e = DirOf(p)))
  BY DEF Mapped
<1>4. \A q \in Space : \A e \in Dir : dirs'[q][e] = t => e = DirOf(p)
  BY <1>2 DEF Mapped
<1> SUFFICES ASSUME NEW a \in Space, NEW q \in Space, NEW d \in Dir, NEW e \in Dir,
                    dirs'[a][d] # None, dirs'[a][d] = dirs'[q][e]
             PROVE  d = e
  BY DEF DirsApart
<1>5. CASE dirs'[a][d] = t  BY <1>4, <1>5
<1>6. CASE dirs'[a][d] # t
  <2>1. dirs'[a][d] = dirs[a][d]  BY <1>3, <1>6
  <2>2. dirs'[q][e] = dirs[q][e]  BY <1>3, <1>6
  <2>3. dirs[a][d] # None /\ dirs[a][d] = dirs[q][e]  BY <2>1, <2>2
  <2> QED  BY <2>3 DEF DirsApart
<1> QED  BY <1>5, <1>6

LEMMA MapWhy == ASSUME IInv, RInv, Orderly, halted = "no", DoMap PROVE Why'
<1>1. /\ work # <<>> /\ Next1.op = "map" /\ work' = Tail(work) /\ UNCHANGED <<blocks, heap_next>>
      /\ Tail(work) # <<>> => UNCHANGED stage
  BY DEF DoMap, Doing, Done
<1>2. Next1.space \in Space /\ Next1.page \in Nat /\ Next1.page < HeapEnd /\ work \in Seq(Inside)
  BY <1>1, HeadOfWork DEF IInv, WorkTypes
<1>3. PICK s \in Space, p \in Nat : s = Next1.space /\ p = Next1.page /\ p < HeapEnd  BY <1>2
<1>4. PagingMap(s, p)  BY <1>3 DEF DoMap
<1>5. halted' \in {"no", "overrun"} \/ (halted' = "fault" /\ \E i \in bitmap' : i >= Frames)
  BY <1>3, <1>4, MapFaults
<1>8. CASE halted' = "overrun"  BY <1>8 DEF Why
<1>6. CASE halted' = "fault" /\ \E i \in bitmap' : i >= Frames  BY <1>6 DEF Why
<1>7. CASE halted' = "no"
  <2>1. PICK f \in Frame, t \in Frame : Mapped(s, p, f, t)  BY <1>3, <1>4, <1>7, MapEffect
  <2>2. MapTypes /\ OneOwner /\ DirsApart  BY DEF IInv, Orderly
  <2>3. DirsApart'  BY <1>3, <2>1, <2>2, MappedDirs
  <2>4. Present(s, p)' /\ \A q \in Space : \A r \in Nat : r < HeapEnd /\ Present(q, r) => Present(q, r)'
    BY <1>3, <2>1, <2>2, MappedThere
  <2>5. /\ Ordered(Tail(work)) /\ WorkFits(Tail(work), blocks)
        /\ Copies(Tail(work)) <=> Copies(work)
        /\ s = "kernel" => Copies(Tail(work))
        /\ \A b : Awaited(b, work) => Awaited(b, Tail(work)) \/ (s = SpaceOf(b.of) /\ p = b.page)
    BY <1>1, <1>2, <1>3, TailOrdered DEF Next1, Orderly
  <2>6. BlocksApart'  BY <1>1 DEF Orderly, BlocksApart
  <2>7. WorkFits(work, blocks)'
    <3>1. CASE Tail(work) = <<>>
      <4>1. Len(work') = 0  BY <1>1, <3>1
      <4> QED  BY <4>1 DEF WorkFits
    <3>2. CASE Tail(work) # <<>>  BY <1>1, <2>5, <3>2, NextWork
    <3> QED  BY <3>1, <3>2
  <2>8. \A b \in blocks : There(b) => There(b)'
    <3> SUFFICES ASSUME NEW b \in blocks, There(b) PROVE There(b)'  OBVIOUS
    <3>1. b.page \in Nat /\ b.pages \in Nat /\ b.page + b.pages <= HeapEnd /\ b.pages >= 1
      BY DEF IInv, WorkTypes, Orderly, BlocksApart
    <3>2. SpaceOf(b.of) \in Space /\ b.page \in Nat /\ b.page < HeapEnd
      BY <3>1, Limits DEF SpaceOf, Space
    <3>3. Present(SpaceOf(b.of), b.page)'  BY <2>4, <3>2 DEF There
    <3> QED  BY <3>3 DEF There, SpaceOf
  <2>9. Held'
    <3> SUFFICES ASSUME NEW b \in blocks PROVE There(b)' \/ Awaited(b, work')
      BY <1>1, NextWork DEF Held
    <3>1. There(b) \/ Awaited(b, work)  BY DEF Orderly, Held
    <3>2. s = SpaceOf(b.of) /\ p = b.page => There(b)'  BY <2>4 DEF There, SpaceOf
    <3> QED  BY <1>1, <2>5, <2>8, <3>1, <3>2
  <2>10. EarlyBlocks'  BY <1>1, <2>5, NextWork DEF Orderly, EarlyBlocks, SpaceOf
  <2>11. Shared'
    <3> SUFFICES ASSUME ~Copies(work'), NEW d \in Dir, d >= LowTables, dirs'["kernel"][d] # None
                 PROVE  dirs'["program"][d] = dirs'["kernel"][d]
      BY NextWork DEF Shared
    <3>1. s = "program" /\ ~Copies(work) /\ "kernel" \in Space /\ "program" \in Space
      BY <1>1, <2>5 DEF Space
    <3>2. dirs'["kernel"][d] = dirs["kernel"][d]  BY <2>1, <3>1 DEF Mapped
    <3>3. dirs["program"][d] = dirs["kernel"][d] /\ dirs["program"][d] # None
      BY <3>1, <3>2 DEF Orderly, Shared
    <3>4. dirs'["program"][d] = dirs["program"][d]  BY <2>1, <3>1, <3>3 DEF Mapped, TableOf
    <3> QED  BY <3>2, <3>3, <3>4
  <2>12. Orderly'
    BY <1>1, <2>3, <2>5, <2>6, <2>7, <2>9, <2>10, <2>11, NextWork DEF Orderly
  <2> QED  BY <1>7, <2>12 DEF Why
<1> QED  BY <1>5, <1>6, <1>7, <1>8

LEMMA CopyWhy == ASSUME IInv, RInv, Orderly, halted = "no", DoCopy PROVE Why'
<1>1. /\ work # <<>> /\ Next1.op = "copy" /\ work' = Tail(work) /\ work \in Seq(Inside)
      /\ UNCHANGED <<tables, heap_next, blocks, stage>>
  BY DEF DoCopy, Doing, Done, IInv, WorkTypes
<1>2. PICK f \in PmmNext(bitmap) :
        /\ bitmap' = bitmap \cup {f}
        /\ \/ f \in Frame /\ dirs' = [dirs EXCEPT !["program"] = KernelTables] /\ halted' = halted
           \/ f \notin Frame /\ halted' = "fault"
  BY DEF DoCopy
<1>3. CASE f \notin Frame /\ halted' = "fault"
  <2>1. f >= Frames /\ f \in bitmap'  BY <1>2, <1>3, Limits DEF PmmNext, Frame
  <2> QED  BY <1>3, <2>1 DEF Why
<1>4. CASE f \in Frame /\ dirs' = [dirs EXCEPT !["program"] = KernelTables] /\ halted' = halted
  <2>1. /\ Ordered(Tail(work)) /\ WorkFits(Tail(work), blocks) /\ ~Copies(Tail(work))
        /\ \A b : Awaited(b, work) => Awaited(b, Tail(work))
    BY <1>1, TailOrdered DEF Next1, Orderly
  <2>2. Copies(work)
    <3>1. 1 \in 1 .. Len(work) /\ work[1].op = "copy"  BY <1>1 DEF Next1
    <3> QED  BY <3>1 DEF Copies
  <2>3. /\ \A d \in Dir : dirs'["kernel"][d] = dirs["kernel"][d]
        /\ \A d \in Dir : dirs'["program"][d] = IF d >= LowTables THEN dirs["kernel"][d] ELSE None
    <3>1. dirs \in [Space -> [Dir -> Frame \cup {None}]] /\ "kernel" \in Space /\ "program" \in Space
      BY DEF IInv, MapTypes, Space
    <3>2. dirs'["program"] = KernelTables /\ dirs'["kernel"] = dirs["kernel"]  BY <1>4, <3>1
    <3> QED  BY <3>2 DEF KernelTables, TablesFrom
  <2>4. \A b \in blocks : SpaceOf(b.of) = "kernel"  BY <2>2 DEF Orderly, EarlyBlocks
  <2>5. \A b \in blocks : There(b) => There(b)'
    <3> SUFFICES ASSUME NEW b \in blocks, There(b) PROVE There(b)'  OBVIOUS
    <3>1. b.page \in Nat /\ b.pages \in Nat /\ b.page + b.pages <= HeapEnd /\ b.pages >= 1
      BY DEF IInv, WorkTypes, Orderly, BlocksApart
    <3>2. DirOf(b.page) \in Dir
      <4>1. b.page \in Nat /\ b.page < HeapEnd  BY <3>1, Limits
      <4> QED  BY <4>1, AddressHasEntries
    <3>3. Present("kernel", b.page)  BY <2>4 DEF There
    <3>4. Present("kernel", b.page)'  BY <1>1, <2>3, <3>2, <3>3 DEF Present, PageOf, TableOf
    <3> QED  BY <2>4, <3>4 DEF There, SpaceOf
  <2>6. Held'
    <3> SUFFICES ASSUME NEW b \in blocks PROVE There(b)' \/ Awaited(b, work')
      BY <1>1, NextWork DEF Held
    <3>1. There(b) \/ Awaited(b, work)  BY DEF Orderly, Held
    <3> QED  BY <1>1, <2>1, <2>5, <3>1
  <2>7. DirsApart'
    <3> SUFFICES ASSUME NEW a \in Space, NEW q \in Space, NEW d \in Dir, NEW e \in Dir,
                        dirs'[a][d] # None, dirs'[a][d] = dirs'[q][e]
                 PROVE  d = e
      BY DEF DirsApart
    <3>1. dirs'[a][d] = dirs["kernel"][d] /\ dirs'[q][e] = dirs["kernel"][e]  BY <2>3 DEF Space
    <3> QED  BY <3>1 DEF Orderly, DirsApart, Space
  <2>8. Shared'  BY <2>3 DEF Shared
  <2>9. BlocksApart' /\ EarlyBlocks'
    BY <1>1, <2>1, NextWork DEF Orderly, BlocksApart, EarlyBlocks
  <2>10. Orderly'
    BY <1>1, <2>1, <2>6, <2>7, <2>8, <2>9, NextWork DEF Orderly
  <2> QED  BY <1>4, <2>10 DEF Why
<1> QED  BY <1>2, <1>3, <1>4

\* The block kfree is given is there, unless it is a file of a process that
\* has exited, which its own space has and the kernel's has not.
LEMMA FreeWhy ==
  ASSUME IInv, Orderly, halted = "no", NEW s \in Space, NEW b \in blocks, NEW rest \in Seq(Inside),
         Free(s, b, rest), Ordered(rest), Removes(rest), WorkFits(rest, blocks),
         ~Copies(work), ~Copies(rest), \A c : ~Awaited(c, work),
         s = SpaceOf(b.of) \/ (b.of = "file" /\ stage = "exited")
  PROVE  Why'
<1>1. /\ IF Present(s, b.page)
         THEN /\ blocks' = blocks \ {b}
              /\ work' = Each("unmap", s, b.page, b.pages) \o rest
              /\ halted' = halted
         ELSE halted' = "fault" /\ UNCHANGED blocks
      /\ UNCHANGED <<bitmap, dirs, tables, heap_next, stage>>
  BY DEF Free, mapVars
<1>2. /\ b.page \in Nat /\ b.pages \in Nat /\ b.page + b.pages <= HeapEnd
      /\ b.pages >= 1 /\ HeapStart <= b.page
  BY DEF IInv, WorkTypes, Orderly, BlocksApart
<1>3. There(b)  BY DEF Orderly, Held
<1>4. CASE ~Present(s, b.page)
  <2>1. halted' = "fault" /\ UNCHANGED blocks  BY <1>1, <1>4
  <2>2. s # SpaceOf(b.of)  BY <1>3, <1>4 DEF There
  <2>3. b.of = "file" /\ stage = "exited" /\ s = "kernel"  BY <2>2 DEF SpaceOf, Space
  <2>4. Present("program", b.page)  BY <1>3, <2>3 DEF There, SpaceOf
  <2>5. Private(b)
    <3> SUFFICES ASSUME dirs["kernel"][DirOf(b.page)] # None PROVE FALSE  BY DEF Private
    <3>1. b.page < HeapEnd  BY <1>2, Limits
    <3>2. DirOf(b.page) \in Dir  BY <1>2, <3>1, AddressHasEntries
    <3>3. DirOf(b.page) >= LowTables
      <4> SUFFICES ASSUME ~(DirOf(b.page) >= LowTables) PROVE FALSE  OBVIOUS
      <4>1. DirOf(b.page) \in LowDir  BY <3>2, Limits DEF LowDir, Dir
      <4>2. b.page < LowTables * PerTable  BY <1>2, <4>1, LowByDir, Limits DEF LowPage
      <4>3. HeapStart = LowTables * PerTable + PerTable  BY Limits DEF HeapStart
      <4> QED  BY <1>2, <4>2, <4>3, Limits
    <3>4. dirs["program"][DirOf(b.page)] = dirs["kernel"][DirOf(b.page)]
      BY <3>2, <3>3 DEF Orderly, Shared
    <3> QED  BY <1>4, <2>3, <2>4, <3>4 DEF Present, PageOf, TableOf
  <2>6. Private(b)'  BY <1>1, <2>5 DEF Private
  <2> QED  BY <1>1, <2>1, <2>3, <2>6 DEF Why
<1>5. CASE Present(s, b.page)
  <2> DEFINE c == Each("unmap", s, b.page, b.pages) \o rest
  <2>1. blocks' = blocks \ {b} /\ work' = c /\ halted' = "no"  BY <1>1, <1>5
  <2>2. WorkFits(rest, blocks')
    <3>1. blocks' \in SUBSET blocks  BY <2>1
    <3> QED  BY <3>1, FitsLess
  <2>3. \A d \in blocks' : \A i \in 1 .. b.pages : b.page + i - 1 \notin PagesOf(d)
    <3> SUFFICES ASSUME NEW d \in blocks', NEW i \in 1 .. b.pages, b.page + i - 1 \in PagesOf(d)
                 PROVE  FALSE
      OBVIOUS
    <3>1. d \in blocks /\ d # b  BY <2>1
    <3>2. d.page \in Nat /\ d.pages \in Nat  BY <3>1 DEF IInv, WorkTypes
    <3>3. b.page + b.pages <= d.page \/ d.page + d.pages <= b.page
      BY <3>1 DEF Orderly, BlocksApart
    <3>4. b.page + i - 1 >= d.page /\ b.page + i - 1 <= d.page + d.pages - 1
      BY <1>2, <3>2 DEF PagesOf
    <3> QED  BY <1>2, <3>2, <3>3, <3>4
  <2>4. Ordered(c) /\ WorkFits(c, blocks') /\ (Copies(c) <=> Copies(rest))
    BY <1>2, <2>2, <2>3, EachOrdered
  <2> HIDE DEF c
  <2>5. WorkFits(work, blocks)'  BY <1>1, <2>1, <2>4, NextWork
  <2>6. Orderly'
    <3>1. blocks' \subseteq blocks  BY <2>1
    <3>2. Ordered(work') /\ (Copies(work') <=> Copies(work))  BY <2>1, <2>4
    <3> QED  BY <1>1, <2>5, <3>1, <3>2, FewerBlocks
  <2> QED  BY <2>1, <2>6 DEF Why
<1> QED  BY <1>4, <1>5

\* While blocks are freed no page is being mapped.
LEMMA RemovesNone ==
  ASSUME NEW w \in Seq(Inside), Removes(w)
  PROVE  ~Copies(w) /\ \A b : ~Awaited(b, w)
<1>1. \A i \in 1 .. Len(w) : w[i].op # "copy" /\ w[i].op # "map"  BY DEF Removes
<1> QED  BY <1>1 DEF Copies, Awaited

LEMMA FreesWhy == ASSUME IInv, RInv, Orderly, halted = "no", DoKfree \/ DoCloseFiles PROVE Why'
<1>1. work # <<>> /\ Next1.op \in {"kfree", "closefiles"}  BY DEF DoKfree, DoCloseFiles, Doing
<1>2. work \in Seq(Inside) /\ Tail(work) \in Seq(Inside) /\ "kernel" \in Space
  BY <1>1, HeadOfWork DEF IInv, WorkTypes, Space
<1>3. /\ Ordered(Tail(work)) /\ WorkFits(Tail(work), blocks) /\ OpFits(Next1, blocks)
      /\ Removes(work) /\ Removes(Tail(work)) /\ Ordered(work) /\ WorkFits(work, blocks)
  BY <1>1, <1>2, TailOrdered DEF Next1, Orderly
<1>4. /\ ~Copies(work) /\ ~Copies(Tail(work))
      /\ \A b : ~Awaited(b, work) /\ ~Awaited(b, Tail(work))
  BY <1>2, <1>3, RemovesNone
<1>5. CASE DoKfree
  <2>1. PICK b \in blocks : b.of = Next1.of /\ Free("kernel", b, Tail(work))  BY <1>5 DEF DoKfree
  <2>2. SpaceOf(b.of) = "kernel"  BY <1>3, <1>5, <2>1 DEF OpFits, DoKfree, Doing
  <2> QED  BY <1>2, <1>3, <1>4, <2>1, <2>2, FreeWhy
<1>6. CASE DoCloseFiles
  <2>1. Next1.op = "closefiles" /\ stage = "exited"  BY <1>3, <1>6 DEF OpFits, DoCloseFiles, Doing
  <2>2. CASE \E b \in blocks : b.of = "file"
    <3>1. PICK b \in blocks : b.of = "file" /\ Free("kernel", b, work)
      BY <1>6, <2>2 DEF DoCloseFiles
    <3> QED  BY <1>2, <1>3, <1>4, <2>1, <3>1, FreeWhy
  <2>3. CASE ~ \E b \in blocks : b.of = "file"
    <3>1. work' = Tail(work) /\ UNCHANGED <<dirs, tables, heap_next, blocks, stage, halted>>
      BY <1>6, <2>3 DEF DoCloseFiles, Done, mapVars
    <3>2. WorkFits(work, blocks)'  BY <1>3, <3>1, NextWork
    <3>3. Orderly'  BY <1>3, <1>4, <3>1, <3>2, FewerBlocks
    <3> QED  BY <3>1, <3>3 DEF Why
  <2> QED  BY <2>2, <2>3
<1> QED  BY <1>5, <1>6

\* A call is made when nothing is left of another.
LEMMA NothingLeft == ~Copies(<<>>) /\ (\A b : ~Awaited(b, <<>>)) /\ Ordered(<<>>) /\ \A B : WorkFits(<<>>, B)
BY DEF Copies, Awaited, Ordered, Builds, Removes, KernelFirst, OneCopy, WorkFits

LEMMA CallsWhy ==
  ASSUME Orderly, halted = "no", work = <<>>, NEW ops, Calls(ops), Ordered(ops), ~Copies(ops),
         WorkFits(ops, blocks)
  PROVE  Why'
<1>1. work' = ops /\ UNCHANGED <<dirs, tables, heap_next, blocks, stage, halted>>
  BY DEF Calls, mapVars
<1>2. WorkFits(work, blocks)'  BY <1>1, NextWork
<1>3. Orderly'  BY <1>1, <1>2, NothingLeft, FewerBlocks
<1> QED  BY <1>1, <1>3 DEF Why

\* A step that does nothing about pages and blocks.
LEMMA QuietWhy ==
  ASSUME Orderly, halted = "no", UNCHANGED <<dirs, tables, heap_next, blocks, work, halted>>,
         UNCHANGED stage \/ work = <<>>
  PROVE  Why'
<1>1. WorkFits(work, blocks)'
  <2>1. CASE UNCHANGED stage  BY <2>1, NextWork DEF Orderly
  <2>2. CASE work = <<>>
    <3>1. Len(work') = 0  BY <2>2
    <3> QED  BY <3>1 DEF WorkFits
  <2> QED  BY <2>1, <2>2
<1>2. Orderly'  BY <1>1, FewerBlocks DEF Orderly
<1> QED  BY <1>2 DEF Why

\* What copies nothing and maps nothing for the kernel is in order.
LEMMA CallOrdered ==
  ASSUME NEW w, Builds(w) \/ Removes(w),
         \A i \in 1 .. Len(w) : /\ w[i].op # "copy"
                                /\ w[i].op \in {"map", "kmalloc"} => w[i].space # "kernel"
  PROVE  Ordered(w) /\ ~Copies(w)
<1>1. KernelFirst(w) /\ OneCopy(w) /\ ~Copies(w)  BY DEF KernelFirst, OneCopy, Copies
<1> QED  BY <1>1 DEF Ordered

LEMMA ProgramWhy == ASSUME IInv, RInv, Orderly, halted = "no", Program PROVE Why'
<1>1. ASSUME NEW p \in Address, SysMap(p) PROVE Why'
  <2> DEFINE o == Map("program", p)
  <2>1. o.op = "map" /\ o.space = "program"  BY DEF Map, Do
  <2>2. work = <<>> /\ Calls(<<o>>)  BY <1>1 DEF SysMap, Running
  <2> HIDE DEF o
  <2>3. \A i \in 1 .. Len(<<o>>) : <<o>>[i] = o  OBVIOUS
  <2>4. Builds(<<o>>)  BY <2>1, <2>3 DEF Builds
  <2>5. Ordered(<<o>>) /\ ~Copies(<<o>>)  BY <2>1, <2>3, <2>4, CallOrdered
  <2>6. WorkFits(<<o>>, blocks)  BY <2>1, <2>3 DEF WorkFits, OpFits
  <2> QED  BY <2>2, <2>5, <2>6, CallsWhy
<1>2. ASSUME NEW p \in Address, SysUmap(p) PROVE Why'
  <2> DEFINE o == Unmap("program", p)
  <2>1. o.op = "unmap" /\ o.page = p  BY DEF Unmap, Do
  <2>2. work = <<>> /\ Calls(<<o>>)  BY <1>2 DEF SysUmap, Running
  <2> HIDE DEF o
  <2>3. \A i \in 1 .. Len(<<o>>) : <<o>>[i] = o  OBVIOUS
  <2>4. Removes(<<o>>)  BY <2>1, <2>3 DEF Removes
  <2>5. Ordered(<<o>>) /\ ~Copies(<<o>>)  BY <2>1, <2>3, <2>4, CallOrdered
  <2>6. \A b \in blocks : p \notin PagesOf(b)
    BY <1>2 DEF SysUmap, OfKernel, PagesOf
  <2>7. WorkFits(<<o>>, blocks)  BY <2>1, <2>3, <2>6 DEF WorkFits, OpFits
  <2> QED  BY <2>2, <2>5, <2>7, CallsWhy
<1>3. ASSUME NEW p \in LowPage, NEW v \in Value, Store(p, v) \/ CopyToUser(p, v) PROVE Why'
  <2>1. UNCHANGED <<dirs, tables, heap_next, blocks, work, stage, halted>>
    BY <1>3 DEF Store, CopyToUser, Put, mapVars
  <2> QED  BY <2>1, QuietWhy
<1>4. ASSUME NEW w, NEW o, w = <<o>> \/ w = <<o, o>>, Calls(w), work = <<>>, o.op = "kmalloc",
             o.space = "program", o.n = 1, o.of \in {"file", "child"}
      PROVE  Why'
  <2>1. \A i \in 1 .. Len(w) : w[i] = o
    <3>1. CASE w = <<o>>  BY <3>1
    <3>2. CASE w = <<o, o>>  BY <3>2
    <3> QED  BY <1>4, <3>1, <3>2
  <2>2. Builds(w)  BY <1>4, <2>1 DEF Builds
  <2>3. Ordered(w) /\ ~Copies(w)  BY <1>4, <2>1, <2>2, CallOrdered
  <2>4. OpFits(o, blocks)  BY <1>4 DEF OpFits, SpaceOf
  <2>5. WorkFits(w, blocks)  BY <2>1, <2>4 DEF WorkFits
  <2> QED  BY <1>4, <2>3, <2>5, CallsWhy
<1>5. ASSUME Open PROVE Why'
  <2> DEFINE o == Kmalloc("program", 1, "file")
  <2>1. o.op = "kmalloc" /\ o.space = "program" /\ o.n = 1 /\ o.of = "file"  BY DEF Kmalloc, Do
  <2>2. work = <<>> /\ Calls(<<o>>)  BY <1>5 DEF Open, Running
  <2> QED  BY <1>4, <2>1, <2>2
<1>6. ASSUME SysFork PROVE Why'
  <2> DEFINE o == Kmalloc("program", 1, "child")
  <2>1. o.op = "kmalloc" /\ o.space = "program" /\ o.n = 1 /\ o.of = "child"  BY DEF Kmalloc, Do
  <2>2. work = <<>> /\ Calls(<<o, o>>)  BY <1>6 DEF SysFork, Running
  <2> QED  BY <1>4, <2>1, <2>2
<1>7. ASSUME Close PROVE Why'
  <2>1. PICK b \in blocks : b.of = "file" /\ Free("program", b, <<>>)  BY <1>7 DEF Close
  <2>2. work = <<>> /\ <<>> \in Seq(Inside) /\ Removes(<<>>) /\ "program" \in Space
    BY <1>7 DEF Close, Running, Removes, Space
  <2>3. "program" = SpaceOf(b.of)  BY <2>1 DEF SpaceOf
  <2> QED  BY <2>1, <2>2, <2>3, NothingLeft, FreeWhy
<1>8. ASSUME SysExit PROVE Why'
  <2>1. work = <<>> /\ UNCHANGED <<dirs, tables, heap_next, blocks, work, halted>>
    BY <1>8 DEF SysExit, Running, mapVars
  <2> QED  BY <2>1, QuietWhy
<1>9. ASSUME SchedLoad PROVE Why'
  <2>1. Child # {} /\ UNCHANGED blocks /\ halted' = "fault"  BY <1>9 DEF SchedLoad
  <2>2. Child' # {}  BY <2>1 DEF Child
  <2> QED  BY <2>1, <2>2 DEF Why
<1>10. ASSUME NEW p \in Address, SysMapsKernel(p) PROVE Why'
  BY <1>10 DEF SysMapsKernel, Takes, Why
<1> QED  BY <1>1, <1>2, <1>3, <1>5, <1>6, <1>7, <1>8, <1>9, <1>10 DEF Program

LEMMA ReapWhy == ASSUME IInv, RInv, Orderly, halted = "no", Reap PROVE Why'
<1> DEFINE w == <<Run("closefiles"), Run("clear"), Kfree("items"), Kfree("space"),
                  Kfree("proc"), Run("destroyed")>>
<1>1. work = <<>> /\ stage = "exited" /\ Calls(w)  BY DEF Reap
<1>2. /\ Run("closefiles").op = "closefiles" /\ Run("clear").op = "clear"
      /\ Run("destroyed").op = "destroyed"
      /\ \A of \in {"items", "space", "proc"} : Kfree(of).op = "kfree" /\ Kfree(of).of = of
  BY DEF Run, Kfree, Do
<1>3. \A i \in 1 .. Len(w) :
        \/ w[i].op \in {"clear", "closefiles", "destroyed"}
        \/ w[i].op = "kfree" /\ w[i].of \in {"items", "space", "proc"}
  BY <1>2
<1> HIDE DEF w
<1>4. Removes(w)  BY <1>3 DEF Removes
<1>5. Ordered(w) /\ ~Copies(w)  BY <1>3, <1>4, CallOrdered
<1>6. WorkFits(w, blocks)  BY <1>1, <1>3 DEF WorkFits, OpFits, SpaceOf
<1> QED  BY <1>1, <1>5, <1>6, CallsWhy

LEMMA InitWhy == Init => Why
<1> SUFFICES ASSUME Init PROVE Why  OBVIOUS
<1>1. /\ dirs = [s \in Space |-> [d \in Dir |->
                  IF s = "kernel" /\ d = DirOf(StackPage) THEN 1 ELSE None]]
      /\ heap_next = HeapStart /\ blocks = {} /\ work = Start
      /\ halted # "fault" /\ halted # "panic"
  BY DEF Init
<1>2. BlocksApart /\ Held /\ EarlyBlocks  BY <1>1, Limits DEF BlocksApart, Held, EarlyBlocks
<1>3. DirsApart  BY <1>1 DEF DirsApart, None
<1>4. /\ Kmalloc("kernel", 1, "proc").op = "kmalloc" /\ Kmalloc("kernel", 1, "space").op = "kmalloc"
      /\ Kmalloc("kernel", ItemPages, "items").op = "kmalloc" /\ Run("copy").op = "copy"
      /\ \A p : Map("program", p).op = "map" /\ Map("program", p).space = "program"
      /\ \A n : \A of \in {"proc", "space", "items"} :
           /\ Kmalloc("kernel", n, of).space = "kernel" /\ Kmalloc("kernel", n, of).n = n
           /\ Kmalloc("kernel", n, of).of = of
  BY DEF Kmalloc, Map, Run, Do
<1>5. ItemPages >= 1  BY MemoryAssumption
<1>6. /\ Len(Start) = 6
      /\ \A i \in 1 .. 3 : /\ Start[i].op = "kmalloc" /\ Start[i].space = "kernel" /\ Start[i].n >= 1
                           /\ Start[i].of \in {"proc", "space", "items"}
      /\ Start[4].op = "copy"
      /\ \A i \in 5 .. 6 : Start[i].op = "map" /\ Start[i].space = "program"
  BY <1>4, <1>5 DEF Start
<1>7. /\ 4 \in 1 .. Len(Start)
      /\ \A i \in 1 .. Len(Start) : i \in 1 .. 3 \/ i = 4 \/ i \in 5 .. 6
      /\ \A i \in 1 .. 3 : 4 > i
  BY <1>6
<1>8. Builds(Start)  BY <1>6, <1>7 DEF Builds
<1>9. KernelFirst(Start)
  <2>1. \A i \in 1 .. Len(Start) :
          Start[i].op \in {"map", "kmalloc"} /\ Start[i].space = "kernel" => i \in 1 .. 3
    BY <1>6, <1>7
  <2> QED  BY <1>6, <1>7, <2>1 DEF KernelFirst
<1>10. OneCopy(Start)  BY <1>6, <1>7 DEF OneCopy
<1>11. Copies(Start)  BY <1>6, <1>7 DEF Copies
<1>12. WorkFits(Start, {})  BY <1>6, <1>7 DEF WorkFits, OpFits, SpaceOf
<1>13. Ordered(Start)  BY <1>8, <1>9, <1>10 DEF Ordered
<1>14. Orderly  BY <1>1, <1>2, <1>3, <1>11, <1>12, <1>13 DEF Orderly, Shared
<1> QED  BY <1>1, <1>14 DEF Why

LEMMA EveryWhy == ASSUME IInv, RInv, Why, [Next]_vars PROVE Why'
<1>1. CASE UNCHANGED vars
  <2>1. UNCHANGED <<bitmap, dirs, tables, heap_next, blocks, work, stage, halted>>
    BY <1>1 DEF vars, mapVars
  <2>2. CASE halted = "no"  BY <2>1, <2>2, QuietWhy DEF Why
  <2>3. CASE halted # "no"  BY <2>1, <2>3 DEF Why, Child, Private
  <2> QED  BY <2>2, <2>3
<1>2. CASE Next
  <2>1. halted = "no" /\ Orderly
    <3>1. halted = "no"
      BY <1>2 DEF Next, Operation, Program, Reap, DoKmalloc, DoMap, DoUnmap, DoKfree, DoCloseFiles,
         DoClear, DoCopy, DoDestroyed, Doing, SysMap, SysUmap, SysMapsKernel, Store, CopyToUser, Open, Close,
         SysFork, SysExit, SchedLoad, Running
    <3> QED  BY <3>1 DEF Why
  <2>2. DoDestroyed => Why'  BY DEF DoDestroyed, Why
  <2> QED
    BY <1>2, <2>1, <2>2, KmallocWhy, MapWhy, RemovingWhy, FreesWhy, CopyWhy, ProgramWhy, ReapWhy
    DEF Next, Operation
<1> QED  BY <1>1, <1>2

\* StopsExplained: the machine stops only because the frames or the heap's
\* addresses have run out, a child without a space has come round, the process
\* is gone, or the process left a block in a heap table of its own: no fault
\* comes from a block freed twice, or freed before its pages were there.
THEOREM StopsHaveReasons == Spec => []StopsExplained
<1>1. Init => Why  BY InitWhy
<1>2. IInv /\ RInv /\ Why /\ [Next]_vars => Why'  BY EveryWhy
<1>3. Why => StopsExplained  BY DEF Why, StopsExplained
<1> QED  BY <1>1, <1>2, <1>3, Invariance, StaysApart, PTL DEF Spec
=============================================================================
