------------------------------ MODULE FatProofs ------------------------------
(***************************************************************************)
(* Proofs about Fat, for every geometry and every volume formatted as       *)
(* SectorsAssumption and VolumeAssumption say.                              *)
(*                                                                         *)
(* A table is sound when each cluster has one before it at most and heads   *)
(* have none: chains are then apart and end, whatever their length, and     *)
(* what a write does to one of its entries can be followed.                 *)
(***************************************************************************)
EXTENDS Fat, TLAPS, FiniteSetTheorems, SequenceTheorems, WellFoundedInduction

-----------------------------------------------------------------------------
(* Chains of a table.                                                       *)

\* What FatAssumption says of the numbers.
LEMMA Numbers ==
  /\ Reserved \in Nat /\ Reserved > 0 /\ FatSize \in Nat /\ FatSize > 0
  /\ ClusterSize \in Nat /\ ClusterSize > 0 /\ Clusters \in Nat /\ Clusters > 0
  /\ PerFat \in Nat /\ PerFat > 0 /\ PerDir \in Nat /\ PerDir > 0
  /\ SectorSize \in Nat /\ SectorSize > 0
  /\ FatSize * PerFat >= Clusters + 2 /\ Clusters + 1 < EOC /\ EOC \in Nat
  /\ Fats \in Nat /\ Fats >= 2
  /\ Root \in Cluster /\ MaxPos \in Nat
BY FatAssumption DEF EOC, Cluster

\* A set of numbers has a smallest: what inductions go by.
LEMMA SmallestOf ==
  ASSUME NEW S \in SUBSET Nat, S # {}
  PROVE  \E n \in S : \A k \in S : n <= k
<1>1. IsWellFoundedOn(OpToRel(<, Nat), Nat)  BY NatLessThanWellFounded
<1>2. PICK n \in S : \A k \in S : ~ (<<k, n>> \in OpToRel(<, Nat))  BY <1>1, WFMin
<1>3. \A k \in S : ~ (k < n)  BY <1>2 DEF OpToRel
<1> QED  BY <1>3

\* There is a walk of any length: the function next_cluster is asked for.
WalkTo(t, table, first, n) == t = [k \in 0 .. n |-> IF k = 0 THEN first ELSE Follow(table, t[k - 1])]
LEMMA AWalkExists ==
  ASSUME NEW table, NEW first, NEW n \in Nat
  PROVE  \E t : WalkTo(t, table, first, n)
<1> DEFINE S == {m \in Nat : ~ \E t : WalkTo(t, table, first, m)}
<1> SUFFICES ASSUME S # {} PROVE FALSE  OBVIOUS
<1>1. PICK m \in S : \A j \in S : m <= j
  <2>1. S \in SUBSET Nat  OBVIOUS
  <2> HIDE DEF S
  <2> QED  BY <2>1, SmallestOf
<1>2. m \in Nat /\ ~ \E t : WalkTo(t, table, first, m)  OBVIOUS
<1>3. CASE m = 0
  <2> DEFINE t == [k \in 0 .. 0 |-> first]
  <2>1. t = [k \in 0 .. 0 |-> IF k = 0 THEN first ELSE Follow(table, t[k - 1])]  OBVIOUS
  <2>2. WalkTo(t, table, first, 0)  BY <2>1 DEF WalkTo
  <2> QED  BY <1>2, <1>3, <2>2
<1>4. CASE m # 0
  <2>1. m - 1 \in Nat /\ m - 1 \notin S  BY <1>1, <1>2, <1>4
  <2>2. PICK t : WalkTo(t, table, first, m - 1)  BY <2>1
  <2> DEFINE u == [k \in 0 .. m |-> IF k < m THEN t[k] ELSE Follow(table, t[m - 1])]
  <2>3. \A k \in 0 .. m - 1 : u[k] = t[k]  BY <1>2
  <2>4. \A k \in 0 .. m - 1 : t[k] = IF k = 0 THEN first ELSE Follow(table, t[k - 1])
    BY <2>2 DEF WalkTo
  <2>5. u[m] = Follow(table, t[m - 1])  BY <1>2
  <2>6. DOMAIN u = 0 .. m /\ u = [k \in 0 .. m |-> u[k]]  OBVIOUS
  <2> HIDE DEF u
  <2>7. ASSUME NEW k \in 0 .. m
        PROVE  u[k] = IF k = 0 THEN first ELSE Follow(table, u[k - 1])
    <3>1. CASE k = m
      <4>1. u[m - 1] = t[m - 1]  BY <1>2, <1>4, <2>3
      <4> QED  BY <1>4, <2>5, <3>1, <4>1
    <3>2. CASE k # m
      <4>1. k \in 0 .. m - 1  BY <1>2, <3>2
      <4>2. k # 0 => u[k - 1] = t[k - 1]  BY <2>3, <4>1
      <4> QED  BY <2>3, <2>4, <4>1, <4>2
    <3> QED  BY <3>1, <3>2
  <2>8. WalkTo(u, table, first, m)  BY <2>6, <2>7 DEF WalkTo
  <2> QED  BY <1>2, <2>8
<1> QED  BY <1>3, <1>4

\* ClustersFrom is a walk.
LEMMA WalkIs ==
  ASSUME NEW table, NEW first
  PROVE  /\ ClustersFrom(table, first)[0] = first
         /\ \A k \in 1 .. Clusters :
              ClustersFrom(table, first)[k] = Follow(table, ClustersFrom(table, first)[k - 1])
<1> DEFINE t == CHOOSE t : t = [k \in 0 .. Clusters |-> IF k = 0 THEN first ELSE Follow(table, t[k - 1])]
<1>1. t = ClustersFrom(table, first)  BY DEF ClustersFrom
<1>2. WalkTo(t, table, first, Clusters)  BY AWalkExists, Numbers DEF WalkTo
<1> HIDE DEF t
<1>3. \A k \in 0 .. Clusters : t[k] = IF k = 0 THEN first ELSE Follow(table, t[k - 1])
  BY <1>2 DEF WalkTo
<1>4. 0 \in 0 .. Clusters /\ \A k \in 1 .. Clusters : k \in 0 .. Clusters /\ k # 0  BY Numbers
<1> QED  BY <1>1, <1>3, <1>4

\* A step of a walk.
LEMMA WalkStep ==
  ASSUME NEW table, NEW first, NEW k \in 1 .. Clusters
  PROVE  /\ k - 1 \in 0 .. Clusters /\ k \in 0 .. Clusters
         /\ ClustersFrom(table, first)[k - 1] \in Cluster =>
              ClustersFrom(table, first)[k] = table[ClustersFrom(table, first)[k - 1]]
         /\ ClustersFrom(table, first)[k - 1] \notin Cluster =>
              ClustersFrom(table, first)[k] = ClustersFrom(table, first)[k - 1]
BY WalkIs, Numbers DEF Follow

\* A walk that has left the clusters stays where it is.
LEMMA WalkStays ==
  ASSUME NEW table, NEW first, NEW j \in 0 .. Clusters, ClustersFrom(table, first)[j] \notin Cluster,
         NEW k \in j .. Clusters
  PROVE  ClustersFrom(table, first)[k] = ClustersFrom(table, first)[j]
<1> DEFINE w == ClustersFrom(table, first)
           S == {i \in j .. Clusters : w[i] # w[j]}
<1> HIDE DEF w
<1> SUFFICES ASSUME S # {} PROVE FALSE  BY DEF w
<1>2. PICK i \in S : \A m \in S : i <= m
  <2>1. S \in SUBSET Nat  BY Numbers
  <2> HIDE DEF S
  <2> QED  BY <2>1, SmallestOf
<1>3. i \in j .. Clusters /\ w[i] # w[j] /\ i # j  OBVIOUS
<1>4. i - 1 \in j .. Clusters /\ i - 1 \notin S /\ i \in 1 .. Clusters
  BY <1>2, <1>3, Numbers
<1>5. w[i - 1] = w[j]  BY <1>4
<1>6. w[j] \notin Cluster  BY DEF w
<1>7. w[i] = w[i - 1]  BY <1>4, <1>5, <1>6, WalkStep DEF w
<1> QED  BY <1>3, <1>5, <1>7

\* What is before a cluster of a walk is a cluster.
LEMMA WalkBefore ==
  ASSUME NEW table, NEW first, NEW k \in 0 .. Clusters, ClustersFrom(table, first)[k] \in Cluster,
         NEW j \in 0 .. k
  PROVE  ClustersFrom(table, first)[j] \in Cluster
<1> SUFFICES ASSUME ClustersFrom(table, first)[j] \notin Cluster PROVE FALSE  OBVIOUS
<1>1. j \in 0 .. Clusters /\ k \in j .. Clusters  BY Numbers
<1> QED  BY <1>1, WalkStays

\* Two tables with the same entries on the way walk the same way.
LEMMA WalksAgree ==
  ASSUME NEW t, NEW u, NEW first, NEW n \in 0 .. Clusters,
         \A j \in 0 .. n - 1 : ClustersFrom(t, first)[j] \in Cluster =>
           u[ClustersFrom(t, first)[j]] = t[ClustersFrom(t, first)[j]]
  PROVE  \A j \in 0 .. n : ClustersFrom(u, first)[j] = ClustersFrom(t, first)[j]
<1> DEFINE v == ClustersFrom(t, first)
           w == ClustersFrom(u, first)
           S == {j \in 0 .. n : w[j] # v[j]}
<1>1. v[0] = first /\ w[0] = first  BY WalkIs
<1>3. \A j \in 0 .. n - 1 : v[j] \in Cluster => u[v[j]] = t[v[j]]  OBVIOUS
<1> HIDE DEF v, w
<1> SUFFICES ASSUME S # {} PROVE FALSE  BY DEF v, w
<1>4. PICK j \in S : \A i \in S : j <= i
  <2>1. S \in SUBSET Nat  OBVIOUS
  <2> HIDE DEF S
  <2> QED  BY <2>1, SmallestOf
<1>5. j \in 0 .. n /\ w[j] # v[j] /\ j # 0  BY <1>1
<1>6. j - 1 \in 0 .. n /\ j - 1 \notin S /\ j \in 1 .. Clusters /\ j - 1 \in 0 .. n - 1
  BY <1>4, <1>5, Numbers
<1>7. w[j - 1] = v[j - 1]  BY <1>6
<1>8. v[j] = Follow(t, v[j - 1]) /\ w[j] = Follow(u, w[j - 1])  BY <1>6, WalkIs DEF v, w
<1>9. Follow(t, v[j - 1]) = Follow(u, v[j - 1])  BY <1>3, <1>6 DEF Follow
<1> QED  BY <1>5, <1>7, <1>8, <1>9

\* A walk from a head of a sound table goes through taken clusters to an end.
LEMMA SoundWalk ==
  ASSUME NEW table, NEW heads, TableSound(table, heads), NEW f \in heads, NEW k \in 0 .. Clusters
  PROVE  \/ ClustersFrom(table, f)[k] \in Cluster /\ table[ClustersFrom(table, f)[k]] # 0
         \/ ClustersFrom(table, f)[k] \in Nat /\ ClustersFrom(table, f)[k] >= EOC
<1> DEFINE w == ClustersFrom(table, f)
           Fine(c) == (c \in Cluster /\ table[c] # 0) \/ (c \in Nat /\ c >= EOC)
           S == {j \in 0 .. Clusters : ~Fine(w[j])}
<1>1. w[0] = f  BY WalkIs
<1>3. Fine(f)  BY DEF TableSound
<1>4. \A c \in Cluster : table[c] # 0 => Fine(table[c])  BY DEF TableSound
<1>5. \A c : Fine(c) /\ c \in Cluster => table[c] # 0  BY Numbers DEF Cluster
<1> HIDE DEF w, Fine
<1> SUFFICES ASSUME S # {} PROVE FALSE  BY DEF w, Fine
<1>6. PICK j \in S : \A i \in S : j <= i
  <2>1. S \in SUBSET Nat  OBVIOUS
  <2> HIDE DEF S
  <2> QED  BY <2>1, SmallestOf
<1>7. j \in 0 .. Clusters /\ ~Fine(w[j]) /\ j # 0  BY <1>1, <1>3
<1>8. j - 1 \in 0 .. Clusters /\ j - 1 \notin S /\ j \in 1 .. Clusters
  BY <1>6, <1>7, Numbers
<1>9. Fine(w[j - 1])  BY <1>8
<1>2. w[j] = Follow(table, w[j - 1])  BY <1>8, WalkIs DEF w
<1>11. w[j - 1] \notin Cluster => w[j] = w[j - 1]  BY <1>2 DEF Follow
<1>12. w[j - 1] \in Cluster => w[j] = table[w[j - 1]]  BY <1>2 DEF Follow
<1>10. Fine(w[j])  BY <1>4, <1>5, <1>9, <1>11, <1>12
<1> QED  BY <1>7, <1>10

\* Chains of different heads share no cluster, and none comes twice in one.
LEMMA ChainsApart ==
  ASSUME NEW table, NEW heads, TableSound(table, heads), NEW f \in heads, NEW g \in heads,
         NEW j \in 0 .. Clusters, NEW k \in 0 .. Clusters, ClustersFrom(table, f)[j] \in Cluster,
         ClustersFrom(table, f)[j] = ClustersFrom(table, g)[k]
  PROVE  f = g /\ j = k
<1> DEFINE w(h) == ClustersFrom(table, h)
           Meet(h, e, a, b) == w(h)[a] \in Cluster /\ w(h)[a] = w(e)[b] /\ ~(h = e /\ a = b)
           S == {a \in 0 .. Clusters : \E h, e \in heads : \E b \in 0 .. Clusters : Meet(h, e, a, b)}
<1>1. \A h : w(h)[0] = h  BY WalkIs
<1>2. \A h : \A i \in 1 .. Clusters : w(h)[i] \in Cluster =>
        i - 1 \in 0 .. Clusters /\ w(h)[i - 1] \in Cluster /\ table[w(h)[i - 1]] = w(h)[i]
  <2> SUFFICES ASSUME NEW h, NEW i \in 1 .. Clusters, w(h)[i] \in Cluster
               PROVE  i - 1 \in 0 .. Clusters /\ w(h)[i - 1] \in Cluster /\ table[w(h)[i - 1]] = w(h)[i]
    OBVIOUS
  <2>1. i - 1 \in 0 .. i /\ i \in 0 .. Clusters /\ i - 1 \in 0 .. Clusters  BY Numbers
  <2>2. ClustersFrom(table, h)[i] \in Cluster  OBVIOUS
  <2>3. ClustersFrom(table, h)[i - 1] \in Cluster  BY <2>1, <2>2, WalkBefore
  <2>4. ClustersFrom(table, h)[i] = table[ClustersFrom(table, h)[i - 1]]  BY <2>3, WalkStep
  <2> QED  BY <2>1, <2>3, <2>4
<1> HIDE DEF w
<1>3. \A c \in Cluster : table[c] \in Cluster => table[c] \notin heads  BY DEF TableSound
<1>4. \A c, e \in Cluster : table[c] \in Cluster /\ table[c] = table[e] => c = e  BY DEF TableSound
<1> SUFFICES ASSUME S # {} PROVE FALSE  BY DEF w
<1>5. PICK a \in S : \A i \in S : a <= i
  <2>1. S \in SUBSET Nat  OBVIOUS
  <2> HIDE DEF S
  <2> QED  BY <2>1, SmallestOf
<1>6. PICK h \in heads, e \in heads, b \in 0 .. Clusters : Meet(h, e, a, b)  OBVIOUS
<1>7. a \in 0 .. Clusters  OBVIOUS
<1>8. a # 0 => a \in 1 .. Clusters /\ a - 1 \notin S  BY <1>5, <1>7
<1>9. b # 0 => b \in 1 .. Clusters  BY <1>6
<1>10. CASE a = 0 /\ b = 0  BY <1>1, <1>6, <1>10
<1>11. CASE a = 0 /\ b # 0
  <2>1. w(e)[b] = h  BY <1>1, <1>6, <1>11
  <2> QED  BY <1>2, <1>3, <1>6, <1>9, <1>11, <2>1
<1>12. CASE a # 0 /\ b = 0
  <2>1. w(h)[a] = e  BY <1>1, <1>6, <1>12
  <2> QED  BY <1>2, <1>3, <1>6, <1>8, <1>12, <2>1
<1>13. CASE a # 0 /\ b # 0
  <2>1. /\ w(h)[a - 1] \in Cluster /\ table[w(h)[a - 1]] = w(h)[a] /\ a - 1 \in 0 .. Clusters
        /\ w(e)[b - 1] \in Cluster /\ table[w(e)[b - 1]] = w(e)[b] /\ b - 1 \in 0 .. Clusters
    BY <1>2, <1>6, <1>8, <1>9, <1>13
  <2>2. w(h)[a - 1] = w(e)[b - 1]  BY <1>4, <1>6, <2>1
  <2>3. a = b => a - 1 = b - 1  OBVIOUS
  <2>4. a - 1 = b - 1 => a = b  BY <1>6, <1>7
  <2>5. Meet(h, e, a - 1, b - 1)  BY <1>6, <2>1, <2>2, <2>4
  <2> QED  BY <1>6, <1>8, <1>13, <2>1, <2>5
<1> QED  BY <1>10, <1>11, <1>12, <1>13

\* A chain ends: it has no more clusters than there are.
LEMMA ChainEnds ==
  ASSUME NEW table, NEW heads, TableSound(table, heads), NEW f \in heads
  PROVE  /\ ClustersFrom(table, f)[Clusters] \in Nat /\ ClustersFrom(table, f)[Clusters] >= EOC
         /\ \A k \in 0 .. Clusters : ClustersFrom(table, f)[k] \in Cluster => k < Clusters
<1> DEFINE w == ClustersFrom(table, f)
<1>1. Clusters \in 0 .. Clusters /\ 0 .. Clusters \subseteq Nat  BY Numbers
<1>2. w[Clusters] \notin Cluster
  <2> SUFFICES ASSUME w[Clusters] \in Cluster PROVE FALSE  OBVIOUS
  <2>1. \A k \in 0 .. Clusters : w[k] \in Cluster  BY <1>1, WalkBefore
  <2> DEFINE g == [k \in 0 .. Clusters |-> w[k]]
  <2>2. g \in [0 .. Clusters -> Cluster]  BY <2>1
  <2>3. /\ IsFiniteSet(0 .. Clusters) /\ Cardinality(0 .. Clusters) = Clusters + 1
        /\ IsFiniteSet(Cluster) /\ Cardinality(Cluster) = Clusters
    <3>1. 0 \in Int /\ Clusters \in Int /\ 2 \in Int /\ Clusters + 1 \in Int  BY Numbers
    <3>2. IsFiniteSet(0 .. Clusters) /\ Cardinality(0 .. Clusters) = IF 0 > Clusters THEN 0 ELSE Clusters - 0 + 1
      BY <3>1, FS_Interval
    <3>3. IsFiniteSet(2 .. Clusters + 1)
          /\ Cardinality(2 .. Clusters + 1) = IF 2 > Clusters + 1 THEN 0 ELSE (Clusters + 1) - 2 + 1
      BY <3>1, FS_Interval
    <3> QED  BY <3>2, <3>3, Numbers DEF Cluster
  <2>4. Cardinality(Cluster) < Cardinality(0 .. Clusters)  BY <2>3, Numbers
  <2> HIDE DEF g
  <2>5. PICK x \in 0 .. Clusters, y \in 0 .. Clusters : x # y /\ g[x] = g[y]
    BY <2>2, <2>3, <2>4, FS_PigeonHole
  <2>6. w[x] = w[y]  BY <2>5 DEF g
  <2> QED  BY <2>1, <2>5, <2>6, ChainsApart
<1>3. \A k \in 0 .. Clusters : w[k] \in Cluster => k < Clusters  BY <1>1, <1>2
<1> QED  BY <1>1, <1>2, <1>3, SoundWalk

-----------------------------------------------------------------------------
(* Mounting: the directories are walked depth first.  A frame's directory   *)
(* has a vnode for each entry before the frame's position, one that was     *)
(* left for each of its entries.                                            *)

T0 == TableIn(Disk0)
W(f) == ClustersFrom(T0, f)
Dir0(at) == EntryIn(Disk0, at)
FirstOf(o) == IF o = RootNode THEN Root ELSE Dir0(o).first
Parent == Location \cup {RootNode}

NoEnd(f, k, index) ==
  \A j \in 0 .. k, i \in 0 .. PerCluster - 1 :
    (j < k \/ i < index) => Dir0([cluster |-> W(f)[j], index |-> i]).kind # "end"
Reached(f, k, index) ==
  {at \in Location : Dir0(at).kind \in Named
     /\ \E j \in 0 .. Clusters : at.cluster = W(f)[j] /\ (j < k \/ (j = k /\ at.index < index))}
Position(f, k, frame) ==
  /\ k \in 0 .. Clusters /\ frame.cluster = W(f)[k]
  /\ \A j \in 0 .. k - 1 : W(f)[j] \in Cluster
  /\ NoEnd(f, k, frame.index)

OwnerOf(st, cp, i) == IF i = 1 THEN cp ELSE st[i - 1].save
EnteredIn(ns) == {RootNode} \cup {ns[i].at : i \in {i \in 1 .. Len(ns) : ns[i].kind = "dir"}}
UnderIn(ns, o) == {ns[i].at : i \in {i \in 1 .. Len(ns) : ns[i].parent = o}}

Frame == [cluster : Nat, index : 0 .. PerCluster, save : Parent]
Vnode == [at : Location, parent : Parent, kind : Named]
NodesFound(ns) ==
  \A i \in 1 .. Len(ns) :
    /\ ns[i].parent \in EnteredIn(ns) /\ ns[i].kind = Dir0(ns[i].at).kind
    /\ ns[i].at \in ListedIn(Disk0, FirstOf(ns[i].parent))
NodesApart(ns) == \A i, j \in 1 .. Len(ns) : ns[i].at = ns[j].at => i = j
FirstsKnown(ns) == \A o \in EnteredIn(ns) : FirstOf(o) \in Dirs
FrameSound(st, cp, ns, i) ==
  LET o == OwnerOf(st, cp, i) IN
  /\ o \in EnteredIn(ns)
  /\ \E k \in 0 .. Clusters : /\ Position(FirstOf(o), k, st[i])
                              /\ UnderIn(ns, o) = Reached(FirstOf(o), k, st[i].index)
OwnersApart(st, cp) ==
  \A i, j \in 1 .. Len(st) : OwnerOf(st, cp, i) = OwnerOf(st, cp, j) => i = j
Left(st, cp, ns) ==
  \A o \in EnteredIn(ns) :
    \/ \E i \in 1 .. Len(st) : o = OwnerOf(st, cp, i)
    \/ UnderIn(ns, o) = ListedIn(Disk0, FirstOf(o))
MountTyped(st, cp, ns) == st \in Seq(Frame) /\ cp \in Parent /\ ns \in Seq(Vnode)
MountSound(st, cp, ns) ==
  /\ MountTyped(st, cp, ns)
  /\ NodesFound(ns) /\ NodesApart(ns) /\ FirstsKnown(ns)
  /\ \A i \in 1 .. Len(st) : FrameSound(st, cp, ns, i)
  /\ OwnersApart(st, cp) /\ Left(st, cp, ns)

\* What VolumeAssumption says, by name.
LEMMA Volume ==
  /\ TableSound(T0, HeadsIn(Disk0)) /\ Dirs \subseteq HeadsIn(Disk0) /\ Root \in Dirs
  /\ \A at \in Entries :
       /\ Dir0(at).kind = "dir" => Dir0(at).first \in Dirs \ {Root}
       /\ Dir0(at).kind = "file" => Dir0(at).first \in {0} \cup (Cluster \ Dirs)
       /\ LongEnough(T0, Dir0(at).first, Dir0(at).size)
       /\ \A b \in Entries : Dir0(at).first # 0 /\ Dir0(at).first = Dir0(b).first => at = b
BY VolumeAssumption DEF T0, Dir0, HeadsIn

\* Directories are heads of chains.
LEMMA DirHeads ==
  ASSUME NEW f \in Dirs
  PROVE  f \in HeadsIn(Disk0) /\ f \in Cluster /\ f # 0
BY Volume, Numbers DEF TableSound, Cluster

\* The clusters of two directories are apart.
LEMMA DirChainsApart ==
  ASSUME NEW f \in Dirs, NEW g \in Dirs, NEW j \in 0 .. Clusters, NEW k \in 0 .. Clusters,
         W(f)[j] \in Cluster, W(f)[j] = W(g)[k]
  PROVE  f = g /\ j = k
<1>1. f \in HeadsIn(Disk0) /\ g \in HeadsIn(Disk0) /\ TableSound(T0, HeadsIn(Disk0))  BY Volume, DirHeads
<1>2. ClustersFrom(T0, f)[j] \in Cluster /\ ClustersFrom(T0, f)[j] = ClustersFrom(T0, g)[k]  BY DEF W
<1> QED  BY <1>1, <1>2, ChainsApart

\* The root directory has no entry.
LEMMA RootIsNoEntry == RootNode \notin Location
BY Numbers DEF RootNode, Location, Cluster

\* ListedIn, of the volume.
LEMMA ListedIs ==
  ASSUME NEW f, NEW at
  PROVE  at \in ListedIn(Disk0, f) <=>
           at \in Location /\ \E k \in 0 .. Clusters :
             at.cluster = W(f)[k] /\ Dir0(at).kind \in Named /\ NoEnd(f, k, at.index)
BY DEF ListedIn, W, T0, Dir0, NoEnd

\* What a directory lists is an entry of the volume.
LEMMA ListedIsEntry ==
  ASSUME NEW f \in Dirs, NEW at \in ListedIn(Disk0, f)
  PROVE  at \in Entries /\ at \in Location /\ Dir0(at).kind \in Named
BY ListedIs DEF Entries

\* The entered directories are apart, and so are their clusters.
LEMMA EnteredApart ==
  ASSUME NEW ns \in Seq(Vnode), NodesFound(ns), FirstsKnown(ns),
         NEW o \in EnteredIn(ns), NEW p \in EnteredIn(ns), FirstOf(o) = FirstOf(p)
  PROVE  o = p
<1>1. \A q \in EnteredIn(ns) \ {RootNode} : q \in Entries /\ Dir0(q).first # Root /\ Dir0(q).first # 0
  <2> SUFFICES ASSUME NEW q \in EnteredIn(ns), q # RootNode
               PROVE  q \in Entries /\ Dir0(q).first # Root /\ Dir0(q).first # 0
    OBVIOUS
  <2>1. PICK i \in 1 .. Len(ns) : q = ns[i].at /\ ns[i].kind = "dir"  BY DEF EnteredIn
  <2>2. FirstOf(ns[i].parent) \in Dirs /\ q \in ListedIn(Disk0, FirstOf(ns[i].parent))
        /\ Dir0(q).kind = "dir"
    BY <2>1 DEF NodesFound, FirstsKnown
  <2>3. q \in Entries  BY <2>2, ListedIsEntry
  <2>4. Dir0(q).first \in Dirs \ {Root}  BY <2>2, <2>3, Volume
  <2> QED  BY <2>3, <2>4, DirHeads
<1>2. CASE o # RootNode /\ p # RootNode
  BY <1>1, <1>2, Volume DEF FirstOf
<1>3. CASE o = RootNode \/ p = RootNode
  BY <1>1, <1>3 DEF FirstOf
<1> QED  BY <1>2, <1>3

\* Where a frame is, is in its directory's chain.
LEMMA FrameIsInChain ==
  ASSUME NEW f \in Dirs, NEW k, NEW frame \in Frame, Position(f, k, frame), frame.cluster < EOC
  PROVE  frame.cluster \in Cluster /\ k + 1 \in 0 .. Clusters
         /\ W(f)[k + 1] = T0[frame.cluster] /\ T0[frame.cluster] \in Nat
<1>1. k \in 0 .. Clusters /\ frame.cluster = W(f)[k]  BY DEF Position
<1>2. f \in HeadsIn(Disk0)  BY DirHeads
<1>3. W(f)[k] \in Cluster
  <2>1. W(f)[k] \in Nat /\ ~(W(f)[k] >= EOC)  BY <1>1, Numbers DEF Frame
  <2> QED  BY <1>1, <1>2, <2>1, SoundWalk, Volume DEF W
<1>4. k < Clusters  BY <1>1, <1>2, <1>3, ChainEnds, Volume DEF W
<1>5. k + 1 \in 1 .. Clusters /\ k + 1 - 1 = k  BY <1>1, <1>4, Numbers
<1>6. W(f)[k + 1] = T0[W(f)[k]]
  <2>1. PICK m \in 1 .. Clusters : m = k + 1 /\ m - 1 = k  BY <1>1, <1>5, Numbers
  <2>2. W(f)[m] = Follow(T0, W(f)[m - 1])  BY WalkIs DEF W
  <2>3. W(f)[m - 1] = W(f)[k]  BY <2>1
  <2>4. W(f)[m] = T0[W(f)[k]]  BY <1>3, <2>2, <2>3 DEF Follow
  <2> QED  BY <2>1, <2>4
<1>7. T0[W(f)[k]] \in Nat  BY <1>3, Volume, Numbers DEF TableSound, Cluster
<1> QED  BY <1>1, <1>3, <1>5, <1>6, <1>7

\* A frame at the end of its directory reached all there is.
LEMMA ReachedAll ==
  ASSUME NEW f \in Dirs, NEW k, NEW frame \in Frame, Position(f, k, frame),
         \/ frame.cluster >= EOC
         \/ frame.index < PerCluster /\ frame.cluster \in Cluster
            /\ Dir0([cluster |-> frame.cluster, index |-> frame.index]).kind = "end"
  PROVE  Reached(f, k, frame.index) = ListedIn(Disk0, f)
<1>1. k \in 0 .. Clusters /\ frame.cluster = W(f)[k] /\ NoEnd(f, k, frame.index)
      /\ frame.index \in 0 .. PerCluster /\ \A j \in 0 .. k - 1 : W(f)[j] \in Cluster
  BY DEF Position, Frame
<1>0. PerCluster \in Nat /\ EOC \in Nat  BY Numbers DEF PerCluster
<1>2. ASSUME NEW at \in Reached(f, k, frame.index) PROVE at \in ListedIn(Disk0, f)
  <2>1. at \in Location /\ Dir0(at).kind \in Named /\ at.index \in 0 .. PerCluster - 1
    BY DEF Reached, Location
  <2>2. PICK j \in 0 .. Clusters : at.cluster = W(f)[j] /\ (j < k \/ (j = k /\ at.index < frame.index))
    BY DEF Reached
  <2>3. NoEnd(f, j, at.index)
    <3> SUFFICES ASSUME NEW m \in 0 .. j, NEW i \in 0 .. PerCluster - 1, m < j \/ i < at.index
                 PROVE  Dir0([cluster |-> W(f)[m], index |-> i]).kind # "end"
      BY DEF NoEnd
    <3>1. m \in 0 .. k /\ (m < k \/ i < frame.index)  BY <1>0, <1>1, <2>1, <2>2
    <3> QED  BY <1>1, <3>1 DEF NoEnd
  <2> QED  BY <2>1, <2>2, <2>3, ListedIs
<1>3. ASSUME NEW at \in ListedIn(Disk0, f) PROVE at \in Reached(f, k, frame.index)
  <2>1. at \in Location /\ Dir0(at).kind \in Named /\ at.index \in 0 .. PerCluster - 1 /\ at.cluster \in Cluster
    BY ListedIs DEF Location
  <2>2. PICK j \in 0 .. Clusters : at.cluster = W(f)[j] /\ NoEnd(f, j, at.index)
    BY ListedIs
  <2> SUFFICES ASSUME ~(j < k \/ (j = k /\ at.index < frame.index)) PROVE FALSE
    BY <2>1, <2>2 DEF Reached
  <2>3. k \in 0 .. j /\ (k < j \/ frame.index <= at.index)  BY <1>0, <1>1, <2>1
  <2>4. CASE frame.cluster >= EOC
    <3>1. frame.cluster \notin Cluster  BY <1>1, <2>4, Numbers DEF Cluster, Frame
    <3> QED  BY <1>1, <2>1, <2>2, <2>3, <3>1, WalkBefore DEF W
  <2>5. CASE frame.index < PerCluster /\ frame.cluster \in Cluster
            /\ Dir0([cluster |-> frame.cluster, index |-> frame.index]).kind = "end"
    <3>1. frame.index \in 0 .. PerCluster - 1  BY <1>0, <1>1, <2>5
    <3>2. ~(k < j \/ frame.index < at.index)  BY <1>1, <2>2, <2>3, <2>5, <3>1 DEF NoEnd
    <3>3. k = j /\ frame.index = at.index  BY <1>0, <1>1, <2>1, <2>3, <3>2
    <3>4. at = [cluster |-> frame.cluster, index |-> frame.index]  BY <1>1, <2>1, <2>2, <3>3 DEF Location
    <3> QED  BY <2>1, <2>5, <3>4 DEF Named
  <2> QED  BY <2>4, <2>5
<1> QED  BY <1>2, <1>3

\* The init state's frame: nothing is found yet.
LEMMA NothingReached ==
  ASSUME NEW f, NEW p \in Parent
  PROVE  /\ Reached(f, 0, 0) = {}
         /\ Position(f, 0, [cluster |-> f, index |-> 0, save |-> p])
<1>1. Reached(f, 0, 0) = {}
  BY DEF Reached, Location
<1>2. W(f)[0] = f  BY WalkIs DEF W
<1>3. NoEnd(f, 0, 0)  BY Numbers DEF NoEnd
<1> QED  BY <1>1, <1>2, <1>3, Numbers DEF Position

\* Init: the root's frame.
LEMMA MountStarts ==
  MountSound(<<[cluster |-> Root, index |-> 0, save |-> RootNode]>>, RootNode, <<>>)
<1> DEFINE fr == [cluster |-> Root, index |-> 0, save |-> RootNode]
           st == <<fr>>
<1>1. fr \in Frame /\ RootNode \in Parent  BY Numbers DEF Frame, Parent, Cluster, PerCluster
<1>2. Len(st) = 1 /\ st[1] = fr /\ st \in Seq(Frame)  BY <1>1
<1>3. EnteredIn(<<>>) = {RootNode} /\ UnderIn(<<>>, RootNode) = {}  BY DEF EnteredIn, UnderIn
<1>4. FirstOf(RootNode) = Root /\ Root \in Dirs  BY Volume DEF FirstOf
<1>5. OwnerOf(st, RootNode, 1) = RootNode  BY DEF OwnerOf
<1>6. FrameSound(st, RootNode, <<>>, 1)
  BY <1>1, <1>2, <1>3, <1>4, <1>5, NothingReached, Numbers DEF FrameSound, Position
<1> HIDE DEF st
<1>7. MountTyped(st, RootNode, <<>>)  BY <1>1, <1>2 DEF MountTyped
<1>8. NodesFound(<<>>) /\ NodesApart(<<>>) /\ FirstsKnown(<<>>)
  BY <1>3, <1>4 DEF NodesFound, NodesApart, FirstsKnown
<1>9. OwnersApart(st, RootNode) /\ Left(st, RootNode, <<>>)
  BY <1>2, <1>3, <1>5 DEF OwnersApart, Left
<1>10. MountSound(st, RootNode, <<>>)  BY <1>2, <1>6, <1>7, <1>8, <1>9 DEF MountSound
<1> QED  BY <1>10 DEF st

\* The frame that is replaced goes on: the others stay.
LEMMA FrameGoesOn ==
  ASSUME NEW st, NEW cp, NEW ns, MountSound(st, cp, ns), st # <<>>,
         NEW frame \in Frame, frame.save = st[1].save,
         NEW k \in 0 .. Clusters, Position(FirstOf(cp), k, frame),
         UnderIn(ns, cp) = Reached(FirstOf(cp), k, frame.index)
  PROVE  MountSound(<<frame>> \o Tail(st), cp, ns)
<1> DEFINE new == <<frame>> \o Tail(st)
<1>1. st \in Seq(Frame) /\ cp \in Parent /\ ns \in Seq(Vnode)  BY DEF MountSound, MountTyped
<1>2. new \in Seq(Frame) /\ Len(new) = Len(st) /\ new[1] = frame /\ Len(st) >= 1 /\ Len(st) \in Nat
      /\ \A i \in 2 .. Len(st) : new[i] = st[i]
  BY <1>1
<1> HIDE DEF new
<1>3. \A i \in 1 .. Len(st) : i = 1 \/ i \in 2 .. Len(st)  BY <1>2
<1>4. \A i \in 1 .. Len(st) : new[i].save = st[i].save  BY <1>2, <1>3
<1>5. ASSUME NEW i \in 1 .. Len(st) PROVE OwnerOf(new, cp, i) = OwnerOf(st, cp, i)
  <2>1. i # 1 => i - 1 \in 1 .. Len(st)  BY <1>2
  <2> QED  BY <1>4, <2>1 DEF OwnerOf
<1>6. ASSUME NEW i \in 1 .. Len(new) PROVE FrameSound(new, cp, ns, i)
  <2>1. i \in 1 .. Len(st) /\ FrameSound(st, cp, ns, i)  BY <1>2 DEF MountSound
  <2>2. CASE i = 1
    <3>1. OwnerOf(new, cp, i) = cp /\ OwnerOf(st, cp, i) = cp /\ new[i] = frame  BY <1>2, <2>2 DEF OwnerOf
    <3>2. cp \in EnteredIn(ns)  BY <2>1, <3>1 DEF FrameSound
    <3> QED  BY <3>1, <3>2 DEF FrameSound
  <2>3. CASE i # 1
    <3>1. new[i] = st[i]  BY <1>2, <1>3, <2>1, <2>3
    <3> QED  BY <1>5, <2>1, <3>1 DEF FrameSound
  <2> QED  BY <2>2, <2>3
<1>7. OwnersApart(new, cp) /\ Left(new, cp, ns)
  BY <1>2, <1>5 DEF OwnersApart, Left, MountSound
<1>8. MountSound(new, cp, ns)  BY <1>1, <1>2, <1>6, <1>7 DEF MountSound, MountTyped
<1> QED  BY <1>8 DEF new

\* The top frame is the one of current_parent's directory.
LEMMA TopFrame ==
  ASSUME NEW st, NEW cp, NEW ns, MountSound(st, cp, ns), st # <<>>
  PROVE  /\ st[1] \in Frame /\ cp \in EnteredIn(ns) /\ FirstOf(cp) \in Dirs
         /\ \E k \in 0 .. Clusters : /\ Position(FirstOf(cp), k, st[1])
                                     /\ UnderIn(ns, cp) = Reached(FirstOf(cp), k, st[1].index)
<1>1. st \in Seq(Frame)  BY DEF MountSound, MountTyped
<1>2. 1 \in 1 .. Len(st) /\ st[1] \in Frame  BY <1>1
<1>3. FrameSound(st, cp, ns, 1) /\ OwnerOf(st, cp, 1) = cp  BY <1>2 DEF MountSound, OwnerOf
<1> QED  BY <1>2, <1>3 DEF FrameSound, MountSound, FirstsKnown

\* MountNextCluster.
LEMMA NextClusterSound ==
  ASSUME NEW st, NEW cp, NEW ns, MountSound(st, cp, ns), st # <<>>,
         st[1].cluster < EOC, st[1].index = PerCluster
  PROVE  st[1].cluster \in Cluster /\ T0[st[1].cluster] \in Nat
         /\ MountSound(<<[cluster |-> T0[st[1].cluster], index |-> 0, save |-> st[1].save]>> \o Tail(st), cp, ns)
<1> DEFINE f == FirstOf(cp)
           frame == [cluster |-> T0[st[1].cluster], index |-> 0, save |-> st[1].save]
<1>1. st[1] \in Frame /\ f \in Dirs  BY TopFrame
<1>2. PICK k \in 0 .. Clusters : Position(f, k, st[1]) /\ UnderIn(ns, cp) = Reached(f, k, st[1].index)
  BY TopFrame
<1>3. st[1].cluster \in Cluster /\ k + 1 \in 0 .. Clusters /\ W(f)[k + 1] = T0[st[1].cluster]
      /\ T0[st[1].cluster] \in Nat
  BY <1>1, <1>2, FrameIsInChain
<1>0. PerCluster \in Nat  BY Numbers DEF PerCluster
<1>4. frame \in Frame /\ frame.save = st[1].save /\ frame.index = 0 /\ frame.cluster = T0[st[1].cluster]
  BY <1>0, <1>1, <1>3 DEF Frame
<1> HIDE DEF frame
<1>5. \A j \in 0 .. k : j \in 0 .. k - 1 \/ j = k  BY <1>2
<1>6. W(f)[k] = st[1].cluster  BY <1>2 DEF Position
<1>7. NoEnd(f, k + 1, 0)
  <2> SUFFICES ASSUME NEW j \in 0 .. k + 1, NEW i \in 0 .. PerCluster - 1, j < k + 1 \/ i < 0
               PROVE  Dir0([cluster |-> W(f)[j], index |-> i]).kind # "end"
    BY DEF NoEnd
  <2>1. j \in 0 .. k /\ i < PerCluster  BY <1>0, <1>2
  <2> QED  BY <1>2, <2>1 DEF Position, NoEnd
<1>8. Position(f, k + 1, frame)
  BY <1>2, <1>3, <1>4, <1>5, <1>6, <1>7 DEF Position
<1>9. Reached(f, k + 1, 0) = Reached(f, k, PerCluster)
  <2>1. \A at \in Location : at.index < PerCluster /\ ~(at.index < 0)  BY <1>0 DEF Location
  <2>2. \A j \in 0 .. Clusters : (j < k + 1) <=> (j < k \/ j = k)  BY <1>2
  <2> QED  BY <2>1, <2>2 DEF Reached
<1>10. MountSound(<<frame>> \o Tail(st), cp, ns)
  BY <1>2, <1>3, <1>4, <1>8, <1>9, FrameGoesOn
<1> QED  BY <1>3, <1>10 DEF frame

\* The frame goes past its entry.
PastEntry(frame) == [cluster |-> frame.cluster, index |-> frame.index + 1, save |-> frame.save]
HereIn(frame) == [cluster |-> frame.cluster, index |-> frame.index]
\* ... its position, and what it has reached.
LEMMA PastIsPosition ==
  ASSUME NEW f \in Dirs, NEW k \in 0 .. Clusters, NEW frame \in Frame, Position(f, k, frame),
         frame.cluster < EOC, frame.index < PerCluster, Dir0(HereIn(frame)).kind # "end"
  PROVE  /\ PastEntry(frame) \in Frame /\ HereIn(frame) \in Location
         /\ Position(f, k, PastEntry(frame))
         /\ Reached(f, k, frame.index + 1) =
              Reached(f, k, frame.index) \cup (IF Dir0(HereIn(frame)).kind \in Named THEN {HereIn(frame)} ELSE {})
         /\ Dir0(HereIn(frame)).kind \in Named => HereIn(frame) \in ListedIn(Disk0, f)
<1>0. PerCluster \in Nat  BY Numbers DEF PerCluster
<1>1. frame.cluster \in Cluster  BY FrameIsInChain
<1>2. frame.index \in 0 .. PerCluster - 1 /\ frame.index + 1 \in 0 .. PerCluster
      /\ frame.save \in Parent /\ frame.cluster \in Nat
  BY <1>0 DEF Frame
<1>3. PastEntry(frame) \in Frame /\ HereIn(frame) \in Location
  BY <1>1, <1>2 DEF PastEntry, HereIn, Frame, Location
<1>4. frame.cluster = W(f)[k] /\ NoEnd(f, k, frame.index)  BY DEF Position
<1>5. NoEnd(f, k, frame.index + 1)
  <2> SUFFICES ASSUME NEW j \in 0 .. k, NEW i \in 0 .. PerCluster - 1, j < k \/ i < frame.index + 1
               PROVE  Dir0([cluster |-> W(f)[j], index |-> i]).kind # "end"
    BY DEF NoEnd
  <2>1. (j < k \/ i < frame.index) \/ (j = k /\ i = frame.index)  BY <1>2
  <2> QED  BY <1>4, <2>1 DEF NoEnd, HereIn
<1>6. Position(f, k, PastEntry(frame))
  <2>1. PastEntry(frame).cluster = frame.cluster /\ PastEntry(frame).index = frame.index + 1  BY DEF PastEntry
  <2> QED  BY <1>5, <2>1 DEF Position
<1>7. ASSUME NEW at \in Location, NEW j \in 0 .. Clusters, at.cluster = W(f)[j]
      PROVE  (j < k \/ (j = k /\ at.index < frame.index + 1)) <=>
               ((j < k \/ (j = k /\ at.index < frame.index)) \/ (j = k /\ at = HereIn(frame)))
  <2>1. at.index \in 0 .. PerCluster - 1 /\ at = [cluster |-> at.cluster, index |-> at.index]
    BY DEF Location
  <2>2. at.index < frame.index + 1 <=> (at.index < frame.index \/ at.index = frame.index)
    BY <1>0, <1>2, <2>1
  <2>3. j = k => (at.index = frame.index <=> at = HereIn(frame))
    BY <1>4, <1>7, <2>1 DEF HereIn
  <2> QED  BY <2>2, <2>3
<1>8. HereIn(frame).cluster = W(f)[k]  BY <1>4 DEF HereIn
<1>9. Reached(f, k, frame.index + 1) =
        Reached(f, k, frame.index) \cup (IF Dir0(HereIn(frame)).kind \in Named THEN {HereIn(frame)} ELSE {})
  BY <1>3, <1>7, <1>8 DEF Reached
<1>10. HereIn(frame).index = frame.index  BY DEF HereIn
<1> QED  BY <1>3, <1>4, <1>6, <1>8, <1>9, <1>10, ListedIs

\* MountSkip.
LEMMA SkipSound ==
  ASSUME NEW st, NEW cp, NEW ns, MountSound(st, cp, ns), st # <<>>,
         st[1].cluster < EOC, st[1].index < PerCluster, Dir0(HereIn(st[1])).kind = "skip"
  PROVE  MountSound(<<PastEntry(st[1])>> \o Tail(st), cp, ns)
<1> DEFINE f == FirstOf(cp)
<1>1. st[1] \in Frame /\ f \in Dirs  BY TopFrame
<1>2. PICK k \in 0 .. Clusters : Position(f, k, st[1]) /\ UnderIn(ns, cp) = Reached(f, k, st[1].index)
  BY TopFrame
<1>0. Dir0(HereIn(st[1])).kind # "end" /\ Dir0(HereIn(st[1])).kind \notin Named  BY DEF Named
<1>3. /\ PastEntry(st[1]) \in Frame /\ Position(f, k, PastEntry(st[1]))
      /\ Reached(f, k, st[1].index + 1) = Reached(f, k, st[1].index)
  <2> DEFINE frame == st[1]
  <2>1. frame \in Frame /\ frame.cluster < EOC /\ frame.index < PerCluster /\ Position(f, k, frame)
        /\ Dir0(HereIn(frame)).kind # "end" /\ Dir0(HereIn(frame)).kind \notin Named
    BY <1>0, <1>1, <1>2
  <2> HIDE DEF frame
  <2>2. /\ PastEntry(frame) \in Frame /\ Position(f, k, PastEntry(frame))
        /\ Reached(f, k, frame.index + 1) =
             Reached(f, k, frame.index) \cup (IF Dir0(HereIn(frame)).kind \in Named THEN {HereIn(frame)} ELSE {})
    BY <1>1, <1>2, <2>1, PastIsPosition
  <2>3. Reached(f, k, frame.index + 1) = Reached(f, k, frame.index)  BY <2>1, <2>2
  <2> QED  BY <2>2, <2>3 DEF frame
<1>4. PastEntry(st[1]).save = st[1].save /\ PastEntry(st[1]).index = st[1].index + 1  BY DEF PastEntry
<1> QED  BY <1>2, <1>3, <1>4, FrameGoesOn

\* MountReturn: the directory that is left has a vnode for each of its entries.
LEMMA ReturnSound ==
  ASSUME NEW st, NEW cp, NEW ns, MountSound(st, cp, ns), st # <<>>,
         \/ st[1].cluster >= EOC
         \/ /\ st[1].cluster < EOC /\ st[1].index < PerCluster
            /\ Dir0(HereIn(st[1])).kind = "end"
  PROVE  MountSound(Tail(st), st[1].save, ns)
<1> DEFINE f == FirstOf(cp)
           new == Tail(st)
           np == st[1].save
<1>1. st[1] \in Frame /\ f \in Dirs /\ cp \in EnteredIn(ns)  BY TopFrame
<1>2. PICK k \in 0 .. Clusters : Position(f, k, st[1]) /\ UnderIn(ns, cp) = Reached(f, k, st[1].index)
  BY TopFrame
<1>3. UnderIn(ns, cp) = ListedIn(Disk0, f)
  <2>1. st[1].cluster < EOC => st[1].cluster \in Cluster  BY <1>1, <1>2, FrameIsInChain
  <2>2. Dir0(HereIn(st[1])) = Dir0([cluster |-> st[1].cluster, index |-> st[1].index])  BY DEF HereIn
  <2>3. \/ st[1].cluster >= EOC
        \/ st[1].index < PerCluster /\ st[1].cluster \in Cluster
           /\ Dir0([cluster |-> st[1].cluster, index |-> st[1].index]).kind = "end"
    BY <2>1, <2>2
  <2> QED  BY <1>1, <1>2, <2>3, ReachedAll
<1>4. st \in Seq(Frame) /\ ns \in Seq(Vnode)  BY DEF MountSound, MountTyped
<1>5. new \in Seq(Frame) /\ Len(new) = Len(st) - 1 /\ Len(st) \in Nat /\ Len(st) >= 1
      /\ \A i \in 1 .. Len(new) : new[i] = st[i + 1] /\ i + 1 \in 1 .. Len(st)
  BY <1>4
<1>6. np \in Parent  BY <1>1 DEF Frame
<1> HIDE DEF new, np
<1>7. ASSUME NEW i \in 1 .. Len(new) PROVE OwnerOf(new, np, i) = OwnerOf(st, cp, i + 1)
  <2>1. CASE i = 1
    BY <1>5, <2>1 DEF OwnerOf, np
  <2>2. CASE i # 1
    <3>1. i - 1 \in 1 .. Len(new) /\ (i + 1) - 1 = (i - 1) + 1 /\ i + 1 # 1  BY <1>5, <2>2
    <3>2. new[i - 1] = st[(i - 1) + 1]  BY <1>5, <3>1
    <3>3. OwnerOf(new, np, i) = new[i - 1].save  BY <2>2 DEF OwnerOf
    <3>4. OwnerOf(st, cp, i + 1) = st[(i + 1) - 1].save  BY <3>1 DEF OwnerOf
    <3> QED  BY <3>1, <3>2, <3>3, <3>4
  <2> QED  BY <2>1, <2>2
<1>8. ASSUME NEW i \in 1 .. Len(new) PROVE FrameSound(new, np, ns, i)
  <2>1. FrameSound(st, cp, ns, i + 1) /\ new[i] = st[i + 1] /\ OwnerOf(new, np, i) = OwnerOf(st, cp, i + 1)
    BY <1>5, <1>7 DEF MountSound
  <2> QED  BY <2>1 DEF FrameSound
<1>9. OwnersApart(new, np)
  <2> SUFFICES ASSUME NEW i \in 1 .. Len(new), NEW j \in 1 .. Len(new), OwnerOf(new, np, i) = OwnerOf(new, np, j)
               PROVE  i = j
    BY DEF OwnersApart
  <2>1. OwnerOf(st, cp, i + 1) = OwnerOf(st, cp, j + 1) /\ i + 1 \in 1 .. Len(st) /\ j + 1 \in 1 .. Len(st)
    BY <1>5, <1>7
  <2>2. i + 1 = j + 1  BY <2>1 DEF MountSound, OwnersApart
  <2> QED  BY <2>2
<1>10. Left(new, np, ns)
  <2> SUFFICES ASSUME NEW o \in EnteredIn(ns), \A i \in 1 .. Len(new) : o # OwnerOf(new, np, i)
               PROVE  UnderIn(ns, o) = ListedIn(Disk0, FirstOf(o))
    BY DEF Left
  <2>1. CASE o = cp  BY <1>3, <2>1
  <2>2. CASE o # cp
    <3>1. ASSUME NEW i \in 1 .. Len(st) PROVE o # OwnerOf(st, cp, i)
      <4>1. CASE i = 1  BY <2>2, <4>1 DEF OwnerOf
      <4>2. CASE i # 1
        <5>1. i - 1 \in 1 .. Len(new) /\ (i - 1) + 1 = i  BY <1>5, <4>2
        <5>2. OwnerOf(new, np, i - 1) = OwnerOf(st, cp, (i - 1) + 1)  BY <1>7, <5>1
        <5> QED  BY <5>1, <5>2
      <4> QED  BY <4>1, <4>2
    <3> QED  BY <3>1 DEF MountSound, Left
  <2> QED  BY <2>1, <2>2
<1>11. MountSound(new, np, ns)
  BY <1>4, <1>5, <1>6, <1>8, <1>9, <1>10 DEF MountSound, MountTyped
<1> QED  BY <1>11 DEF new, np

\* What add_file finds is not a vnode yet.
LEMMA HereIsNew ==
  ASSUME NEW st, NEW cp, NEW ns, MountSound(st, cp, ns), st # <<>>,
         st[1].cluster < EOC, st[1].index < PerCluster, Dir0(HereIn(st[1])).kind \in Named
  PROVE  /\ \A i \in 1 .. Len(ns) : ns[i].at # HereIn(st[1])
         /\ HereIn(st[1]) \in Location /\ HereIn(st[1]) \in ListedIn(Disk0, FirstOf(cp))
<1> DEFINE f == FirstOf(cp)
           frame == st[1]
<1>1. frame \in Frame /\ f \in Dirs /\ cp \in EnteredIn(ns)  BY TopFrame
<1>2. PICK k \in 0 .. Clusters : Position(f, k, frame) /\ UnderIn(ns, cp) = Reached(f, k, frame.index)
  BY TopFrame
<1>3. frame.cluster < EOC /\ frame.index < PerCluster /\ Dir0(HereIn(frame)).kind \in Named
      /\ Dir0(HereIn(frame)).kind # "end"
  BY DEF Named
<1>4. ns \in Seq(Vnode)  BY DEF MountSound, MountTyped
<1>a. \A i \in 1 .. Len(ns) : ns[i] \in Vnode  BY <1>4
<1> HIDE DEF frame
<1>5. HereIn(frame) \in Location /\ HereIn(frame) \in ListedIn(Disk0, f)
  BY <1>1, <1>2, <1>3, PastIsPosition
<1>6. ASSUME NEW i \in 1 .. Len(ns), ns[i].at = HereIn(frame) PROVE FALSE
  <2> DEFINE o == ns[i].parent
  <2>1. o \in EnteredIn(ns) /\ HereIn(frame) \in ListedIn(Disk0, FirstOf(o))
    BY <1>6 DEF MountSound, NodesFound
  <2>2. FirstOf(o) \in Dirs  BY <2>1 DEF MountSound, FirstsKnown
  <2>3. PICK m \in 0 .. Clusters : HereIn(frame).cluster = W(FirstOf(o))[m]  BY <2>1, ListedIs
  <2>4. HereIn(frame).cluster = W(f)[k] /\ HereIn(frame).cluster \in Cluster /\ HereIn(frame).index = frame.index
    BY <1>2, <1>5 DEF Position, HereIn, Location
  <2>5. FirstOf(o) = f /\ m = k
    <3>1. W(FirstOf(o))[m] \in Cluster /\ W(FirstOf(o))[m] = W(f)[k] /\ k \in 0 .. Clusters
      BY <1>2, <2>3, <2>4
    <3> QED  BY <1>1, <2>2, <3>1, DirChainsApart
  <2>6. o = cp
    <3>1. NodesFound(ns) /\ FirstsKnown(ns)  BY DEF MountSound
    <3> QED  BY <1>1, <1>4, <2>1, <2>5, <3>1, EnteredApart
  <2>7. HereIn(frame) \in UnderIn(ns, cp)
    <3>1. ns[i].parent = cp  BY <2>6
    <3> QED  BY <1>6, <3>1 DEF UnderIn
  <2>8. PICK j \in 0 .. Clusters : HereIn(frame).cluster = W(f)[j]
          /\ (j < k \/ (j = k /\ HereIn(frame).index < frame.index))
    BY <1>2, <2>7 DEF Reached
  <2>9. j = k
    <3>1. W(f)[j] \in Cluster /\ W(f)[j] = W(f)[k] /\ k \in 0 .. Clusters  BY <1>2, <2>4, <2>8
    <3> QED  BY <1>1, <3>1, DirChainsApart
  <2>10. frame.index \in Nat  BY <1>1, Numbers DEF Frame, PerCluster
  <2> QED  BY <1>2, <2>4, <2>8, <2>9, <2>10
<1> QED  BY <1>5, <1>6 DEF frame

\* A vnode is made for the entry, under the directory, and the frame goes on.
NodeFor(frame, cp) == [at |-> HereIn(frame), parent |-> cp, kind |-> Dir0(HereIn(frame)).kind]
AtNamed(st) == /\ st # <<>> /\ st[1].cluster < EOC /\ st[1].index < PerCluster
               /\ Dir0(HereIn(st[1])).kind \in Named
More(st, cp, ns) == Append(ns, NodeFor(st[1], cp))
Past(st) == <<PastEntry(st[1])>> \o Tail(st)
\* The new vnode keeps vnodes found and apart.
LEMMA NodeAppended ==
  ASSUME NEW st, NEW cp, NEW ns, MountSound(st, cp, ns), AtNamed(st)
  PROVE  /\ More(st, cp, ns) \in Seq(Vnode) /\ Len(More(st, cp, ns)) = Len(ns) + 1 /\ Len(ns) \in Nat
         /\ \A i \in 1 .. Len(ns) : More(st, cp, ns)[i] = ns[i] /\ i \in 1 .. Len(More(st, cp, ns))
         /\ More(st, cp, ns)[Len(More(st, cp, ns))] = NodeFor(st[1], cp) /\ Len(More(st, cp, ns)) \in 1 .. Len(More(st, cp, ns))
         /\ \A i \in 1 .. Len(More(st, cp, ns)) : i \in 1 .. Len(ns) \/ i = Len(More(st, cp, ns))
<1> DEFINE node == NodeFor(st[1], cp)
           more == More(st, cp, ns)
<1>1. ns \in Seq(Vnode) /\ cp \in Parent  BY DEF MountSound, MountTyped
<1>2. HereIn(st[1]) \in Location  BY HereIsNew DEF AtNamed
<1>3. node \in Vnode  BY <1>1, <1>2 DEF NodeFor, Vnode, AtNamed
<1>4. more = Append(ns, node)  BY DEF More
<1> HIDE DEF node, more
<1>5. more \in Seq(Vnode) /\ Len(more) = Len(ns) + 1 /\ Len(ns) \in Nat
      /\ (\A i \in 1 .. Len(ns) : more[i] = ns[i]) /\ more[Len(more)] = node
  BY <1>1, <1>3, <1>4
<1> QED  BY <1>5 DEF node, more

\* A directory's vnodes, after the new one.
LEMMA NodesOfMore ==
  ASSUME NEW st, NEW cp, NEW ns, MountSound(st, cp, ns), AtNamed(st)
  PROVE  LET here == HereIn(st[1])
             descends == Dir0(here).kind = "dir" IN
         /\ EnteredIn(More(st, cp, ns)) = EnteredIn(ns) \cup (IF descends THEN {here} ELSE {})
         /\ here \notin EnteredIn(ns)
         /\ \A o : UnderIn(More(st, cp, ns), o) = UnderIn(ns, o) \cup (IF o = cp THEN {here} ELSE {})
         /\ UnderIn(More(st, cp, ns), here) = {}
         /\ NodesFound(More(st, cp, ns)) /\ NodesApart(More(st, cp, ns)) /\ FirstsKnown(More(st, cp, ns))
<1> DEFINE here == HereIn(st[1])
           more == More(st, cp, ns)
           n == Len(ns)
<1>1. /\ Len(more) = n + 1 /\ n \in Nat
      /\ \A i \in 1 .. n : more[i] = ns[i] /\ i \in 1 .. Len(more)
      /\ more[Len(more)] = NodeFor(st[1], cp) /\ Len(more) \in 1 .. Len(more)
      /\ \A i \in 1 .. Len(more) : i \in 1 .. n \/ i = Len(more)
  BY NodeAppended
<1>2. /\ \A i \in 1 .. n : ns[i].at # here
      /\ here \in Location /\ here \in ListedIn(Disk0, FirstOf(cp))
  BY HereIsNew DEF AtNamed
<1>3. cp \in EnteredIn(ns) /\ FirstOf(cp) \in Dirs  BY TopFrame DEF AtNamed
<1>4. NodesFound(ns) /\ NodesApart(ns) /\ FirstsKnown(ns)  BY DEF MountSound
<1> DEFINE last == more[Len(more)]
<1>5. last.at = here /\ last.parent = cp /\ last.kind = Dir0(here).kind  BY <1>1 DEF NodeFor
<1> HIDE DEF here, n, last, more
<1>6. EnteredIn(more) = EnteredIn(ns) \cup (IF Dir0(here).kind = "dir" THEN {here} ELSE {})
  <2>1. \A i \in 1 .. n : more[i].kind = ns[i].kind /\ more[i].at = ns[i].at  BY <1>1
  <2> QED  BY <1>1, <1>5, <2>1 DEF EnteredIn, n, last
<1>7. here \notin EnteredIn(ns)  BY <1>2, RootIsNoEntry DEF EnteredIn, n
<1>8. ASSUME NEW o PROVE UnderIn(more, o) = UnderIn(ns, o) \cup (IF o = cp THEN {here} ELSE {})
  <2>1. \A i \in 1 .. n : more[i].parent = ns[i].parent /\ more[i].at = ns[i].at  BY <1>1
  <2> QED  BY <1>1, <1>5, <2>1 DEF UnderIn, n, last
<1>9. UnderIn(more, here) = {}
  <2>1. UnderIn(ns, here) = {}  BY <1>4, <1>7 DEF UnderIn, NodesFound, n
  <2> QED  BY <1>3, <1>7, <1>8, <2>1
<1>10. NodesFound(more)
  <2> SUFFICES ASSUME NEW i \in 1 .. Len(more)
               PROVE  /\ more[i].parent \in EnteredIn(more) /\ more[i].kind = Dir0(more[i].at).kind
                      /\ more[i].at \in ListedIn(Disk0, FirstOf(more[i].parent))
    BY DEF NodesFound
  <2>1. CASE i \in 1 .. n
    <3>1. more[i] = ns[i]  BY <1>1, <2>1
    <3>2. /\ ns[i].parent \in EnteredIn(ns) /\ ns[i].kind = Dir0(ns[i].at).kind
          /\ ns[i].at \in ListedIn(Disk0, FirstOf(ns[i].parent))
      BY <1>4, <2>1 DEF NodesFound, n
    <3> QED  BY <1>6, <3>1, <3>2
  <2>2. CASE i = Len(more)
    <3>1. more[i] = last  BY <2>2 DEF last
    <3> QED  BY <1>2, <1>3, <1>5, <1>6, <3>1
  <2> QED  BY <1>1, <2>1, <2>2
<1>11. NodesApart(more)
  <2>1. \A i, j \in 1 .. n : more[i].at = more[j].at => i = j  BY <1>1, <1>4 DEF NodesApart, n
  <2>2. \A i \in 1 .. n : more[i].at # here  BY <1>1, <1>2
  <2> QED  BY <1>1, <1>5, <2>1, <2>2 DEF NodesApart, last
<1>12. FirstsKnown(more)
  <2>1. Dir0(here).kind = "dir" => FirstOf(here) \in Dirs
    <3>1. here \in Entries  BY <1>2, <1>3, ListedIsEntry
    <3> QED  BY <1>2, <3>1, Volume, RootIsNoEntry DEF FirstOf
  <2> QED  BY <1>4, <1>6, <2>1 DEF FirstsKnown
<1>13. \A o : UnderIn(more, o) = UnderIn(ns, o) \cup (IF o = cp THEN {here} ELSE {})  BY <1>8
<1> QED  BY <1>6, <1>7, <1>9, <1>10, <1>11, <1>12, <1>13 DEF here, more

\* The frames after the entry.
LEMMA FramesOfMore ==
  ASSUME NEW st, NEW cp, NEW ns, MountSound(st, cp, ns), AtNamed(st)
  PROVE  /\ Past(st) \in Seq(Frame) /\ Len(Past(st)) = Len(st)
         /\ \A i \in 1 .. Len(Past(st)) : FrameSound(Past(st), cp, More(st, cp, ns), i)
         /\ OwnersApart(Past(st), cp)
         /\ \A o \in EnteredIn(ns) : \/ \E i \in 1 .. Len(Past(st)) : o = OwnerOf(Past(st), cp, i)
                                     \/ UnderIn(More(st, cp, ns), o) = ListedIn(Disk0, FirstOf(o))
<1> DEFINE here == HereIn(st[1])
           more == More(st, cp, ns)
           new == Past(st)
           f == FirstOf(cp)
           frame == PastEntry(st[1])
<1>1. st \in Seq(Frame) /\ st # <<>> /\ ns \in Seq(Vnode)  BY DEF MountSound, MountTyped, AtNamed
<1>2. st[1] \in Frame /\ f \in Dirs /\ cp \in EnteredIn(ns)  BY <1>1, TopFrame
<1>3. PICK k \in 0 .. Clusters : Position(f, k, st[1]) /\ UnderIn(ns, cp) = Reached(f, k, st[1].index)
  BY <1>1, TopFrame
<1>4. /\ frame \in Frame /\ Position(f, k, frame)
      /\ Reached(f, k, frame.index) = Reached(f, k, st[1].index) \cup {here}
  <2> DEFINE fr == st[1]
  <2>1. fr \in Frame /\ fr.cluster < EOC /\ fr.index < PerCluster /\ Position(f, k, fr)
        /\ Dir0(HereIn(fr)).kind # "end" /\ Dir0(HereIn(fr)).kind \in Named
    BY <1>2, <1>3 DEF Named, AtNamed
  <2> HIDE DEF fr
  <2>2. /\ PastEntry(fr) \in Frame /\ Position(f, k, PastEntry(fr))
        /\ Reached(f, k, fr.index + 1) =
             Reached(f, k, fr.index) \cup (IF Dir0(HereIn(fr)).kind \in Named THEN {HereIn(fr)} ELSE {})
    BY <1>2, <1>3, <2>1, PastIsPosition
  <2>3. PastEntry(fr).index = fr.index + 1  BY DEF PastEntry
  <2>4. Reached(f, k, PastEntry(fr).index) = Reached(f, k, fr.index) \cup {HereIn(fr)}  BY <2>1, <2>2, <2>3
  <2> QED  BY <2>2, <2>4 DEF fr
<1>5. /\ EnteredIn(ns) \subseteq EnteredIn(more)
      /\ \A o : UnderIn(more, o) = UnderIn(ns, o) \cup (IF o = cp THEN {here} ELSE {})
  BY NodesOfMore
<1>6. frame.save = st[1].save  BY DEF PastEntry
<1>b. new = <<frame>> \o Tail(st)  BY DEF Past
<1> HIDE DEF here, f, frame, more, new
<1>7. new \in Seq(Frame) /\ Len(new) = Len(st) /\ new[1] = frame /\ Len(st) >= 1 /\ Len(st) \in Nat
      /\ \A i \in 2 .. Len(st) : new[i] = st[i]
  BY <1>1, <1>4, <1>b
<1>8. \A i \in 1 .. Len(st) : i = 1 \/ i \in 2 .. Len(st)  BY <1>7
<1>9. \A i \in 1 .. Len(st) : new[i].save = st[i].save  BY <1>6, <1>7, <1>8
<1>10. ASSUME NEW i \in 1 .. Len(st) PROVE OwnerOf(new, cp, i) = OwnerOf(st, cp, i)
  <2>1. i # 1 => i - 1 \in 1 .. Len(st)  BY <1>7
  <2> QED  BY <1>9, <2>1 DEF OwnerOf
<1>11. 1 \in 1 .. Len(st) /\ OwnerOf(st, cp, 1) = cp  BY <1>7 DEF OwnerOf
<1>12. ASSUME NEW i \in 1 .. Len(new) PROVE FrameSound(new, cp, more, i)
  <2>1. i \in 1 .. Len(st) /\ FrameSound(st, cp, ns, i)  BY <1>7 DEF MountSound
  <2>2. CASE i = 1
    <3>1. OwnerOf(new, cp, i) = cp /\ new[i] = frame /\ cp \in EnteredIn(more)
      BY <1>2, <1>5, <1>7, <2>2 DEF OwnerOf
    <3>2. UnderIn(more, cp) = Reached(f, k, frame.index)  BY <1>3, <1>4, <1>5
    <3> QED  BY <1>3, <1>4, <3>1, <3>2 DEF FrameSound, f
  <2>3. CASE i # 1
    <3>1. new[i] = st[i] /\ OwnerOf(new, cp, i) = OwnerOf(st, cp, i)  BY <1>7, <1>8, <1>10, <2>1, <2>3
    <3>2. OwnerOf(st, cp, i) # cp  BY <1>11, <2>1, <2>3 DEF MountSound, OwnersApart
    <3>3. UnderIn(more, OwnerOf(st, cp, i)) = UnderIn(ns, OwnerOf(st, cp, i))  BY <1>5, <3>2
    <3> QED  BY <1>5, <2>1, <3>1, <3>3 DEF FrameSound
  <2> QED  BY <2>2, <2>3
<1>13. OwnersApart(new, cp)  BY <1>7, <1>10 DEF OwnersApart, MountSound
<1>14. ASSUME NEW o \in EnteredIn(ns), \A i \in 1 .. Len(new) : o # OwnerOf(new, cp, i)
       PROVE  UnderIn(more, o) = ListedIn(Disk0, FirstOf(o))
  <2>1. \A i \in 1 .. Len(st) : o # OwnerOf(st, cp, i)  BY <1>7, <1>10, <1>14
  <2>2. o # cp  BY <1>11, <2>1
  <2> QED  BY <1>5, <2>1, <2>2 DEF MountSound, Left
<1> QED  BY <1>7, <1>12, <1>13, <1>14 DEF more, new

\* AddFile, of a file.
LEMMA FileSound ==
  ASSUME NEW st, NEW cp, NEW ns, MountSound(st, cp, ns), AtNamed(st), Dir0(HereIn(st[1])).kind # "dir"
  PROVE  MountSound(Past(st), cp, More(st, cp, ns))
<1> DEFINE more == More(st, cp, ns)
           new == Past(st)
<1>2. /\ EnteredIn(more) = EnteredIn(ns)
      /\ NodesFound(more) /\ NodesApart(more) /\ FirstsKnown(more)
  BY NodesOfMore
<1>3. /\ new \in Seq(Frame) /\ (\A i \in 1 .. Len(new) : FrameSound(new, cp, more, i)) /\ OwnersApart(new, cp)
      /\ \A o \in EnteredIn(ns) : \/ \E i \in 1 .. Len(new) : o = OwnerOf(new, cp, i)
                                  \/ UnderIn(more, o) = ListedIn(Disk0, FirstOf(o))
  BY FramesOfMore
<1>4. more \in Seq(Vnode) /\ cp \in Parent  BY NodeAppended DEF MountSound, MountTyped
<1>5. Left(new, cp, more)  BY <1>2, <1>3 DEF Left
<1>6. MountSound(new, cp, more)  BY <1>2, <1>3, <1>4, <1>5 DEF MountSound, MountTyped
<1> QED  BY <1>6

\* AddFile, of a directory, that is entered.
LEMMA DirSound ==
  ASSUME NEW st, NEW cp, NEW ns, MountSound(st, cp, ns), AtNamed(st), Dir0(HereIn(st[1])).kind = "dir"
  PROVE  MountSound(<<[cluster |-> Dir0(HereIn(st[1])).first, index |-> 0, save |-> cp]>>
                      \o Past(st), HereIn(st[1]), More(st, cp, ns))
<1> DEFINE here == HereIn(st[1])
           more == More(st, cp, ns)
           new == Past(st)
           top == [cluster |-> Dir0(here).first, index |-> 0, save |-> cp]
           deep == <<top>> \o new
<1>2. here \in Location /\ here \in ListedIn(Disk0, FirstOf(cp)) /\ cp \in EnteredIn(ns)
      /\ FirstOf(cp) \in Dirs /\ cp \in Parent
  BY HereIsNew, TopFrame DEF AtNamed, MountSound, MountTyped
<1>3. top.save = cp /\ top.index = 0 /\ top.cluster = Dir0(here).first  OBVIOUS
<1>4. Dir0(here).first \in Dirs /\ FirstOf(here) = Dir0(here).first
  BY <1>2, ListedIsEntry, Volume, RootIsNoEntry DEF FirstOf
<1>5. top \in Frame
  BY <1>2, <1>4, DirHeads, Numbers DEF Frame, Cluster, PerCluster
<1>0. top = [cluster |-> FirstOf(here), index |-> 0, save |-> cp]  BY <1>4
<1>6. /\ EnteredIn(more) = EnteredIn(ns) \cup {here} /\ here \notin EnteredIn(ns)
      /\ UnderIn(more, here) = {}
      /\ NodesFound(more) /\ NodesApart(more) /\ FirstsKnown(more)
  BY NodesOfMore
<1>7. /\ new \in Seq(Frame) /\ (\A i \in 1 .. Len(new) : FrameSound(new, cp, more, i)) /\ OwnersApart(new, cp)
      /\ \A o \in EnteredIn(ns) : \/ \E i \in 1 .. Len(new) : o = OwnerOf(new, cp, i)
                                  \/ UnderIn(more, o) = ListedIn(Disk0, FirstOf(o))
  BY FramesOfMore
<1>8. deep \in Seq(Frame) /\ Len(deep) = Len(new) + 1 /\ Len(new) \in Nat /\ deep[1] = top
      /\ \A i \in 1 .. Len(new) : deep[i + 1] = new[i] /\ i + 1 \in 1 .. Len(deep)
  BY <1>5, <1>7
<1>x. more \in Seq(Vnode) /\ here \in Parent  BY <1>2, NodeAppended DEF Parent
<1> HIDE DEF here, deep, more, new, top
<1>9. OwnerOf(deep, here, 1) = here  BY DEF OwnerOf
<1>10. ASSUME NEW i \in 1 .. Len(new) PROVE OwnerOf(deep, here, i + 1) = OwnerOf(new, cp, i)
  <2>0. i + 1 # 1 /\ (i + 1) - 1 = i  BY <1>8
  <2>1. OwnerOf(deep, here, i + 1) = deep[i].save  BY <2>0 DEF OwnerOf
  <2>2. CASE i = 1  BY <1>3, <1>8, <2>1, <2>2 DEF OwnerOf
  <2>3. CASE i # 1
    <3>1. PICK j \in 1 .. Len(new) : j = i - 1 /\ j + 1 = i  BY <1>8, <2>3
    <3>2. deep[j + 1] = new[j]  BY <1>8
    <3> QED  BY <2>1, <2>3, <3>1, <3>2 DEF OwnerOf
  <2> QED  BY <2>2, <2>3
<1>11. ASSUME NEW i \in 1 .. Len(deep), i # 1
       PROVE  \E j \in 1 .. Len(new) : i = j + 1 /\ deep[i] = new[j] /\ OwnerOf(deep, here, i) = OwnerOf(new, cp, j)
  <2>1. PICK j \in 1 .. Len(new) : j + 1 = i  BY <1>8, <1>11
  <2>2. deep[j + 1] = new[j] /\ OwnerOf(deep, here, j + 1) = OwnerOf(new, cp, j)  BY <1>8, <1>10
  <2> QED  BY <2>1, <2>2
<1>12. \A j \in 1 .. Len(new) : OwnerOf(new, cp, j) \in EnteredIn(more) /\ OwnerOf(new, cp, j) # here
  <2> SUFFICES ASSUME NEW j \in 1 .. Len(new)
               PROVE  OwnerOf(new, cp, j) \in EnteredIn(more) /\ OwnerOf(new, cp, j) # here
    OBVIOUS
  <2>1. FrameSound(new, cp, more, j)  BY <1>7
  <2>2. OwnerOf(new, cp, j) \in EnteredIn(more)  BY <2>1 DEF FrameSound
  <2>3. OwnerOf(new, cp, j) \in EnteredIn(ns)
    <3>1. st \in Seq(Frame) /\ st # <<>> /\ new = <<PastEntry(st[1])>> \o Tail(st)
          /\ PastEntry(st[1]).save = st[1].save
      BY DEF MountSound, MountTyped, AtNamed, PastEntry, new, Past
    <3>2. Len(new) = Len(st) /\ \A i \in 1 .. Len(st) : new[i].save = st[i].save
      BY <3>1
    <3>3. j # 1 => j - 1 \in 1 .. Len(st)  BY <1>8, <3>2
    <3>4. OwnerOf(new, cp, j) = OwnerOf(st, cp, j)  BY <3>2, <3>3 DEF OwnerOf
    <3>5. FrameSound(st, cp, ns, j)  BY <3>2 DEF MountSound
    <3> QED  BY <3>4, <3>5 DEF FrameSound
  <2> QED  BY <1>6, <2>2, <2>3
<1>13. ASSUME NEW i \in 1 .. Len(deep) PROVE FrameSound(deep, here, more, i)
  <2>1. CASE i = 1
    <3>1. OwnerOf(deep, here, i) = here /\ deep[i] = top /\ here \in EnteredIn(more)  BY <1>6, <1>8, <1>9, <2>1
    <3>2. Reached(FirstOf(here), 0, 0) = {} /\ Position(FirstOf(here), 0, top)  BY <1>0, <1>2, NothingReached
    <3>3. UnderIn(more, here) = Reached(FirstOf(here), 0, top.index) /\ 0 \in 0 .. Clusters
      BY <1>3, <1>6, <3>2, Numbers
    <3> QED  BY <3>1, <3>2, <3>3 DEF FrameSound
  <2>2. CASE i # 1
    <3>1. PICK j \in 1 .. Len(new) : deep[i] = new[j] /\ OwnerOf(deep, here, i) = OwnerOf(new, cp, j)
      BY <1>11, <2>2
    <3> QED  BY <1>7, <3>1 DEF FrameSound
  <2> QED  BY <2>1, <2>2
<1>14. OwnersApart(deep, here)
  <2> SUFFICES ASSUME NEW i \in 1 .. Len(deep), NEW j \in 1 .. Len(deep),
                      OwnerOf(deep, here, i) = OwnerOf(deep, here, j)
               PROVE  i = j
    BY DEF OwnersApart
  <2>1. (i = 1) <=> (j = 1)  BY <1>9, <1>11, <1>12
  <2>2. CASE i # 1 /\ j # 1
    <3>1. PICK a \in 1 .. Len(new) : i = a + 1 /\ OwnerOf(deep, here, i) = OwnerOf(new, cp, a)  BY <1>11, <2>2
    <3>2. PICK b \in 1 .. Len(new) : j = b + 1 /\ OwnerOf(deep, here, j) = OwnerOf(new, cp, b)  BY <1>11, <2>2
    <3>3. a = b  BY <1>7, <3>1, <3>2 DEF OwnersApart
    <3> QED  BY <3>1, <3>2, <3>3
  <2> QED  BY <2>1, <2>2
<1>15. Left(deep, here, more)
  <2> SUFFICES ASSUME NEW o \in EnteredIn(more), \A i \in 1 .. Len(deep) : o # OwnerOf(deep, here, i)
               PROVE  UnderIn(more, o) = ListedIn(Disk0, FirstOf(o))
    BY DEF Left
  <2>1. o # here  BY <1>8, <1>9
  <2>2. o \in EnteredIn(ns)  BY <1>6, <2>1
  <2>3. \A j \in 1 .. Len(new) : o # OwnerOf(new, cp, j)  BY <1>8, <1>10
  <2> QED  BY <1>7, <2>2, <2>3
<1>17. MountSound(deep, here, more)
  BY <1>6, <1>8, <1>13, <1>14, <1>15, <1>x DEF MountSound, MountTyped
<1> QED  BY <1>17 DEF deep, top, new, more, here

MountInv ==
  /\ MountSound(stack, current_parent, nodes)
  /\ stack # <<>> => disk = Disk0 /\ call = NONE

\* What the state is while mounting: the volume's disk, a top frame, no call.
LEMMA MountingIs ==
  ASSUME MountInv, stack # <<>>
  PROVE  /\ stack \in Seq(Frame) /\ Top = stack[1] /\ stack[1] \in Frame /\ disk = Disk0 /\ call = NONE
         /\ Here = HereIn(stack[1]) /\ FetchDirectory(Here) = Dir0(HereIn(stack[1]))
         /\ stack[1].cluster \in Cluster => NextCluster(stack[1].cluster) = T0[stack[1].cluster]
<1>1. stack \in Seq(Frame) /\ disk = Disk0 /\ call = NONE  BY DEF MountInv, MountSound, MountTyped
<1>2. stack[1] \in Frame  BY <1>1
<1>3. Top = stack[1]  BY <1>1 DEF Top
<1>4. Here = HereIn(stack[1])  BY <1>3 DEF Here, HereIn
<1>5. FetchDirectory(Here) = Dir0(HereIn(stack[1]))  BY <1>1, <1>4 DEF FetchDirectory, Dir0
<1>6. stack[1].cluster \in Cluster => NextCluster(stack[1].cluster) = T0[stack[1].cluster]
  BY <1>1 DEF NextCluster, T0, TableIn
<1> QED  BY <1>1, <1>2, <1>3, <1>4, <1>5, <1>6

\* Each action of mounting keeps the invariant.
LEMMA MountReturnKeeps ==
  ASSUME MountInv, MountReturn
  PROVE  MountInv'
<1>1. stack # <<>>  BY DEF MountReturn, Mounting
<1>2. stack' = Tail(stack) /\ current_parent' = stack[1].save /\ nodes' = nodes /\ disk' = disk /\ call' = call
  BY <1>1, MountingIs DEF MountReturn, Returned
<1>3. \/ stack[1].cluster >= EOC
      \/ /\ stack[1].cluster < EOC /\ stack[1].index < PerCluster
         /\ Dir0(HereIn(stack[1])).kind = "end"
  BY <1>1, MountingIs DEF MountReturn, AtEntry
<1>4. MountSound(Tail(stack), stack[1].save, nodes)  BY <1>1, <1>3, ReturnSound DEF MountInv
<1> QED  BY <1>1, <1>2, <1>4, MountingIs DEF MountInv

LEMMA MountNextClusterKeeps ==
  ASSUME MountInv, MountNextCluster
  PROVE  MountInv'
<1>1. stack # <<>>  BY DEF MountNextCluster, Mounting
<1>2. /\ stack' = <<[cluster |-> NextCluster(stack[1].cluster), index |-> 0, save |-> stack[1].save]>> \o Tail(stack)
      /\ current_parent' = current_parent /\ nodes' = nodes /\ disk' = disk /\ call' = call
  BY <1>1, MountingIs DEF MountNextCluster
<1>3. stack[1].cluster < EOC /\ stack[1].index = PerCluster  BY <1>1, MountingIs DEF MountNextCluster
<1> DEFINE next == [cluster |-> T0[stack[1].cluster], index |-> 0, save |-> stack[1].save]
<1>4. stack[1].cluster \in Cluster /\ MountSound(<<next>> \o Tail(stack), current_parent, nodes)
  BY <1>1, <1>3, NextClusterSound DEF MountInv
<1>5. NextCluster(stack[1].cluster) = T0[stack[1].cluster]  BY <1>1, <1>4, MountingIs
<1>7. stack' = <<next>> \o Tail(stack)  BY <1>2, <1>5
<1> HIDE DEF next
<1> QED  BY <1>1, <1>2, <1>4, <1>7, MountingIs DEF MountInv

LEMMA PastIs ==
  ASSUME MountInv, stack # <<>>
  PROVE  Advanced(stack) = Past(stack)
<1>1. stack[1] \in Frame  BY MountingIs
<1> DEFINE fr == stack[1]
<1>2. fr \in Frame  BY <1>1
<1> HIDE DEF fr
<1>3. [fr EXCEPT !.index = @ + 1] = PastEntry(fr)  BY <1>2 DEF PastEntry, Frame
<1>4. [stack[1] EXCEPT !.index = @ + 1] = PastEntry(stack[1])  BY <1>3 DEF fr
<1> QED  BY <1>4 DEF Advanced, Past

LEMMA MountSkipKeeps ==
  ASSUME MountInv, MountSkip
  PROVE  MountInv'
<1>1. stack # <<>>  BY DEF MountSkip, AtEntry, Mounting
<1>2. /\ stack[1].cluster < EOC /\ stack[1].index < PerCluster
      /\ Dir0(HereIn(stack[1])).kind = "skip"
  BY <1>1, MountingIs DEF MountSkip, AtEntry
<1>3. stack' = Past(stack) /\ current_parent' = current_parent /\ nodes' = nodes /\ disk' = disk /\ call' = call
  BY <1>1, PastIs DEF MountSkip
<1>4. MountSound(Past(stack), current_parent, nodes)  BY <1>1, <1>2, SkipSound DEF MountInv, Past
<1> QED  BY <1>1, <1>3, <1>4, MountingIs DEF MountInv

LEMMA AddFileKeeps ==
  ASSUME MountInv, AddFile
  PROVE  MountInv'
<1> DEFINE here == HereIn(stack[1])
           dir == Dir0(here)
<1>1. stack # <<>>  BY DEF AddFile, AtEntry, Mounting
<1>2. AtNamed(stack)
  BY <1>1, MountingIs DEF AddFile, AtEntry, AtNamed, Named
<1>3. nodes' = More(stack, current_parent, nodes)
  BY <1>1, MountingIs DEF AddFile, More, NodeFor
<1>4. disk' = disk /\ call' = call  BY DEF AddFile
<1>5. CASE dir.kind = "dir"
  <2>1. current_parent' = here
    BY <1>1, <1>5, MountingIs DEF AddFile
  <2>2. stack' = <<[cluster |-> dir.first, index |-> 0, save |-> current_parent]>> \o Past(stack)
    BY <1>1, <1>5, MountingIs, PastIs DEF AddFile
  <2>3. MountSound(<<[cluster |-> dir.first, index |-> 0, save |-> current_parent]>> \o Past(stack),
                   here, More(stack, current_parent, nodes))
    BY <1>2, <1>5, DirSound DEF MountInv
  <2> QED  BY <1>1, <1>3, <1>4, <2>1, <2>2, <2>3, MountingIs DEF MountInv
<1>6. CASE dir.kind # "dir"
  <2>1. current_parent' = current_parent
    BY <1>1, <1>6, MountingIs DEF AddFile
  <2>2. stack' = Past(stack)
    <3>1. stack' = <<>> \o Past(stack)  BY <1>1, <1>6, MountingIs, PastIs DEF AddFile
    <3>2. Past(stack) \in Seq(Frame)  BY <1>2, FramesOfMore DEF MountInv
    <3> HIDE DEF here
    <3> QED  BY <3>1, <3>2
  <2>3. MountSound(Past(stack), current_parent, More(stack, current_parent, nodes))
    BY <1>2, <1>6, FileSound DEF MountInv
  <2> QED  BY <1>1, <1>3, <1>4, <2>1, <2>2, <2>3, MountingIs DEF MountInv
<1> QED  BY <1>5, <1>6

\* While mounting only mount steps change the frames, and no call runs.
LEMMA MountInvStep ==
  ASSUME MountInv, [Next]_vars
  PROVE  MountInv'
<1>1. CASE Mount
  BY <1>1, MountReturnKeeps, MountNextClusterKeeps, MountSkipKeeps, AddFileKeeps DEF Mount
<1>2. ASSUME UNCHANGED mountVars, stack # <<>> => UNCHANGED <<disk, call>>
      PROVE  MountInv'
  BY <1>2 DEF MountInv, mountVars
<1>3. CASE Writing
  <2>1. call # NONE /\ UNCHANGED mountVars
    BY <1>3 DEF Writing, Flush, Walk, Extend, WriteSector, WriteDirectory, WriteReturn, InCall
  <2> QED  BY <1>2, <2>1 DEF MountInv
<1>4. CASE PowerLoss  BY <1>2, <1>4 DEF PowerLoss
<1>5. ASSUME NEW at \in Opened, NEW w \in Writes, Write(at, w[1], w[2]) PROVE MountInv'
  BY <1>2, <1>5 DEF Write, Ready, Mounting
<1>6. ASSUME NEW at \in Opened, Read(at, MaxPos) PROVE MountInv'
  BY <1>2, <1>6 DEF Read, Ready, Mounting
<1>7. ASSUME NEW at \in Opened, NEW p \in Seeks, Lseek(at, p) PROVE MountInv'
  BY <1>2, <1>7 DEF Lseek, Ready, Mounting
<1>8. CASE UNCHANGED vars  BY <1>2, <1>8 DEF vars
<1> QED  BY <1>1, <1>3, <1>4, <1>5, <1>6, <1>7, <1>8 DEF Next

\* The invariant holds at first.
LEMMA MountInvInit == Init => MountInv
<1> SUFFICES ASSUME Init PROVE MountInv  OBVIOUS
<1>1. stack = <<[cluster |-> Root, index |-> 0, save |-> RootNode]>> /\ current_parent = RootNode
      /\ nodes = <<>> /\ disk = Disk0 /\ call = NONE
  BY DEF Init
<1> QED  BY <1>1, MountStarts DEF MountInv

\* Fat!EveryEntryHasItsNode: mounting makes one vnode for each entry of each
\* directory, under that directory, whatever tree the volume holds.
THEOREM EveryEntryIsMounted == Spec => []EveryEntryHasItsNode
<1>1. ASSUME MountInv PROVE EveryEntryHasItsNode
  <2> SUFFICES ASSUME stack = <<>>, disk = Disk0
               PROVE  /\ Under(RootNode) = ListedIn(Disk0, Root)
                      /\ \A i \in Node \ Files : Under(nodes[i].at) = ListedIn(Disk0, First(i))
                      /\ \A i, j \in Node : nodes[i].at = nodes[j].at => i = j
    BY DEF EveryEntryHasItsNode, InDirectory, Mounting
  <2>1. MountSound(stack, current_parent, nodes) /\ nodes \in Seq(Vnode)
    BY <1>1 DEF MountInv, MountSound, MountTyped
  <2>2. \A o : Under(o) = UnderIn(nodes, o)  BY DEF Under, UnderIn, Node
  <2>3. \A o \in EnteredIn(nodes) : UnderIn(nodes, o) = ListedIn(Disk0, FirstOf(o))
    BY <2>1 DEF MountSound, Left
  <2>4. RootNode \in EnteredIn(nodes) /\ FirstOf(RootNode) = Root  BY DEF EnteredIn, FirstOf
  <2>5. ASSUME NEW i \in Node \ Files PROVE nodes[i].at \in EnteredIn(nodes) /\ FirstOf(nodes[i].at) = First(i)
    <3>1. nodes[i] \in Vnode /\ nodes[i].kind # "file"  BY <2>1 DEF Node, Files
    <3>2. nodes[i].kind = "dir" /\ nodes[i].at \in Location  BY <3>1 DEF Vnode, Named
    <3>3. nodes[i].at \in EnteredIn(nodes)  BY <3>2 DEF EnteredIn, Node
    <3>4. First(i) = Dir0(nodes[i].at).first  BY DEF First, FetchDirectory, Dir0
    <3> QED  BY <3>2, <3>3, <3>4, RootIsNoEntry DEF FirstOf
  <2> QED  BY <2>1, <2>2, <2>3, <2>4, <2>5 DEF MountSound, NodesApart, Node
<1>2. Spec => []MountInv  BY MountInvInit, MountInvStep, PTL DEF Spec
<1> QED  BY <1>1, <1>2, PTL
-----------------------------------------------------------------------------
(* What writes make of a table: a free cluster is marked, a marked cluster  *)
(* is linked to a chain's last.                                             *)

\* A head's chain goes on as it did, and maybe further.
Grows(t, u, f) ==
  \A j \in 0 .. Clusters :
    ClustersFrom(t, f)[j] \in Cluster => ClustersFrom(u, f)[j] = ClustersFrom(t, f)[j]
\* Unless no cluster is free, each taken one is in a head's chain.
Covered(t, heads) ==
  (\E c \in Cluster : t[c] = 0) => \A c \in Cluster : t[c] # 0 => \E f \in heads : c \in ChainIn(t, f)
Sound(t, heads) == TableSound(t, heads) /\ Covered(t, heads)
Sets(t, u, c, value) == \A e \in Cluster : u[e] = IF e = c THEN value ELSE t[e]

\* A cluster of a chain is one of its walk.
LEMMA InChain ==
  ASSUME NEW t, NEW f, NEW c
  PROVE  c \in ChainIn(t, f) <=> c \in Cluster /\ \E k \in 0 .. Clusters : ClustersFrom(t, f)[k] = c
BY DEF ChainIn

\* A table is sound for fewer heads too.
LEMMA FewerHeads ==
  ASSUME NEW t, NEW heads, NEW fewer \in SUBSET heads, TableSound(t, heads)
  PROVE  TableSound(t, fewer)
BY DEF TableSound

\* Growth is transitive.
LEMMA GrowsBoth ==
  ASSUME NEW t, NEW u, NEW v, NEW f, Grows(t, u, f), Grows(u, v, f)
  PROVE  Grows(t, v, f)
BY DEF Grows

\* A chain that grows loses no cluster.
LEMMA ChainGrows ==
  ASSUME NEW t, NEW u, NEW f, Grows(t, u, f)
  PROVE  ChainIn(t, f) \subseteq ChainIn(u, f)
<1> SUFFICES ASSUME NEW c \in ChainIn(t, f) PROVE c \in ChainIn(u, f)  OBVIOUS
<1>1. PICK k \in 0 .. Clusters : ClustersFrom(t, f)[k] = c /\ c \in Cluster  BY InChain
<1>2. ClustersFrom(u, f)[k] = c  BY <1>1 DEF Grows
<1> QED  BY <1>1, <1>2, InChain

\* A file is still as long as its size when its chain grows.
LEMMA StaysLongEnough ==
  ASSUME NEW t, NEW u, NEW f, NEW size \in Nat, Grows(t, u, f), LongEnough(t, f, size)
  PROVE  LongEnough(u, f, size)
<1> DEFINE k == (size - 1) \div ClusterBytes
<1> SUFFICES ASSUME size > 0
             PROVE  k <= Clusters /\ ClustersFrom(u, f)[k] \in Cluster
  BY DEF LongEnough
<1>1. k <= Clusters /\ ClustersFrom(t, f)[k] \in Cluster  BY DEF LongEnough
<1>2. k \in Nat
  <2>1. ClusterBytes \in Nat /\ ClusterBytes > 0  BY Numbers DEF ClusterBytes
  <2> QED  BY <2>1
<1> HIDE DEF k
<1>3. k \in 0 .. Clusters  BY <1>1, <1>2, Numbers
<1> QED  BY <1>1, <1>3 DEF Grows

\* A walk begins at its head.
LEMMA HeadIsFirst ==
  ASSUME NEW t, NEW f \in Cluster
  PROVE  f \in ChainIn(t, f) /\ 0 \in 0 .. Clusters /\ ClustersFrom(t, f)[0] = f
BY WalkIs, InChain, Numbers

\* Same walks, same chains.
LEMMA SameOnWay ==
  ASSUME NEW t, NEW u, NEW f,
         \A j \in 0 .. Clusters : ClustersFrom(t, f)[j] \in Cluster =>
           u[ClustersFrom(t, f)[j]] = t[ClustersFrom(t, f)[j]]
  PROVE  Grows(t, u, f)
<1>1. Clusters \in 0 .. Clusters /\ \A j \in 0 .. Clusters - 1 : j \in 0 .. Clusters  BY Numbers
<1>2. \A j \in 0 .. Clusters : ClustersFrom(u, f)[j] = ClustersFrom(t, f)[j]  BY <1>1, WalksAgree
<1> QED  BY <1>2 DEF Grows

\* fat_set_next_cluster of a free cluster, to the end of a chain.
LEMMA MarkSound ==
  ASSUME NEW t, NEW u, NEW heads, Sound(t, heads), NEW c \in Cluster, t[c] = 0, Sets(t, u, c, EOC)
  PROVE  /\ Sound(u, heads \cup {c}) /\ u[c] = EOC /\ c \notin heads
         /\ \A f \in heads : Grows(t, u, f)
<1>1. u[c] = EOC /\ EOC # 0 /\ EOC \in Nat /\ EOC \notin Cluster /\ \A e \in Cluster : e # c => u[e] = t[e]
  BY Numbers DEF Sets, Cluster
<1>2. c \notin heads  BY DEF Sound, TableSound
<1>3. ASSUME NEW f \in heads PROVE Grows(t, u, f)
  <2>1. \A j \in 0 .. Clusters : ClustersFrom(t, f)[j] \in Cluster => t[ClustersFrom(t, f)[j]] # 0
    <3> SUFFICES ASSUME NEW j \in 0 .. Clusters, ClustersFrom(t, f)[j] \in Cluster
                 PROVE  t[ClustersFrom(t, f)[j]] # 0
      OBVIOUS
    <3> DEFINE w == ClustersFrom(t, f)[j]
    <3>1. (w \in Cluster /\ t[w] # 0) \/ (w \in Nat /\ w >= EOC)  BY SoundWalk DEF Sound
    <3>2. ~(w >= EOC)  BY Numbers DEF Cluster
    <3> QED  BY <3>1, <3>2
  <2> QED  BY <1>1, <2>1, SameOnWay
<1>4. TableSound(u, heads \cup {c})
  <2>1. \A e \in Cluster : u[e] \in Cluster \cup {0} \/ (u[e] \in Nat /\ u[e] >= EOC)
    BY <1>1 DEF Sound, TableSound
  <2>2. \A e \in Cluster : u[e] \in Cluster => u[e] = t[e] /\ u[e] # c /\ u[e] \notin heads /\ u[u[e]] # 0
    BY <1>1 DEF Sound, TableSound
  <2>3. \A a, b \in Cluster : u[a] \in Cluster /\ u[a] = u[b] => a = b
    BY <1>1 DEF Sound, TableSound
  <2>4. \A f \in heads \cup {c} : f \in Cluster /\ u[f] # 0
    BY <1>1, <1>2 DEF Sound, TableSound
  <2> QED  BY <2>1, <2>2, <2>3, <2>4 DEF TableSound
<1>5. Covered(u, heads \cup {c})
  <2> SUFFICES ASSUME \E e \in Cluster : u[e] = 0, NEW e \in Cluster, u[e] # 0
               PROVE  \E f \in heads \cup {c} : e \in ChainIn(u, f)
    BY DEF Covered
  <2>1. CASE e = c  BY <2>1, HeadIsFirst
  <2>2. CASE e # c
    <3>1. \E f \in heads : e \in ChainIn(t, f)  BY <1>1, <2>2 DEF Sound, Covered
    <3> QED  BY <1>3, <3>1, ChainGrows
  <2> QED  BY <2>1, <2>2
<1> QED  BY <1>1, <1>2, <1>3, <1>4, <1>5 DEF Sound

\* ... of the last cluster of a chain, to one that is marked.
Links(t, u, heads, n, h, k, p) ==
  /\ n \notin heads /\ Sound(t, heads \cup {n}) /\ h \in heads /\ k \in 0 .. Clusters
  /\ p = ClustersFrom(t, h)[k] /\ p \in Cluster /\ t[p] >= EOC /\ t[n] = EOC /\ Sets(t, u, p, n)
LEMMA LinkSound ==
  ASSUME NEW t, NEW u, NEW heads, NEW n, NEW h, NEW k, NEW p, Links(t, u, heads, n, h, k, p)
  PROVE  /\ Sound(u, heads) /\ u[p] = n /\ n \in Cluster
         /\ \A f \in heads : Grows(t, u, f)
         /\ k + 1 \in 0 .. Clusters /\ ClustersFrom(u, h)[k + 1] = n
<1> DEFINE all == heads \cup {n}
<1> USE DEF Links
<1>1. /\ u[p] = n /\ n \in Cluster /\ t[n] # 0 /\ \A e \in Cluster : e # p => u[e] = t[e]
      /\ TableSound(t, all) /\ TableSound(t, heads)
  BY FewerHeads DEF Sets, Sound, TableSound
<1>2. t[p] \notin Cluster /\ t[p] # 0 /\ t[p] \in Nat
  BY <1>1, Numbers DEF TableSound, Cluster
<1>3. p # n
  <2> SUFFICES ASSUME p = n PROVE FALSE  OBVIOUS
  <2>1. n = ClustersFrom(t, n)[0] /\ 0 \in 0 .. Clusters  BY <1>1, HeadIsFirst
  <2>2. h \in all /\ n \in all /\ ClustersFrom(t, h)[k] = ClustersFrom(t, n)[0]  BY <2>1
  <2>3. h = n  BY <1>1, <2>1, <2>2, ChainsApart
  <2> QED  BY <2>3
<1>4. ASSUME NEW f \in heads, NEW j \in 0 .. Clusters, ClustersFrom(t, f)[j] = p
      PROVE  f = h /\ j = k
  BY <1>1, <1>4, ChainsApart
<1>5. ASSUME NEW f \in heads, f # h PROVE Grows(t, u, f)
  <2>1. \A j \in 0 .. Clusters : ClustersFrom(t, f)[j] # p  BY <1>4, <1>5
  <2> QED  BY <1>1, <2>1, SameOnWay
<1>6. \A j \in 0 .. k : ClustersFrom(u, h)[j] = ClustersFrom(t, h)[j]
  <2>1. \A j \in 0 .. k - 1 : j \in 0 .. Clusters /\ j # k  BY Numbers
  <2>2. \A j \in 0 .. k - 1 : ClustersFrom(t, h)[j] # p  BY <1>4, <2>1
  <2> QED  BY <1>1, <2>2, WalksAgree
<1>7. k < Clusters  BY <1>1, ChainEnds
<1>8. PICK m \in 1 .. Clusters : m = k + 1 /\ m - 1 = k  BY <1>7, Numbers
<1>9. ClustersFrom(u, h)[m] = n /\ ClustersFrom(t, h)[m] = t[p]
  <2>1. ClustersFrom(u, h)[m] = Follow(u, ClustersFrom(u, h)[m - 1])
        /\ ClustersFrom(t, h)[m] = Follow(t, ClustersFrom(t, h)[m - 1])
    BY WalkIs
  <2>2. ClustersFrom(u, h)[k] = p  BY <1>6
  <2>3. ClustersFrom(u, h)[m] = Follow(u, p) /\ ClustersFrom(t, h)[m] = Follow(t, p)  BY <1>8, <2>1, <2>2
  <2> QED  BY <1>1, <2>3 DEF Follow
<1>10. Grows(t, u, h)
  <2> SUFFICES ASSUME NEW j \in 0 .. Clusters, ClustersFrom(t, h)[j] \in Cluster
               PROVE  ClustersFrom(u, h)[j] = ClustersFrom(t, h)[j]
    BY DEF Grows
  <2>1. CASE j \in 0 .. k  BY <1>6, <2>1
  <2>2. CASE j \notin 0 .. k
    <3>1. j \in m .. Clusters /\ m \in 0 .. Clusters  BY <1>8, <2>2, Numbers
    <3>2. ClustersFrom(t, h)[m] \notin Cluster  BY <1>2, <1>9
    <3>3. ClustersFrom(t, h)[j] = ClustersFrom(t, h)[m]  BY <3>1, <3>2, WalkStays
    <3> QED  BY <3>2, <3>3
  <2> QED  BY <2>1, <2>2
<1>11. TableSound(u, heads)
  <2>1. \A e \in Cluster : u[e] \in Cluster \cup {0} \/ (u[e] \in Nat /\ u[e] >= EOC)
    BY <1>1 DEF TableSound
  <2>2. \A e \in Cluster : t[e] # n  BY <1>1 DEF TableSound
  <2>3. ASSUME NEW e \in Cluster, u[e] \in Cluster PROVE u[u[e]] # 0 /\ u[e] \notin heads
    <3>1. CASE e = p  BY <1>1, <1>3, <3>1
    <3>2. CASE e # p
      <4>1. u[e] = t[e] /\ t[t[e]] # 0 /\ t[e] \notin heads  BY <1>1, <2>3, <3>2 DEF TableSound
      <4>2. t[e] \in Cluster /\ n # 0  BY <1>1, <2>3, <3>2, Numbers DEF Cluster
      <4>3. u[t[e]] # 0  BY <1>1, <4>1, <4>2
      <4> QED  BY <4>1, <4>3
    <3> QED  BY <3>1, <3>2
  <2>4. ASSUME NEW a \in Cluster, NEW b \in Cluster, u[a] \in Cluster, u[a] = u[b] PROVE a = b
    <3>1. CASE a # p /\ b # p  BY <1>1, <2>4, <3>1 DEF TableSound
    <3>2. CASE a = p \/ b = p  BY <1>1, <2>2, <2>4, <3>2
    <3> QED  BY <3>1, <3>2
  <2>5. \A f \in heads : f \in Cluster /\ u[f] # 0
    BY <1>1 DEF TableSound, Cluster
  <2> QED  BY <2>1, <2>3, <2>4, <2>5 DEF TableSound
<1>12. n \in ChainIn(u, h)  BY <1>1, <1>8, <1>9, Numbers, InChain
<1>13. \A f \in heads : Grows(t, u, f)  BY <1>5, <1>10
<1>14. Covered(u, heads)
  <2> SUFFICES ASSUME NEW z \in Cluster, u[z] = 0, NEW e \in Cluster, u[e] # 0
               PROVE  \E f \in heads : e \in ChainIn(u, f)
    BY DEF Covered
  <2>1. t[z] = 0 /\ t[e] # 0  BY <1>1, <1>2 DEF Cluster
  <2>2. PICK f \in all : e \in ChainIn(t, f)  BY <2>1 DEF Sound, Covered
  <2>3. CASE f \in heads  BY <1>13, <2>2, <2>3, ChainGrows
  <2>4. CASE f = n
    <3>1. PICK j \in 0 .. Clusters : ClustersFrom(t, n)[j] = e  BY <2>2, <2>4, InChain
    <3>2. j = 0
      <4> SUFFICES ASSUME j # 0 PROVE FALSE  OBVIOUS
      <4>1. 1 \in 1 .. Clusters /\ 1 \in 0 .. Clusters /\ j \in 1 .. Clusters /\ 1 - 1 = 0  BY Numbers
      <4>2. ClustersFrom(t, n)[1] = Follow(t, ClustersFrom(t, n)[1 - 1])  BY <4>1, WalkIs
      <4>3. ClustersFrom(t, n)[1] = EOC  BY <1>1, <4>1, <4>2, HeadIsFirst DEF Follow
      <4>4. EOC \notin Cluster  BY Numbers DEF Cluster
      <4>5. ClustersFrom(t, n)[j] = EOC  BY <4>1, <4>3, <4>4, WalkStays
      <4> QED  BY <3>1, <4>4, <4>5
    <3>3. e = n  BY <1>1, <3>1, <3>2, HeadIsFirst
    <3> QED  BY <1>12, <3>3
  <2> QED  BY <2>2, <2>3, <2>4
<1> QED  BY <1>1, <1>8, <1>9, <1>11, <1>13, <1>14 DEF Sound
-----------------------------------------------------------------------------
(* Where things are, and what the write of a sector changes.                *)

\* Division by a positive number.
LEMMA Quotient ==
  ASSUME NEW n \in Nat, n > 0, NEW x \in Nat
  PROVE  /\ x \div n \in Nat /\ x % n \in 0 .. n - 1 /\ (x \div n) * n \in Nat
         /\ x = (x \div n) * n + (x % n)
<1>1. x \div n \in Nat /\ x % n \in 0 .. n - 1 /\ x = (x \div n) * n + (x % n)  BY SMT
<1> QED  BY <1>1

\* The quotient of a number below a product.
LEMMA QuotientBelow ==
  ASSUME NEW n \in Nat, n > 0, NEW x \in Nat, NEW m \in Nat, x < m * n
  PROVE  x \div n \in 0 .. m - 1
<1> DEFINE p == x \div n
<1>1. p \in Nat /\ p * n <= x  BY Quotient
<1> HIDE DEF p
<1>2. ASSUME p >= m PROVE FALSE
  <2>1. p * n >= m * n  BY <1>1, <1>2
  <2>2. p * n \in Nat /\ m * n \in Nat  BY <1>1
  <2> QED  BY <1>1, <2>1, <2>2
<1>3. p \in 0 .. m - 1  BY <1>1, <1>2
<1> QED  BY <1>3 DEF p

\* The quotient and the remainder are the only ones.
LEMMA OneQuotient ==
  ASSUME NEW n \in Nat, n > 0, NEW a \in Nat, NEW b \in Nat, NEW i \in 0 .. n - 1, NEW j \in 0 .. n - 1,
         a * n + i = b * n + j
  PROVE  a = b /\ i = j
<1>1. ASSUME NEW x \in Nat, NEW y \in Nat, NEW z \in 0 .. n - 1, x < y PROVE x * n + z < y * n
  <2>1. y - x - 1 \in Nat  BY <1>1
  <2>2. (y - x - 1) * n >= 0  BY <2>1
  <2>3. (y - x - 1) * n = y * n - x * n - n  OBVIOUS
  <2>4. y * n \in Nat /\ x * n \in Nat  OBVIOUS
  <2> QED  BY <2>2, <2>3, <2>4
<1>2. a * n \in Nat /\ b * n \in Nat  OBVIOUS
<1>3. ~(a < b)  BY <1>1, <1>2
<1>4. ~(b < a)  BY <1>1, <1>2
<1> QED  BY <1>2, <1>3, <1>4

Sectors == Reserved .. FirstData + Clusters * ClusterSize - 1
TableArea == Reserved .. Reserved + 2 * FatSize - 1
\* Reserved sectors, the two tables, the clusters, in this order.
LEMMA Areas ==
  /\ FirstData \in Nat /\ Clusters * ClusterSize \in Nat /\ ClusterBytes \in Nat /\ ClusterBytes > 0
  /\ PerCluster \in Nat /\ FatSectors \subseteq TableArea /\ TableArea \subseteq Sectors
  /\ \A s \in FatSectors : s \in Nat /\ s + FatSize \in TableArea /\ s + FatSize \notin FatSectors
                           /\ (s + FatSize) - FatSize = s
  /\ \A s \in TableArea : s < FirstData /\ s \in Nat
<1>1. FirstData \in Nat /\ FirstData >= Reserved + 2 * FatSize
  <2>1. (Fats - 2) * FatSize \in Nat /\ Fats * FatSize = (Fats - 2) * FatSize + 2 * FatSize  BY Numbers
  <2> DEFINE more == (Fats - 2) * FatSize
             all == Fats * FatSize
  <2>2. more \in Nat /\ all = more + 2 * FatSize  BY <2>1
  <2>3. FirstData = Reserved + all  BY DEF FirstData
  <2> HIDE DEF more, all
  <2> QED  BY <2>2, <2>3, Numbers
<1>2. Clusters * ClusterSize \in Nat  BY Numbers
<1>3. ClusterBytes \in Nat /\ ClusterBytes > 0 /\ PerCluster \in Nat  BY Numbers DEF ClusterBytes, PerCluster
<1>4. FatSectors \subseteq TableArea /\ TableArea \subseteq Sectors
  BY <1>1, <1>2, Numbers DEF FatSectors, TableArea, Sectors
<1>5. \A s \in FatSectors : s \in Nat /\ s + FatSize \in TableArea /\ s + FatSize \notin FatSectors
                            /\ (s + FatSize) - FatSize = s
  BY Numbers DEF FatSectors, TableArea
<1>6. \A s \in TableArea : s < FirstData /\ s \in Nat  BY <1>1, Numbers DEF TableArea
<1> QED  BY <1>1, <1>2, <1>3, <1>4, <1>5, <1>6

\* An entry of the table is in the first copy.
LEMMA FatSectorIs ==
  ASSUME NEW c \in Cluster
  PROVE  FatSector(c) \in FatSectors /\ c % PerFat \in 0 .. PerFat - 1
<1>1. c \in Nat /\ c < FatSize * PerFat  BY Numbers DEF Cluster
<1>2. c \div PerFat \in 0 .. FatSize - 1  BY <1>1, Numbers, QuotientBelow
<1>3. c % PerFat \in 0 .. PerFat - 1  BY <1>1, Numbers, Quotient
<1> QED  BY <1>2, <1>3, Numbers DEF FatSector, FatSectors

\* Two clusters' entries are in two places.
LEMMA FatSectorsApart ==
  ASSUME NEW c \in Cluster, NEW e \in Cluster, FatSector(c) = FatSector(e), c % PerFat = e % PerFat
  PROVE  c = e
<1> DEFINE a == c \div PerFat  b == e \div PerFat
<1>1. c \in Nat /\ e \in Nat  BY DEF Cluster
<1>2. a \in Nat /\ c = a * PerFat + (c % PerFat)  BY <1>1, Numbers, Quotient
<1>3. b \in Nat /\ e = b * PerFat + (e % PerFat)  BY <1>1, Numbers, Quotient
<1>4. Reserved + a = Reserved + b  BY DEF FatSector
<1> HIDE DEF a, b
<1>5. a = b  BY <1>2, <1>3, <1>4, Numbers
<1> QED  BY <1>2, <1>3, <1>5

\* The sectors of a cluster, one by one.
LEMMA DataSectorIs ==
  ASSUME NEW c \in Cluster, NEW i \in 0 .. ClusterSize - 1
  PROVE  FirstSector(c) + i \in SectorsOf(c) /\ FirstSector(c) \in Nat
<1>1. c - 2 \in Nat  BY DEF Cluster
<1>2. (c - 2) * ClusterSize \in Nat  BY <1>1, Numbers
<1>3. FirstSector(c) \in Nat  BY <1>2, Areas DEF FirstSector
<1> HIDE DEF FirstSector
<1> QED  BY <1>3, Numbers DEF SectorsOf

\* A cluster's sectors are after the tables.
LEMMA SectorOfIs ==
  ASSUME NEW c \in Cluster, NEW s \in SectorsOf(c)
  PROVE  /\ s \in Sectors /\ s >= FirstData /\ s \notin TableArea
         /\ \E i \in 0 .. ClusterSize - 1 : s = (c - 2) * ClusterSize + FirstData + i
<1>1. c - 2 \in Nat /\ c - 2 <= Clusters - 1  BY Numbers DEF Cluster
<1> DEFINE m == (c - 2) * ClusterSize
           total == Clusters * ClusterSize
<1>2. m \in Nat  BY <1>1, Numbers
<1>3. m + ClusterSize <= Clusters * ClusterSize
  <2>1. Clusters - 1 - (c - 2) \in Nat  BY <1>1, Numbers
  <2>2. (Clusters - 1 - (c - 2)) * ClusterSize >= 0  BY <2>1, Numbers
  <2>3. (Clusters - 1 - (c - 2)) * ClusterSize = Clusters * ClusterSize - ClusterSize - (c - 2) * ClusterSize
    BY <1>1, Numbers
  <2> QED  BY <1>1, <1>2, <2>2, <2>3, Areas, Numbers
<1>4. SectorsOf(c) = (m + FirstData) .. (m + FirstData) + ClusterSize - 1  BY DEF SectorsOf, FirstSector
<1>a. total \in Nat /\ m + ClusterSize <= total /\ Sectors = Reserved .. FirstData + total - 1
  BY <1>3, Areas DEF Sectors
<1>b. FirstData \in Nat /\ Reserved <= FirstData
  <2>1. Reserved \in TableArea  BY Numbers DEF TableArea
  <2> QED  BY <2>1, Areas, Numbers
<1> HIDE DEF m, total
<1>5. s \in Nat /\ s >= m + FirstData /\ s <= m + FirstData + ClusterSize - 1  BY <1>2, <1>4, Areas, Numbers
<1>6. s \in Sectors /\ s >= FirstData  BY <1>2, <1>5, <1>a, <1>b, Numbers
<1>7. s \notin TableArea  BY <1>5, <1>6, Areas
<1>8. s - (m + FirstData) \in 0 .. ClusterSize - 1 /\ s = m + FirstData + (s - (m + FirstData))
  BY <1>2, <1>5, Areas, Numbers
<1>9. \E i \in 0 .. ClusterSize - 1 : s = m + FirstData + i  BY <1>8
<1> QED  BY <1>6, <1>7, <1>9 DEF m

\* Two clusters share no sector.
LEMMA SectorsApart ==
  ASSUME NEW c \in Cluster, NEW e \in Cluster, NEW s \in SectorsOf(c), s \in SectorsOf(e)
  PROVE  c = e
<1>1. PICK i \in 0 .. ClusterSize - 1 : s = (c - 2) * ClusterSize + FirstData + i  BY SectorOfIs
<1>2. PICK j \in 0 .. ClusterSize - 1 : s = (e - 2) * ClusterSize + FirstData + j  BY SectorOfIs
<1>3. c - 2 \in Nat /\ e - 2 \in Nat  BY DEF Cluster
<1> DEFINE a == (c - 2)  b == (e - 2)
<1>4. a \in Nat /\ b \in Nat /\ a * ClusterSize \in Nat /\ b * ClusterSize \in Nat  BY <1>3, Numbers
<1>5. a * ClusterSize + i = b * ClusterSize + j  BY <1>1, <1>2, <1>4, Areas
<1> HIDE DEF a, b
<1>6. a = b  BY <1>4, <1>5, Numbers, OneQuotient
<1> QED  BY <1>6 DEF a, b, Cluster

\* An entry's sector is its cluster's.
LEMMA EntryPlace ==
  ASSUME NEW at \in Location
  PROVE  /\ DirSector(at) \in SectorsOf(at.cluster) /\ at.index % PerDir \in 0 .. PerDir - 1
         /\ at.cluster \in Cluster /\ at = [cluster |-> at.cluster, index |-> at.index]
<1>1. at.cluster \in Cluster /\ at.index \in 0 .. PerCluster - 1
      /\ at = [cluster |-> at.cluster, index |-> at.index]
  BY DEF Location
<1>2. at.index \in Nat /\ at.index < ClusterSize * PerDir
  <2>1. PerCluster = ClusterSize * PerDir  BY Numbers DEF PerCluster
  <2> QED  BY <1>1, <2>1, Areas
<1>3. at.index \div PerDir \in 0 .. ClusterSize - 1  BY <1>2, Numbers, QuotientBelow
<1>4. at.index % PerDir \in 0 .. PerDir - 1  BY <1>2, Numbers, Quotient
<1> QED  BY <1>1, <1>3, <1>4, DataSectorIs DEF DirSector

\* Two entries are in two places.
LEMMA EntriesApart ==
  ASSUME NEW at \in Location, NEW b \in Location, DirSector(at) = DirSector(b),
         at.index % PerDir = b.index % PerDir
  PROVE  at = b
<1>1. at.cluster = b.cluster  BY EntryPlace, SectorsApart
<1> DEFINE i == at.index \div PerDir  j == b.index \div PerDir
<1>2. at.index \in Nat /\ b.index \in Nat  BY Areas DEF Location
<1>3. i \in Nat /\ at.index = i * PerDir + (at.index % PerDir)  BY <1>2, Numbers, Quotient
<1>4. j \in Nat /\ b.index = j * PerDir + (b.index % PerDir)  BY <1>2, Numbers, Quotient
<1>5. FirstSector(at.cluster) \in Nat
  <2>1. 0 \in 0 .. ClusterSize - 1 /\ at.cluster \in Cluster  BY EntryPlace, Numbers
  <2> QED  BY <2>1, DataSectorIs
<1>6. FirstSector(at.cluster) + i = FirstSector(at.cluster) + j  BY <1>1 DEF DirSector
<1> HIDE DEF i, j, FirstSector
<1>7. i = j  BY <1>3, <1>4, <1>5, <1>6
<1>8. at.index = b.index  BY <1>3, <1>4, <1>7
<1> QED  BY <1>1, <1>8, EntryPlace

ByteAt(d, c, o) == d[FirstSector(c) + o \div SectorSize][o % SectorSize]
\* A byte of a cluster has a sector and a place in it.
LEMMA BytePlace ==
  ASSUME NEW c \in Cluster, NEW o \in 0 .. ClusterBytes - 1
  PROVE  /\ FirstSector(c) + o \div SectorSize \in SectorsOf(c) /\ o % SectorSize \in 0 .. SectorSize - 1
         /\ o \div SectorSize \in 0 .. ClusterSize - 1 /\ o = (o \div SectorSize) * SectorSize + (o % SectorSize)
<1>1. o \in Nat /\ o < ClusterSize * SectorSize
  <2>1. ClusterBytes = ClusterSize * SectorSize  BY Numbers DEF ClusterBytes
  <2> QED  BY <2>1, Areas
<1>2. o \div SectorSize \in 0 .. ClusterSize - 1  BY <1>1, Numbers, QuotientBelow
<1>3. o % SectorSize \in 0 .. SectorSize - 1  BY <1>1, Numbers, Quotient
<1>4. o = (o \div SectorSize) * SectorSize + (o % SectorSize)  BY <1>1, Numbers, Quotient
<1> QED  BY <1>2, <1>3, <1>4, DataSectorIs

\* The disk's sectors, and what changes when one of them is written.
Typed(d) ==
  /\ DOMAIN d = Sectors
  /\ \A s \in TableArea : d[s] \in [0 .. PerFat - 1 -> Nat]
  /\ \A c \in DirClusters : \A s \in SectorsOf(c) : d[s] \in [0 .. PerDir - 1 -> DirEntry]
  /\ \A c \in Cluster \ DirClusters : \A s \in SectorsOf(c) : DOMAIN d[s] = 0 .. SectorSize - 1
Only(d, e, x) == DOMAIN e = DOMAIN d /\ \A s \in DOMAIN d : s # x => e[s] = d[s]
SameEntries(d, e) == \A at \in Entries : EntryIn(e, at) = EntryIn(d, at)
SameBytes(d, e) ==
  \A c \in Cluster \ DirClusters, o \in 0 .. ClusterBytes - 1 : ByteAt(e, c, o) = ByteAt(d, c, o)
SameTable(d, e) == TableIn(e) = TableIn(d) /\ \A s \in FatSectors : e[s] = d[s] /\ e[s + FatSize] = d[s + FatSize]
CopiesBut(d, S) == \A s \in FatSectors : s \notin S => d[s] = d[s + FatSize]

\* Entries are in clusters of directories.
LEMMA DirClustersAre ==
  /\ DirClusters \subseteq Cluster
  /\ \A at \in Entries : at \in Location /\ at.cluster \in DirClusters /\ at.cluster \in Cluster
<1>1. DirClusters \subseteq Cluster  BY DEF DirClusters, ChainIn
<1>2. ASSUME NEW at \in Entries PROVE at \in Location /\ at.cluster \in DirClusters /\ at.cluster \in Cluster
  <2>1. PICK f \in Dirs : at \in ListedIn(Disk0, f)  BY DEF Entries
  <2>2. PICK k \in 0 .. Clusters : at.cluster = W(f)[k] /\ at \in Location  BY <2>1, ListedIs
  <2>3. at.cluster \in Cluster  BY <2>2 DEF Location
  <2>4. at.cluster \in ChainIn(TableIn(Disk0), f)  BY <2>2, <2>3, InChain DEF W, T0
  <2> QED  BY <2>2, <2>3, <2>4 DEF DirClusters
<1> QED  BY <1>1, <1>2

\* A write to the tables leaves entries and bytes.
LEMMA TableAreaWritten ==
  ASSUME NEW d, NEW e, NEW x \in TableArea, Typed(d), Only(d, e, x), e[x] \in [0 .. PerFat - 1 -> Nat]
  PROVE  Typed(e) /\ SameEntries(d, e) /\ SameBytes(d, e)
<1>1. \A c \in Cluster : \A s \in SectorsOf(c) : s \in DOMAIN d /\ s # x /\ e[s] = d[s]
  BY SectorOfIs DEF Typed, Only
<1>2. Typed(e)
  <2>1. \A s \in TableArea : e[s] \in [0 .. PerFat - 1 -> Nat]
    BY Areas DEF Typed, Only
  <2>2. \A c \in DirClusters : \A s \in SectorsOf(c) : e[s] \in [0 .. PerDir - 1 -> DirEntry]
    BY <1>1, DirClustersAre DEF Typed
  <2>3. \A c \in Cluster \ DirClusters : \A s \in SectorsOf(c) : DOMAIN e[s] = 0 .. SectorSize - 1
    BY <1>1 DEF Typed
  <2> QED  BY <2>1, <2>2, <2>3 DEF Typed, Only
<1>3. SameEntries(d, e)
  BY <1>1, DirClustersAre, EntryPlace DEF SameEntries, EntryIn
<1>4. SameBytes(d, e)
  <2> SUFFICES ASSUME NEW c \in Cluster, NEW o \in 0 .. ClusterBytes - 1
               PROVE  ByteAt(e, c, o) = ByteAt(d, c, o)
    BY DEF SameBytes
  <2>1. FirstSector(c) + o \div SectorSize \in SectorsOf(c)  BY BytePlace
  <2> QED  BY <1>1, <2>1 DEF ByteAt
<1> QED  BY <1>2, <1>3, <1>4

\* A write to a cluster leaves the tables and the other clusters.
LEMMA ClusterWritten ==
  ASSUME NEW d, NEW e, NEW c \in Cluster, NEW x \in SectorsOf(c), Typed(d), Only(d, e, x),
         c \in DirClusters => e[x] \in [0 .. PerDir - 1 -> DirEntry],
         c \notin DirClusters => DOMAIN e[x] = 0 .. SectorSize - 1
  PROVE  /\ Typed(e) /\ SameTable(d, e)
         /\ c \notin DirClusters => SameEntries(d, e)
         /\ c \in DirClusters => SameBytes(d, e)
<1>0. x \notin TableArea /\ x \in Sectors  BY SectorOfIs
<1>1. \A s \in TableArea : e[s] = d[s]  BY <1>0, Areas DEF Typed, Only
<1>2. ASSUME NEW b \in Cluster, NEW s \in SectorsOf(b), s # x PROVE e[s] = d[s]
  BY <1>2, SectorOfIs DEF Typed, Only
<1>3. \A b \in Cluster : x \in SectorsOf(b) => b = c  BY SectorsApart
<1>4. SameTable(d, e)
  <2>1. \A s \in FatSectors : e[s] = d[s] /\ e[s + FatSize] = d[s + FatSize]  BY <1>1, Areas
  <2>2. TableIn(e) = TableIn(d)  BY <2>1, FatSectorIs DEF TableIn
  <2> QED  BY <2>1, <2>2 DEF SameTable
<1>5. Typed(e)
  <2>1. ASSUME NEW b \in DirClusters, NEW s \in SectorsOf(b)
        PROVE  e[s] \in [0 .. PerDir - 1 -> DirEntry]
    <3>1. b \in Cluster /\ d[s] \in [0 .. PerDir - 1 -> DirEntry]  BY DirClustersAre DEF Typed
    <3> QED  BY <1>2, <1>3, <3>1
  <2>2. ASSUME NEW b \in Cluster \ DirClusters, NEW s \in SectorsOf(b)
        PROVE  DOMAIN e[s] = 0 .. SectorSize - 1
    <3>1. DOMAIN d[s] = 0 .. SectorSize - 1  BY DEF Typed
    <3> QED  BY <1>2, <1>3, <3>1
  <2> QED  BY <1>1, <2>1, <2>2 DEF Typed, Only
<1>6. ASSUME c \notin DirClusters PROVE SameEntries(d, e)
  <2> SUFFICES ASSUME NEW at \in Entries PROVE EntryIn(e, at) = EntryIn(d, at)  BY DEF SameEntries
  <2>1. at.cluster # c /\ at.cluster \in Cluster /\ DirSector(at) \in SectorsOf(at.cluster)
    BY <1>6, DirClustersAre, EntryPlace
  <2>2. DirSector(at) # x  BY <1>3, <2>1
  <2> QED  BY <1>2, <2>1, <2>2 DEF EntryIn
<1>7. ASSUME c \in DirClusters PROVE SameBytes(d, e)
  <2> SUFFICES ASSUME NEW b \in Cluster \ DirClusters, NEW o \in 0 .. ClusterBytes - 1
               PROVE  ByteAt(e, b, o) = ByteAt(d, b, o)
    BY DEF SameBytes
  <2>1. FirstSector(b) + o \div SectorSize \in SectorsOf(b)  BY BytePlace
  <2>2. FirstSector(b) + o \div SectorSize # x  BY <1>3, <1>7, <2>1
  <2> QED  BY <1>2, <2>1, <2>2 DEF ByteAt
<1> QED  BY <1>4, <1>5, <1>6, <1>7

\* The four writes.
LEMMA FirstCopyWritten ==
  ASSUME NEW d, Typed(d), NEW c \in Cluster, NEW value \in Nat, CopiesBut(d, {}),
         NEW e, e = After(d, FatWrite(1, c, value))
  PROVE  /\ Typed(e) /\ SameEntries(d, e) /\ SameBytes(d, e)
         /\ Sets(TableIn(d), TableIn(e), c, value) /\ CopiesBut(e, {FatSector(c)})
<1> DEFINE s == FatSector(c)
           b == [d[s] EXCEPT ![c % PerFat] = value]
<1>0. s \in FatSectors /\ c % PerFat \in 0 .. PerFat - 1  BY FatSectorIs
<1>1. s \in TableArea /\ s \in DOMAIN d /\ s + (1 - 1) * FatSize = s  BY <1>0, Areas, Numbers DEF Typed
<1>2. b \in [0 .. PerFat - 1 -> Nat] /\ b[c % PerFat] = value
      /\ \A i \in 0 .. PerFat - 1 : i # c % PerFat => b[i] = d[s][i]
  BY <1>0, <1>1 DEF Typed
<1>3. e = [d EXCEPT ![s] = b]
  <2>1. e = [d EXCEPT ![s + (1 - 1) * FatSize] = b]  BY DEF After, FatWrite
  <2> QED  BY <1>1, <2>1
<1> HIDE DEF s, b
<1>4. e[s] = b /\ Only(d, e, s)  BY <1>1, <1>3 DEF Only
<1>5. Typed(e) /\ SameEntries(d, e) /\ SameBytes(d, e)  BY <1>1, <1>2, <1>4, TableAreaWritten
<1>6. Sets(TableIn(d), TableIn(e), c, value)
  <2> SUFFICES ASSUME NEW a \in Cluster
               PROVE  TableIn(e)[a] = IF a = c THEN value ELSE TableIn(d)[a]
    BY DEF Sets
  <2>0. TableIn(e)[a] = e[FatSector(a)][a % PerFat] /\ TableIn(d)[a] = d[FatSector(a)][a % PerFat]
        /\ FatSector(a) \in Sectors /\ a % PerFat \in 0 .. PerFat - 1
    BY FatSectorIs, Areas DEF TableIn
  <2>1. CASE a = c  BY <1>2, <1>4, <2>0, <2>1 DEF s
  <2>2. CASE a # c /\ FatSector(a) = s
    <3>1. a % PerFat # c % PerFat  BY <2>2, FatSectorsApart DEF s
    <3> QED  BY <1>2, <1>4, <2>0, <2>2, <3>1
  <2>3. CASE FatSector(a) # s
    <3>1. a # c  BY <2>3 DEF s
    <3> QED  BY <1>4, <2>0, <2>3, <3>1 DEF Only, Typed
  <2> QED  BY <2>1, <2>2, <2>3
<1>7. CopiesBut(e, {s})
  <2> SUFFICES ASSUME NEW r \in FatSectors, r # s PROVE e[r] = e[r + FatSize]  BY DEF CopiesBut
  <2>1. d[r] = d[r + FatSize]  BY DEF CopiesBut
  <2>2. r \in DOMAIN d /\ r + FatSize \in DOMAIN d /\ r + FatSize # s  BY <1>0, Areas DEF Typed
  <2> QED  BY <1>4, <2>1, <2>2 DEF Only
<1> QED  BY <1>5, <1>6, <1>7 DEF s

LEMMA SecondCopyWritten ==
  ASSUME NEW d, Typed(d), NEW c \in Cluster, NEW value \in Nat, TableIn(d)[c] = value,
         CopiesBut(d, {FatSector(c)}), NEW e, e = After(d, FatWrite(2, c, value))
  PROVE  /\ Typed(e) /\ SameEntries(d, e) /\ SameBytes(d, e)
         /\ TableIn(e) = TableIn(d) /\ CopiesBut(e, {})
<1> DEFINE s == FatSector(c)
           b == [d[s] EXCEPT ![c % PerFat] = value]
           x == s + FatSize
<1>0. s \in FatSectors /\ c % PerFat \in 0 .. PerFat - 1  BY FatSectorIs
<1>1. s \in TableArea /\ x \in TableArea /\ x \in DOMAIN d /\ x \notin FatSectors /\ (2 - 1) * FatSize = FatSize
  BY <1>0, Areas, Numbers DEF Typed
<1>2. d[s] \in [0 .. PerFat - 1 -> Nat] /\ d[s][c % PerFat] = value  BY <1>1 DEF Typed, TableIn
<1>3. b = d[s]  BY <1>0, <1>2
<1>4. e = [d EXCEPT ![x] = b]
  <2>1. e = [d EXCEPT ![s + (2 - 1) * FatSize] = b]  BY DEF After, FatWrite
  <2> QED  BY <1>1, <2>1
<1> HIDE DEF s, b, x
<1>5. e[x] = d[s] /\ Only(d, e, x)  BY <1>1, <1>3, <1>4 DEF Only
<1>6. Typed(e) /\ SameEntries(d, e) /\ SameBytes(d, e)  BY <1>1, <1>2, <1>5, TableAreaWritten
<1>7. \A r \in FatSectors : e[r] = d[r]
  BY <1>1, <1>5, Areas DEF Only, Typed
<1>8. TableIn(e) = TableIn(d)  BY <1>7, FatSectorIs DEF TableIn
<1>9. CopiesBut(e, {})
  <2> SUFFICES ASSUME NEW r \in FatSectors PROVE e[r] = e[r + FatSize]  BY DEF CopiesBut
  <2>1. CASE r = s  BY <1>0, <1>5, <1>7, <2>1 DEF x
  <2>2. CASE r # s
    <3>1. d[r] = d[r + FatSize]  BY <2>2 DEF CopiesBut, s
    <3>2. r + FatSize # x
      <4>1. r \in Nat /\ s \in Nat  BY <1>0, Areas
      <4> QED  BY <2>2, <4>1, Numbers DEF x
    <3>3. r + FatSize \in DOMAIN d  BY Areas DEF Typed
    <3>4. e[r + FatSize] = d[r + FatSize]  BY <1>5, <3>2, <3>3 DEF Only
    <3> QED  BY <1>7, <3>1, <3>4
  <2> QED  BY <2>1, <2>2
<1> QED  BY <1>6, <1>8, <1>9

LEMMA EntryWritten ==
  ASSUME NEW d, Typed(d), NEW at \in Entries, NEW dir \in DirEntry,
         NEW e, e = After(d, DirWrite(at, dir))
  PROVE  /\ Typed(e) /\ SameTable(d, e) /\ SameBytes(d, e)
         /\ \A b \in Entries : EntryIn(e, b) = IF b = at THEN dir ELSE EntryIn(d, b)
<1> DEFINE s == DirSector(at)
           i == at.index % PerDir
           new == [d[s] EXCEPT ![i] = dir]
<1>0. at \in Location /\ at.cluster \in DirClusters /\ at.cluster \in Cluster  BY DirClustersAre
<1>1. s \in SectorsOf(at.cluster) /\ i \in 0 .. PerDir - 1  BY <1>0, EntryPlace
<1>2. s \in DOMAIN d /\ d[s] \in [0 .. PerDir - 1 -> DirEntry]  BY <1>0, <1>1, SectorOfIs DEF Typed
<1>3. new \in [0 .. PerDir - 1 -> DirEntry] /\ new[i] = dir /\ \A j \in 0 .. PerDir - 1 : j # i => new[j] = d[s][j]
  BY <1>1, <1>2
<1>4. e = [d EXCEPT ![s] = new]  BY DEF After, DirWrite
<1> HIDE DEF s, i, new
<1>5. e[s] = new /\ Only(d, e, s)  BY <1>2, <1>4 DEF Only
<1>6. Typed(e) /\ SameTable(d, e) /\ SameBytes(d, e)  BY <1>0, <1>1, <1>3, <1>5, ClusterWritten
<1>7. ASSUME NEW b \in Entries PROVE EntryIn(e, b) = IF b = at THEN dir ELSE EntryIn(d, b)
  <2>0. b \in Location /\ DirSector(b) \in DOMAIN d /\ b.index % PerDir \in 0 .. PerDir - 1
    BY DirClustersAre, EntryPlace, SectorOfIs DEF Typed
  <2>1. CASE b = at  BY <1>3, <1>5, <2>1 DEF EntryIn, s, i
  <2>2. CASE b # at /\ DirSector(b) = s
    <3>1. b.index % PerDir # i  BY <1>0, <2>0, <2>2, EntriesApart DEF s, i
    <3> QED  BY <1>3, <1>5, <2>0, <2>2, <3>1 DEF EntryIn
  <2>3. CASE DirSector(b) # s
    <3>1. b # at  BY <2>3 DEF s
    <3> QED  BY <1>5, <2>0, <2>3, <3>1 DEF EntryIn, Only
  <2> QED  BY <2>1, <2>2, <2>3
<1> QED  BY <1>6, <1>7

LEMMA BytesWritten ==
  ASSUME NEW d, Typed(d), NEW c \in Cluster, c \notin DirClusters,
         NEW lo \in 0 .. ClusterBytes - 1, NEW m \in Nat, (lo % SectorSize) + m <= SectorSize, NEW v,
         NEW e, e = After(d, DataWrite(FirstSector(c) + lo \div SectorSize, lo % SectorSize, m, v))
  PROVE  /\ Typed(e) /\ SameTable(d, e) /\ SameEntries(d, e)
         /\ \A b \in Cluster \ DirClusters, o \in 0 .. ClusterBytes - 1 :
              ByteAt(e, b, o) = IF b = c /\ o \in lo .. lo + m - 1 THEN v ELSE ByteAt(d, b, o)
<1> DEFINE q == lo \div SectorSize
           r == lo % SectorSize
           s == FirstSector(c) + q
           new == Overlay(d[s], r, m, v)
<1>0. /\ s \in SectorsOf(c) /\ r \in 0 .. SectorSize - 1 /\ q \in 0 .. ClusterSize - 1 /\ r + m <= SectorSize
      /\ lo = q * SectorSize + r
  BY BytePlace
<1>1. s \in DOMAIN d /\ DOMAIN d[s] = 0 .. SectorSize - 1  BY <1>0, SectorOfIs DEF Typed
<1>2. DOMAIN new = 0 .. SectorSize - 1
      /\ \A i \in 0 .. SectorSize - 1 : new[i] = IF i \in r .. r + m - 1 THEN v ELSE d[s][i]
  BY <1>1 DEF Overlay
<1>3. e = [d EXCEPT ![s] = new]  BY DEF After, DataWrite
<1>a. s = FirstSector(c) + q  OBVIOUS
<1> HIDE DEF s, new, q, r
<1>4. e[s] = new /\ Only(d, e, s)  BY <1>1, <1>3 DEF Only
<1>5. Typed(e) /\ SameTable(d, e) /\ SameEntries(d, e)  BY <1>0, <1>2, <1>4, ClusterWritten
<1>6. ASSUME NEW b \in Cluster \ DirClusters, NEW o \in 0 .. ClusterBytes - 1
      PROVE  ByteAt(e, b, o) = IF b = c /\ o \in lo .. lo + m - 1 THEN v ELSE ByteAt(d, b, o)
  <2> DEFINE a == o \div SectorSize
             i == o % SectorSize
             x == FirstSector(b) + a
  <2>0. x \in SectorsOf(b) /\ i \in 0 .. SectorSize - 1 /\ a \in 0 .. ClusterSize - 1 /\ o = a * SectorSize + i
    BY BytePlace
  <2>1. x \in DOMAIN d  BY <2>0, SectorOfIs DEF Typed
  <2>2. ByteAt(e, b, o) = e[x][i] /\ ByteAt(d, b, o) = d[x][i]  BY DEF ByteAt
  <2>a. x = FirstSector(b) + a  OBVIOUS
  <2> HIDE DEF a, i, x
  <2>3. CASE x = s
    <3>1. b = c  BY <1>0, <2>0, <2>3, SectorsApart
    <3>2. a = q
      <4>1. FirstSector(c) \in Nat  BY DataSectorIs, Numbers
      <4> HIDE DEF FirstSector
      <4> QED  BY <1>a, <1>0, <2>a, <2>0, <2>3, <3>1, <4>1
    <3> DEFINE base == a * SectorSize
    <3>3. base \in Nat /\ lo = base + r /\ o = base + i  BY <1>0, <2>0, <3>2, Numbers
    <3> HIDE DEF base
    <3>4. (i \in r .. r + m - 1) <=> (o \in lo .. lo + m - 1)  BY <1>0, <2>0, <3>3, Numbers
    <3> QED  BY <1>2, <1>4, <2>0, <2>2, <2>3, <3>1, <3>4
  <2>4. CASE x # s
    <3>1. ~(b = c /\ o \in lo .. lo + m - 1)
      <4> SUFFICES ASSUME b = c, o \in lo .. lo + m - 1 PROVE FALSE  OBVIOUS
      <4> DEFINE base == q * SectorSize
                 j == o - base
      <4>1. base \in Nat /\ lo = base + r  BY <1>0, Numbers
      <4> HIDE DEF base
      <4>2. j \in 0 .. SectorSize - 1 /\ o = base + j  BY <1>0, <4>1, Numbers
      <4> HIDE DEF j
      <4>3. a * SectorSize + i = q * SectorSize + j  BY <2>0, <4>2 DEF base
      <4>4. a = q  BY <1>0, <2>0, <4>2, <4>3, Numbers, OneQuotient
      <4> QED  BY <1>a, <2>a, <2>4, <4>4
    <3> QED  BY <1>4, <2>1, <2>2, <2>4, <3>1 DEF Only
  <2> QED  BY <2>3, <2>4
<1> QED  BY <1>5, <1>6
-----------------------------------------------------------------------------
(* Writing.  The disk is sound whatever was written last; a disk that takes *)
(* writes has what the call in progress and those before it made of it.     *)

\* What the head of an entry's chain may be: a directory keeps its own.
HeadFits(at, first) ==
  IF Dir0(at).kind = "dir" THEN first = Dir0(at).first ELSE first \in {0} \cup (Cluster \ Dirs)
DiskSound(d) ==
  /\ Typed(d) /\ TableSound(TableIn(d), HeadsIn(d))
  /\ \A f \in Dirs : Grows(T0, TableIn(d), f)
  /\ \A at \in Entries :
       /\ EntryIn(d, at).kind = Dir0(at).kind /\ HeadFits(at, EntryIn(d, at).first)
       /\ LongEnough(TableIn(d), EntryIn(d, at).first, EntryIn(d, at).size)
       /\ \A b \in Entries : EntryIn(d, at).first # 0 /\ EntryIn(d, at).first = EntryIn(d, b).first => at = b

\* The byte at a position of the file that begins in a cluster, or of a
\* directory, past its entries.
Holds(d, first, p, x) ==
  LET k == p \div ClusterBytes
      c == ClustersFrom(TableIn(d), first)[k]
  IN k \in 0 .. Clusters /\ c \in Cluster \ DirClusters /\ ByteAt(d, c, p % ClusterBytes) = x
FileHas(d, ct, at) ==
  \A p \in 0 .. MaxPos - 1 :
    ct[at][p] # NONE => p < EntryIn(d, at).size /\ Holds(d, EntryIn(d, at).first, p, ct[at][p])

\* Where an entry of the volume is, and what of.
LEMMA EntryIs == \A at \in Entries : at \in Location /\ Dir0(at).kind \in Named
BY DirClustersAre, ListedIs DEF Entries

\* An entry, on a disk that is typed, is one.
LEMMA EntryTyped ==
  ASSUME NEW d, Typed(d), NEW at \in Entries
  PROVE  EntryIn(d, at) \in DirEntry
<1>1. at \in Location /\ at.cluster \in DirClusters  BY DirClustersAre
<1>2. DirSector(at) \in SectorsOf(at.cluster) /\ at.index % PerDir \in 0 .. PerDir - 1  BY <1>1, EntryPlace
<1> QED  BY <1>1, <1>2 DEF Typed, EntryIn

\* The volume as it was formatted is sound.
LEMMA VolumeIsSound == DiskSound(Disk0)
<1>1. Typed(Disk0)
  <2>1. DOMAIN Disk0 = Sectors  BY SectorsAssumption DEF Sectors
  <2>2. \A s \in TableArea : Disk0[s] \in [0 .. PerFat - 1 -> Nat]
    <3> SUFFICES ASSUME NEW s \in TableArea PROVE Disk0[s] \in [0 .. PerFat - 1 -> Nat]  OBVIOUS
    <3>1. s \in FatSectors \/ (s - FatSize \in FatSectors /\ (s - FatSize) + FatSize = s)
      BY Areas, Numbers DEF FatSectors, TableArea
    <3>2. CASE s \in FatSectors  BY <3>2, SectorsAssumption
    <3>3. CASE s - FatSize \in FatSectors /\ (s - FatSize) + FatSize = s
      <4>1. PICK r \in FatSectors : r + FatSize = s  BY <3>3
      <4> QED  BY <4>1, SectorsAssumption
    <3> QED  BY <3>1, <3>2, <3>3
  <2> QED  BY <2>1, <2>2, SectorsAssumption DEF Typed
<1>2. TableSound(TableIn(Disk0), HeadsIn(Disk0))  BY Volume DEF T0
<1>3. \A f \in Dirs : Grows(T0, TableIn(Disk0), f)  BY DEF Grows, T0
<1>4. \A at \in Entries :
        /\ EntryIn(Disk0, at).kind = Dir0(at).kind /\ HeadFits(at, EntryIn(Disk0, at).first)
        /\ LongEnough(TableIn(Disk0), EntryIn(Disk0, at).first, EntryIn(Disk0, at).size)
        /\ \A b \in Entries :
             EntryIn(Disk0, at).first # 0 /\ EntryIn(Disk0, at).first = EntryIn(Disk0, b).first => at = b
  BY Volume, EntryIs DEF Dir0, T0, HeadFits, Named
<1> QED  BY <1>1, <1>2, <1>3, <1>4 DEF DiskSound

\* Its two tables are the same.
LEMMA VolumeCopies == CopiesBut(Disk0, {})
BY SectorsAssumption DEF CopiesBut

\* No cluster of it is lost.
LEMMA VolumeCovered == Sound(TableIn(Disk0), HeadsIn(Disk0))
BY VolumeAssumption DEF Sound, Covered

\* The heads are those of the directories and the entries that have clusters.
LEMMA HeadsAre ==
  ASSUME NEW d, DiskSound(d)
  PROVE  /\ Dirs \subseteq HeadsIn(d) /\ HeadsIn(d) \subseteq Cluster
         /\ \A at \in Entries : EntryIn(d, at).first # 0 => EntryIn(d, at).first \in HeadsIn(d)
         /\ \A f \in HeadsIn(d) : TableIn(d)[f] # 0 /\ f # 0
<1>1. \A f \in HeadsIn(d) : f \in Cluster /\ TableIn(d)[f] # 0  BY DEF DiskSound, TableSound
<1>2. \A f \in Cluster : f # 0  BY DEF Cluster
<1> QED  BY <1>1, <1>2 DEF HeadsIn, DiskSound

\* Heads depend on the entries alone.
LEMMA SameHeads ==
  ASSUME NEW d, NEW e, SameEntries(d, e)
  PROVE  HeadsIn(e) = HeadsIn(d)
BY EntryIs DEF HeadsIn, SameEntries

\* No chain from cluster 0: an empty file has no bytes.
LEMMA NoChain ==
  ASSUME NEW t
  PROVE  \A k \in 0 .. Clusters : ClustersFrom(t, 0)[k] = 0 /\ ClustersFrom(t, 0)[k] \notin Cluster
<1>1. ClustersFrom(t, 0)[0] = 0 /\ 0 \notin Cluster /\ 0 \in 0 .. Clusters  BY WalkIs, Numbers DEF Cluster
<1>2. \A k \in 0 .. Clusters : ClustersFrom(t, 0)[k] = ClustersFrom(t, 0)[0]  BY <1>1, WalkStays
<1> QED  BY <1>1, <1>2

\* Without a first cluster only size 0 is long enough.
LEMMA EmptyWithoutChain ==
  ASSUME NEW t, NEW size \in Nat
  PROVE  LongEnough(t, 0, size) <=> size = 0
<1> SUFFICES ASSUME size > 0 PROVE ~LongEnough(t, 0, size)  BY DEF LongEnough
<1> DEFINE k == (size - 1) \div ClusterBytes
<1>1. k \in Nat  BY Areas, Quotient
<1> HIDE DEF k
<1>2. k <= Clusters => k \in 0 .. Clusters  BY <1>1, Numbers
<1> QED  BY <1>2, NoChain DEF LongEnough, k

\* The clusters of a file are no directory's.
LEMMA FileClusters ==
  ASSUME NEW d, NEW heads, TableSound(TableIn(d), heads), Dirs \subseteq heads,
         \A f \in Dirs : Grows(T0, TableIn(d), f),
         NEW h \in heads, h \notin Dirs, NEW k \in 0 .. Clusters, ClustersFrom(TableIn(d), h)[k] \in Cluster
  PROVE  ClustersFrom(TableIn(d), h)[k] \notin DirClusters
<1> SUFFICES ASSUME NEW f \in Dirs, ClustersFrom(TableIn(d), h)[k] \in ChainIn(TableIn(Disk0), f) PROVE FALSE
  BY DEF DirClusters
<1>1. PICK j \in 0 .. Clusters : ClustersFrom(T0, f)[j] = ClustersFrom(TableIn(d), h)[k]  BY InChain DEF T0
<1>2. ClustersFrom(TableIn(d), f)[j] = ClustersFrom(TableIn(d), h)[k]  BY <1>1 DEF Grows
<1>3. f = h  BY <1>2, ChainsApart
<1> QED  BY <1>3

\* A position is a cluster of the file and a byte of it.
LEMMA PositionIs ==
  ASSUME NEW p \in Nat
  PROVE  p \div ClusterBytes \in Nat /\ p % ClusterBytes \in 0 .. ClusterBytes - 1
         /\ p = (p \div ClusterBytes) * ClusterBytes + (p % ClusterBytes)
<1>1. p \div ClusterBytes \in Nat /\ p % ClusterBytes \in 0 .. ClusterBytes - 1  BY Areas, Quotient
<1>2. p = (p \div ClusterBytes) * ClusterBytes + (p % ClusterBytes)  BY Areas, Quotient
<1> QED  BY <1>1, <1>2

\* Bytes stay when chains grow.
LEMMA HoldsStays ==
  ASSUME NEW d, NEW e, SameBytes(d, e), NEW h, Grows(TableIn(d), TableIn(e), h),
         NEW p \in Nat, NEW x, Holds(d, h, p, x)
  PROVE  Holds(e, h, p, x)
<1> DEFINE k == p \div ClusterBytes
           c == ClustersFrom(TableIn(d), h)[k]
<1>1. k \in 0 .. Clusters /\ c \in Cluster \ DirClusters /\ ByteAt(d, c, p % ClusterBytes) = x  BY DEF Holds
<1>2. p % ClusterBytes \in 0 .. ClusterBytes - 1  BY PositionIs
<1>3. ByteAt(e, c, p % ClusterBytes) = x  BY <1>1, <1>2 DEF SameBytes
<1>4. ClustersFrom(TableIn(e), h)[k] = c  BY <1>1 DEF Grows
<1> QED  BY <1>1, <1>3, <1>4 DEF Holds

\* Writes to the table, where heads' chains grow.
LEMMA TableStep ==
  ASSUME NEW d, NEW e, DiskSound(d), Typed(e), SameEntries(d, e), SameBytes(d, e),
         TableSound(TableIn(e), HeadsIn(d)), \A f \in HeadsIn(d) : Grows(TableIn(d), TableIn(e), f)
  PROVE  /\ DiskSound(e) /\ HeadsIn(e) = HeadsIn(d)
         /\ \A ct : \A at \in Entries : FileHas(d, ct, at) => FileHas(e, ct, at)
<1>1. HeadsIn(e) = HeadsIn(d)  BY SameHeads
<1>2. \A at \in Entries : EntryIn(e, at) = EntryIn(d, at) /\ EntryIn(d, at) \in DirEntry
                              /\ EntryIn(d, at).size \in Nat
  BY EntryIs, EntryTyped DEF SameEntries, DiskSound, DirEntry
<1>3. \A f \in Dirs : Grows(T0, TableIn(e), f)
  <2> SUFFICES ASSUME NEW f \in Dirs PROVE Grows(T0, TableIn(e), f)  OBVIOUS
  <2>1. Grows(T0, TableIn(d), f) /\ Grows(TableIn(d), TableIn(e), f)  BY HeadsAre DEF DiskSound
  <2> QED  BY <2>1, GrowsBoth
<1>4. ASSUME NEW at \in Entries
      PROVE  LongEnough(TableIn(e), EntryIn(d, at).first, EntryIn(d, at).size)
  <2>1. LongEnough(TableIn(d), EntryIn(d, at).first, EntryIn(d, at).size)  BY DEF DiskSound
  <2>2. CASE EntryIn(d, at).first = 0  BY <1>2, <2>1, <2>2, EmptyWithoutChain
  <2>3. CASE EntryIn(d, at).first # 0
    <3>1. Grows(TableIn(d), TableIn(e), EntryIn(d, at).first)  BY <2>3, HeadsAre
    <3> QED  BY <1>2, <2>1, <3>1, StaysLongEnough
  <2> QED  BY <2>2, <2>3
<1>5. DiskSound(e)
  BY <1>1, <1>2, <1>3, <1>4 DEF DiskSound, SameEntries
<1>6. ASSUME NEW ct, NEW at \in Entries, FileHas(d, ct, at) PROVE FileHas(e, ct, at)
  <2> SUFFICES ASSUME NEW p \in 0 .. MaxPos - 1, ct[at][p] # NONE
               PROVE  p < EntryIn(d, at).size /\ Holds(e, EntryIn(d, at).first, p, ct[at][p])
    BY <1>2 DEF FileHas
  <2>1. p < EntryIn(d, at).size /\ Holds(d, EntryIn(d, at).first, p, ct[at][p]) /\ p \in Nat
    BY <1>6, Numbers DEF FileHas
  <2>2. EntryIn(d, at).first # 0  BY <2>1, NoChain DEF Holds
  <2>3. EntryIn(d, at).first \in HeadsIn(d)  BY <2>2, HeadsAre
  <2> QED  BY <2>1, <2>3, HoldsStays
<1> QED  BY <1>1, <1>5, <1>6

\* A table grows to itself.
LEMMA GrowsSame ==
  ASSUME NEW t, NEW f
  PROVE  Grows(t, t, f)
BY DEF Grows

\* The copies of the table, when it is not written.
LEMMA CopiesStay ==
  ASSUME NEW d, NEW e, SameTable(d, e), CopiesBut(d, {})
  PROVE  CopiesBut(e, {})
BY DEF SameTable, CopiesBut

\* The write of an entry, with the head of its chain.
LEMMA EntryStep ==
  ASSUME NEW d, DiskSound(d), NEW at \in Entries, NEW dir \in DirEntry, dir.kind = Dir0(at).kind,
         dir.first \in Cluster, HeadFits(at, dir.first), TableSound(TableIn(d), HeadsIn(d) \cup {dir.first}),
         EntryIn(d, at).first \in {0, dir.first},
         \A b \in Entries : EntryIn(d, b).first = dir.first => b = at,
         LongEnough(TableIn(d), dir.first, dir.size),
         NEW e, Typed(e), SameTable(d, e), SameBytes(d, e),
         \A b \in Entries : EntryIn(e, b) = IF b = at THEN dir ELSE EntryIn(d, b)
  PROVE  /\ DiskSound(e) /\ HeadsIn(e) = HeadsIn(d) \cup {dir.first}
         /\ \A ct : \A b \in Entries : b # at /\ FileHas(d, ct, b) => FileHas(e, ct, b)
<1> DEFINE h == dir.first
<1>0. h # 0  BY DEF Cluster
<1>1. TableIn(e) = TableIn(d)  BY DEF SameTable
<1>3. \A b \in Entries : b # at => EntryIn(e, b) = EntryIn(d, b)  OBVIOUS
<1>4. EntryIn(e, at) = dir  OBVIOUS
<1>5. HeadsIn(e) = HeadsIn(d) \cup {h}
  <2>1. ASSUME NEW f \in HeadsIn(e) PROVE f \in HeadsIn(d) \cup {h}
    BY <1>3, <1>4 DEF HeadsIn
  <2>2. ASSUME NEW f \in HeadsIn(d) PROVE f \in HeadsIn(e)
    <3>1. CASE f \in Dirs  BY <3>1 DEF HeadsIn
    <3>2. CASE f \notin Dirs
      <4>1. PICK b \in Entries : f = EntryIn(d, b).first /\ f # 0  BY <3>2 DEF HeadsIn
      <4>2. CASE b = at
        <5>1. f = EntryIn(e, at).first  BY <1>4, <4>1, <4>2
        <5> QED  BY <4>1, <5>1 DEF HeadsIn
      <4>3. CASE b # at
        <5>1. f = EntryIn(e, b).first  BY <1>3, <4>1, <4>3
        <5> QED  BY <4>1, <5>1 DEF HeadsIn
      <4> QED  BY <4>2, <4>3
    <3> QED  BY <3>1, <3>2
  <2>3. h \in HeadsIn(e)
    <3>1. h = EntryIn(e, at).first  BY <1>4
    <3> QED  BY <1>0, <3>1 DEF HeadsIn
  <2> QED  BY <2>1, <2>2, <2>3
<1>6. ASSUME NEW b \in Entries
      PROVE  /\ EntryIn(e, b).kind = Dir0(b).kind /\ HeadFits(b, EntryIn(e, b).first)
             /\ LongEnough(TableIn(e), EntryIn(e, b).first, EntryIn(e, b).size)
  BY <1>1, <1>3, <1>4 DEF DiskSound
<1>7. ASSUME NEW a \in Entries, NEW b \in Entries,
             EntryIn(e, a).first # 0, EntryIn(e, a).first = EntryIn(e, b).first
      PROVE  a = b
  BY <1>3, <1>4, <1>7 DEF DiskSound
<1>8. DiskSound(e)
  BY <1>1, <1>5, <1>6, <1>7 DEF DiskSound
<1>9. ASSUME NEW ct, NEW b \in Entries, b # at, FileHas(d, ct, b) PROVE FileHas(e, ct, b)
  <2> SUFFICES ASSUME NEW p \in 0 .. MaxPos - 1, ct[b][p] # NONE
               PROVE  p < EntryIn(d, b).size /\ Holds(e, EntryIn(d, b).first, p, ct[b][p])
    BY <1>3, <1>9 DEF FileHas
  <2>1. p < EntryIn(d, b).size /\ Holds(d, EntryIn(d, b).first, p, ct[b][p]) /\ p \in Nat
    BY <1>9, Numbers DEF FileHas
  <2>2. EntryIn(d, b).first # 0  BY <2>1, NoChain DEF Holds
  <2>3. Grows(TableIn(d), TableIn(e), EntryIn(d, b).first)  BY <1>1, GrowsSame
  <2> QED  BY <2>1, <2>3, HoldsStays
<1> QED  BY <1>5, <1>8, <1>9

\* The write of bytes in a cluster of one chain.
Puts(d, h, k, c, lo, m) ==
  /\ h \in Cluster /\ TableSound(TableIn(d), HeadsIn(d) \cup {h})
  /\ k \in 0 .. Clusters /\ c = ClustersFrom(TableIn(d), h)[k] /\ c \in Cluster \ DirClusters
  /\ lo \in 0 .. ClusterBytes - 1 /\ m \in Nat /\ (lo % SectorSize) + m <= SectorSize /\ lo + m <= ClusterBytes
LEMMA BytesStep ==
  ASSUME NEW d, DiskSound(d), NEW h, NEW k, NEW c, NEW lo, NEW m, Puts(d, h, k, c, lo, m), NEW v, NEW e, e = After(d, DataWrite(FirstSector(c) + lo \div SectorSize, lo % SectorSize, m, v))
  PROVE  /\ DiskSound(e) /\ HeadsIn(e) = HeadsIn(d) /\ SameTable(d, e) /\ SameEntries(d, e)
         /\ \A ct : \A b \in Entries : EntryIn(d, b).first # h /\ FileHas(d, ct, b) => FileHas(e, ct, b)
         /\ \A p \in Nat : \A x : p \notin k * ClusterBytes + lo .. k * ClusterBytes + lo + m - 1 /\ Holds(d, h, p, x)
                                => Holds(e, h, p, x)
         /\ \A p \in k * ClusterBytes + lo .. k * ClusterBytes + lo + m - 1 : Holds(e, h, p, v)
<1> DEFINE all == HeadsIn(d) \cup {h}
<1> USE DEF Puts
<1>0. /\ Dirs \subseteq all /\ h \in all /\ \A f \in Dirs : Grows(T0, TableIn(d), f)
      /\ TableSound(TableIn(d), all)
  BY HeadsAre DEF DiskSound
<1>1. c \in Cluster /\ c \notin DirClusters  OBVIOUS
<1>2. /\ Typed(e) /\ SameTable(d, e) /\ SameEntries(d, e)
      /\ \A b \in Cluster \ DirClusters, o \in 0 .. ClusterBytes - 1 :
           ByteAt(e, b, o) = IF b = c /\ o \in lo .. lo + m - 1 THEN v ELSE ByteAt(d, b, o)
  <2>1. Typed(d)  BY DEF DiskSound
  <2> QED  BY <1>1, <2>1, BytesWritten
<1>3. TableIn(e) = TableIn(d) /\ HeadsIn(e) = HeadsIn(d)  BY <1>2, SameHeads DEF SameTable
<1>4. DiskSound(e)
  <2>1. \A at \in Entries : EntryIn(e, at) = EntryIn(d, at)  BY <1>2 DEF SameEntries
  <2> QED  BY <1>2, <1>3, <2>1 DEF DiskSound
<1>5. ASSUME NEW f \in all, NEW p \in Nat, NEW x, Holds(d, f, p, x),
             f = h => p \notin k * ClusterBytes + lo .. k * ClusterBytes + lo + m - 1
      PROVE  Holds(e, f, p, x)
  <2> DEFINE j == p \div ClusterBytes
             o == p % ClusterBytes
             b == ClustersFrom(TableIn(d), f)[j]
  <2>1. j \in 0 .. Clusters /\ b \in Cluster /\ ByteAt(d, b, o) = x  BY <1>5 DEF Holds
  <2>2. b \notin DirClusters  BY <1>5 DEF Holds
  <2>3. o \in 0 .. ClusterBytes - 1 /\ p = j * ClusterBytes + o  BY PositionIs
  <2>4. ~(b = c /\ o \in lo .. lo + m - 1)
    <3> SUFFICES ASSUME b = c, o \in lo .. lo + m - 1 PROVE FALSE  OBVIOUS
    <3>1. f = h /\ j = k
      <4>1. ClustersFrom(TableIn(d), f)[j] = ClustersFrom(TableIn(d), h)[k] /\ ClustersFrom(TableIn(d), f)[j] \in Cluster
        BY <2>1
      <4> HIDE DEF j
      <4> QED  BY <1>0, <2>1, <4>1, ChainsApart
    <3> DEFINE base == k * ClusterBytes
    <3>2. base \in Nat /\ p = base + o  BY <2>3, <3>1, Areas
    <3>3. p \notin base + lo .. base + lo + m - 1  BY <1>5, <3>1
    <3> HIDE DEF base, o
    <3> QED  BY <2>3, <3>2, <3>3, Areas
  <2>5. ByteAt(e, b, o) = x  BY <1>2, <2>1, <2>2, <2>3, <2>4
  <2> QED  BY <1>3, <2>1, <2>2, <2>5 DEF Holds
<1>6. ASSUME NEW ct, NEW b \in Entries, EntryIn(d, b).first # h, FileHas(d, ct, b) PROVE FileHas(e, ct, b)
  <2>0. EntryIn(e, b) = EntryIn(d, b)  BY <1>2, EntryIs DEF SameEntries
  <2> SUFFICES ASSUME NEW p \in 0 .. MaxPos - 1, ct[b][p] # NONE
               PROVE  p < EntryIn(d, b).size /\ Holds(e, EntryIn(d, b).first, p, ct[b][p])
    BY <2>0 DEF FileHas
  <2>1. p < EntryIn(d, b).size /\ Holds(d, EntryIn(d, b).first, p, ct[b][p]) /\ p \in Nat
    BY <1>6, Numbers DEF FileHas
  <2>2. EntryIn(d, b).first # 0  BY <2>1, NoChain DEF Holds
  <2>3. EntryIn(d, b).first \in all  BY <2>2, HeadsAre
  <2> QED  BY <1>5, <1>6, <2>1, <2>3
<1>7. ASSUME NEW p \in Nat, NEW x, p \notin k * ClusterBytes + lo .. k * ClusterBytes + lo + m - 1, Holds(d, h, p, x)
      PROVE  Holds(e, h, p, x)
  BY <1>0, <1>5, <1>7
<1>8. ASSUME NEW p \in k * ClusterBytes + lo .. k * ClusterBytes + lo + m - 1 PROVE Holds(e, h, p, v)
  <2> DEFINE j == p \div ClusterBytes
             o == p % ClusterBytes
             base == k * ClusterBytes
             i == p - base
  <2>1. base \in Nat /\ k \in Nat  BY Areas, Numbers
  <2>2. p \in Nat /\ i \in lo .. lo + m - 1 /\ i \in 0 .. ClusterBytes - 1 /\ p = base + i
    <3>1. p \in base + lo .. base + lo + m - 1  OBVIOUS
    <3> HIDE DEF base
    <3> QED  BY <2>1, <3>1, Areas
  <2> HIDE DEF i
  <2>3. j \in Nat /\ o \in 0 .. ClusterBytes - 1 /\ p = j * ClusterBytes + o  BY <2>2, PositionIs
  <2>4. j = k /\ o = i
    <3>1. j * ClusterBytes + o = k * ClusterBytes + i  BY <2>2, <2>3
    <3>2. j \in Nat /\ k \in Nat /\ o \in 0 .. ClusterBytes - 1 /\ i \in 0 .. ClusterBytes - 1
          /\ ClusterBytes \in Nat /\ ClusterBytes > 0
      BY <2>1, <2>2, <2>3, Areas
    <3> HIDE DEF j, o
    <3> QED  BY <3>1, <3>2, OneQuotient
  <2>5. ByteAt(e, c, o) = v  BY <1>1, <1>2, <2>2, <2>4
  <2>6. ClustersFrom(TableIn(e), h)[j] = c /\ j \in 0 .. Clusters  BY <1>3, <2>4
  <2> QED  BY <1>1, <2>5, <2>6 DEF Holds
<1> QED  BY <1>2, <1>3, <1>4, <1>6, <1>7, <1>8

\* The call: what it wrote of its file, and where it is in the file's chain.
Want(c, o, ct, p) == IF p \in o[c.at] .. o[c.at] + c.done - 1 THEN c.v ELSE ct[c.at][p]
LateBytes(c, o) ==   \* those of the sector that is not written yet
  IF c.queue # <<>> /\ Head(c.queue).to = "data"
  THEN o[c.at] + c.done - Head(c.queue).n .. o[c.at] + c.done - 1 ELSE {}
CallBytes(d, c, o, ct) ==
  \A p \in 0 .. MaxPos - 1 :
    /\ ct[c.at][p] # NONE => p < EntryIn(d, c.at).size
    /\ p \notin LateBytes(c, o) /\ Want(c, o, ct, p) # NONE => Holds(d, c.dir.first, p, Want(c, o, ct, p))
CallTyped(c, o) ==
  /\ c \in Call /\ c.at \in Entries /\ c.at \in DOMAIN o /\ o[c.at] \in Nat
  /\ c.done <= c.n /\ o[c.at] + c.n <= MaxPos /\ c.coff <= ClusterBytes
  /\ c.done > 0 => c.skip = 0
  /\ c.ending => c.skip = 0 /\ c.done = c.n
HeadKnown(d, c) ==
  /\ c.dir.kind = Dir0(c.at).kind /\ c.dir.first \in Cluster /\ HeadFits(c.at, c.dir.first)
  /\ EntryIn(d, c.at).first \in {0, c.dir.first}
  /\ \A b \in Entries : EntryIn(d, b).first = c.dir.first => b = c.at
FinalDir(c, o) ==
  LET end == o[c.at] + c.done IN [c.dir EXCEPT !.size = IF end > c.dir.size THEN end ELSE c.dir.size]
Place(c, o, k) == (k + c.skip) * ClusterBytes + c.coff = o[c.at] + c.done
SizeIs(d, c) == EntryIn(d, c.at).size = c.dir.size

\* No table write is left.
Settled(d, c, o) ==
  /\ Sound(TableIn(d), HeadsIn(d) \cup {c.dir.first}) /\ CopiesBut(d, {})
  /\ \E k \in 0 .. Clusters : ClustersFrom(TableIn(d), c.dir.first)[k] = c.cluster /\ Place(c, o, k)
Going(d, c, o) == Settled(d, c, o) /\ ~c.ending /\ SizeIs(d, c) /\ c.queue = <<>>
PutOf(c, lo, m) == DataWrite(FirstSector(c.cluster) + lo \div SectorSize, lo % SectorSize, m, c.v)
Putting(d, c, o) ==
  /\ Settled(d, c, o) /\ ~c.ending /\ SizeIs(d, c) /\ c.skip = 0
  /\ \E lo \in 0 .. ClusterBytes - 1, m \in 0 .. c.done :
       lo + m = c.coff /\ (lo % SectorSize) + m <= SectorSize /\ c.queue = <<PutOf(c, lo, m)>>
Ending(d, c, o) ==
  Settled(d, c, o) /\ c.ending /\ SizeIs(d, c) /\ c.queue = <<DirWrite(c.at, FinalDir(c, o))>>
Ended(d, c, o) ==
  Settled(d, c, o) /\ c.ending /\ c.queue = <<>> /\ EntryIn(d, c.at) = FinalDir(c, o)

\* The first cluster is marked, in one copy of the table after the other.
Starting(d, c, o) ==
  /\ ~c.ending /\ SizeIs(d, c) /\ EntryIn(d, c.at).first = 0
  /\ c.cluster = c.dir.first /\ c.done = 0 /\ Place(c, o, 0)
MarkFirst(d, c, o) ==
  /\ Starting(d, c, o) /\ c.queue = <<FatWrite(1, c.cluster, EOC), FatWrite(2, c.cluster, EOC)>>
  /\ TableIn(d)[c.cluster] = 0 /\ Sound(TableIn(d), HeadsIn(d)) /\ CopiesBut(d, {})
MarkSecond(d, c, o) ==
  /\ Starting(d, c, o) /\ c.queue = <<FatWrite(2, c.cluster, EOC)>>
  /\ TableIn(d)[c.cluster] = EOC /\ Sound(TableIn(d), HeadsIn(d) \cup {c.dir.first})
  /\ CopiesBut(d, {FatSector(c.cluster)})

\* A cluster is marked, and linked to the chain's last.
Last(d, c, o, k, p) ==
  /\ ~c.ending /\ SizeIs(d, c) /\ k \in 0 .. Clusters /\ Place(c, o, k + 1)
  /\ ClustersFrom(TableIn(d), c.dir.first)[k] = p /\ p \in Cluster
NewFirst(d, c, o, k, p) ==
  /\ Last(d, c, o, k, p) /\ TableIn(d)[p] >= EOC /\ TableIn(d)[c.cluster] = 0
  /\ c.queue = <<FatWrite(1, c.cluster, EOC), FatWrite(2, c.cluster, EOC),
                 FatWrite(1, p, c.cluster), FatWrite(2, p, c.cluster)>>
  /\ Sound(TableIn(d), HeadsIn(d) \cup {c.dir.first}) /\ CopiesBut(d, {})
Marked(d, c, o, k, p) ==
  /\ Last(d, c, o, k, p) /\ TableIn(d)[p] >= EOC /\ TableIn(d)[c.cluster] = EOC
  /\ c.cluster \notin HeadsIn(d) \cup {c.dir.first}
  /\ Sound(TableIn(d), (HeadsIn(d) \cup {c.dir.first}) \cup {c.cluster})
NewSecond(d, c, o, k, p) ==
  /\ Marked(d, c, o, k, p) /\ CopiesBut(d, {FatSector(c.cluster)})
  /\ c.queue = <<FatWrite(2, c.cluster, EOC), FatWrite(1, p, c.cluster), FatWrite(2, p, c.cluster)>>
LinkFirst(d, c, o, k, p) ==
  /\ Marked(d, c, o, k, p) /\ CopiesBut(d, {})
  /\ c.queue = <<FatWrite(1, p, c.cluster), FatWrite(2, p, c.cluster)>>
LinkSecond(d, c, o, k, p) ==
  /\ Last(d, c, o, k, p) /\ TableIn(d)[p] = c.cluster /\ CopiesBut(d, {FatSector(p)})
  /\ c.queue = <<FatWrite(2, p, c.cluster)>>
  /\ Sound(TableIn(d), HeadsIn(d) \cup {c.dir.first})
  /\ k + 1 \in 0 .. Clusters /\ ClustersFrom(TableIn(d), c.dir.first)[k + 1] = c.cluster
Linking(d, c, o) ==
  \E k \in 0 .. Clusters, p \in Cluster :
    NewFirst(d, c, o, k, p) \/ NewSecond(d, c, o, k, p) \/ LinkFirst(d, c, o, k, p) \/ LinkSecond(d, c, o, k, p)

Phase(d, c, o) ==
  \/ Going(d, c, o) \/ Putting(d, c, o) \/ Ending(d, c, o) \/ Ended(d, c, o)
  \/ MarkFirst(d, c, o) \/ MarkSecond(d, c, o) \/ Linking(d, c, o)
CallSound(d, c, o, ct) ==
  CallTyped(c, o) /\ HeadKnown(d, c) /\ CallBytes(d, c, o, ct) /\ Phase(d, c, o)
OthersHave(d, c, o, ct) == \A at \in DOMAIN o \ {c.at} : FileHas(d, ct, at)
OpenTyped(o, ct) ==
  /\ DOMAIN o \subseteq Entries /\ DOMAIN ct = DOMAIN o
  /\ \A at \in DOMAIN o : o[at] \in Nat /\ DOMAIN ct[at] = 0 .. MaxPos - 1

\* After a write.
Flushed(c) == [c EXCEPT !.queue = Tail(@)]
\* The call has one write less.
LEMMA FlushedIs ==
  ASSUME NEW c \in Call, c.queue # <<>>, NEW b, b = Flushed(c)
  PROVE  /\ b \in Call /\ b.queue = Tail(c.queue)
         /\ b.at = c.at /\ b.n = c.n /\ b.v = c.v /\ b.dir = c.dir /\ b.cluster = c.cluster
         /\ b.skip = c.skip /\ b.coff = c.coff /\ b.done = c.done /\ b.ending = c.ending
<1>1. c.queue \in Seq(SectorWrite)  BY DEF Call
<1>2. Tail(c.queue) \in Seq(SectorWrite)  BY <1>1
<1>3. b = [c EXCEPT !.queue = Tail(c.queue)]  BY DEF Flushed, Call
<1> HIDE DEF Flushed
<1> QED  BY <1>2, <1>3 DEF Call

\* It is still a call.
LEMMA FlushedTyped ==
  ASSUME NEW c, NEW o, CallTyped(c, o), c.queue # <<>>, NEW b, b = Flushed(c)
  PROVE  CallTyped(b, o) /\ (\A k : Place(c, o, k) => Place(b, o, k)) /\ b.queue = Tail(c.queue)
         /\ b.at = c.at /\ b.dir = c.dir /\ b.cluster = c.cluster /\ b.ending = c.ending /\ b.done = c.done
         /\ b.skip = c.skip /\ b.v = c.v /\ b.n = c.n /\ b.coff = c.coff
         /\ FinalDir(b, o) = FinalDir(c, o) /\ (\A ct, p : Want(b, o, ct, p) = Want(c, o, ct, p))
<1>1. /\ b \in Call /\ b.queue = Tail(c.queue)
      /\ b.at = c.at /\ b.n = c.n /\ b.v = c.v /\ b.dir = c.dir /\ b.cluster = c.cluster
      /\ b.skip = c.skip /\ b.coff = c.coff /\ b.done = c.done /\ b.ending = c.ending
  BY FlushedIs DEF CallTyped
<1>2. CallTyped(b, o)  BY <1>1 DEF CallTyped
<1>3. \A k : Place(c, o, k) => Place(b, o, k)  BY <1>1 DEF Place
<1>4. FinalDir(b, o) = FinalDir(c, o)  BY <1>1 DEF FinalDir
<1>5. \A ct, p : Want(b, o, ct, p) = Want(c, o, ct, p)  BY <1>1 DEF Want
<1> QED  BY <1>1, <1>2, <1>3, <1>4, <1>5

\* A file that has no cluster has no bytes.
LEMMA NoBytesYet ==
  ASSUME NEW d, DiskSound(d), NEW c, NEW o, NEW ct, CallTyped(c, o), CallBytes(d, c, o, ct),
         EntryIn(d, c.at).first = 0, c.done = 0
  PROVE  /\ EntryIn(d, c.at).size = 0
         /\ \A p \in 0 .. MaxPos - 1 : ct[c.at][p] = NONE /\ Want(c, o, ct, p) = NONE
<1>1. EntryIn(d, c.at) \in DirEntry  BY EntryTyped, EntryIs DEF DiskSound, CallTyped
<1>2. EntryIn(d, c.at).size \in Nat  BY <1>1 DEF DirEntry
<1>3. LongEnough(TableIn(d), 0, EntryIn(d, c.at).size)  BY DEF DiskSound, CallTyped
<1>4. EntryIn(d, c.at).size = 0  BY <1>2, <1>3, EmptyWithoutChain
<1>5. ASSUME NEW p \in 0 .. MaxPos - 1 PROVE ct[c.at][p] = NONE /\ Want(c, o, ct, p) = NONE
  <2>1. ct[c.at][p] = NONE  BY <1>4 DEF CallBytes
  <2>2. p \notin o[c.at] .. o[c.at] + c.done - 1  BY DEF CallTyped
  <2> QED  BY <2>1, <2>2 DEF Want
<1> QED  BY <1>4, <1>5

TableWrite(d, e) ==
  /\ Typed(e) /\ SameEntries(d, e) /\ SameBytes(d, e) /\ TableSound(TableIn(e), HeadsIn(d))
  /\ \A f \in HeadsIn(d) : Grows(TableIn(d), TableIn(e), f)
Known(d, c, o, ct) == CallTyped(c, o) /\ HeadKnown(d, c) /\ OthersHave(d, c, o, ct) /\ SizeIs(d, c)
\* A write to the table leaves the disk sound and the call known.
LEMMA TableFlush ==
  ASSUME NEW d, NEW e, DiskSound(d), TableWrite(d, e),
         NEW c, NEW o, NEW ct, Known(d, c, o, ct), OpenTyped(o, ct), c.queue # <<>>, NEW b, b = Flushed(c)
  PROVE  /\ DiskSound(e) /\ HeadsIn(e) = HeadsIn(d) /\ Known(e, b, o, ct)
         /\ EntryIn(e, b.at) = EntryIn(d, c.at)
<1>1. b.at = c.at /\ b.dir = c.dir /\ CallTyped(b, o)  BY FlushedTyped DEF Known
<1>2. DiskSound(e) /\ HeadsIn(e) = HeadsIn(d)
      /\ \A at \in Entries : FileHas(d, ct, at) => FileHas(e, ct, at)
  BY TableStep DEF TableWrite
<1>3. \A at \in Entries : EntryIn(e, at) = EntryIn(d, at)  BY EntryIs DEF SameEntries, TableWrite
<1>4. c.at \in Entries  BY DEF CallTyped, Known
<1>5. HeadKnown(e, b) /\ SizeIs(e, b)  BY <1>1, <1>3, <1>4 DEF HeadKnown, SizeIs, Known
<1>6. OthersHave(e, b, o, ct)  BY <1>1, <1>2 DEF OthersHave, OpenTyped, Known
<1> QED  BY <1>1, <1>2, <1>3, <1>4, <1>5, <1>6 DEF Known

\* What the call wrote stays where its chain only grows.
LEMMA BytesFlush ==
  ASSUME NEW d, NEW e, DiskSound(d), SameEntries(d, e), SameBytes(d, e),
         NEW c, NEW o, NEW ct, CallTyped(c, o), HeadKnown(d, c), CallBytes(d, c, o, ct),
         c.queue # <<>>, Head(c.queue).to = "fat", NEW b, b = Flushed(c),
         NEW heads, TableSound(TableIn(d), heads), HeadsIn(d) \cup {c.dir.first} \subseteq heads,
         Grows(TableIn(d), TableIn(e), c.dir.first)
  PROVE  CallBytes(e, b, o, ct)
<1>0. b.at = c.at /\ b.dir = c.dir /\ b.done = c.done /\ b.v = c.v  BY FlushedTyped
<1>1. \A p : Want(b, o, ct, p) = Want(c, o, ct, p)  BY <1>0 DEF Want
<1>2. EntryIn(e, c.at) = EntryIn(d, c.at)  BY EntryIs DEF SameEntries, CallTyped
<1>3. LateBytes(c, o) = {}  BY DEF LateBytes
<1> SUFFICES ASSUME NEW p \in 0 .. MaxPos - 1
             PROVE  /\ ct[c.at][p] # NONE => p < EntryIn(d, c.at).size
                    /\ Want(c, o, ct, p) # NONE => Holds(e, c.dir.first, p, Want(c, o, ct, p))
  BY <1>0, <1>1, <1>2 DEF CallBytes
<1>4. ct[c.at][p] # NONE => p < EntryIn(d, c.at).size  BY DEF CallBytes
<1>5. ASSUME Want(c, o, ct, p) # NONE PROVE Holds(e, c.dir.first, p, Want(c, o, ct, p))
  <2>1. Holds(d, c.dir.first, p, Want(c, o, ct, p))  BY <1>3, <1>5 DEF CallBytes
  <2>2. p \in Nat  BY Numbers
  <2> QED  BY <2>1, <2>2, HoldsStays
<1> QED  BY <1>4, <1>5

\* A sector of the queue reaches the disk, phase by phase.
Gives(e, b, o, ct) == DiskSound(e) /\ CallSound(e, b, o, ct) /\ OthersHave(e, b, o, ct)

LEMMA MarkFirstFlushed ==
  ASSUME NEW d, DiskSound(d), NEW c, NEW o, NEW ct, CallSound(d, c, o, ct), OpenTyped(o, ct),
         OthersHave(d, c, o, ct), MarkFirst(d, c, o),
         NEW e, e = After(d, Head(c.queue)), NEW b, b = Flushed(c)
  PROVE  Gives(e, b, o, ct)
<1> DEFINE t == TableIn(d)  u == TableIn(e)  n == c.cluster
<1>0. /\ CallTyped(c, o) /\ HeadKnown(d, c) /\ CallBytes(d, c, o, ct) /\ Starting(d, c, o)
      /\ c.queue = <<FatWrite(1, n, EOC), FatWrite(2, n, EOC)>>
      /\ t[n] = 0 /\ Sound(t, HeadsIn(d)) /\ CopiesBut(d, {})
  BY DEF CallSound, MarkFirst
<1>1. /\ c.queue # <<>> /\ Head(c.queue) = FatWrite(1, n, EOC) /\ Tail(c.queue) = <<FatWrite(2, n, EOC)>>
      /\ n = c.dir.first /\ n \in Cluster
  BY <1>0 DEF Starting, HeadKnown
<1>2. Typed(d) /\ EOC \in Nat  BY Numbers DEF DiskSound
<1>3. /\ Typed(e) /\ SameEntries(d, e) /\ SameBytes(d, e) /\ Sets(t, u, n, EOC) /\ CopiesBut(e, {FatSector(n)})
  BY <1>0, <1>1, <1>2, FirstCopyWritten
<1>4. /\ Sound(u, HeadsIn(d) \cup {n}) /\ u[n] = EOC
      /\ \A f \in HeadsIn(d) : Grows(t, u, f)
  BY <1>0, <1>1, <1>3, MarkSound
<1>5. TableSound(u, HeadsIn(d))  BY <1>4, FewerHeads DEF Sound
<1>k. Known(d, c, o, ct)  BY <1>0 DEF Known, Starting
<1>w. TableWrite(d, e)  BY <1>3, <1>4, <1>5 DEF TableWrite
<1>6. /\ DiskSound(e) /\ HeadsIn(e) = HeadsIn(d) /\ Known(e, b, o, ct)
      /\ EntryIn(e, b.at) = EntryIn(d, c.at)
  BY <1>k, <1>w, <1>1, TableFlush
<1>s. CallTyped(b, o) /\ HeadKnown(e, b) /\ OthersHave(e, b, o, ct) /\ SizeIs(e, b)  BY <1>6 DEF Known
<1>7. b.at = c.at /\ b.dir = c.dir /\ b.cluster = n /\ b.ending = c.ending /\ b.done = c.done /\ b.v = c.v
      /\ b.queue = <<FatWrite(2, n, EOC)>> /\ (Place(c, o, 0) => Place(b, o, 0))
  BY <1>0, <1>1, FlushedTyped
<1>8. CallBytes(e, b, o, ct)
  <2>1. /\ EntryIn(d, c.at).size = 0
        /\ \A p \in 0 .. MaxPos - 1 : ct[c.at][p] = NONE /\ Want(c, o, ct, p) = NONE
    BY <1>0, NoBytesYet DEF Starting
  <2>2. \A p \in 0 .. MaxPos - 1 : ct[b.at][p] = NONE /\ Want(b, o, ct, p) = NONE
    BY <1>7, <2>1 DEF Want
  <2> QED  BY <2>2 DEF CallBytes
<1>9. MarkSecond(e, b, o)
  BY <1>0, <1>1, <1>3, <1>4, <1>6, <1>s, <1>7 DEF MarkSecond, Starting
<1> QED  BY <1>6, <1>s, <1>8, <1>9 DEF Gives, CallSound, Phase

LEMMA MarkSecondFlushed ==
  ASSUME NEW d, DiskSound(d), NEW c, NEW o, NEW ct, CallSound(d, c, o, ct), OpenTyped(o, ct),
         OthersHave(d, c, o, ct), MarkSecond(d, c, o),
         NEW e, e = After(d, Head(c.queue)), NEW b, b = Flushed(c)
  PROVE  Gives(e, b, o, ct)
<1> DEFINE t == TableIn(d)  u == TableIn(e)  n == c.cluster
<1>0. /\ CallTyped(c, o) /\ HeadKnown(d, c) /\ CallBytes(d, c, o, ct) /\ Starting(d, c, o)
      /\ c.queue = <<FatWrite(2, n, EOC)>>
      /\ t[n] = EOC /\ Sound(t, HeadsIn(d) \cup {c.dir.first}) /\ CopiesBut(d, {FatSector(n)})
  BY DEF CallSound, MarkSecond
<1>1. /\ c.queue # <<>> /\ Head(c.queue) = FatWrite(2, n, EOC) /\ Tail(c.queue) = <<>>
      /\ n = c.dir.first /\ n \in Cluster
  BY <1>0 DEF Starting, HeadKnown
<1>2. Typed(d) /\ EOC \in Nat  BY Numbers DEF DiskSound
<1>3. /\ Typed(e) /\ SameEntries(d, e) /\ SameBytes(d, e) /\ u = t /\ CopiesBut(e, {})
  BY <1>0, <1>1, <1>2, SecondCopyWritten
<1>4. TableSound(u, HeadsIn(d)) /\ (\A f : Grows(t, u, f))  BY <1>3, GrowsSame DEF DiskSound
<1>k. Known(d, c, o, ct)  BY <1>0 DEF Known, Starting
<1>w. TableWrite(d, e)  BY <1>3, <1>4 DEF TableWrite
<1>6. /\ DiskSound(e) /\ HeadsIn(e) = HeadsIn(d) /\ Known(e, b, o, ct)
      /\ EntryIn(e, b.at) = EntryIn(d, c.at)
  BY <1>k, <1>w, <1>1, TableFlush
<1>s. CallTyped(b, o) /\ HeadKnown(e, b) /\ OthersHave(e, b, o, ct) /\ SizeIs(e, b)  BY <1>6 DEF Known
<1>7. b.at = c.at /\ b.dir = c.dir /\ b.cluster = n /\ b.ending = c.ending /\ b.done = c.done /\ b.v = c.v
      /\ b.queue = <<>> /\ (Place(c, o, 0) => Place(b, o, 0))
  BY <1>0, <1>1, FlushedTyped
<1>8. CallBytes(e, b, o, ct)
  <2>1. /\ EntryIn(d, c.at).size = 0
        /\ \A p \in 0 .. MaxPos - 1 : ct[c.at][p] = NONE /\ Want(c, o, ct, p) = NONE
    BY <1>0, NoBytesYet DEF Starting
  <2>2. \A p \in 0 .. MaxPos - 1 : ct[b.at][p] = NONE /\ Want(b, o, ct, p) = NONE
    BY <1>7, <2>1 DEF Want
  <2> QED  BY <2>2 DEF CallBytes
<1>9. Settled(e, b, o)
  <2>1. 0 \in 0 .. Clusters /\ ClustersFrom(u, b.dir.first)[0] = b.cluster  BY <1>1, <1>7, HeadIsFirst
  <2> QED  BY <1>0, <1>3, <1>6, <1>s, <1>7, <2>1 DEF Settled, Starting
<1>10. Going(e, b, o)  BY <1>0, <1>6, <1>s, <1>7, <1>9 DEF Going, Starting
<1> QED  BY <1>6, <1>s, <1>8, <1>10 DEF Gives, CallSound, Phase

LEMMA NewFirstFlushed ==
  ASSUME NEW d, DiskSound(d), NEW c, NEW o, NEW ct, CallSound(d, c, o, ct), OpenTyped(o, ct),
         OthersHave(d, c, o, ct), NEW k \in 0 .. Clusters, NEW p \in Cluster, NewFirst(d, c, o, k, p),
         NEW e, e = After(d, Head(c.queue)), NEW b, b = Flushed(c)
  PROVE  Gives(e, b, o, ct)
<1> DEFINE t == TableIn(d)  u == TableIn(e)  n == c.cluster
           all == HeadsIn(d) \cup {c.dir.first}
<1>0. /\ CallTyped(c, o) /\ HeadKnown(d, c) /\ CallBytes(d, c, o, ct) /\ Last(d, c, o, k, p)
      /\ c.queue = <<FatWrite(1, n, EOC), FatWrite(2, n, EOC), FatWrite(1, p, n), FatWrite(2, p, n)>>
      /\ t[n] = 0 /\ t[p] >= EOC /\ Sound(t, all) /\ CopiesBut(d, {})
  BY DEF CallSound, NewFirst
<1>1. /\ c.queue # <<>> /\ Head(c.queue) = FatWrite(1, n, EOC)
      /\ Tail(c.queue) = <<FatWrite(2, n, EOC), FatWrite(1, p, n), FatWrite(2, p, n)>>
      /\ n \in Cluster
  BY <1>0 DEF CallTyped, Call
<1>2. Typed(d) /\ EOC \in Nat /\ EOC # 0  BY Numbers DEF DiskSound, EOC
<1>3. /\ Typed(e) /\ SameEntries(d, e) /\ SameBytes(d, e) /\ Sets(t, u, n, EOC) /\ CopiesBut(e, {FatSector(n)})
  BY <1>0, <1>1, <1>2, FirstCopyWritten
<1>a. Sound(t, all) /\ t[n] = 0 /\ n \in Cluster /\ Sets(t, u, n, EOC)  BY <1>0, <1>1, <1>3
<1> HIDE DEF t, u, n, all
<1>4. /\ Sound(u, all \cup {n}) /\ u[n] = EOC /\ n \notin all
      /\ \A f \in all : Grows(t, u, f)
  BY <1>a, MarkSound
<1> USE DEF t, u, n, all
<1>5. TableSound(u, HeadsIn(d)) /\ c.dir.first \in all  BY <1>4, FewerHeads DEF Sound
<1>k. Known(d, c, o, ct)  BY <1>0 DEF Known, Last
<1>w. TableWrite(d, e)  BY <1>3, <1>4, <1>5 DEF TableWrite
<1>6. /\ DiskSound(e) /\ HeadsIn(e) = HeadsIn(d) /\ Known(e, b, o, ct)
      /\ EntryIn(e, b.at) = EntryIn(d, c.at)
  BY <1>k, <1>w, <1>1, TableFlush
<1>s. CallTyped(b, o) /\ HeadKnown(e, b) /\ OthersHave(e, b, o, ct) /\ SizeIs(e, b)  BY <1>6 DEF Known
<1>7. b.at = c.at /\ b.dir = c.dir /\ b.cluster = n /\ b.ending = c.ending
      /\ b.queue = <<FatWrite(2, n, EOC), FatWrite(1, p, n), FatWrite(2, p, n)>>
      /\ (Place(c, o, k + 1) => Place(b, o, k + 1))
  BY <1>0, <1>1, FlushedTyped
<1>8. CallBytes(e, b, o, ct)
  <2>1. Head(c.queue).to = "fat"  BY <1>1 DEF FatWrite
  <2> QED  BY <1>0, <1>1, <1>3, <1>4, <1>5, <2>1, BytesFlush DEF Sound
<1>9. Marked(e, b, o, k, p)
  <2>1. p # n /\ u[p] = t[p]  BY <1>0, <1>2, <1>3, Numbers DEF Sets
  <2>2. ClustersFrom(u, b.dir.first)[k] = p  BY <1>0, <1>4, <1>5, <1>7 DEF Last, Grows
  <2> QED  BY <1>0, <1>4, <1>6, <1>s, <1>7, <2>1, <2>2 DEF Marked, Last
<1>10. NewSecond(e, b, o, k, p)  BY <1>3, <1>7, <1>9 DEF NewSecond
<1> QED  BY <1>6, <1>s, <1>8, <1>10 DEF Gives, CallSound, Phase, Linking

LEMMA NewSecondFlushed ==
  ASSUME NEW d, DiskSound(d), NEW c, NEW o, NEW ct, CallSound(d, c, o, ct), OpenTyped(o, ct),
         OthersHave(d, c, o, ct), NEW k \in 0 .. Clusters, NEW p \in Cluster, NewSecond(d, c, o, k, p),
         NEW e, e = After(d, Head(c.queue)), NEW b, b = Flushed(c)
  PROVE  Gives(e, b, o, ct)
<1> DEFINE t == TableIn(d)  u == TableIn(e)  n == c.cluster
           all == (HeadsIn(d) \cup {c.dir.first}) \cup {n}
<1>0. /\ CallTyped(c, o) /\ HeadKnown(d, c) /\ CallBytes(d, c, o, ct) /\ Last(d, c, o, k, p) /\ Marked(d, c, o, k, p)
      /\ c.queue = <<FatWrite(2, n, EOC), FatWrite(1, p, n), FatWrite(2, p, n)>>
      /\ t[n] = EOC /\ Sound(t, all) /\ CopiesBut(d, {FatSector(n)})
  BY DEF CallSound, NewSecond, Marked
<1>1. /\ c.queue # <<>> /\ Head(c.queue) = FatWrite(2, n, EOC)
      /\ Tail(c.queue) = <<FatWrite(1, p, n), FatWrite(2, p, n)>>
      /\ n \in Cluster
  BY <1>0 DEF CallTyped, Call
<1>2. Typed(d) /\ EOC \in Nat  BY Numbers DEF DiskSound
<1>3. /\ Typed(e) /\ SameEntries(d, e) /\ SameBytes(d, e) /\ u = t /\ CopiesBut(e, {})
  BY <1>0, <1>1, <1>2, SecondCopyWritten
<1>4. TableSound(u, HeadsIn(d)) /\ (\A f : Grows(t, u, f))  BY <1>3, GrowsSame DEF DiskSound
<1>k. Known(d, c, o, ct)  BY <1>0 DEF Known, Last
<1>w. TableWrite(d, e)  BY <1>3, <1>4 DEF TableWrite
<1>6. /\ DiskSound(e) /\ HeadsIn(e) = HeadsIn(d) /\ Known(e, b, o, ct)
      /\ EntryIn(e, b.at) = EntryIn(d, c.at)
  BY <1>k, <1>w, <1>1, TableFlush
<1>s. CallTyped(b, o) /\ HeadKnown(e, b) /\ OthersHave(e, b, o, ct) /\ SizeIs(e, b)  BY <1>6 DEF Known
<1>7. b.at = c.at /\ b.dir = c.dir /\ b.cluster = n /\ b.ending = c.ending
      /\ b.queue = <<FatWrite(1, p, n), FatWrite(2, p, n)>>
      /\ (Place(c, o, k + 1) => Place(b, o, k + 1))
  BY <1>0, <1>1, FlushedTyped
<1>8. CallBytes(e, b, o, ct)
  <2>1. Head(c.queue).to = "fat"  BY <1>1 DEF FatWrite
  <2> QED  BY <1>0, <1>1, <1>3, <1>4, <2>1, BytesFlush DEF Sound
<1>9. Marked(e, b, o, k, p)
  BY <1>0, <1>3, <1>6, <1>s, <1>7 DEF Marked, Last
<1>10. LinkFirst(e, b, o, k, p)  BY <1>3, <1>7, <1>9 DEF LinkFirst
<1> QED  BY <1>6, <1>s, <1>8, <1>10 DEF Gives, CallSound, Phase, Linking

LEMMA LinkFirstFlushed ==
  ASSUME NEW d, DiskSound(d), NEW c, NEW o, NEW ct, CallSound(d, c, o, ct), OpenTyped(o, ct),
         OthersHave(d, c, o, ct), NEW k \in 0 .. Clusters, NEW p \in Cluster, LinkFirst(d, c, o, k, p),
         NEW e, e = After(d, Head(c.queue)), NEW b, b = Flushed(c)
  PROVE  Gives(e, b, o, ct)
<1> DEFINE t == TableIn(d)  u == TableIn(e)  n == c.cluster  h == c.dir.first
           all == HeadsIn(d) \cup {h}
<1>0. /\ CallTyped(c, o) /\ HeadKnown(d, c) /\ CallBytes(d, c, o, ct) /\ Last(d, c, o, k, p)
      /\ c.queue = <<FatWrite(1, p, n), FatWrite(2, p, n)>>
      /\ t[n] = EOC /\ t[p] >= EOC /\ n \notin all /\ Sound(t, all \cup {n}) /\ CopiesBut(d, {})
  BY DEF CallSound, LinkFirst, Marked
<1>1. /\ c.queue # <<>> /\ Head(c.queue) = FatWrite(1, p, n)
      /\ Tail(c.queue) = <<FatWrite(2, p, n)>>
      /\ n \in Cluster /\ n \in Nat /\ h \in all /\ ClustersFrom(t, h)[k] = p
  BY <1>0 DEF CallTyped, Call, Cluster, Last
<1>2. Typed(d)  BY DEF DiskSound
<1>3. /\ Typed(e) /\ SameEntries(d, e) /\ SameBytes(d, e) /\ Sets(t, u, p, n) /\ CopiesBut(e, {FatSector(p)})
  BY <1>0, <1>1, <1>2, FirstCopyWritten
<1>a. Links(t, u, all, n, h, k, p)  BY <1>0, <1>1, <1>3 DEF Links
<1> HIDE DEF t, u, n, h, all
<1>4. /\ Sound(u, all) /\ u[p] = n /\ (\A f \in all : Grows(t, u, f))
      /\ k + 1 \in 0 .. Clusters /\ ClustersFrom(u, h)[k + 1] = n
  BY <1>a, LinkSound
<1> USE DEF t, u, n, h, all
<1>5. TableSound(u, HeadsIn(d))  BY <1>4, FewerHeads DEF Sound
<1>k. Known(d, c, o, ct)  BY <1>0 DEF Known, Last
<1>w. TableWrite(d, e)  BY <1>3, <1>4, <1>5 DEF TableWrite
<1>6. /\ DiskSound(e) /\ HeadsIn(e) = HeadsIn(d) /\ Known(e, b, o, ct)
      /\ EntryIn(e, b.at) = EntryIn(d, c.at)
  BY <1>k, <1>w, <1>1, TableFlush
<1>s. CallTyped(b, o) /\ HeadKnown(e, b) /\ OthersHave(e, b, o, ct) /\ SizeIs(e, b)  BY <1>6 DEF Known
<1>7. b.at = c.at /\ b.dir = c.dir /\ b.cluster = n /\ b.ending = c.ending
      /\ b.queue = <<FatWrite(2, p, n)>>
      /\ (Place(c, o, k + 1) => Place(b, o, k + 1))
  <2>1. c.queue # <<>> /\ CallTyped(c, o)  BY <1>0, <1>1
  <2>2. /\ b.queue = Tail(c.queue) /\ b.at = c.at /\ b.dir = c.dir /\ b.cluster = c.cluster /\ b.ending = c.ending
        /\ (Place(c, o, k + 1) => Place(b, o, k + 1))
    BY <2>1, FlushedTyped
  <2> QED  BY <1>1, <2>2
<1>8. CallBytes(e, b, o, ct)
  <2>1. Head(c.queue).to = "fat"  BY <1>1 DEF FatWrite
  <2>2. TableSound(t, all \cup {n}) /\ HeadsIn(d) \cup {h} \subseteq all \cup {n} /\ Grows(t, u, h)
    BY <1>0, <1>1, <1>4 DEF Sound
  <2> QED  BY <1>0, <1>1, <1>3, <2>1, <2>2, BytesFlush
<1>9. Last(e, b, o, k, p)
  <2>1. ClustersFrom(u, b.dir.first)[k] = p  BY <1>1, <1>4, <1>7 DEF Grows
  <2> QED  BY <1>0, <1>6, <1>s, <1>7, <2>1 DEF Last
<1>10. LinkSecond(e, b, o, k, p)  BY <1>3, <1>4, <1>6, <1>s, <1>7, <1>9 DEF LinkSecond
<1> QED  BY <1>6, <1>s, <1>8, <1>10 DEF Gives, CallSound, Phase, Linking

LEMMA LinkSecondFlushed ==
  ASSUME NEW d, DiskSound(d), NEW c, NEW o, NEW ct, CallSound(d, c, o, ct), OpenTyped(o, ct),
         OthersHave(d, c, o, ct), NEW k \in 0 .. Clusters, NEW p \in Cluster, LinkSecond(d, c, o, k, p),
         NEW e, e = After(d, Head(c.queue)), NEW b, b = Flushed(c)
  PROVE  Gives(e, b, o, ct)
<1> DEFINE t == TableIn(d)  u == TableIn(e)  n == c.cluster
           all == HeadsIn(d) \cup {c.dir.first}
<1>0. /\ CallTyped(c, o) /\ HeadKnown(d, c) /\ CallBytes(d, c, o, ct) /\ Last(d, c, o, k, p)
      /\ c.queue = <<FatWrite(2, p, n)>>
      /\ t[p] = n /\ Sound(t, all) /\ CopiesBut(d, {FatSector(p)})
      /\ k + 1 \in 0 .. Clusters /\ ClustersFrom(t, c.dir.first)[k + 1] = n
  BY DEF CallSound, LinkSecond
<1>1. /\ c.queue # <<>> /\ Head(c.queue) = FatWrite(2, p, n)
      /\ Tail(c.queue) = <<>>
      /\ n \in Cluster /\ n \in Nat
  BY <1>0 DEF CallTyped, Call, Cluster
<1>2. Typed(d)  BY DEF DiskSound
<1>3. /\ Typed(e) /\ SameEntries(d, e) /\ SameBytes(d, e) /\ u = t /\ CopiesBut(e, {})
  BY <1>0, <1>1, <1>2, SecondCopyWritten
<1>4. TableSound(u, HeadsIn(d)) /\ (\A f : Grows(t, u, f))  BY <1>3, GrowsSame DEF DiskSound
<1>k. Known(d, c, o, ct)  BY <1>0 DEF Known, Last
<1>w. TableWrite(d, e)  BY <1>3, <1>4 DEF TableWrite
<1>6. /\ DiskSound(e) /\ HeadsIn(e) = HeadsIn(d) /\ Known(e, b, o, ct)
      /\ EntryIn(e, b.at) = EntryIn(d, c.at)
  BY <1>k, <1>w, <1>1, TableFlush
<1>s. CallTyped(b, o) /\ HeadKnown(e, b) /\ OthersHave(e, b, o, ct) /\ SizeIs(e, b)  BY <1>6 DEF Known
<1>7. b.at = c.at /\ b.dir = c.dir /\ b.cluster = n /\ b.ending = c.ending
      /\ b.queue = <<>>
      /\ (Place(c, o, k + 1) => Place(b, o, k + 1))
  BY <1>0, <1>1, FlushedTyped
<1>8. CallBytes(e, b, o, ct)
  <2>1. Head(c.queue).to = "fat"  BY <1>1 DEF FatWrite
  <2> QED  BY <1>0, <1>1, <1>3, <1>4, <2>1, BytesFlush DEF Sound
<1>9. Settled(e, b, o)
  BY <1>0, <1>3, <1>6, <1>s, <1>7 DEF Settled, Last
<1>10. Going(e, b, o)  BY <1>0, <1>6, <1>s, <1>7, <1>9 DEF Going, Last
<1> QED  BY <1>6, <1>s, <1>8, <1>10 DEF Gives, CallSound, Phase

\* The entry that write ends with.
LEMMA FinalDirIs ==
  ASSUME NEW c, NEW o, CallTyped(c, o)
  PROVE  /\ FinalDir(c, o) \in DirEntry /\ FinalDir(c, o).kind = c.dir.kind /\ FinalDir(c, o).first = c.dir.first
         /\ FinalDir(c, o).size \in {o[c.at] + c.done, c.dir.size}
         /\ FinalDir(c, o).size >= o[c.at] + c.done /\ FinalDir(c, o).size >= c.dir.size
         /\ o[c.at] + c.done \in Nat /\ c.dir.size \in Nat
<1> DEFINE end == o[c.at] + c.done
           size == IF end > c.dir.size THEN end ELSE c.dir.size
           dir == [c.dir EXCEPT !.size = size]
<1>1. c.dir \in DirEntry /\ c.done \in Nat /\ o[c.at] \in Nat  BY DEF CallTyped, Call
<1>2. end \in Nat /\ c.dir.size \in Nat  BY <1>1 DEF DirEntry
<1>3. size \in Nat /\ size \in {end, c.dir.size} /\ size >= end /\ size >= c.dir.size  BY <1>2
<1> HIDE DEF size
<1>4. dir \in DirEntry /\ dir.kind = c.dir.kind /\ dir.first = c.dir.first /\ dir.size = size
  BY <1>1, <1>3 DEF DirEntry
<1>5. FinalDir(c, o) = dir  BY DEF FinalDir, size
<1> QED  BY <1>2, <1>3, <1>4, <1>5

\* The bytes of a sector.
LEMMA PuttingFlushed ==
  ASSUME NEW d, DiskSound(d), NEW c, NEW o, NEW ct, CallSound(d, c, o, ct), OpenTyped(o, ct),
         OthersHave(d, c, o, ct), Putting(d, c, o), ~Tears(c, Head(c.queue)),
         NEW e, e = After(d, Head(c.queue)), NEW b, b = Flushed(c)
  PROVE  Gives(e, b, o, ct)
<1> DEFINE h == c.dir.first
<1>0. CallTyped(c, o) /\ HeadKnown(d, c) /\ CallBytes(d, c, o, ct)  BY DEF CallSound
<1>1. PICK lo \in 0 .. ClusterBytes - 1, m \in 0 .. c.done :
        lo + m = c.coff /\ (lo % SectorSize) + m <= SectorSize /\ c.queue = <<PutOf(c, lo, m)>>
  BY DEF Putting
<1>2. /\ Sound(TableIn(d), HeadsIn(d) \cup {h}) /\ CopiesBut(d, {}) /\ ~c.ending /\ SizeIs(d, c) /\ c.skip = 0
      /\ \E k \in 0 .. Clusters : ClustersFrom(TableIn(d), h)[k] = c.cluster /\ Place(c, o, k)
  BY DEF Putting, Settled
<1>3. PICK k \in 0 .. Clusters : ClustersFrom(TableIn(d), h)[k] = c.cluster /\ Place(c, o, k)  BY <1>2
<1>4. /\ c.cluster \in Cluster /\ c.done \in Nat /\ c.coff \in Nat /\ c.coff <= ClusterBytes /\ o[c.at] \in Nat
      /\ h \in Cluster /\ c.at \in Entries
  BY <1>0 DEF CallTyped, Call, HeadKnown
<1> DEFINE w == PutOf(c, lo, m)
           from == k * ClusterBytes + lo
           end == o[c.at] + c.done
<1>5. c.queue # <<>> /\ Head(c.queue) = w /\ Tail(c.queue) = <<>>  BY <1>1
<1>6. w.to = "data" /\ w.n = m /\ w = DataWrite(FirstSector(c.cluster) + lo \div SectorSize, lo % SectorSize, m, c.v)
  BY DEF PutOf, DataWrite
<1>7. from = end - m /\ from + m - 1 = end - 1 /\ from >= o[c.at] /\ from \in Nat
  <2>1. k * ClusterBytes \in Nat /\ k \in Nat  BY Areas, Numbers
  <2>2. (k + c.skip) * ClusterBytes = k * ClusterBytes  BY <1>2, <2>1
  <2>3. k * ClusterBytes + c.coff = end  BY <1>3, <2>2 DEF Place
  <2> DEFINE base == k * ClusterBytes
  <2>4. base + c.coff = end /\ base \in Nat  BY <2>1, <2>3
  <2>5. lo \in Nat /\ m \in Nat /\ m <= c.done /\ lo + m = c.coff  BY <1>1, <1>4, Areas
  <2> HIDE DEF base
  <2>6. base + lo = end - m /\ base + lo + m - 1 = end - 1 /\ base + lo >= o[c.at] /\ base + lo \in Nat
    BY <1>4, <2>4, <2>5
  <2> QED  BY <2>6 DEF base
<1>8. e = After(d, DataWrite(FirstSector(c.cluster) + lo \div SectorSize, lo % SectorSize, m, c.v))
  BY <1>5, <1>6
<1>9. m \in Nat /\ lo + m <= ClusterBytes /\ TableSound(TableIn(d), HeadsIn(d) \cup {h})
  BY <1>1, <1>2, <1>4 DEF Sound
<1>a. c.cluster \notin DirClusters
  <2> SUFFICES ASSUME c.cluster \in DirClusters PROVE FALSE  OBVIOUS
  <2>1. w.sector \in SectorsOf(c.cluster)  BY <1>4, <1>6, BytePlace DEF DataWrite
  <2>2. w.sector \in DirSectors  BY <2>1 DEF DirSectors
  <2>3. c.dir.kind # "dir"  BY <1>5, <1>6, <2>2 DEF Tears
  <2>4. h \notin Dirs /\ h \in HeadsIn(d) \cup {h} /\ Dirs \subseteq HeadsIn(d) \cup {h}
    <3>1. h \in {0} \cup (Cluster \ Dirs) /\ 0 \notin Cluster  BY <1>0, <2>3 DEF HeadKnown, HeadFits, Cluster
    <3> QED  BY <1>4, <3>1, HeadsAre
  <2> DEFINE all == HeadsIn(d) \cup {h}
  <2>5. TableSound(TableIn(d), all) /\ h \in all /\ Dirs \subseteq all /\ h \notin Dirs
        /\ \A f \in Dirs : Grows(T0, TableIn(d), f)
    BY <1>9, <2>4 DEF DiskSound
  <2>6. ClustersFrom(TableIn(d), h)[k] = c.cluster /\ ClustersFrom(TableIn(d), h)[k] \in Cluster  BY <1>3, <1>4
  <2> HIDE DEF all, h, w
  <2> QED  BY <2>5, <2>6, FileClusters
<1> HIDE DEF h, w
<1>10. /\ DiskSound(e) /\ HeadsIn(e) = HeadsIn(d) /\ SameTable(d, e) /\ SameEntries(d, e)
       /\ \A a \in Entries : EntryIn(d, a).first # h /\ FileHas(d, ct, a) => FileHas(e, ct, a)
       /\ \A p \in Nat : \A x : p \notin from .. from + m - 1 /\ Holds(d, h, p, x) => Holds(e, h, p, x)
       /\ \A p \in from .. from + m - 1 : Holds(e, h, p, c.v)
  <2>1. Puts(d, h, k, c.cluster, lo, m)  BY <1>1, <1>3, <1>4, <1>9, <1>a DEF Puts, h
  <2> QED  BY <1>8, <2>1, BytesStep
<1> HIDE DEF from
<1>11. /\ CallTyped(b, o) /\ b.queue = <<>> /\ b.at = c.at /\ b.dir = c.dir /\ b.cluster = c.cluster
       /\ b.ending = c.ending /\ b.done = c.done /\ b.v = c.v /\ Place(b, o, k)
  <2>1. CallTyped(b, o) /\ (\A i : Place(c, o, i) => Place(b, o, i)) /\ b.queue = Tail(c.queue)
         /\ b.at = c.at /\ b.dir = c.dir /\ b.cluster = c.cluster /\ b.ending = c.ending /\ b.done = c.done
         /\ b.v = c.v /\ b.skip = c.skip /\ b.coff = c.coff
    BY <1>0, <1>5, FlushedTyped
  <2>2. Place(b, o, k)  BY <1>3, <2>1 DEF Place
  <2> QED  BY <1>5, <2>1, <2>2
<1>12. \A a \in Entries : EntryIn(e, a) = EntryIn(d, a)  BY <1>10, EntryIs DEF SameEntries
<1>13. HeadKnown(e, b) /\ SizeIs(e, b)  BY <1>0, <1>2, <1>4, <1>11, <1>12 DEF HeadKnown, SizeIs
<1>14. OthersHave(e, b, o, ct)
  <2> SUFFICES ASSUME NEW a \in DOMAIN o \ {c.at} PROVE FileHas(e, ct, a)  BY <1>11 DEF OthersHave
  <2>1. a \in Entries /\ FileHas(d, ct, a)  BY DEF OthersHave, OpenTyped
  <2>2. EntryIn(d, a).first # h  BY <1>0, <2>1 DEF HeadKnown, h
  <2> QED  BY <1>10, <2>1, <2>2
<1>15. CallBytes(e, b, o, ct)
  <2>1. LateBytes(c, o) = from .. from + m - 1
    <3>0. Head(c.queue).n = m /\ Head(c.queue).to = "data" /\ c.queue # <<>>  BY <1>5, <1>6
    <3>1. LateBytes(c, o) = end - m .. end - 1  BY <3>0, <1>4, <1>9 DEF LateBytes
    <3> HIDE DEF end
    <3> QED  BY <1>7, <3>1
  <2> SUFFICES ASSUME NEW p \in 0 .. MaxPos - 1
               PROVE  /\ ct[c.at][p] # NONE => p < EntryIn(d, c.at).size
                      /\ Want(b, o, ct, p) # NONE => Holds(e, h, p, Want(b, o, ct, p))
    BY <1>4, <1>11, <1>12 DEF CallBytes, h
  <2>2. ct[c.at][p] # NONE => p < EntryIn(d, c.at).size  BY <1>0 DEF CallBytes
  <2>3. p \in Nat /\ Want(b, o, ct, p) = Want(c, o, ct, p)  BY <1>11, Numbers DEF Want
  <2>4. CASE p \in from .. from + m - 1
    <3>1. p \in o[c.at] .. o[c.at] + c.done - 1  BY <1>4, <1>7, <1>9, <2>4
    <3>2. Want(c, o, ct, p) = c.v  BY <3>1 DEF Want
    <3> QED  BY <1>10, <2>2, <2>3, <2>4, <3>2
  <2>5. CASE p \notin from .. from + m - 1
    <3>1. Want(c, o, ct, p) # NONE => Holds(d, h, p, Want(c, o, ct, p))  BY <1>0, <2>1, <2>5 DEF CallBytes, h
    <3> QED  BY <1>10, <2>2, <2>3, <2>5, <3>1
  <2> QED  BY <2>4, <2>5
<1>16. Going(e, b, o)
  <2>1. TableIn(e) = TableIn(d) /\ CopiesBut(e, {})  BY <1>2, <1>10, CopiesStay DEF SameTable
  <2>2. Settled(e, b, o)  BY <1>2, <1>3, <1>10, <1>11, <2>1 DEF Settled, h
  <2> QED  BY <1>2, <1>11, <1>13, <2>2 DEF Going
<1> QED  BY <1>10, <1>11, <1>13, <1>14, <1>15, <1>16 DEF Gives, CallSound, Phase

\* The file's entry.
LEMMA EndingFlushed ==
  ASSUME NEW d, DiskSound(d), NEW c, NEW o, NEW ct, CallSound(d, c, o, ct), OpenTyped(o, ct),
         OthersHave(d, c, o, ct), Ending(d, c, o),
         NEW e, e = After(d, Head(c.queue)), NEW b, b = Flushed(c)
  PROVE  Gives(e, b, o, ct)
<1> DEFINE h == c.dir.first  t == TableIn(d)  dir == FinalDir(c, o)  end == o[c.at] + c.done
<1>0. CallTyped(c, o) /\ HeadKnown(d, c) /\ CallBytes(d, c, o, ct)  BY DEF CallSound
<1>1. /\ Sound(t, HeadsIn(d) \cup {h}) /\ CopiesBut(d, {}) /\ c.ending /\ SizeIs(d, c)
      /\ c.queue = <<DirWrite(c.at, dir)>>
      /\ \E k \in 0 .. Clusters : ClustersFrom(t, h)[k] = c.cluster /\ Place(c, o, k)
  BY DEF Ending, Settled
<1>2. PICK k \in 0 .. Clusters : ClustersFrom(t, h)[k] = c.cluster /\ Place(c, o, k)  BY <1>1
<1>3. /\ c.cluster \in Cluster /\ c.done \in Nat /\ c.coff \in Nat /\ c.coff <= ClusterBytes /\ o[c.at] \in Nat
      /\ h \in Cluster /\ c.at \in Entries /\ c.skip = 0 /\ c.dir.kind = Dir0(c.at).kind /\ HeadFits(c.at, h)
  BY <1>0, <1>1 DEF CallTyped, Call, HeadKnown
<1>4. c.queue # <<>> /\ Head(c.queue) = DirWrite(c.at, dir) /\ Tail(c.queue) = <<>>  BY <1>1
<1>5. /\ dir \in DirEntry /\ dir.kind = Dir0(c.at).kind /\ dir.first = h
      /\ dir.size \in {end, c.dir.size} /\ dir.size >= end /\ dir.size >= c.dir.size
      /\ end \in Nat /\ c.dir.size \in Nat /\ dir.size \in Nat
  BY <1>0, <1>3, FinalDirIs
<1>6. LongEnough(t, h, dir.size)
  <2>1. CASE dir.size = c.dir.size
    <3>1. LongEnough(t, EntryIn(d, c.at).first, c.dir.size) /\ EntryIn(d, c.at).first \in {0, h}
      BY <1>0, <1>1, <1>3 DEF SizeIs, HeadKnown, DiskSound
    <3>2. CASE EntryIn(d, c.at).first = h  BY <2>1, <3>1, <3>2
    <3>3. CASE EntryIn(d, c.at).first = 0
      <4>1. dir.size = 0  BY <1>5, <2>1, <3>1, <3>3, EmptyWithoutChain
      <4> QED  BY <4>1 DEF LongEnough
    <3> QED  BY <3>1, <3>2, <3>3
  <2>2. CASE dir.size = end
    <3> SUFFICES ASSUME end > 0
                 PROVE  (end - 1) \div ClusterBytes <= Clusters /\ ClustersFrom(t, h)[(end - 1) \div ClusterBytes] \in Cluster
      BY <2>2 DEF LongEnough
    <3> HIDE DEF end
    <3>1. end - 1 \in Nat /\ k \in Nat /\ k + 1 \in Nat  BY <1>5, Numbers
    <3>2. end - 1 < (k + 1) * ClusterBytes
      <4>1. (k + c.skip) * ClusterBytes = k * ClusterBytes  BY <1>3, <3>1
      <4>2. k * ClusterBytes + c.coff = end  BY <1>2, <4>1 DEF Place, end
      <4>3. (k + 1) * ClusterBytes = k * ClusterBytes + ClusterBytes /\ k * ClusterBytes \in Nat  BY <3>1, Areas
      <4> DEFINE x == k * ClusterBytes
                 y == (k + 1) * ClusterBytes
      <4>4. x + c.coff = end /\ y = x + ClusterBytes /\ x \in Nat  BY <4>2, <4>3
      <4> HIDE DEF x, y
      <4>5. end - 1 < y  BY <1>3, <1>5, <4>4, Areas
      <4> QED  BY <4>5 DEF y
    <3>3. (end - 1) \div ClusterBytes \in 0 .. (k + 1) - 1  BY <3>1, <3>2, Areas, QuotientBelow
    <3> DEFINE j == (end - 1) \div ClusterBytes
    <3> HIDE DEF j
    <3>4. j \in 0 .. k  BY <3>1, <3>3 DEF j
    <3>5. ClustersFrom(t, h)[j] \in Cluster  BY <1>2, <1>3, <3>4, WalkBefore
    <3>6. j <= Clusters  BY <3>4, Numbers
    <3> QED  BY <3>5, <3>6 DEF j
  <2> QED  BY <1>5, <2>1, <2>2
<1>7. /\ Typed(e) /\ SameTable(d, e) /\ SameBytes(d, e)
      /\ \A a \in Entries : EntryIn(e, a) = IF a = c.at THEN dir ELSE EntryIn(d, a)
  <2>1. Typed(d) /\ e = After(d, DirWrite(c.at, dir))  BY <1>4 DEF DiskSound
  <2> HIDE DEF dir
  <2> QED  BY <1>3, <1>5, <2>1, EntryWritten
<1>8. /\ DiskSound(e) /\ HeadsIn(e) = HeadsIn(d) \cup {h}
      /\ \A a \in Entries : a # c.at /\ FileHas(d, ct, a) => FileHas(e, ct, a)
  <2>1. /\ dir.first \in Cluster /\ HeadFits(c.at, dir.first) /\ TableSound(TableIn(d), HeadsIn(d) \cup {dir.first})
        /\ EntryIn(d, c.at).first \in {0, dir.first} /\ LongEnough(TableIn(d), dir.first, dir.size)
        /\ \A a \in Entries : EntryIn(d, a).first = dir.first => a = c.at
    BY <1>0, <1>1, <1>3, <1>5, <1>6 DEF HeadKnown, Sound
  <2>2. dir.first = h  BY <1>5
  <2> HIDE DEF dir, h
  <2>3. /\ DiskSound(e) /\ HeadsIn(e) = HeadsIn(d) \cup {dir.first}
        /\ \A cu : \A a \in Entries : a # c.at /\ FileHas(d, cu, a) => FileHas(e, cu, a)
    BY <1>3, <1>5, <1>7, <2>1, EntryStep
  <2> QED  BY <2>2, <2>3
<1>9. /\ CallTyped(b, o) /\ b.queue = <<>> /\ b.at = c.at /\ b.dir = c.dir /\ b.cluster = c.cluster
      /\ b.ending = c.ending /\ b.done = c.done /\ b.v = c.v /\ Place(b, o, k) /\ FinalDir(b, o) = dir
  <2>1. CallTyped(b, o) /\ b.queue = Tail(c.queue)
         /\ b.at = c.at /\ b.dir = c.dir /\ b.cluster = c.cluster /\ b.ending = c.ending /\ b.done = c.done
         /\ b.v = c.v /\ b.skip = c.skip /\ b.coff = c.coff /\ FinalDir(b, o) = FinalDir(c, o)
    BY <1>0, <1>4, FlushedTyped
  <2>2. Place(b, o, k)  BY <1>2, <2>1 DEF Place
  <2> QED  BY <1>4, <2>1, <2>2
<1>10. HeadKnown(e, b)
  BY <1>0, <1>3, <1>5, <1>7, <1>9, EntryIs DEF HeadKnown
<1>11. OthersHave(e, b, o, ct)
  BY <1>8, <1>9 DEF OthersHave, OpenTyped
<1>12. CallBytes(e, b, o, ct)
  <2>1. LateBytes(c, o) = {}  BY <1>4 DEF LateBytes, DirWrite
  <2>2. EntryIn(e, c.at) = dir  BY <1>3, <1>7
  <2> SUFFICES ASSUME NEW p \in 0 .. MaxPos - 1
               PROVE  /\ ct[c.at][p] # NONE => p < dir.size
                      /\ Want(b, o, ct, p) # NONE => Holds(e, h, p, Want(b, o, ct, p))
    BY <1>9, <2>2 DEF CallBytes
  <2>3. p \in Nat /\ Want(b, o, ct, p) = Want(c, o, ct, p)  BY <1>9, Numbers DEF Want
  <2>4. ct[c.at][p] # NONE => p < dir.size
    <3>1. ct[c.at][p] # NONE => p < c.dir.size  BY <1>0, <1>1 DEF CallBytes, SizeIs
    <3> HIDE DEF dir
    <3> QED  BY <1>5, <2>3, <3>1
  <2>5. ASSUME Want(c, o, ct, p) # NONE PROVE Holds(e, h, p, Want(c, o, ct, p))
    <3>1. Holds(d, h, p, Want(c, o, ct, p))  BY <1>0, <2>1, <2>5 DEF CallBytes
    <3>2. Grows(TableIn(d), TableIn(e), h)  BY <1>7, GrowsSame DEF SameTable
    <3> HIDE DEF h
    <3> QED  BY <1>7, <2>3, <3>1, <3>2, HoldsStays
  <2> QED  BY <2>3, <2>4, <2>5
<1>13. Ended(e, b, o)
  <2>1. TableIn(e) = t /\ CopiesBut(e, {})  BY <1>1, <1>7, CopiesStay DEF SameTable
  <2>2. HeadsIn(e) \cup {h} = HeadsIn(d) \cup {h}  BY <1>8
  <2>3. Settled(e, b, o)  BY <1>1, <1>2, <1>9, <2>1, <2>2 DEF Settled
  <2>4. EntryIn(e, b.at) = FinalDir(b, o)  BY <1>3, <1>7, <1>9
  <2> QED  BY <1>1, <1>9, <2>3, <2>4 DEF Ended
<1> QED  BY <1>8, <1>9, <1>10, <1>11, <1>12, <1>13 DEF Gives, CallSound, Phase

\* Flush on a disk that takes it.
LEMMA FlushStep ==
  ASSUME NEW d, DiskSound(d), NEW c, NEW o, NEW ct, CallSound(d, c, o, ct), OpenTyped(o, ct),
         OthersHave(d, c, o, ct), c.queue # <<>>, ~Tears(c, Head(c.queue)),
         NEW e, e = After(d, Head(c.queue)), NEW b, b = Flushed(c)
  PROVE  Gives(e, b, o, ct)
<1>1. Phase(d, c, o) /\ ~Going(d, c, o) /\ ~Ended(d, c, o)  BY DEF CallSound, Going, Ended
<1>2. CASE Putting(d, c, o)  BY <1>2, PuttingFlushed
<1>3. CASE Ending(d, c, o)  BY <1>3, EndingFlushed
<1>4. CASE MarkFirst(d, c, o)  BY <1>4, MarkFirstFlushed
<1>5. CASE MarkSecond(d, c, o)  BY <1>5, MarkSecondFlushed
<1>6. CASE Linking(d, c, o)
  <2>1. PICK k \in 0 .. Clusters, p \in Cluster :
          NewFirst(d, c, o, k, p) \/ NewSecond(d, c, o, k, p) \/ LinkFirst(d, c, o, k, p) \/ LinkSecond(d, c, o, k, p)
    BY <1>6 DEF Linking
  <2>2. CASE NewFirst(d, c, o, k, p)  BY <2>2, NewFirstFlushed
  <2>3. CASE NewSecond(d, c, o, k, p)  BY <2>3, NewSecondFlushed
  <2>4. CASE LinkFirst(d, c, o, k, p)  BY <2>4, LinkFirstFlushed
  <2>5. CASE LinkSecond(d, c, o, k, p)  BY <2>5, LinkSecondFlushed
  <2> QED  BY <2>1, <2>2, <2>3, <2>4, <2>5
<1> QED  BY <1>1, <1>2, <1>3, <1>4, <1>5, <1>6 DEF Phase

-----------------------------------------------------------------------------
(* The steps of a call, on a disk that takes writes.                        *)

\* find_free_cluster finds a cluster that is in no chain.
LEMMA FreeClusterIs ==
  /\ FreeClusters = {c \in Cluster : TableIn(disk)[c] = 0}
  /\ FreeClusters = {} => FindFreeCluster = 0
  /\ FreeClusters # {} => FindFreeCluster \in Cluster /\ TableIn(disk)[FindFreeCluster] = 0 /\ FindFreeCluster # 0
<1>1. \A c \in Cluster : NextCluster(c) = TableIn(disk)[c]  BY DEF NextCluster, TableIn
<1>2. FreeClusters = {c \in Cluster : TableIn(disk)[c] = 0}  BY <1>1 DEF FreeClusters
<1>3. ASSUME FreeClusters # {} PROVE FindFreeCluster \in FreeClusters
  <2>1. FreeClusters \in SUBSET Nat  BY DEF FreeClusters, Cluster
  <2>2. \E c \in FreeClusters : \A e \in FreeClusters : c <= e  BY <1>3, <2>1, SmallestOf
  <2> QED  BY <1>3, <2>2 DEF FindFreeCluster
<1>4. FreeClusters = {} => FindFreeCluster = 0  BY DEF FindFreeCluster
<1>5. 0 \notin Cluster  BY DEF Cluster
<1> QED  BY <1>2, <1>3, <1>4, <1>5

\* Between calls, and whatever the call.
Between(d, o, ct) ==
  /\ Sound(TableIn(d), HeadsIn(d)) /\ CopiesBut(d, {})
  /\ \A at \in DOMAIN o : FileHas(d, ct, at)
Kept(d, c, o, ct) ==
  /\ OpenTyped(o, ct)
  /\ c = NONE => Between(d, o, ct)
  /\ c # NONE => CallSound(d, c, o, ct) /\ OthersHave(d, c, o, ct)

\* Kept, when there is no call,
LEMMA KeptBetween ==
  ASSUME NEW d, NEW o, NEW ct, OpenTyped(o, ct), Between(d, o, ct)
  PROVE  Kept(d, NONE, o, ct)
BY DEF Kept
\* and when there is one.
LEMMA KeptDuring ==
  ASSUME NEW d, NEW c, NEW o, NEW ct, OpenTyped(o, ct), CallSound(d, c, o, ct), OthersHave(d, c, o, ct)
  PROVE  Kept(d, c, o, ct)
<1>1. c \in Call  BY DEF CallSound, CallTyped
<1>2. c # NONE  BY <1>1, NoneAssumption
<1> QED  BY <1>2 DEF Kept

\* What a call without writes left is in.
LEMMA NothingQueued ==
  ASSUME NEW d, NEW c, NEW o, NEW ct, CallSound(d, c, o, ct), c.queue = <<>>
  PROVE  (~c.ending => Going(d, c, o)) /\ (c.ending => Ended(d, c, o)) /\ LateBytes(c, o) = {}
<1>1. ~Putting(d, c, o)  BY DEF Putting
<1>2. ~Ending(d, c, o)  BY DEF Ending
<1>3. ~MarkFirst(d, c, o) /\ ~MarkSecond(d, c, o)  BY DEF MarkFirst, MarkSecond
<1>4. ~Linking(d, c, o)  BY DEF Linking, NewFirst, NewSecond, LinkFirst, LinkSecond
<1>5. Going(d, c, o) \/ Ended(d, c, o)  BY <1>1, <1>2, <1>3, <1>4 DEF CallSound, Phase
<1>6. LateBytes(c, o) = {}  BY DEF LateBytes
<1> QED  BY <1>5, <1>6 DEF Going, Ended

\* A call that goes on with the same bytes.
Resumed(c, b) == b.at = c.at /\ b.dir = c.dir /\ b.done = c.done /\ b.v = c.v
LEMMA ResumedKeeps ==
  ASSUME NEW d, NEW c, NEW o, NEW ct, HeadKnown(d, c), CallBytes(d, c, o, ct), OthersHave(d, c, o, ct),
         LateBytes(c, o) = {}, NEW b, Resumed(c, b)
  PROVE  HeadKnown(d, b) /\ CallBytes(d, b, o, ct) /\ OthersHave(d, b, o, ct) /\ (SizeIs(d, c) => SizeIs(d, b))
<1>1. \A p : Want(b, o, ct, p) = Want(c, o, ct, p)  BY DEF Want, Resumed
<1>2. CallBytes(d, b, o, ct)
  <2> SUFFICES ASSUME NEW p \in 0 .. MaxPos - 1
               PROVE  /\ ct[c.at][p] # NONE => p < EntryIn(d, c.at).size
                      /\ Want(b, o, ct, p) # NONE => Holds(d, c.dir.first, p, Want(b, o, ct, p))
    BY DEF CallBytes, Resumed
  <2>1. p \notin LateBytes(c, o) /\ Want(b, o, ct, p) = Want(c, o, ct, p)  BY <1>1
  <2> QED  BY <2>1 DEF CallBytes
<1>3. HeadKnown(d, b)  BY DEF HeadKnown, Resumed
<1>4. OthersHave(d, b, o, ct) /\ (SizeIs(d, c) => SizeIs(d, b))  BY DEF OthersHave, SizeIs, Resumed
<1> QED  BY <1>2, <1>3, <1>4

\* ToNext: where a call is in the next cluster, or in a new one.
LEMMA NextOf ==
  ASSUME NEW d, NEW c, NEW o, CallTyped(c, o), HeadKnown(d, c), Settled(d, c, o)
  PROVE  /\ c.cluster \in Cluster /\ TableIn(d)[c.cluster] \in Nat
         /\ TableIn(d)[c.cluster] < EOC => TableIn(d)[c.cluster] \in Cluster
         /\ \E k \in 0 .. Clusters :
              /\ ClustersFrom(TableIn(d), c.dir.first)[k] = c.cluster /\ Place(c, o, k)
              /\ k + 1 \in 0 .. Clusters
              /\ ClustersFrom(TableIn(d), c.dir.first)[k + 1] = TableIn(d)[c.cluster]
<1> DEFINE t == TableIn(d)  h == c.dir.first  all == HeadsIn(d) \cup {h}
<1>1. PICK k \in 0 .. Clusters : ClustersFrom(t, h)[k] = c.cluster /\ Place(c, o, k)  BY DEF Settled
<1>2. c.cluster \in Cluster /\ h \in all /\ TableSound(t, all)  BY DEF CallTyped, Call, Settled, Sound
<1>3. t[c.cluster] # 0 /\ k < Clusters
  <2>1. ~(c.cluster >= EOC)  BY <1>2, Numbers DEF Cluster
  <2> HIDE DEF t, h, all
  <2> QED  BY <1>1, <1>2, <2>1, SoundWalk, ChainEnds
<1>4. t[c.cluster] \in Cluster \/ (t[c.cluster] \in Nat /\ t[c.cluster] >= EOC)
  BY <1>2, <1>3 DEF TableSound
<1>5. PICK m \in 1 .. Clusters : m = k + 1 /\ m - 1 = k  BY <1>3, Numbers
<1>6. ClustersFrom(t, h)[m] = t[c.cluster]
  <2>1. ClustersFrom(t, h)[m] = Follow(t, ClustersFrom(t, h)[m - 1])  BY WalkIs
  <2> QED  BY <1>1, <1>2, <1>5, <2>1 DEF Follow
<1>7. m \in 0 .. Clusters  BY Numbers
<1>8. t[c.cluster] \in Nat /\ (t[c.cluster] \in Cluster <=> t[c.cluster] < EOC)
  BY <1>4, Numbers DEF Cluster
<1> QED  BY <1>1, <1>2, <1>4, <1>5, <1>6, <1>7, <1>8

\* To the next cluster of the chain.
LEMMA ToItsNext ==
  ASSUME NEW d, NEW c, NEW o, NEW ct, OthersHave(d, c, o, ct), CallSound(d, c, o, ct), c.queue = <<>>, ~c.ending,
         TableIn(d)[c.cluster] < EOC,
         NEW b, Resumed(c, b), CallTyped(b, o), b.queue = <<>>, ~b.ending, b.cluster = TableIn(d)[c.cluster],
         \A k \in Nat : Place(c, o, k) => Place(b, o, k + 1)
  PROVE  CallSound(d, b, o, ct) /\ OthersHave(d, b, o, ct)
<1>1. /\ CallTyped(c, o) /\ HeadKnown(d, c) /\ CallBytes(d, c, o, ct) /\ Settled(d, c, o) /\ SizeIs(d, c)
      /\ LateBytes(c, o) = {}
  BY NothingQueued DEF CallSound, Going
<1>2. HeadKnown(d, b) /\ CallBytes(d, b, o, ct) /\ OthersHave(d, b, o, ct) /\ SizeIs(d, b)
  BY <1>1, ResumedKeeps
<1>3. PICK k \in 0 .. Clusters :
         /\ Place(c, o, k) /\ k + 1 \in 0 .. Clusters
         /\ ClustersFrom(TableIn(d), c.dir.first)[k + 1] = TableIn(d)[c.cluster]
  BY <1>1, NextOf
<1>4. Place(b, o, k + 1) /\ b.dir = c.dir  BY <1>3, Numbers DEF Resumed
<1>5. Settled(d, b, o)  BY <1>1, <1>3, <1>4 DEF Settled
<1>6. Going(d, b, o)  BY <1>2, <1>5 DEF Going
<1> QED  BY <1>2, <1>6 DEF CallSound, Phase

\* To a cluster that is marked and linked first.
LEMMA ToANewOne ==
  ASSUME NEW d, DiskSound(d), NEW c, NEW o, NEW ct, OthersHave(d, c, o, ct), CallSound(d, c, o, ct), c.queue = <<>>, ~c.ending,
         ~(TableIn(d)[c.cluster] < EOC),
         NEW b, Resumed(c, b), CallTyped(b, o), ~b.ending, TableIn(d)[b.cluster] = 0,
         b.queue = <<FatWrite(1, b.cluster, EOC), FatWrite(2, b.cluster, EOC),
                     FatWrite(1, c.cluster, b.cluster), FatWrite(2, c.cluster, b.cluster)>>,
         \A k \in Nat : Place(c, o, k) => Place(b, o, k + 1)
  PROVE  CallSound(d, b, o, ct) /\ OthersHave(d, b, o, ct)
<1>1. /\ CallTyped(c, o) /\ HeadKnown(d, c) /\ CallBytes(d, c, o, ct) /\ Settled(d, c, o) /\ SizeIs(d, c)
      /\ LateBytes(c, o) = {}
  BY NothingQueued DEF CallSound, Going
<1>2. HeadKnown(d, b) /\ CallBytes(d, b, o, ct) /\ OthersHave(d, b, o, ct) /\ SizeIs(d, b)
  BY <1>1, ResumedKeeps
<1>3. PICK k \in 0 .. Clusters :
         /\ Place(c, o, k) /\ ClustersFrom(TableIn(d), c.dir.first)[k] = c.cluster
  BY <1>1, NextOf
<1>4. Place(b, o, k + 1) /\ b.dir = c.dir  BY <1>3, Numbers DEF Resumed
<1>5. c.cluster \in Cluster /\ TableIn(d)[c.cluster] >= EOC
  BY <1>1, NextOf, Numbers
<1>6. Last(d, b, o, k, c.cluster)  BY <1>2, <1>3, <1>4, <1>5 DEF Last
<1>7. Sound(TableIn(d), HeadsIn(d) \cup {b.dir.first}) /\ CopiesBut(d, {})  BY <1>1, <1>4 DEF Settled
<1>8. NewFirst(d, b, o, k, c.cluster)  BY <1>5, <1>6, <1>7 DEF NewFirst
<1>9. Linking(d, b, o)  BY <1>5, <1>8 DEF Linking
<1> QED  BY <1>2, <1>9 DEF CallSound, Phase

\* A call that changed nothing fails: its clusters are lost on a full disk only.
LEMMA FailsWhenFull ==
  ASSUME NEW d, DiskSound(d), NEW c, NEW o, NEW ct, OpenTyped(o, ct), OthersHave(d, c, o, ct), CallSound(d, c, o, ct),
         c.queue = <<>>, ~c.ending, c.done = 0, \A e \in Cluster : TableIn(d)[e] # 0
  PROVE  Between(d, o, ct)
<1>1. /\ CallTyped(c, o) /\ HeadKnown(d, c) /\ CallBytes(d, c, o, ct) /\ Settled(d, c, o)
      /\ LateBytes(c, o) = {}
  BY NothingQueued DEF CallSound, Going
<1>2. CopiesBut(d, {})  BY <1>1 DEF Settled
<1>3. Sound(TableIn(d), HeadsIn(d))  BY DEF Sound, Covered, DiskSound
<1>4. FileHas(d, ct, c.at)
  <2> SUFFICES ASSUME NEW p \in 0 .. MaxPos - 1, ct[c.at][p] # NONE
               PROVE  p < EntryIn(d, c.at).size /\ Holds(d, EntryIn(d, c.at).first, p, ct[c.at][p])
    BY DEF FileHas
  <2>1. EntryIn(d, c.at).first # 0  BY <1>1, NoBytesYet
  <2>2. EntryIn(d, c.at).first = c.dir.first  BY <1>1, <2>1 DEF HeadKnown
  <2>3. p \notin o[c.at] .. o[c.at] + c.done - 1  BY <1>1 DEF CallTyped
  <2>4. Want(c, o, ct, p) = ct[c.at][p]  BY <2>3 DEF Want
  <2>5. p \notin LateBytes(c, o)  BY <1>1
  <2> QED  BY <1>1, <2>2, <2>4, <2>5 DEF CallBytes
<1>5. \A at \in DOMAIN o : FileHas(d, ct, at)  BY <1>4 DEF OthersHave
<1> QED  BY <1>2, <1>3, <1>5 DEF Between

\* The call's fields, one or two of them changed.
LEMMA CallWith ==
  ASSUME NEW c \in Call
  PROVE  /\ \A x \in Cluster : [c EXCEPT !.cluster = x] \in Call
         /\ \A q \in Seq(SectorWrite) : [c EXCEPT !.queue = q] \in Call
<1>1. ASSUME NEW x \in Cluster PROVE [c EXCEPT !.cluster = x] \in Call  BY DEF Call
<1>2. ASSUME NEW q \in Seq(SectorWrite) PROVE [c EXCEPT !.queue = q] \in Call  BY DEF Call
<1> QED  BY <1>1, <1>2

\* The four writes of an extension, as two pairs.
LEMMA TwoPairs ==
  ASSUME NEW S, NEW a \in S, NEW b \in S, NEW c \in S, NEW e \in S
  PROVE  <<a, b>> \o <<c, e>> = <<a, b, c, e>> /\ <<a, b, c, e>> \in Seq(S) /\ <<a, b>> \in Seq(S)
<1> DEFINE s == <<a, b>>  t == <<c, e>>  u == <<a, b, c, e>>
<1>1. s \in Seq(S) /\ t \in Seq(S) /\ u \in Seq(S)  OBVIOUS
<1>2. /\ Len(s) = 2 /\ Len(t) = 2 /\ Len(u) = 4 /\ s[1] = a /\ s[2] = b /\ t[1] = c /\ t[2] = e
      /\ u[1] = a /\ u[2] = b /\ u[3] = c /\ u[4] = e
  OBVIOUS
<1> HIDE DEF s, t, u
<1>3. /\ s \o t \in Seq(S) /\ Len(s \o t) = Len(s) + Len(t)
      /\ \A i \in 1 .. Len(s) + Len(t) : (s \o t)[i] = IF i <= Len(s) THEN s[i] ELSE t[i - Len(s)]
  BY <1>1, ConcatProperties
<1>4. Len(s \o t) = 4 /\ \A i \in 1 .. 4 : (s \o t)[i] = IF i <= 2 THEN s[i] ELSE t[i - 2]
  <2>1. Len(s) = 2 /\ Len(s) + Len(t) = 4  BY <1>2
  <2> QED  BY <1>3, <2>1
<1>5. \A i \in 1 .. 4 : (s \o t)[i] = u[i]
  <2>1. 1 - 0 = 1 /\ 3 - 2 = 1 /\ 4 - 2 = 2 /\ \A i \in 1 .. 4 : i \in {1, 2, 3, 4}  OBVIOUS
  <2> QED  BY <1>2, <1>4, <2>1
<1>6. s \o t = u
  <2>1. Len(s \o t) = Len(u) /\ \A i \in 1 .. Len(s \o t) : (s \o t)[i] = u[i]  BY <1>2, <1>4, <1>5
  <2> QED  BY <1>1, <1>3, <2>1, SeqEqual
<1> QED  BY <1>1, <1>6 DEF s, t, u

\* What the extension writes.
LEMMA ExtensionIs ==
  ASSUME NEW p \in Cluster, NEW n \in Cluster
  PROVE  /\ Extension(p, n) = <<FatWrite(1, n, EOC), FatWrite(2, n, EOC), FatWrite(1, p, n), FatWrite(2, p, n)>>
         /\ Extension(p, n) \in Seq(SectorWrite)
         /\ Mark(n) = <<FatWrite(1, n, EOC), FatWrite(2, n, EOC)>> /\ Mark(n) \in Seq(SectorWrite)
<1>1. \A copy \in {1, 2} : \A c \in Cluster : \A value \in Nat : FatWrite(copy, c, value) \in SectorWrite
  BY DEF FatWrite, SectorWrite
<1>2. EOC \in Nat /\ n \in Nat  BY Numbers DEF Cluster
<1> DEFINE a == FatWrite(1, n, EOC)  b == FatWrite(2, n, EOC)  c == FatWrite(1, p, n)  e == FatWrite(2, p, n)
<1>3. a \in SectorWrite /\ b \in SectorWrite /\ c \in SectorWrite /\ e \in SectorWrite  BY <1>1, <1>2
<1>4. Mark(n) = <<a, b>> /\ SetCluster(p, n) = <<c, e>>  BY DEF Mark, SetCluster
<1> HIDE DEF a, b, c, e
<1>5. <<a, b>> \o <<c, e>> = <<a, b, c, e>> /\ <<a, b, c, e>> \in Seq(SectorWrite) /\ <<a, b>> \in Seq(SectorWrite)
  BY <1>3, TwoPairs
<1>6. Extension(p, n) = <<a, b, c, e>>  BY <1>4, <1>5 DEF Extension
<1> QED  BY <1>4, <1>5, <1>6 DEF a, b, c, e

\* ToNext, from where the call is to what it makes of it.
LEMMA ToNextKeeps ==
  ASSUME DiskSound(disk), Kept(disk, call, offset, content), InCall,
         NEW more, Resumed(call, more), CallTyped(more, offset), more.queue = <<>>, ~more.ending,
         \A k \in Nat : Place(call, offset, k) => Place(more, offset, k + 1),
         NEW full, FreeClusters = {} => Kept(disk, full, offset, content),
         ToNext(NextCluster(call.cluster), more, full)
  PROVE  Kept(disk, call', offset, content)
<1> DEFINE t == TableIn(disk)
<1>1. /\ CallSound(disk, call, offset, content) /\ OthersHave(disk, call, offset, content)
      /\ call.queue = <<>> /\ ~call.ending /\ OpenTyped(offset, content)
  BY DEF Kept, InCall
<1>2. /\ CallTyped(call, offset) /\ HeadKnown(disk, call) /\ Settled(disk, call, offset)
  BY <1>1, NothingQueued DEF CallSound, Going
<1>3. call.cluster \in Cluster /\ t[call.cluster] \in Nat /\ (t[call.cluster] < EOC => t[call.cluster] \in Cluster)
  BY <1>2, NextOf
<1>4. NextCluster(call.cluster) = t[call.cluster]  BY <1>3 DEF NextCluster, TableIn
<1>5. more \in Call  BY DEF CallTyped
<1>6. CASE t[call.cluster] < EOC
  <2> DEFINE next == t[call.cluster]
             b == [more EXCEPT !.cluster = next]
  <2>1. call' = b /\ next \in Cluster  BY <1>3, <1>4, <1>6 DEF ToNext
  <2>2. b \in Call  BY <1>5, <2>1, CallWith
  <2>3. /\ b.cluster = next /\ b.at = more.at /\ b.n = more.n /\ b.v = more.v /\ b.dir = more.dir /\ b.skip = more.skip
        /\ b.coff = more.coff /\ b.done = more.done /\ b.queue = more.queue /\ b.ending = more.ending
    BY <1>5 DEF Call
  <2> HIDE DEF b, next
  <2>4. CallTyped(b, offset)  BY <2>2, <2>3 DEF CallTyped
  <2>5. Resumed(call, b) /\ b.queue = <<>> /\ ~b.ending  BY <2>3 DEF Resumed
  <2>6. ASSUME NEW k \in Nat, Place(call, offset, k) PROVE Place(b, offset, k + 1)
    <3>1. Place(more, offset, k + 1)  BY <2>6
    <3> QED  BY <2>3, <3>1 DEF Place
  <2>7. b.cluster = t[call.cluster] /\ t[call.cluster] < EOC  BY <1>6, <2>3 DEF next
  <2>8. CallSound(disk, b, offset, content) /\ OthersHave(disk, b, offset, content)
    BY <1>1, <2>4, <2>5, <2>6, <2>7, ToItsNext
  <2> QED  BY <1>1, <2>1, <2>8, KeptDuring
<1>7. CASE ~(t[call.cluster] < EOC) /\ FreeClusters = {}
  <2>1. call' = full  BY <1>4, <1>7, FreeClusterIs DEF ToNext
  <2> QED  BY <1>7, <2>1
<1>8. CASE ~(t[call.cluster] < EOC) /\ FreeClusters # {}
  <2> DEFINE n == FindFreeCluster
             q == Extension(call.cluster, n)
             r == [more EXCEPT !.cluster = n]
             b == [more EXCEPT !.cluster = n, !.queue = q]
  <2>1. n \in Cluster /\ t[n] = 0 /\ n # 0  BY <1>8, FreeClusterIs
  <2>2. call' = b  BY <1>4, <1>8, <2>1 DEF ToNext
  <2>3. /\ q = <<FatWrite(1, n, EOC), FatWrite(2, n, EOC), FatWrite(1, call.cluster, n), FatWrite(2, call.cluster, n)>>
        /\ q \in Seq(SectorWrite)
    BY <1>3, <2>1, ExtensionIs
  <2>4. r \in Call  BY <1>5, <2>1, CallWith
  <2> HIDE DEF q, n
  <2>5. /\ b.cluster = n /\ b.at = more.at /\ b.n = more.n /\ b.v = more.v /\ b.dir = more.dir /\ b.skip = more.skip
        /\ b.coff = more.coff /\ b.done = more.done /\ b.queue = q /\ b.ending = more.ending
    BY <1>5 DEF Call
  <2>6. b \in Call
    <3>1. b = [r EXCEPT !.queue = q]  BY <1>5 DEF Call
    <3> HIDE DEF r, b
    <3> QED  BY <2>3, <2>4, <3>1, CallWith
  <2> HIDE DEF b, r
  <2>7. CallTyped(b, offset)  BY <2>5, <2>6 DEF CallTyped
  <2>8. Resumed(call, b) /\ ~b.ending  BY <2>5 DEF Resumed
  <2>9. ASSUME NEW k \in Nat, Place(call, offset, k) PROVE Place(b, offset, k + 1)
    <3>1. Place(more, offset, k + 1)  BY <2>9
    <3> QED  BY <2>5, <3>1 DEF Place
  <2>10. /\ TableIn(disk)[b.cluster] = 0
         /\ b.queue = <<FatWrite(1, b.cluster, EOC), FatWrite(2, b.cluster, EOC),
                        FatWrite(1, call.cluster, b.cluster), FatWrite(2, call.cluster, b.cluster)>>
    BY <2>1, <2>3, <2>5
  <2>11. CallSound(disk, b, offset, content) /\ OthersHave(disk, b, offset, content)
    BY <1>1, <1>8, <2>7, <2>8, <2>9, <2>10, ToANewOne
  <2> QED  BY <1>1, <2>2, <2>11, KeptDuring
<1> QED  BY <1>6, <1>7, <1>8

\* Each action of a call keeps the invariant.
LEMMA WalkKeeps ==
  ASSUME DiskSound(disk), Kept(disk, call, offset, content), Walk
  PROVE  Kept(disk, call', offset, content)
<1> DEFINE more == [call EXCEPT !.skip = @ - 1]
<1>1. /\ CallSound(disk, call, offset, content) /\ OthersHave(disk, call, offset, content)
      /\ call.queue = <<>> /\ ~call.ending /\ OpenTyped(offset, content) /\ call.skip > 0 /\ InCall
  BY DEF Kept, InCall, Walk
<1>2. CallTyped(call, offset) /\ call \in Call /\ call.skip \in Nat  BY <1>1 DEF CallSound, CallTyped, Call
<1>3. /\ more \in Call /\ more.skip = call.skip - 1
      /\ more.cluster = call.cluster /\ more.at = call.at /\ more.n = call.n /\ more.v = call.v /\ more.dir = call.dir
      /\ more.coff = call.coff /\ more.done = call.done /\ more.queue = call.queue /\ more.ending = call.ending
  BY <1>1, <1>2 DEF Call
<1>4. ToNext(NextCluster(call.cluster), more, NONE)  BY DEF Walk
<1> HIDE DEF more
<1>5. call.done = 0  BY <1>1, <1>2 DEF CallTyped, Call
<1>6. CallTyped(more, offset)  BY <1>1, <1>2, <1>3, <1>5 DEF CallTyped
<1>7. Resumed(call, more) /\ more.queue = <<>> /\ ~more.ending  BY <1>1, <1>3 DEF Resumed
<1>8. ASSUME NEW k \in Nat, Place(call, offset, k) PROVE Place(more, offset, k + 1)
  <2>1. (k + 1) + more.skip = k + call.skip  BY <1>2, <1>3
  <2> QED  BY <1>3, <1>8, <2>1 DEF Place
<1>9. ASSUME FreeClusters = {} PROVE Kept(disk, NONE, offset, content)
  <2>1. \A e \in Cluster : TableIn(disk)[e] # 0  BY <1>9, FreeClusterIs
  <2>2. Between(disk, offset, content)  BY <1>1, <1>5, <2>1, FailsWhenFull
  <2> QED  BY <1>1, <2>2, KeptBetween
<1> QED  BY <1>1, <1>4, <1>6, <1>7, <1>8, <1>9, ToNextKeeps

LEMMA ExtendKeeps ==
  ASSUME DiskSound(disk), Kept(disk, call, offset, content), Extend
  PROVE  Kept(disk, call', offset, content)
<1> DEFINE more == [call EXCEPT !.coff = 0]
           full == [call EXCEPT !.n = call.done]
<1>1. /\ CallSound(disk, call, offset, content) /\ OthersHave(disk, call, offset, content)
      /\ call.queue = <<>> /\ ~call.ending /\ OpenTyped(offset, content) /\ InCall
      /\ call.skip = 0 /\ call.coff >= ClusterBytes /\ call.done < call.n
  BY DEF Kept, InCall, Extend
<1>2. /\ CallTyped(call, offset) /\ call \in Call /\ call.coff \in Nat /\ call.done \in Nat /\ call.coff = ClusterBytes
      /\ call.n \in Nat /\ offset[call.at] \in Nat /\ call.done <= call.n /\ offset[call.at] + call.n <= MaxPos
  <2>1. CallTyped(call, offset)  BY <1>1 DEF CallSound
  <2> QED  BY <1>1, <2>1, Areas DEF CallTyped, Call
<1>3. /\ more \in Call /\ more.coff = 0
      /\ more.cluster = call.cluster /\ more.at = call.at /\ more.n = call.n /\ more.v = call.v /\ more.dir = call.dir
      /\ more.skip = call.skip /\ more.done = call.done /\ more.queue = call.queue /\ more.ending = call.ending
  BY <1>1, <1>2 DEF Call
<1>4. /\ full \in Call /\ full.n = call.done
      /\ full.cluster = call.cluster /\ full.at = call.at /\ full.coff = call.coff /\ full.v = call.v /\ full.dir = call.dir
      /\ full.skip = call.skip /\ full.done = call.done /\ full.queue = call.queue /\ full.ending = call.ending
  BY <1>1, <1>2 DEF Call
<1>5. ToNext(NextCluster(call.cluster), more, full)  BY DEF Extend
<1> HIDE DEF more, full
<1>6. CallTyped(more, offset)  BY <1>1, <1>2, <1>3, Areas DEF CallTyped
<1>7. Resumed(call, more) /\ more.queue = <<>> /\ ~more.ending  BY <1>1, <1>3 DEF Resumed
<1>8. ASSUME NEW k \in Nat, Place(call, offset, k) PROVE Place(more, offset, k + 1)
  <2>1. (k + call.skip) * ClusterBytes = k * ClusterBytes /\ ((k + 1) + more.skip) * ClusterBytes = k * ClusterBytes + ClusterBytes
        /\ k * ClusterBytes \in Nat
    BY <1>1, <1>3, Areas
  <2> DEFINE x == k * ClusterBytes  y == ((k + 1) + more.skip) * ClusterBytes
  <2>2. x + call.coff = offset[call.at] + call.done  BY <1>8, <2>1 DEF Place
  <2>3. y = x + ClusterBytes /\ x \in Nat  BY <2>1
  <2> HIDE DEF x, y
  <2>4. y + more.coff = offset[more.at] + more.done  BY <1>2, <1>3, <2>2, <2>3, Areas
  <2> QED  BY <2>4 DEF Place, y
<1>9. Kept(disk, full, offset, content)
  <2>1. CallTyped(full, offset)  BY <1>1, <1>2, <1>4, Numbers DEF CallTyped
  <2>2. Resumed(call, full)  BY <1>4 DEF Resumed
  <2>3. Going(disk, call, offset) /\ LateBytes(call, offset) = {}  BY <1>1, NothingQueued
  <2>4. HeadKnown(disk, full) /\ CallBytes(disk, full, offset, content) /\ OthersHave(disk, full, offset, content)
        /\ SizeIs(disk, full)
    BY <1>1, <2>2, <2>3, ResumedKeeps DEF CallSound, Going
  <2>5. \A k : Place(call, offset, k) => Place(full, offset, k)  BY <1>4 DEF Place
  <2>6. Going(disk, full, offset)  BY <1>4, <2>3, <2>4, <2>5 DEF Going, Settled
  <2>7. CallSound(disk, full, offset, content)  BY <2>1, <2>4, <2>6 DEF CallSound, Phase
  <2> QED  BY <1>1, <2>4, <2>7, KeptDuring
<1> QED  BY <1>1, <1>5, <1>6, <1>7, <1>8, <1>9, ToNextKeeps

\* The bytes of one sector: no more than the sector and the call have.
LEMMA SectorRoom ==
  ASSUME NEW coff \in Nat, coff < ClusterBytes
  PROVE  /\ coff % SectorSize \in 0 .. SectorSize - 1 /\ coff \div SectorSize \in Nat
         /\ coff + (SectorSize - (coff % SectorSize)) <= ClusterBytes
<1> DEFINE q == coff \div SectorSize  r == coff % SectorSize
<1>1. q \in Nat /\ r \in 0 .. SectorSize - 1 /\ coff = q * SectorSize + r  BY Numbers, Quotient
<1>2. coff < ClusterSize * SectorSize /\ ClusterBytes = ClusterSize * SectorSize  BY Numbers DEF ClusterBytes
<1>3. q \in 0 .. ClusterSize - 1  BY <1>2, Numbers, QuotientBelow
<1> HIDE DEF q, r
<1>a. r \in Nat /\ r < SectorSize  BY <1>1, Numbers
<1>4. (ClusterSize - 1 - q) \in Nat /\ SectorSize \in Nat /\ ClusterSize \in Nat  BY <1>3, Numbers
<1>5. (ClusterSize - 1 - q) * SectorSize >= 0  BY <1>4
<1>6. (ClusterSize - 1 - q) * SectorSize = ClusterSize * SectorSize - SectorSize - q * SectorSize  BY <1>1, <1>4
<1> DEFINE x == q * SectorSize  y == ClusterSize * SectorSize
<1>7. x \in Nat /\ y \in Nat  BY <1>1, <1>4
<1>8. y - SectorSize - x >= 0 /\ coff = x + r /\ ClusterBytes = y  BY <1>1, <1>2, <1>5, <1>6
<1> HIDE DEF x, y
<1>9. coff + (SectorSize - r) <= ClusterBytes  BY <1>a, <1>4, <1>7, <1>8
<1> QED  BY <1>1, <1>9 DEF q, r

LEMMA WriteSectorKeeps ==
  ASSUME DiskSound(disk), Kept(disk, call, offset, content), WriteSector
  PROVE  Kept(disk, call', offset, content)
<1> DEFINE off == call.coff % SectorSize
           room == SectorSize - off
           copy == IF room > call.n - call.done THEN call.n - call.done ELSE room
           sector == FirstSector(call.cluster) + call.coff \div SectorSize
           w == DataWrite(sector, off, copy, call.v)
           r == [call EXCEPT !.done = @ + copy]
           s == [r EXCEPT !.coff = @ + copy]
           b == [call EXCEPT !.done = @ + copy, !.coff = @ + copy, !.queue = <<w>>]
<1>1. /\ CallSound(disk, call, offset, content) /\ OthersHave(disk, call, offset, content)
      /\ call.queue = <<>> /\ ~call.ending /\ OpenTyped(offset, content) /\ InCall
      /\ call.skip = 0 /\ call.coff < ClusterBytes /\ call.done < call.n
  BY DEF Kept, InCall, WriteSector
<1>2. /\ CallTyped(call, offset) /\ HeadKnown(disk, call) /\ CallBytes(disk, call, offset, content)
      /\ Going(disk, call, offset) /\ LateBytes(call, offset) = {}
  BY <1>1, NothingQueued DEF CallSound
<1>3. /\ call \in Call /\ call.coff \in Nat /\ call.done \in Nat /\ call.n \in Nat /\ call.v \in Nat
      /\ call.cluster \in Cluster /\ offset[call.at] \in Nat /\ offset[call.at] + call.n <= MaxPos
  BY <1>2 DEF CallTyped, Call
<1>4. off \in 0 .. SectorSize - 1 /\ call.coff \div SectorSize \in Nat /\ call.coff + room <= ClusterBytes
  BY <1>1, <1>3, SectorRoom
<1>5. copy \in Nat /\ off + copy <= SectorSize /\ call.coff + copy <= ClusterBytes /\ call.done + copy <= call.n /\ copy > 0
  <2>1. /\ SectorSize \in Nat /\ ClusterBytes \in Nat /\ off \in Nat /\ off < SectorSize /\ room = SectorSize - off
        /\ call.coff + room <= ClusterBytes
    BY <1>4, Numbers, Areas
  <2> HIDE DEF off, room
  <2> QED  BY <1>1, <1>3, <2>1
<1>6. FirstSector(call.cluster) \in Nat
  <2>1. 0 \in 0 .. ClusterSize - 1  BY Numbers
  <2> QED  BY <1>3, <2>1, DataSectorIs
<1>7. sector \in Nat /\ off \in Nat  BY <1>4, <1>6, Numbers
<1>8. call' = b  BY DEF WriteSector
<1>9. w = PutOf(call, call.coff, copy) /\ w.to = "data" /\ w.n = copy  BY DEF PutOf, DataWrite
<1>10. w \in SectorWrite
  <2> HIDE DEF off, copy, sector
  <2> QED  BY <1>3, <1>5, <1>7 DEF DataWrite, SectorWrite
<1> HIDE DEF off, copy, sector, w
<1>11. <<w>> \in Seq(SectorWrite)  BY <1>10
<1> DEFINE q == <<w>>
<1>12. q \in Seq(SectorWrite) /\ q # <<>> /\ Head(q) = w  BY <1>11
<1> HIDE DEF q
<1>13. /\ b.cluster = call.cluster /\ b.at = call.at /\ b.n = call.n /\ b.v = call.v /\ b.dir = call.dir /\ b.skip = call.skip
       /\ b.coff = call.coff + copy /\ b.done = call.done + copy /\ b.queue = q /\ b.ending = call.ending
  BY <1>3 DEF Call, q
<1>14. b \in Call
  <2>1. r \in Call  BY <1>3, <1>5 DEF Call
  <2>2. s = [call EXCEPT !.done = @ + copy, !.coff = @ + copy]  BY <1>3 DEF Call
  <2>3. s \in Call
    <3>1. r.coff = call.coff  BY <1>3 DEF Call
    <3>2. r.coff + copy \in Nat  BY <1>3, <1>5, <3>1
    <3>3. s = [r EXCEPT !.coff = r.coff + copy]  BY <2>1 DEF Call
    <3> HIDE DEF r, s
    <3> QED  BY <2>1, <3>2, <3>3 DEF Call
  <2>4. b = [s EXCEPT !.queue = q]  BY <1>3 DEF Call, q
  <2> HIDE DEF r, s, b
  <2> QED  BY <1>12, <2>3, <2>4, CallWith
<1> HIDE DEF r, s, b
<1>15. CallTyped(b, offset)
  BY <1>1, <1>2, <1>3, <1>5, <1>13, <1>14 DEF CallTyped
<1>16. HeadKnown(disk, b) /\ OthersHave(disk, b, offset, content) /\ SizeIs(disk, b)
  BY <1>1, <1>2, <1>13 DEF HeadKnown, OthersHave, SizeIs, Going
<1>17. CallBytes(disk, b, offset, content)
  <2> DEFINE from == offset[call.at]
             end == from + call.done + copy
  <2>0. from \in Nat /\ end \in Nat /\ b.done \in Nat /\ call.done \in Nat /\ copy \in Nat /\ b.done = call.done + copy /\ end = from + b.done /\ end - copy = from + call.done  BY <1>3, <1>5, <1>13
  <2>1. LateBytes(b, offset) = end - copy .. end - 1
    <3>1. b.queue # <<>> /\ Head(b.queue).to = "data" /\ Head(b.queue).n = copy /\ b.at = call.at
      BY <1>9, <1>12, <1>13
    <3>2. LateBytes(b, offset) = from + b.done - copy .. from + b.done - 1  BY <2>0, <3>1 DEF LateBytes
    <3> HIDE DEF from, end
    <3> QED  BY <2>0, <3>2
  <2>2. ASSUME NEW p \in 0 .. MaxPos - 1, p \notin LateBytes(b, offset)
        PROVE  Want(b, offset, content, p) = Want(call, offset, content, p)
    <3> HIDE DEF from, end
    <3> DEFINE bd == b.done  cd == call.done
    <3>2. p \notin end - copy .. end - 1  BY <2>1, <2>2
    <3>3. p \in Nat  BY Numbers
    <3>4. from \in Nat /\ end \in Nat /\ copy \in Nat /\ bd \in Nat /\ cd \in Nat /\ end = from + bd /\ bd = cd + copy
      BY <2>0
    <3> HIDE DEF bd, cd
    <3>5. (p \in from .. from + bd - 1) <=> (p \in from .. from + cd - 1)  BY <3>2, <3>3, <3>4
    <3>1. (p \in from .. from + b.done - 1) <=> (p \in from .. from + call.done - 1)  BY <3>5 DEF bd, cd
    <3> QED  BY <1>13, <3>1 DEF Want, from
  <2>3. ASSUME NEW p \in 0 .. MaxPos - 1
        PROVE  /\ content[call.at][p] # NONE => p < EntryIn(disk, call.at).size
               /\ p \notin LateBytes(b, offset) /\ Want(b, offset, content, p) # NONE
                    => Holds(disk, call.dir.first, p, Want(b, offset, content, p))
    <3>1. content[call.at][p] # NONE => p < EntryIn(disk, call.at).size  BY <1>2 DEF CallBytes
    <3>2. Want(call, offset, content, p) # NONE => Holds(disk, call.dir.first, p, Want(call, offset, content, p))
      BY <1>2 DEF CallBytes
    <3> QED  BY <2>2, <3>1, <3>2
  <2> QED  BY <1>13, <2>3 DEF CallBytes
<1>18. Putting(disk, b, offset)
  <2>1. PICK k \in 0 .. Clusters : ClustersFrom(TableIn(disk), call.dir.first)[k] = call.cluster /\ Place(call, offset, k)
    BY <1>2 DEF Going, Settled
  <2>2. Place(b, offset, k)
    <3> DEFINE x == k * ClusterBytes
    <3>1. x \in Nat /\ (k + call.skip) * ClusterBytes = x
      <4>1. k \in Nat /\ ClusterBytes \in Nat  BY Areas, Numbers
      <4>2. k + call.skip = k /\ k * ClusterBytes \in Nat  BY <1>1, <4>1
      <4> QED  BY <4>2
    <3>2. x + call.coff = offset[call.at] + call.done  BY <2>1, <3>1 DEF Place
    <3> HIDE DEF x
    <3>3. x + b.coff = offset[b.at] + b.done  BY <1>3, <1>5, <1>13, <3>1, <3>2
    <3> QED  BY <1>13, <3>1, <3>3 DEF Place
  <2>3. Settled(disk, b, offset)  BY <1>2, <1>13, <2>1, <2>2 DEF Going, Settled
  <2>4. q = <<PutOf(b, call.coff, copy)>>  BY <1>9, <1>13 DEF PutOf, q
  <2>5. call.coff \in 0 .. ClusterBytes - 1 /\ copy \in 0 .. b.done  BY <1>1, <1>3, <1>5, <1>13, Areas
  <2>6. call.coff + copy = b.coff /\ (call.coff % SectorSize) + copy <= SectorSize  BY <1>5, <1>13 DEF off
  <2> QED  BY <1>1, <1>13, <1>16, <2>3, <2>4, <2>5, <2>6 DEF Putting
<1>19. CallSound(disk, b, offset, content)  BY <1>15, <1>16, <1>17, <1>18 DEF CallSound, Phase
<1> QED  BY <1>1, <1>8, <1>16, <1>19, KeptDuring

LEMMA WriteDirectoryKeeps ==
  ASSUME DiskSound(disk), Kept(disk, call, offset, content), WriteDirectory
  PROVE  Kept(disk, call', offset, content)
<1> DEFINE w == DirWrite(call.at, FinalDir(call, offset))
           r == [call EXCEPT !.ending = TRUE]
           b == [call EXCEPT !.ending = TRUE, !.queue = <<w>>]
<1>1. /\ CallSound(disk, call, offset, content) /\ OthersHave(disk, call, offset, content)
      /\ call.queue = <<>> /\ ~call.ending /\ OpenTyped(offset, content) /\ InCall
      /\ call.skip = 0 /\ call.done = call.n
  BY DEF Kept, InCall, WriteDirectory
<1>2. /\ CallTyped(call, offset) /\ HeadKnown(disk, call) /\ CallBytes(disk, call, offset, content)
      /\ Going(disk, call, offset) /\ LateBytes(call, offset) = {}
  BY <1>1, NothingQueued DEF CallSound
<1>3. call \in Call /\ call.at \in Location  BY <1>2, EntryIs DEF CallTyped
<1>4. call' = b  BY DEF WriteDirectory, FinalDir
<1>5. w \in SectorWrite /\ w.to = "dir"
  <2>1. FinalDir(call, offset) \in DirEntry  BY <1>2, FinalDirIs
  <2> QED  BY <1>3, <2>1 DEF DirWrite, SectorWrite
<1> HIDE DEF w
<1> DEFINE q == <<w>>
<1>6. q \in Seq(SectorWrite) /\ q # <<>> /\ Head(q) = w  BY <1>5
<1> HIDE DEF q
<1>7. /\ b.cluster = call.cluster /\ b.at = call.at /\ b.n = call.n /\ b.v = call.v /\ b.dir = call.dir /\ b.skip = call.skip
      /\ b.coff = call.coff /\ b.done = call.done /\ b.queue = q /\ b.ending
  BY <1>3 DEF Call, q
<1>8. b \in Call
  <2>1. r \in Call  BY <1>3 DEF Call
  <2>2. b = [r EXCEPT !.queue = q]  BY <1>3 DEF Call, q
  <2> HIDE DEF r, b
  <2> QED  BY <1>6, <2>1, <2>2, CallWith
<1> HIDE DEF r, b
<1>9. CallTyped(b, offset)  BY <1>1, <1>2, <1>7, <1>8 DEF CallTyped
<1>10. HeadKnown(disk, b) /\ CallBytes(disk, b, offset, content) /\ OthersHave(disk, b, offset, content)
       /\ SizeIs(disk, b)
  BY <1>1, <1>2, <1>7, ResumedKeeps DEF Resumed, Going
<1>11. \A k : Place(call, offset, k) => Place(b, offset, k)  BY <1>7 DEF Place
<1>12. Settled(disk, b, offset)  BY <1>2, <1>7, <1>11 DEF Going, Settled
<1>13. FinalDir(b, offset) = FinalDir(call, offset)  BY <1>7 DEF FinalDir
<1>14. b.queue = <<DirWrite(b.at, FinalDir(b, offset))>>  BY <1>7, <1>13 DEF q, w
<1>15. Ending(disk, b, offset)  BY <1>7, <1>10, <1>12, <1>14 DEF Ending
<1>16. CallSound(disk, b, offset, content)  BY <1>9, <1>10, <1>15 DEF CallSound, Phase
<1> QED  BY <1>1, <1>4, <1>10, <1>16, KeptDuring

LEMMA WriteReturnKeeps ==
  ASSUME DiskSound(disk), Kept(disk, call, offset, content), WriteReturn
  PROVE  Kept(disk, call', offset', content')
<1> DEFINE at == call.at
           from == offset[at]
           bytes == [p \in DOMAIN content[at] |->
                       IF p \in from .. from + call.done - 1 THEN call.v ELSE content[at][p]]
<1>1. /\ CallSound(disk, call, offset, content) /\ OthersHave(disk, call, offset, content)
      /\ call.queue = <<>> /\ call.ending /\ OpenTyped(offset, content)
  BY DEF Kept, WriteReturn
<1>2. /\ CallTyped(call, offset) /\ HeadKnown(disk, call) /\ CallBytes(disk, call, offset, content)
      /\ Ended(disk, call, offset) /\ LateBytes(call, offset) = {}
  BY <1>1, NothingQueued DEF CallSound
<1>3. /\ call.done \in Nat /\ at \in Entries /\ at \in DOMAIN offset /\ from \in Nat
  BY <1>2 DEF CallTyped, Call
<1>4. /\ DOMAIN offset \subseteq Entries /\ DOMAIN content = DOMAIN offset
      /\ \A a \in DOMAIN offset : offset[a] \in Nat /\ DOMAIN content[a] = 0 .. MaxPos - 1
  BY <1>1 DEF OpenTyped
<1>5. /\ content' = [content EXCEPT ![at] = bytes] /\ offset' = [offset EXCEPT ![at] = from + call.done]
      /\ call' = NONE
  BY DEF WriteReturn
<1> HIDE DEF bytes
<1>6. /\ DOMAIN content' = DOMAIN content /\ content'[at] = bytes
      /\ \A a \in DOMAIN content : a # at => content'[a] = content[a]
  BY <1>3, <1>4, <1>5
<1>7. /\ DOMAIN offset' = DOMAIN offset /\ offset'[at] = from + call.done
      /\ \A a \in DOMAIN offset : a # at => offset'[a] = offset[a]
  BY <1>3, <1>4, <1>5
<1>8. DOMAIN bytes = 0 .. MaxPos - 1 /\ \A p \in 0 .. MaxPos - 1 : bytes[p] = Want(call, offset, content, p)
  BY <1>3, <1>4 DEF bytes, Want
<1>9. OpenTyped(offset', content')
  <2>1. from + call.done \in Nat  BY <1>3
  <2>2. ASSUME NEW a \in DOMAIN offset' PROVE offset'[a] \in Nat /\ DOMAIN content'[a] = 0 .. MaxPos - 1
    <3>1. CASE a = at  BY <1>6, <1>7, <1>8, <2>1, <3>1
    <3>2. CASE a # at  BY <1>4, <1>6, <1>7, <2>2, <3>2
    <3> QED  BY <3>1, <3>2
  <2> QED  BY <1>4, <1>6, <1>7, <2>2 DEF OpenTyped
<1>10. EntryIn(disk, at) = FinalDir(call, offset) /\ FinalDir(call, offset).first = call.dir.first
       /\ FinalDir(call, offset).size >= from + call.done /\ FinalDir(call, offset).size \in Nat
  BY <1>2, FinalDirIs DEF Ended, DirEntry
<1>11. Sound(TableIn(disk), HeadsIn(disk)) /\ CopiesBut(disk, {})
  <2>1. call.dir.first \in Cluster /\ 0 \notin Cluster  BY <1>2 DEF HeadKnown, Cluster
  <2>2. call.dir.first \in HeadsIn(disk)  BY <1>3, <1>10, <2>1, HeadsAre
  <2>3. HeadsIn(disk) \cup {call.dir.first} = HeadsIn(disk)  BY <2>2
  <2> QED  BY <1>2, <2>3 DEF Ended, Settled
<1>12. FileHas(disk, content', at)
  <2> SUFFICES ASSUME NEW p \in 0 .. MaxPos - 1, content'[at][p] # NONE
               PROVE  p < EntryIn(disk, at).size /\ Holds(disk, EntryIn(disk, at).first, p, content'[at][p])
    BY DEF FileHas
  <2>1. content'[at][p] = Want(call, offset, content, p)  BY <1>6, <1>8
  <2>2. Holds(disk, call.dir.first, p, Want(call, offset, content, p))
    <3>1. p \notin LateBytes(call, offset) /\ Want(call, offset, content, p) # NONE  BY <1>2, <2>1
    <3> QED  BY <1>2, <3>1 DEF CallBytes
  <2>3. p < EntryIn(disk, at).size
    <3>1. CASE p \in from .. from + call.done - 1
      <4> DEFINE size == EntryIn(disk, at).size
      <4>1. size \in Nat /\ size >= from + call.done /\ p \in Nat  BY <1>10, Numbers
      <4> HIDE DEF size, from
      <4>2. p < size  BY <1>3, <3>1, <4>1
      <4> QED  BY <4>2 DEF size
    <3>2. CASE p \notin from .. from + call.done - 1
      <4>1. Want(call, offset, content, p) = content[at][p]  BY <3>2 DEF Want
      <4>2. content[at][p] # NONE  BY <2>1, <4>1
      <4> QED  BY <1>2, <4>2 DEF CallBytes
    <3> QED  BY <3>1, <3>2
  <2> QED  BY <1>10, <2>1, <2>2, <2>3
<1>13. ASSUME NEW a \in DOMAIN offset' PROVE FileHas(disk, content', a)
  <2>1. CASE a = at  BY <1>12, <2>1
  <2>2. CASE a # at
    <3>1. FileHas(disk, content, a) /\ content'[a] = content[a]  BY <1>1, <1>4, <1>6, <1>7, <1>13, <2>2 DEF OthersHave
    <3> QED  BY <3>1 DEF FileHas
  <2> QED  BY <2>1, <2>2
<1>14. Between(disk, offset', content')  BY <1>11, <1>13 DEF Between
<1> QED  BY <1>5, <1>9, <1>14, KeptBetween

\* A first cluster is of one file.
LEMMA OneFile ==
  ASSUME NEW d, DiskSound(d), NEW at \in Entries, NEW b \in Entries,
         EntryIn(d, at).first # 0, EntryIn(d, b).first = EntryIn(d, at).first
  PROVE  b = at
BY DEF DiskSound

\* write, to a file that has a first cluster or gets one.
NewCall(at, n, v, dir, cluster, o, queue) ==
  [at |-> at, n |-> n, v |-> v, dir |-> dir, cluster |-> cluster,
   skip |-> o[at] \div ClusterBytes, coff |-> o[at] % ClusterBytes, done |-> 0, queue |-> queue, ending |-> FALSE]
MayWrite(at, n, v, o) ==
  at \in Entries /\ at \in DOMAIN o /\ o[at] \in Nat /\ n \in Nat /\ v \in Nat /\ o[at] + n <= MaxPos
\* A new call is one.
LEMMA NewCallTyped ==
  ASSUME NEW o, NEW at, NEW n, NEW v, MayWrite(at, n, v, o),
         NEW dir \in DirEntry, NEW cluster \in Cluster, NEW queue \in Seq(SectorWrite),
         NEW c, c = NewCall(at, n, v, dir, cluster, o, queue)
  PROVE  /\ CallTyped(c, o) /\ c.at = at /\ c.dir = dir /\ c.cluster = cluster /\ c.queue = queue /\ ~c.ending
         /\ c.done = 0 /\ Place(c, o, 0)
<1> DEFINE skip == o[at] \div ClusterBytes  coff == o[at] % ClusterBytes
<1> USE DEF MayWrite
<1>1. skip \in Nat /\ coff \in 0 .. ClusterBytes - 1 /\ o[at] = skip * ClusterBytes + coff  BY PositionIs
<1>2. coff \in Nat /\ coff <= ClusterBytes /\ ClusterBytes \in Nat  BY <1>1, Areas
<1>3. /\ c.at = at /\ c.n = n /\ c.v = v /\ c.dir = dir /\ c.cluster = cluster /\ c.skip = skip /\ c.coff = coff
      /\ c.done = 0 /\ c.queue = queue /\ c.ending = FALSE
  BY DEF NewCall
<1> HIDE DEF skip, coff
<1>4. at \in Location  BY EntryIs
<1>5. c \in Call  BY <1>1, <1>2, <1>4 DEF NewCall, Call, skip, coff
<1>6. CallTyped(c, o)  BY <1>2, <1>3, <1>5 DEF CallTyped
<1>7. Place(c, o, 0)
  <2>1. (0 + skip) * ClusterBytes = skip * ClusterBytes /\ skip * ClusterBytes \in Nat  BY <1>1, <1>2
  <2> DEFINE x == skip * ClusterBytes
  <2>2. o[at] = x + coff /\ x \in Nat  BY <1>1, <2>1
  <2> HIDE DEF x
  <2>3. x + coff = o[at] + 0  BY <1>2, <2>2
  <2> QED  BY <1>3, <2>1, <2>3 DEF Place, x
<1> QED  BY <1>3, <1>6, <1>7

LEMMA WriteKeeps ==
  ASSUME DiskSound(disk), Kept(disk, call, offset, content), NEW at \in Opened, NEW w \in Writes, Write(at, w[1], w[2])
  PROVE  Kept(disk, call', offset, content)
<1> DEFINE dir == EntryIn(disk, at)  t == TableIn(disk)  n == w[1]  v == w[2]  free == FindFreeCluster
<1>1. /\ Between(disk, offset, content) /\ OpenTyped(offset, content) /\ offset[at] + n <= MaxPos
  BY DEF Kept, Write, Ready
<1>2. at \in DOMAIN offset /\ at \in Entries /\ offset[at] \in Nat  BY <1>1 DEF OpenTyped, Opened
<1>3. MayWrite(at, n, v, offset)
  <2>1. n \in Nat /\ v \in Nat  BY FatAssumption
  <2> QED  BY <1>1, <1>2, <2>1 DEF MayWrite
<1>4. /\ dir \in DirEntry /\ dir.kind = Dir0(at).kind /\ dir.first \in {0} \cup Cluster /\ HeadFits(at, dir.first)
      /\ FetchDirectory(at) = dir
  <2>1. dir \in DirEntry /\ dir.kind = Dir0(at).kind /\ HeadFits(at, dir.first)  BY <1>2, EntryTyped DEF DiskSound
  <2>2. dir.first # 0 => dir.first \in Cluster  BY <1>2, HeadsAre
  <2> QED  BY <2>1, <2>2 DEF FetchDirectory
<1>5. /\ Sound(t, HeadsIn(disk)) /\ CopiesBut(disk, {}) /\ \A a \in DOMAIN offset : FileHas(disk, content, a)
  BY <1>1 DEF Between
<1>6. CASE dir.first = 0 /\ free = 0
  <2>1. call' = NONE  BY <1>4, <1>6 DEF Write
  <2> QED  BY <1>1, <2>1, KeptBetween
<1>7. CASE dir.first # 0
  <2> DEFINE b == NewCall(at, n, v, dir, dir.first, offset, <<>>)
  <2>1. call' = b
    <3> HIDE DEF dir, free
    <3> QED  BY <1>4, <1>7 DEF Write, NewCall
  <2>2. dir.first \in Cluster /\ <<>> \in Seq(SectorWrite)  BY <1>4, <1>7
  <2> DEFINE q == <<>>
  <2>a. b = NewCall(at, n, v, dir, dir.first, offset, q) /\ q \in Seq(SectorWrite) /\ q = <<>>  BY <2>2
  <2> HIDE DEF dir, free, b, n, v, t, q
  <2>3. /\ CallTyped(b, offset) /\ b.at = at /\ b.dir = dir /\ b.cluster = dir.first /\ b.queue = <<>> /\ ~b.ending
        /\ b.done = 0 /\ Place(b, offset, 0)
    <3>1. dir \in DirEntry /\ dir.first \in Cluster  BY <1>4, <2>2
    <3>2. b = NewCall(at, n, v, dir, dir.first, offset, q) /\ q \in Seq(SectorWrite)  BY <2>a
    <3>3. /\ CallTyped(b, offset) /\ b.at = at /\ b.dir = dir /\ b.cluster = dir.first /\ b.queue = q /\ ~b.ending
          /\ b.done = 0 /\ Place(b, offset, 0)
      BY <1>3, <3>1, <3>2, NewCallTyped
    <3> QED  BY <2>a, <3>3
  <2>4. HeadKnown(disk, b)
    <3>1. \A a \in Entries : EntryIn(disk, a).first = dir.first => a = at
      BY <1>2, <1>7, OneFile DEF dir
    <3> QED  BY <1>4, <1>7, <2>3, <3>1 DEF HeadKnown, dir
  <2>5. CallBytes(disk, b, offset, content)
    <3>1. \A p \in 0 .. MaxPos - 1 : content[at][p] # NONE => p < dir.size /\ Holds(disk, dir.first, p, content[at][p])
      BY <1>2, <1>5 DEF FileHas, dir
    <3>2. \A p : p \notin offset[at] .. offset[at] + b.done - 1  BY <1>2, <2>3
    <3>3. \A p : Want(b, offset, content, p) = content[at][p]  BY <2>3, <3>2 DEF Want
    <3> QED  BY <2>3, <3>1, <3>3 DEF CallBytes, dir
  <2>6. OthersHave(disk, b, offset, content)  BY <1>5 DEF OthersHave
  <2>7. Settled(disk, b, offset)
    <3>1. dir.first \in HeadsIn(disk)  BY <1>2, <1>7, HeadsAre DEF dir
    <3>2. HeadsIn(disk) \cup {b.dir.first} = HeadsIn(disk)  BY <2>3, <3>1
    <3>3. 0 \in 0 .. Clusters /\ ClustersFrom(t, dir.first)[0] = dir.first  BY <2>2, HeadIsFirst
    <3> QED  BY <1>5, <2>3, <3>2, <3>3 DEF Settled, t
  <2>8. Going(disk, b, offset)  BY <2>3, <2>7 DEF Going, SizeIs, dir
  <2>9. CallSound(disk, b, offset, content)  BY <2>3, <2>4, <2>5, <2>8 DEF CallSound, Phase
  <2> QED  BY <1>1, <2>1, <2>6, <2>9, KeptDuring
<1>8. CASE dir.first = 0 /\ free # 0
  <2> DEFINE new == Started(dir, free)
             b == NewCall(at, n, v, new, free, offset, Mark(free))
  <2>1. call' = b
    <3> HIDE DEF dir
    <3> QED  BY <1>4, <1>8 DEF Write, NewCall
  <2>2. free \in Cluster /\ t[free] = 0  BY <1>8, FreeClusterIs
  <2>3. Mark(free) = <<FatWrite(1, free, EOC), FatWrite(2, free, EOC)>> /\ Mark(free) \in Seq(SectorWrite)
    BY <2>2, ExtensionIs
  <2> HIDE DEF dir, free, n, v, t
  <2>4. new \in DirEntry /\ new.kind = Dir0(at).kind /\ new.first = free /\ new.size = dir.size
    <3>1. free \in Nat  BY <2>2 DEF Cluster
    <3> QED  BY <1>4, <3>1 DEF Started, DirEntry
  <2> DEFINE q == Mark(free)
  <2>a. b = NewCall(at, n, v, new, free, offset, q) /\ q \in Seq(SectorWrite) /\ q = Mark(free)  BY <2>3
  <2> HIDE DEF b, new, q
  <2>5. /\ CallTyped(b, offset) /\ b.at = at /\ b.dir = new /\ b.cluster = free /\ b.queue = Mark(free) /\ ~b.ending
        /\ b.done = 0 /\ Place(b, offset, 0)
    BY <1>3, <2>2, <2>4, <2>a, NewCallTyped
  <2>6. \A f \in HeadsIn(disk) : f # free  BY <2>2, HeadsAre DEF t
  <2>7. HeadKnown(disk, b)
    <3>1. \A a \in Entries : EntryIn(disk, a).first # free
      <4>1. free # 0  BY <1>8
      <4> QED  BY <2>6, <4>1, HeadsAre
    <3>2. free \notin Dirs  BY <2>6, HeadsAre
    <3>3. Dir0(at).kind # "dir"  BY <1>2, <1>4, <1>8, Volume, DirHeads DEF HeadFits
    <3>4. HeadFits(at, free)  BY <2>2, <3>2, <3>3 DEF HeadFits
    <3> QED  BY <1>8, <2>2, <2>4, <2>5, <3>1, <3>4 DEF HeadKnown, dir
  <2>8. \A p \in 0 .. MaxPos - 1 : content[at][p] = NONE
    <3> SUFFICES ASSUME NEW p \in 0 .. MaxPos - 1, content[at][p] # NONE PROVE FALSE  OBVIOUS
    <3>1. Holds(disk, 0, p, content[at][p])  BY <1>2, <1>5, <1>8 DEF FileHas, dir
    <3> QED  BY <3>1, NoChain DEF Holds
  <2>9. CallBytes(disk, b, offset, content)
    <3>1. \A p : p \notin offset[at] .. offset[at] + b.done - 1  BY <1>2, <2>5
    <3>2. \A p \in 0 .. MaxPos - 1 : Want(b, offset, content, p) = NONE  BY <2>5, <2>8, <3>1 DEF Want
    <3> QED  BY <2>5, <2>8, <3>2 DEF CallBytes
  <2>10. OthersHave(disk, b, offset, content)  BY <1>5 DEF OthersHave
  <2>11. Starting(disk, b, offset)
    BY <1>8, <2>4, <2>5 DEF Starting, SizeIs, dir
  <2>12. MarkFirst(disk, b, offset)
    BY <1>5, <2>2, <2>3, <2>5, <2>11 DEF MarkFirst, t
  <2>13. CallSound(disk, b, offset, content)  BY <2>5, <2>7, <2>9, <2>12 DEF CallSound, Phase
  <2> QED  BY <1>1, <2>1, <2>10, <2>13, KeptDuring
<1> QED  BY <1>6, <1>7, <1>8

\* A sector is written, of no directory's entries.
LEMMA FlushKeeps ==
  ASSUME DiskSound(disk), Kept(disk, call, offset, content), Flush, device = "disk", ~Tears(call, Head(call.queue))
  PROVE  DiskSound(disk') /\ Kept(disk', call', offset, content)
<1>1. /\ CallSound(disk, call, offset, content) /\ OthersHave(disk, call, offset, content)
      /\ call.queue # <<>> /\ OpenTyped(offset, content)
  BY DEF Kept, Flush
<1>2. disk' = After(disk, Head(call.queue)) /\ call' = Flushed(call)  BY DEF Flush, Flushed
<1>3. Gives(disk', call', offset, content)  BY <1>1, <1>2, FlushStep
<1> QED  BY <1>1, <1>3, KeptDuring DEF Gives

-----------------------------------------------------------------------------
(* The invariant of the disk, with the one of mounting, and what they say.  *)
WriteInv == DiskSound(disk) /\ (device = "disk" => Kept(disk, call, offset, content))

\* The invariant holds at first.
LEMMA WriteInvInit == Init => WriteInv
<1> SUFFICES ASSUME Init PROVE WriteInv  OBVIOUS
<1>1. disk = Disk0 /\ call = NONE /\ offset = [at \in {} |-> 0] /\ content = [at \in {} |-> Unwritten]
  BY DEF Init
<1>2. DOMAIN offset = {} /\ DOMAIN content = {}  BY <1>1
<1>3. OpenTyped(offset, content)  BY <1>2 DEF OpenTyped
<1>4. Between(Disk0, offset, content)  BY <1>2, VolumeCovered, VolumeCopies DEF Between
<1> QED  BY <1>1, <1>3, <1>4, VolumeIsSound, KeptBetween DEF WriteInv

\* A read or a seek moves an offset.
LEMMA OffsetMoved ==
  ASSUME NEW d, NEW o, NEW ct, Kept(d, NONE, o, ct), NEW at, NEW p \in Nat
  PROVE  Kept(d, NONE, [o EXCEPT ![at] = p], ct)
<1> DEFINE e == [o EXCEPT ![at] = p]
<1>1. DOMAIN e = DOMAIN o /\ \A a \in DOMAIN o : e[a] = IF a = at THEN p ELSE o[a]  OBVIOUS
<1> HIDE DEF e
<1>2. OpenTyped(e, ct)  BY <1>1 DEF Kept, OpenTyped
<1>3. Between(d, e, ct)  BY <1>1 DEF Kept, Between
<1>4. Kept(d, NONE, e, ct)  BY <1>2, <1>3, KeptBetween
<1> QED  BY <1>4 DEF e

\* read and lseek.
LEMMA ReadKeeps ==
  ASSUME DiskSound(disk), Kept(disk, call, offset, content), NEW at \in Opened, Read(at, MaxPos)
  PROVE  Kept(disk, call, offset', content)
<1>1. call = NONE /\ at \in Entries /\ offset[at] \in Nat  BY DEF Read, Ready, Kept, OpenTyped, Opened
<1>2. FetchDirectory(at).size \in Nat
  <2>1. EntryIn(disk, at) \in DirEntry  BY <1>1, EntryIs, EntryTyped DEF DiskSound
  <2> QED  BY <2>1 DEF FetchDirectory, DirEntry
<1> DEFINE size == FetchDirectory(at).size
           end == IF offset[at] + MaxPos > size THEN size ELSE offset[at] + MaxPos
<1>3. end \in Nat  BY <1>1, <1>2, Numbers
<1>4. offset' = offset \/ offset' = [offset EXCEPT ![at] = end]  BY DEF Read
<1> HIDE DEF end
<1> QED  BY <1>1, <1>3, <1>4, OffsetMoved

\* A vnode that is made can be opened, at 0.
LEMMA AddFileOpens ==
  ASSUME DiskSound(disk), Kept(disk, call, offset, content), MountInv, AddFile
  PROVE  Kept(disk, call, offset', content')
<1> DEFINE here == HereIn(stack[1])
<1>1. stack # <<>>  BY DEF AddFile, AtEntry, Mounting
<1>2. disk = Disk0 /\ call = NONE /\ Here = here /\ FetchDirectory(Here) = Dir0(here) /\ Top = stack[1]
  BY <1>1, MountingIs
<1>3. OpenTyped(offset, content) /\ Between(disk, offset, content)  BY <1>2 DEF Kept
<1>4. stack[1].cluster < EOC /\ stack[1].index < PerCluster /\ Dir0(here).kind \in Named
  BY <1>2 DEF AddFile, AtEntry, Named
<1>5. here \in Entries
  <2>1. here \in ListedIn(Disk0, FirstOf(current_parent))  BY <1>1, <1>4, HereIsNew DEF MountInv
  <2>2. FirstOf(current_parent) \in Dirs  BY <1>1, TopFrame DEF MountInv
  <2> QED  BY <2>1, <2>2, ListedIsEntry
<1>6. offset' = With(offset, here, 0) /\ content' = With(content, here, Unwritten)  BY <1>2 DEF AddFile
<1> HIDE DEF here
<1>7. /\ DOMAIN offset' = DOMAIN offset \cup {here} /\ DOMAIN content' = DOMAIN content \cup {here}
      /\ offset'[here] = 0 /\ content'[here] = Unwritten
      /\ \A a \in DOMAIN offset : a # here => offset'[a] = offset[a]
      /\ \A a \in DOMAIN content : a # here => content'[a] = content[a]
  BY <1>6 DEF With
<1>8. DOMAIN Unwritten = 0 .. MaxPos - 1 /\ \A p \in 0 .. MaxPos - 1 : Unwritten[p] = NONE  BY DEF Unwritten
<1>9. OpenTyped(offset', content')
  <2>1. ASSUME NEW a \in DOMAIN offset' PROVE offset'[a] \in Nat /\ DOMAIN content'[a] = 0 .. MaxPos - 1
    BY <1>3, <1>7, <1>8 DEF OpenTyped
  <2> QED  BY <1>3, <1>5, <1>7, <2>1 DEF OpenTyped
<1>10. ASSUME NEW a \in DOMAIN offset' PROVE FileHas(disk, content', a)
  <2>1. CASE a = here  BY <1>7, <1>8, <2>1 DEF FileHas
  <2>2. CASE a # here
    <3>1. content'[a] = content[a] /\ FileHas(disk, content, a)  BY <1>3, <1>7, <1>10, <2>2 DEF OpenTyped, Between
    <3> QED  BY <3>1 DEF FileHas
  <2> QED  BY <2>1, <2>2
<1>11. Between(disk, offset', content')  BY <1>3, <1>10 DEF Between
<1> QED  BY <1>2, <1>9, <1>11, KeptBetween

\* Each step keeps the invariant.
LEMMA WriteInvStep ==
  ASSUME MountInv, WriteInv, [Next]_vars
  PROVE  WriteInv'
<1>0. DiskSound(disk) /\ (device = "disk" => Kept(disk, call, offset, content))  BY DEF WriteInv
<1>1. ASSUME UNCHANGED <<disk, device>>, device = "disk" => Kept(disk, call', offset', content') PROVE WriteInv'
  BY <1>0, <1>1 DEF WriteInv
<1>2. ASSUME UNCHANGED <<disk, device, call, offset, content>> PROVE WriteInv'
  BY <1>0, <1>1, <1>2
<1>3. CASE Mount
  <2>1. CASE AddFile
    <3>1. UNCHANGED <<disk, device, call>>  BY <2>1 DEF AddFile
    <3> QED  BY <1>0, <1>1, <2>1, <3>1, AddFileOpens
  <2>2. CASE MountReturn \/ MountNextCluster \/ MountSkip
    BY <1>2, <2>2 DEF MountReturn, MountNextCluster, MountSkip
  <2> QED  BY <1>3, <2>1, <2>2 DEF Mount
<1>4. CASE Flush
  <2>1. UNCHANGED <<offset, content>>  BY <1>4 DEF Flush
  <2>2. CASE device = "disk" /\ ~Tears(call, Head(call.queue))
    <3>1. DiskSound(disk') /\ Kept(disk', call', offset, content)  BY <1>0, <1>4, <2>2, FlushKeeps
    <3> QED  BY <2>1, <3>1 DEF WriteInv
  <2>3. CASE device # "disk" \/ Tears(call, Head(call.queue))
    <3>1. disk' = disk /\ device' # "disk"  BY <1>4, <2>3 DEF Flush
    <3> QED  BY <1>0, <3>1 DEF WriteInv
  <2> QED  BY <2>2, <2>3
<1>5. CASE Walk
  <2>1. UNCHANGED <<disk, device, offset, content>>  BY <1>5 DEF Walk
  <2> QED  BY <1>0, <1>1, <1>5, <2>1, WalkKeeps
<1>6. CASE Extend
  <2>1. UNCHANGED <<disk, device, offset, content>>  BY <1>6 DEF Extend
  <2> QED  BY <1>0, <1>1, <1>6, <2>1, ExtendKeeps
<1>7. CASE WriteSector
  <2>1. UNCHANGED <<disk, device, offset, content>>  BY <1>7 DEF WriteSector
  <2> QED  BY <1>0, <1>1, <1>7, <2>1, WriteSectorKeeps
<1>8. CASE WriteDirectory
  <2>1. UNCHANGED <<disk, device, offset, content>>  BY <1>8 DEF WriteDirectory
  <2> QED  BY <1>0, <1>1, <1>8, <2>1, WriteDirectoryKeeps
<1>9. CASE WriteReturn
  <2>1. UNCHANGED <<disk, device>>  BY <1>9 DEF WriteReturn
  <2> QED  BY <1>0, <1>1, <1>9, <2>1, WriteReturnKeeps
<1>10. CASE PowerLoss
  <2>1. disk' = disk /\ device' # "disk"  BY <1>10 DEF PowerLoss
  <2> QED  BY <1>0, <2>1 DEF WriteInv
<1>11. ASSUME NEW at \in Opened, NEW w \in Writes, Write(at, w[1], w[2]) PROVE WriteInv'
  <2>1. UNCHANGED <<disk, device, offset, content>>  BY <1>11 DEF Write
  <2> QED  BY <1>0, <1>1, <1>11, <2>1, WriteKeeps
<1>12. ASSUME NEW at \in Opened, Read(at, MaxPos) PROVE WriteInv'
  <2>1. UNCHANGED <<disk, device, call, content>>  BY <1>12 DEF Read
  <2> QED  BY <1>0, <1>1, <1>12, <2>1, ReadKeeps
<1>13. ASSUME NEW at \in Opened, NEW p \in Seeks, Lseek(at, p) PROVE WriteInv'
  <2>1. UNCHANGED <<disk, device, call, content>> /\ call = NONE /\ offset' = [offset EXCEPT ![at] = p] /\ p \in Nat
    BY <1>13, FatAssumption DEF Lseek, Ready
  <2> QED  BY <1>0, <1>1, <2>1, OffsetMoved
<1>14. CASE UNCHANGED vars  BY <1>2, <1>14 DEF vars
<1> QED  BY <1>3, <1>4, <1>5, <1>6, <1>7, <1>8, <1>9, <1>10, <1>11, <1>12, <1>13, <1>14 DEF Next, Writing

\* Both invariants hold at all times.
LEMMA Invariants == Spec => [](MountInv /\ WriteInv)
<1>1. MountInv /\ WriteInv /\ [Next]_vars => (MountInv /\ WriteInv)'  BY MountInvStep, WriteInvStep
<1> QED  BY <1>1, MountInvInit, WriteInvInit, PTL DEF Spec

\* What a vnode's entry is, on the disk as it is now.
LEMMA NodeEntry ==
  ASSUME MountInv, DiskSound(disk), NEW i \in Node
  PROVE  /\ nodes[i].at \in Entries /\ nodes[i].at \in Location
         /\ First(i) = EntryIn(disk, nodes[i].at).first
         /\ nodes[i].kind = "dir" => First(i) = Dir0(nodes[i].at).first
         /\ First(i) # 0 => First(i) \in HeadsIn(disk)
<1> DEFINE at == nodes[i].at
<1>1. MountSound(stack, current_parent, nodes) /\ i \in 1 .. Len(nodes) /\ nodes \in Seq(Vnode)
  BY DEF MountInv, MountSound, MountTyped, Node
<1>2. FirstOf(nodes[i].parent) \in Dirs /\ at \in ListedIn(Disk0, FirstOf(nodes[i].parent)) /\ nodes[i].kind = Dir0(at).kind
  BY <1>1 DEF MountSound, NodesFound, FirstsKnown
<1>3. at \in Entries /\ at \in Location  BY <1>2, ListedIsEntry
<1>4. First(i) = EntryIn(disk, at).first  BY DEF First, FetchDirectory
<1>5. nodes[i].kind = "dir" => First(i) = Dir0(at).first  BY <1>2, <1>3, <1>4 DEF DiskSound, HeadFits
<1>6. First(i) # 0 => First(i) \in HeadsIn(disk)  BY <1>3, <1>4, HeadsAre
<1> QED  BY <1>3, <1>4, <1>5, <1>6

\* The first cluster of one vnode only.
LEMMA NodeFirstsApart ==
  ASSUME MountInv, DiskSound(disk), NEW i \in Node, NEW j \in Node, First(i) # 0, First(i) = First(j)
  PROVE  i = j
<1>1. /\ nodes[i].at \in Entries /\ nodes[j].at \in Entries
      /\ EntryIn(disk, nodes[i].at).first # 0
      /\ EntryIn(disk, nodes[j].at).first = EntryIn(disk, nodes[i].at).first
  BY NodeEntry
<1>2. nodes[i].at = nodes[j].at  BY <1>1, OneFile
<1> QED  BY <1>2 DEF MountInv, MountSound, NodesApart, Node

\* Fat!ChainsSound: chains end, are apart and are long enough, of files and of
\* directories, whatever write power is lost before, and the table's copies
\* agree between calls; a volume whose entries a program wrote over is left out.
THEOREM ChainsStaySound == Spec => []ChainsSound
<1>1. ASSUME MountInv, WriteInv PROVE ChainsSound
  <2> DEFINE t == TableIn(disk)  heads == HeadsIn(disk)
  <2>1. DiskSound(disk) /\ TableSound(t, heads)  BY <1>1 DEF WriteInv, DiskSound
  <2>2. ASSUME NEW f \in Firsts PROVE Walked(f)[Clusters] >= EOC
    <3>1. Root \in heads  BY <2>1, Volume, HeadsAre
    <3>2. f \in heads  BY <1>1, <2>1, <2>2, <3>1, NodeEntry DEF Firsts
    <3> QED  BY <2>1, <3>2, ChainEnds DEF Walked
  <2>3. ASSUME NEW i \in Node, NEW j \in Node, i # j PROVE Chain(First(i)) \cap Chain(First(j)) = {}
    <3> SUFFICES ASSUME NEW c, c \in Chain(First(i)), c \in Chain(First(j)) PROVE FALSE  OBVIOUS
    <3>1. PICK a \in 0 .. Clusters : ClustersFrom(t, First(i))[a] = c /\ c \in Cluster  BY InChain DEF Chain
    <3>2. PICK b \in 0 .. Clusters : ClustersFrom(t, First(j))[b] = c  BY InChain DEF Chain
    <3>3. First(i) # 0 /\ First(j) # 0  BY <3>1, <3>2, NoChain
    <3>4. First(i) \in heads /\ First(j) \in heads  BY <1>1, <2>1, <3>3, NodeEntry
    <3>5. First(i) = First(j)
      <4> DEFINE x == First(i)  y == First(j)
      <4>1. x \in heads /\ y \in heads /\ ClustersFrom(t, x)[a] \in Cluster /\ ClustersFrom(t, x)[a] = ClustersFrom(t, y)[b]
        BY <3>1, <3>2, <3>4
      <4> HIDE DEF x, y, t, heads
      <4>2. x = y  BY <2>1, <4>1, ChainsApart
      <4> QED  BY <4>2 DEF x, y
    <3> QED  BY <1>1, <2>1, <2>3, <3>3, <3>5, NodeFirstsApart
  <2>4. ASSUME NEW i \in Node PROVE LongEnough(TableIn(disk), First(i), FetchDirectory(nodes[i].at).size)
    <3>1. nodes[i].at \in Entries /\ First(i) = EntryIn(disk, nodes[i].at).first  BY <1>1, <2>1, NodeEntry
    <3> QED  BY <2>1, <3>1 DEF DiskSound, FetchDirectory
  <2>5. ASSUME device = "disk", call = NONE
        PROVE  \A s \in Reserved .. Reserved + FatSize - 1 : disk[s] = disk[s + FatSize]
    <3>1. CopiesBut(disk, {})  BY <1>1, <2>5 DEF WriteInv, Kept, Between
    <3> QED  BY <3>1 DEF CopiesBut, FatSectors
  <2> QED  BY <2>2, <2>3, <2>4, <2>5 DEF ChainsSound
<1> QED  BY <1>1, Invariants, PTL

\* Fat!WrittenIsRead: what was written is read, on a disk that takes writes.
THEOREM WritesAreRead == Spec => []WrittenIsRead
<1>1. ASSUME WriteInv PROVE WrittenIsRead
  <2> SUFFICES ASSUME device = "disk", call = NONE, NEW at \in Opened, NEW p \in 0 .. MaxPos - 1, content[at][p] # NONE
               PROVE  p < FetchDirectory(at).size /\ ReadByte(at, p) = content[at][p]
    BY DEF WrittenIsRead, Ready
  <2>1. FileHas(disk, content, at)  BY <1>1 DEF WriteInv, Kept, Between, Opened
  <2>2. p < EntryIn(disk, at).size /\ Holds(disk, EntryIn(disk, at).first, p, content[at][p])  BY <2>1 DEF FileHas
  <2> QED  BY <2>2 DEF Holds, ByteAt, ReadByte, Walked, FetchDirectory
<1> QED  BY <1>1, Invariants, PTL

\* Mounting enters every directory of the volume: a vnode for each entry.
LEMMA EveryHeadIsMounted ==
  ASSUME MountInv, DiskSound(disk), ~Mounting
  PROVE  HeadsIn(disk) \subseteq Firsts
<1>1. /\ MountSound(stack, current_parent, nodes) /\ stack = <<>> /\ nodes \in Seq(Vnode)
  BY DEF MountInv, MountSound, MountTyped, Mounting
<1>2. \A o \in EnteredIn(nodes) : UnderIn(nodes, o) = ListedIn(Disk0, FirstOf(o)) /\ FirstOf(o) \in Dirs
  BY <1>1 DEF MountSound, Left, FirstsKnown
<1> DEFINE S == {FirstOf(o) : o \in EnteredIn(nodes)}
<1>3. ASSUME NEW f \in S, NEW at \in ListedIn(Disk0, f) PROVE \E i \in Node : nodes[i].at = at
  <2>1. PICK o \in EnteredIn(nodes) : f = FirstOf(o)  OBVIOUS
  <2>2. at \in UnderIn(nodes, o)  BY <1>2, <2>1
  <2> QED  BY <2>2 DEF UnderIn, Node
<1>4. S = Dirs
  <2>1. S \in SUBSET Dirs  BY <1>2
  <2>2. Root \in S
    <3>1. RootNode \in EnteredIn(nodes) /\ FirstOf(RootNode) = Root  BY DEF EnteredIn, FirstOf
    <3> QED  BY <3>1
  <2>3. ASSUME NEW f \in S, NEW at \in ListedIn(Disk0, f), EntryIn(Disk0, at).kind = "dir" PROVE EntryIn(Disk0, at).first \in S
    <3>1. PICK i \in Node : nodes[i].at = at  BY <1>3
    <3>2. nodes[i].kind = "dir" /\ at \in Location
      BY <1>1, <2>3, <3>1, NodeEntry DEF MountSound, NodesFound, Node, Dir0
    <3>3. at \in EnteredIn(nodes)  BY <3>1, <3>2 DEF EnteredIn, Node
    <3>4. FirstOf(at) = EntryIn(Disk0, at).first  BY <3>2, RootIsNoEntry DEF FirstOf, Dir0
    <3> QED  BY <3>3, <3>4
  <2> HIDE DEF S
  <2> QED  BY <2>1, <2>2, <2>3, VolumeAssumption
<1>5. ASSUME NEW f \in Dirs PROVE f \in Firsts
  <2>1. PICK o \in EnteredIn(nodes) : f = FirstOf(o)  BY <1>4
  <2>2. f # 0  BY DirHeads
  <2>3. CASE o = RootNode  BY <2>1, <2>2, <2>3 DEF FirstOf, Firsts
  <2>4. CASE o # RootNode
    <3>1. PICK i \in Node : o = nodes[i].at /\ nodes[i].kind = "dir"  BY <2>4 DEF EnteredIn, Node
    <3>2. First(i) = Dir0(o).first  BY <3>1, NodeEntry
    <3>3. First(i) = f  BY <2>1, <2>4, <3>2 DEF FirstOf
    <3> QED  BY <2>2, <3>3 DEF Firsts
  <2> QED  BY <2>3, <2>4
<1>6. ASSUME NEW at \in Entries, EntryIn(disk, at).first # 0 PROVE EntryIn(disk, at).first \in Firsts
  <2>1. PICK f \in Dirs : at \in ListedIn(Disk0, f)  BY DEF Entries
  <2>2. PICK i \in Node : nodes[i].at = at  BY <1>3, <1>4, <2>1
  <2>3. First(i) = EntryIn(disk, at).first  BY <2>2 DEF First, FetchDirectory
  <2> QED  BY <1>6, <2>3 DEF Firsts
<1> QED  BY <1>5, <1>6 DEF HeadsIn

\* Fat!LostOnlyWhenFull: no cluster is lost between calls but on a full disk.
THEOREM ClustersAreLostWhenFull == Spec => []LostOnlyWhenFull
<1>1. ASSUME MountInv, WriteInv PROVE LostOnlyWhenFull
  <2> SUFFICES ASSUME device = "disk", ~Mounting, call = NONE, FreeClusters # {}, NEW c \in Cluster, NextCluster(c) # 0
               PROVE  \E f \in Firsts : c \in Chain(f)
    BY DEF LostOnlyWhenFull, Ready
  <2>1. Covered(TableIn(disk), HeadsIn(disk)) /\ DiskSound(disk)  BY <1>1 DEF WriteInv, Kept, Between, Sound
  <2>2. TableIn(disk)[c] # 0  BY DEF NextCluster, TableIn
  <2>3. \E e \in Cluster : TableIn(disk)[e] = 0  BY FreeClusterIs
  <2>4. PICK f \in HeadsIn(disk) : c \in ChainIn(TableIn(disk), f)  BY <2>1, <2>2, <2>3 DEF Covered
  <2>5. f \in Firsts  BY <1>1, <2>1, EveryHeadIsMounted
  <2> QED  BY <2>4, <2>5 DEF Chain
<1> QED  BY <1>1, Invariants, PTL
=============================================================================
