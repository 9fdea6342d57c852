-------------------------------- MODULE Fat --------------------------------
(***************************************************************************)
(* The FAT32 driver: mounting a volume, and reading and writing its files.  *)
(* A directory's vnode has the same operations as a file's.                 *)
(*                                                                          *)
(* The disk is its sectors: both copies of the table, and the clusters,     *)
(* that hold directories or bytes.  Each sector the driver writes is a step *)
(* of its own, and power may be lost before any of them.  An IDE disk takes *)
(* none of them, which the driver does not notice: it ignores what          *)
(* vfs_write returns.  A program that writes to a directory may write over  *)
(* its entries: the volume is then torn, and no more is said of it.         *)
(*                                                                          *)
(* System calls run with interrupts disabled: one call at a time.           *)
(***************************************************************************)
EXTENDS Integers, Sequences, FiniteSets

CONSTANTS
  Reserved, FatSize, ClusterSize,  \* the boot sector's geometry, in sectors
  Fats,         \* copies of the table that it counts
  Clusters,     \* clusters of the volume
  PerFat,       \* entries of a sector of the table
  PerDir,       \* entries of a sector of a directory
  SectorSize,   \* bytes of a sector
  Root,         \* the root directory's first cluster
  Disk0,        \* the volume that is mounted
  Dirs,         \* the first clusters of its directories
  OpenAt,       \* bound: the entries that programs open
  MaxPos,       \* bound: the position a call ends at
  Writes,       \* bound: what calls write, a count of one byte
  Seeks,        \* bound: where lseek goes
  NONE

\* Positions on the disk are signed: the last sector's is below 2 GiB.  The
\* driver writes two copies of the table, whatever their number.
ASSUME FatAssumption ==
  /\ Fats \in Nat /\ Fats >= 2
  /\ (Reserved + Fats * FatSize + Clusters * ClusterSize - 1) * SectorSize <= 2147483647
  /\ {Reserved, FatSize, ClusterSize, PerFat, PerDir, SectorSize, Clusters} \subseteq Nat \ {0}
  /\ FatSize * PerFat >= Clusters + 2
  /\ Clusters + 1 < 268435448 /\ Root \in 2 .. Clusters + 1 /\ MaxPos \in Nat
  /\ Writes \subseteq (Nat \ {0}) \X Nat /\ Seeks \subseteq Nat

VARIABLES
  disk,           \* [sector -> its entries or bytes]
  device,         \* "disk", "ide" (takes no write), "off" (power is lost) or "torn"
  stack,          \* iterate_directory's activations, the innermost first
  current_parent, \* the directory add_file appends to
  nodes,          \* the vnodes made: location, parent, kind
  offset,         \* [location -> file_t.offset]
  call,           \* NONE, or the write in progress
  content         \* history: [location -> [position -> byte written, or NONE]]

mountVars == <<stack, current_parent, nodes>>
vars == <<disk, device, mountVars, offset, call, content>>
-----------------------------------------------------------------------------
\* Where things are on the disk.
EOC == 268435448             \* 0x0FFFFFF8
Cluster == 2 .. Clusters + 1
ClusterBytes == SectorSize * ClusterSize
PerCluster == PerDir * ClusterSize
FirstData == Reserved + Fats * FatSize   \* a FAT32 volume has no other root
FirstSector(c) == (c - 2) * ClusterSize + FirstData
FatSector(c) == Reserved + c \div PerFat

TableIn(d) == [c \in Cluster |-> d[FatSector(c)][c % PerFat]]
NextCluster(c) == disk[FatSector(c)][c % PerFat]
FreeClusters == {c \in Cluster : NextCluster(c) = 0}
FindFreeCluster ==
  IF FreeClusters = {} THEN 0 ELSE CHOOSE c \in FreeClusters : \A d \in FreeClusters : c <= d

DirSector(at) == FirstSector(at.cluster) + at.index \div PerDir
EntryIn(d, at) == d[DirSector(at)][at.index % PerDir]
FetchDirectory(at) == EntryIn(disk, at)

\* The clusters next_cluster finds from the first, in a table, and those of a
\* file or directory among them.
Follow(table, c) == IF c \in Cluster THEN table[c] ELSE c
ClustersFrom(table, first) ==
  LET walk[k \in 0 .. Clusters] == IF k = 0 THEN first ELSE Follow(table, walk[k - 1])
  IN walk
ChainIn(table, first) == {ClustersFrom(table, first)[k] : k \in 0 .. Clusters} \cap Cluster

\* The cluster of a file's last byte is its own.
LongEnough(table, first, size) ==
  size > 0 => (size - 1) \div ClusterBytes <= Clusters
              /\ ClustersFrom(table, first)[(size - 1) \div ClusterBytes] \in Cluster

Location == [cluster : Cluster, index : 0 .. PerCluster - 1]
Unwritten == [p \in 0 .. MaxPos - 1 |-> NONE]
With(f, x, v) == [y \in DOMAIN f \cup {x} |-> IF y = x THEN v ELSE f[y]]
RootNode == [cluster |-> 0, index |-> 0]

\* The entries of a directory, up to the first without a name.
Named == {"file", "dir"}
ListedIn(d, first) ==
  LET clusters == ClustersFrom(TableIn(d), first) IN
  {at \in Location : \E k \in 0 .. Clusters :
     /\ at.cluster = clusters[k] /\ EntryIn(d, at).kind \in Named
     /\ \A j \in 0 .. k, i \in 0 .. PerCluster - 1 :
          (j < k \/ i < at.index) => EntryIn(d, [cluster |-> clusters[j], index |-> i]).kind # "end"}

\* A table whose chains, from the heads, are apart and end.
TableSound(table, heads) ==
  /\ \A c \in Cluster : table[c] \in Cluster \cup {0} \/ (table[c] \in Nat /\ table[c] >= EOC)
  /\ \A c \in Cluster : table[c] \in Cluster => table[table[c]] # 0 /\ table[c] \notin heads
  /\ \A c, e \in Cluster : table[c] \in Cluster /\ table[c] = table[e] => c = e
  /\ \A f \in heads : f \in Cluster /\ table[f] # 0

\* The volume as it was formatted and filled: its directories a tree, what is in
\* them with chains of their own, no cluster lost, the table's copies the same.
DirEntry == [kind : {"file", "dir", "skip", "end"}, first : Nat, size : Nat]
FatSectors == Reserved .. Reserved + FatSize - 1
SectorsOf(c) == FirstSector(c) .. FirstSector(c) + ClusterSize - 1
DirClusters == UNION {ChainIn(TableIn(Disk0), f) : f \in Dirs}
Entries == UNION {ListedIn(Disk0, f) : f \in Dirs}
HeadsIn(d) == Dirs \cup ({EntryIn(d, at).first : at \in Entries} \ {0})

ASSUME SectorsAssumption ==
  /\ DOMAIN Disk0 = Reserved .. FirstData + Clusters * ClusterSize - 1
  /\ \A s \in FatSectors : Disk0[s] \in [0 .. PerFat - 1 -> Nat] /\ Disk0[s] = Disk0[s + FatSize]
  /\ \A c \in DirClusters : \A s \in SectorsOf(c) : Disk0[s] \in [0 .. PerDir - 1 -> DirEntry]
  /\ \A c \in Cluster \ DirClusters : \A s \in SectorsOf(c) : DOMAIN Disk0[s] = 0 .. SectorSize - 1

ASSUME VolumeAssumption ==
  LET table == TableIn(Disk0)
      dir(at) == EntryIn(Disk0, at) IN
  /\ TableSound(table, HeadsIn(Disk0))
  /\ \A c \in Cluster : table[c] # 0 => \E f \in HeadsIn(Disk0) : c \in ChainIn(table, f)
  /\ \A at \in Entries :
       /\ dir(at).kind = "dir" => dir(at).first \in Dirs \ {Root}
       /\ dir(at).kind = "file" => dir(at).first \in {0} \cup (Cluster \ Dirs)
       /\ LongEnough(table, dir(at).first, dir(at).size)
       /\ \A b \in Entries : dir(at).first # 0 /\ dir(at).first = dir(b).first => at = b
  /\ Root \in Dirs
  /\ \A S \in SUBSET Dirs :
       Root \in S /\ (\A f \in S : \A at \in ListedIn(Disk0, f) :
                        dir(at).kind = "dir" => dir(at).first \in S) => S = Dirs

Init ==
  /\ disk = Disk0
  /\ device \in {"disk", "ide"}
  /\ stack = <<[cluster |-> Root, index |-> 0, save |-> RootNode]>>
  /\ current_parent = RootNode
  /\ nodes = <<>>
  /\ offset = [at \in {} |-> 0]
  /\ call = NONE
  /\ content = [at \in {} |-> Unwritten]
-----------------------------------------------------------------------------
\* mount: iterate_directory calls add_file, which calls iterate_directory.
Mounting == stack # <<>>
Top == Head(stack)
AtEntry == Mounting /\ Top.cluster < EOC /\ Top.index < PerCluster
Here == [cluster |-> Top.cluster, index |-> Top.index]
Advanced(s) == <<[s[1] EXCEPT !.index = @ + 1]>> \o Tail(s)

\* A directory ends at an entry without a name or after its last cluster;
\* add_file takes the parent back that it saved.
NotReturned(save) == current_parent   \* mutant: keeps the subdirectory
Returned(save) == save
MountReturn ==
  /\ Mounting
  /\ Top.cluster >= EOC \/ (AtEntry /\ FetchDirectory(Here).kind = "end")
  /\ stack' = Tail(stack)
  /\ current_parent' = Returned(Top.save)
  /\ UNCHANGED <<disk, device, nodes, offset, call, content>>

MountNextCluster ==
  /\ Mounting /\ Top.cluster < EOC /\ Top.index = PerCluster
  /\ stack' = <<[cluster |-> NextCluster(Top.cluster), index |-> 0, save |-> Top.save]>> \o Tail(stack)
  /\ UNCHANGED <<disk, device, current_parent, nodes, offset, call, content>>

\* Deleted entries, long names, the volume's name, "." and "..".
MountSkip ==
  /\ AtEntry /\ FetchDirectory(Here).kind = "skip"
  /\ stack' = Advanced(stack)
  /\ UNCHANGED <<disk, device, current_parent, nodes, offset, call, content>>

AddFile ==
  LET dir == FetchDirectory(Here)
      descends == dir.kind = "dir" IN
  /\ AtEntry /\ dir.kind \in {"file", "dir"}
  /\ nodes' = Append(nodes, [at |-> Here, parent |-> current_parent, kind |-> dir.kind])
  /\ current_parent' = IF descends THEN Here ELSE current_parent
  /\ stack' = (IF descends THEN <<[cluster |-> dir.first, index |-> 0, save |-> current_parent]>>
               ELSE <<>>) \o Advanced(stack)
  /\ offset' = With(offset, Here, 0)
  /\ content' = With(content, Here, Unwritten)
  /\ UNCHANGED <<disk, device, call>>
-----------------------------------------------------------------------------
\* Writes of one sector, read just before: an entry of one of the two copies
\* of the table (the second from the buffer of the first), an entry of a
\* directory, or some bytes.
FatWrite(copy, c, value) == [to |-> "fat", copy |-> copy, cluster |-> c, value |-> value]
DirWrite(at, dir) == [to |-> "dir", at |-> at, dir |-> dir]
DataWrite(s, off, n, v) == [to |-> "data", sector |-> s, off |-> off, n |-> n, byte |-> v]

SetCluster(c, value) == <<FatWrite(1, c, value), FatWrite(2, c, value)>>
Mark(c) == SetCluster(c, EOC)
LinkThenMark(c, next) == SetCluster(c, next) \o Mark(next)   \* mutant: the other order
Extension(c, next) == Mark(next) \o SetCluster(c, next)

OverlayWhole(old, off, n, v) ==   \* mutant: does not keep the sector's other bytes
  [i \in DOMAIN old |-> IF i < off + n THEN v ELSE old[i]]
Overlay(old, off, n, v) == [i \in DOMAIN old |-> IF i \in off .. off + n - 1 THEN v ELSE old[i]]

After(d, w) ==
  CASE w.to = "fat" ->
         LET s == FatSector(w.cluster) IN
         [d EXCEPT ![s + (w.copy - 1) * FatSize] = [d[s] EXCEPT ![w.cluster % PerFat] = w.value]]
    [] w.to = "dir" ->
         LET s == DirSector(w.at) IN [d EXCEPT ![s] = [d[s] EXCEPT ![w.at.index % PerDir] = w.dir]]
    [] w.to = "data" -> [d EXCEPT ![w.sector] = Overlay(d[w.sector], w.off, w.n, w.byte)]

\* A write in progress.
SectorWrite ==
  [to : {"fat"}, copy : {1, 2}, cluster : Cluster, value : Nat]
    \cup [to : {"dir"}, at : Location, dir : DirEntry]
    \cup [to : {"data"}, sector : Nat, off : Nat, n : Nat, byte : Nat]
Call == [at : Location, n : Nat, v : Nat, dir : DirEntry, cluster : Cluster, skip : Nat,
         coff : Nat, done : Nat, queue : Seq(SectorWrite), ending : BOOLEAN]
ASSUME NoneAssumption == NONE \notin Call

\* The file's entry with its first cluster, which an empty file gets.
StartedEmpty(dir, c) == dir   \* mutant: forgets the first cluster
Started(dir, c) == [dir EXCEPT !.first = c]

Opened == DOMAIN offset \cap OpenAt   \* files and directories, each once
Ready == ~Mounting /\ call = NONE

\* write, up to the first sector it changes.
Write(at, n, v) ==
  LET dir == FetchDirectory(at)
      free == FindFreeCluster
      started == IF dir.first = 0 THEN Started(dir, free) ELSE dir
      begins == dir.first # 0 \/ free # 0 IN
  /\ Ready /\ offset[at] + n <= MaxPos
  /\ call' = IF ~begins THEN NONE
             ELSE [at |-> at, n |-> n, v |-> v, dir |-> started,
                   cluster |-> IF dir.first = 0 THEN free ELSE dir.first,
                   skip |-> offset[at] \div ClusterBytes, coff |-> offset[at] % ClusterBytes,
                   done |-> 0, queue |-> IF dir.first = 0 THEN Mark(free) ELSE <<>>, ending |-> FALSE]
  /\ UNCHANGED <<disk, device, mountVars, offset, content>>

InCall == call # NONE /\ call.queue = <<>> /\ ~call.ending

\* Bytes that a write to a directory puts where entries are.
DirSectors == UNION {SectorsOf(c) : c \in DirClusters}
Tears(c, w) == c.dir.kind = "dir" /\ w.to = "data" /\ w.sector \in DirSectors

\* The next sector reaches the disk, or not.
Flush ==
  /\ call # NONE /\ call.queue # <<>>
  /\ call' = [call EXCEPT !.queue = Tail(@)]
  /\ IF device = "disk" /\ Tears(call, Head(call.queue))
     THEN device' = "torn" /\ disk' = disk
     ELSE /\ device' = device
          /\ disk' = IF device = "disk" THEN After(disk, Head(call.queue)) ELSE disk
  /\ UNCHANGED <<mountVars, offset, content>>

\* The call goes on in the next cluster, a new one if there is none, and
\* with the state "full" makes of it if the disk is full.
ToNext(next, more, full) ==
  LET free == FindFreeCluster IN
  call' = IF next < EOC THEN [more EXCEPT !.cluster = next]
          ELSE IF free = 0 THEN full
          ELSE [more EXCEPT !.cluster = free, !.queue = Extension(call.cluster, free)]

\* To the cluster of the offset; a full disk fails the call there.
Walk ==
  /\ InCall /\ call.skip > 0
  /\ ToNext(NextCluster(call.cluster), [call EXCEPT !.skip = @ - 1], NONE)
  /\ UNCHANGED <<disk, device, mountVars, offset, content>>

\* After a cluster's last byte; a full disk makes the call shorter.
Extend ==
  /\ InCall /\ call.skip = 0 /\ call.coff >= ClusterBytes /\ call.done < call.n
  /\ ToNext(NextCluster(call.cluster), [call EXCEPT !.coff = 0], [call EXCEPT !.n = call.done])
  /\ UNCHANGED <<disk, device, mountVars, offset, content>>

\* The bytes of one sector.
WriteSector ==
  LET off == call.coff % SectorSize
      room == SectorSize - off
      copy == IF room > call.n - call.done THEN call.n - call.done ELSE room IN
  /\ InCall /\ call.skip = 0 /\ call.coff < ClusterBytes /\ call.done < call.n
  /\ call' = [call EXCEPT !.done = @ + copy, !.coff = @ + copy,
                !.queue = <<DataWrite(FirstSector(call.cluster) + call.coff \div SectorSize,
                                      off, copy, call.v)>>]
  /\ UNCHANGED <<disk, device, mountVars, offset, content>>

\* The directory's entry last, with the larger size.
WriteDirectory ==
  LET end == offset[call.at] + call.done
      size == IF end > call.dir.size THEN end ELSE call.dir.size IN
  /\ InCall /\ call.skip = 0 /\ call.done = call.n
  /\ call' = [call EXCEPT !.ending = TRUE,
                !.queue = <<DirWrite(call.at, [call.dir EXCEPT !.size = size])>>]
  /\ UNCHANGED <<disk, device, mountVars, offset, content>>

WriteReturn ==
  LET from == offset[call.at] IN
  /\ call # NONE /\ call.queue = <<>> /\ call.ending
  /\ content' = [content EXCEPT ![call.at] =
       [p \in DOMAIN @ |-> IF p \in from .. from + call.done - 1 THEN call.v ELSE @[p]]]
  /\ offset' = [offset EXCEPT ![call.at] = @ + call.done]
  /\ call' = NONE
  /\ UNCHANGED <<disk, device, mountVars>>

Walked(first) == ClustersFrom(TableIn(disk), first)

\* read: the bytes from a position below the size.
ReadByte(at, p) ==
  LET c == Walked(FetchDirectory(at).first)[p \div ClusterBytes]
      coff == p % ClusterBytes
  IN disk[FirstSector(c) + coff \div SectorSize][coff % SectorSize]

\* lseek is the default one: any position.
Lseek(at, p) ==
  /\ Ready
  /\ offset' = [offset EXCEPT ![at] = p]
  /\ UNCHANGED <<disk, device, mountVars, call, content>>

Read(at, n) ==
  LET size == FetchDirectory(at).size
      end == IF offset[at] + n > size THEN size ELSE offset[at] + n IN
  /\ Ready
  /\ offset' = IF offset[at] >= size THEN offset ELSE [offset EXCEPT ![at] = end]
  /\ UNCHANGED <<disk, device, mountVars, call, content>>

PowerLoss == device' = "off" /\ UNCHANGED <<disk, mountVars, offset, call, content>>

Mount == MountReturn \/ MountNextCluster \/ MountSkip \/ AddFile
Writing == Flush \/ Walk \/ Extend \/ WriteSector \/ WriteDirectory \/ WriteReturn

Next ==
  /\ device \notin {"off", "torn"}
  /\ \/ Mount \/ Writing \/ PowerLoss
     \/ \E at \in Opened, w \in Writes : Write(at, w[1], w[2])
     \/ \E at \in Opened : Read(at, MaxPos)
     \/ \E at \in Opened, p \in Seeks : Lseek(at, p)

Spec == Init /\ [][Next]_vars
-----------------------------------------------------------------------------
Node == 1 .. Len(nodes)
Files == {i \in Node : nodes[i].kind = "file"}
First(i) == FetchDirectory(nodes[i].at).first
Chain(first) == ChainIn(TableIn(disk), first)
Firsts == ({Root} \cup {First(i) : i \in Node}) \ {0}

\* Whatever write power is lost before, and until a directory's entries are
\* written over, the disk's chains are sound: each ends, no cluster is in two
\* of them, each is long enough for the size its entry gives, of a directory
\* that was written past its end too, and between calls the table's copies agree.
ChainsSound ==
  ~Mounting =>
    /\ \A f \in Firsts : Walked(f)[Clusters] >= EOC
    /\ \A i, j \in Node : i # j => Chain(First(i)) \cap Chain(First(j)) = {}
    /\ \A i \in Node : LongEnough(TableIn(disk), First(i), FetchDirectory(nodes[i].at).size)
    /\ (device = "disk" /\ call = NONE) => \A s \in Reserved .. Reserved + FatSize - 1 : disk[s] = disk[s + FatSize]

\* What was written is read: through chains that grow, sectors read and
\* written back, and the other files' writes, on a disk that takes writes
\* whose directories keep their entries.  So are bytes past a directory's end.
WrittenIsRead ==
  (device = "disk" /\ Ready) =>
    \A at \in Opened, p \in 0 .. MaxPos - 1 : content[at][p] # NONE =>
      p < FetchDirectory(at).size /\ ReadByte(at, p) = content[at][p]

\* A write that fails or falls short leaves clusters that no file or directory
\* has, but only on a disk that is full.
LostOnlyWhenFull ==
  (device = "disk" /\ Ready /\ FreeClusters # {}) =>
    \A c \in Cluster : NextCluster(c) # 0 => \E f \in Firsts : c \in Chain(f)

\* Mounting makes one vnode for each entry of each directory, under that
\* directory, that finds the entry again (writes leave both as they are).
InDirectory(first) == ListedIn(disk, first)
Under(at) == {nodes[i].at : i \in {i \in Node : nodes[i].parent = at}}
EveryEntryHasItsNode ==
  (~Mounting /\ disk = Disk0) =>
    /\ Under(RootNode) = InDirectory(Root)
    /\ \A i \in Node \ Files : Under(nodes[i].at) = InDirectory(First(i))
    /\ \A i, j \in Node : nodes[i].at = nodes[j].at => i = j
=============================================================================
