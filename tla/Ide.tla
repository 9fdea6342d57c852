-------------------------------- MODULE Ide --------------------------------
(***************************************************************************)
(* The IDE disks and their partitions: probing the four drives of each      *)
(* controller, the files /dev/ide<n> and /dev/ide<n>p<i>, and reading them.  *)
(*                                                                          *)
(* A byte of a disk is named by where it is: the port of the channel, the   *)
(* drive on it, the position.  A read is one step: system calls run with    *)
(* interrupts disabled, and what a drive answers is its own business.       *)
(***************************************************************************)
EXTENDS Pci

CONSTANTS
  SectorSize,   \* bytes of a sector
  Byte,         \* values of a byte: of a register, and of a number of sectors
  Counts,       \* bound: how many bytes calls read
  Seeks,        \* bound: where lseek goes
  Starts        \* bound: where on a drive reads begin

ASSUME IdeAssumption ==
  /\ SectorSize \in Nat \ {0} /\ Byte \in Nat \ {0, 1} /\ Counts \subseteq Nat \ {0} /\ NONE \notin Nat
  /\ Seeks \subseteq 0 .. Word \div 2 - 1

VARIABLES
  channels,  \* [0 .. 1 -> the base port of the channel]
  idedev,    \* [0 .. 3 -> what probing found: IDEState.IDEDev]
  probe,     \* the device, channel and drive probed next, and IDEInitialise's count
  nodes,     \* the files of drives and partitions, in the order they are made
  file,      \* NONE, or the program's open file: which, and its offset
  result     \* NONE, or what the read that just ended returned

ideVars == <<channels, idedev, probe, nodes, file, result>>
-----------------------------------------------------------------------------
\* The drives: what the one on a port answers to IDENTIFY, and its contents.
NoDrive == [kind |-> "none", size |-> 0, lba |-> FALSE, medium |-> FALSE, table |-> NONE, bad |-> {}]
DriveOf(id) == IF id \in DOMAIN machine.drives THEN machine.drives[id] ELSE NoDrive
Id(d) == <<channels[idedev[d].channel], idedev[d].drive>>
Disk(d) == DriveOf(Id(d))

\* IDEAccess: the registers that name a sector, by cylinder, head and sector,
\* by 28 bits or by 48; and the sector a drive takes them for.
Heads == 16
PerTrack == 63
CHS(lba) ==
  LET sect == (lba % PerTrack) + 1
      track == lba + 1 - sect IN
  [mode |-> 0, io |-> <<sect, (track \div (Heads * PerTrack)) % Byte,
                        ((track \div (Heads * PerTrack)) \div Byte) % Byte>>,
   head |-> (track % (Heads * PerTrack)) \div PerTrack]
Byte2 == Byte * Byte
Byte3 == Byte2 * Byte
Digits(lba) == <<lba % Byte, (lba \div Byte) % Byte, (lba \div Byte2) % Byte>>
LBA28(lba) == [mode |-> 1, io |-> Digits(lba), head |-> (lba \div Byte3) % 16]
LBA48(lba) == [mode |-> 2, io |-> Digits(lba) \o <<(lba \div Byte3) % Byte>>, head |-> 0]
Registers(lba, can) ==
  IF lba >= 16 * Byte3 THEN LBA48(lba) ELSE IF can THEN LBA28(lba) ELSE CHS(lba)

Addressed(r) ==
  CASE r.mode = 0 -> ((r.io[2] + r.io[3] * Byte) * Heads + r.head) * PerTrack + r.io[1] - 1
    [] r.mode = 1 -> r.io[1] + r.io[2] * Byte + r.io[3] * Byte2 + r.head * Byte3
    [] OTHER -> r.io[1] + r.io[2] * Byte + r.io[3] * Byte2 + r.io[4] * Byte3

\* A sector below 2 GB has its registers, and a drive a size and a table.
ASSUME AddressAssumption ==
  /\ (Word \div 2) % SectorSize = 0
  /\ Word <= 2 * SectorSize * (Byte2 * (Heads * PerTrack))
  /\ Word <= 2 * SectorSize * (16 * Byte3)
  /\ \A m \in Machines : \A id \in DOMAIN m.drives :
       LET d == m.drives[id] IN
       /\ d.size \in Nat /\ d.lba \in BOOLEAN
       /\ d.table # NONE => \A i \in 1 .. 4 : d.table[i].start \in Nat

\* Sectors a command transfers: up to the first the drive reports an error for.
FirstSectorOf(d, lba) == Addressed(Registers(lba, idedev[d].lba))
Fails(d, sector) == sector \in Disk(d).bad \/ sector >= Disk(d).size
Transferred(d, n, lba) ==
  LET fails == {k \in 0 .. n - 1 : Fails(d, FirstSectorOf(d, lba) + k)} IN
  IF Disk(d).kind # "ata" THEN 0
  ELSE IF fails = {} THEN n ELSE CHOOSE k \in fails : \A j \in fails : k <= j

\* IDEReadSectors: the number of sectors is a byte.  Its errors are only
\* noted in a variable that nothing reads.
Filled(d, n, lba) ==
  LET numsects == n % Byte
      dev == idedev[d] IN
  IF ~dev.reserved \/ dev.type = "atapi" \/ (lba + numsects) % Word > dev.size THEN 0
  ELSE Transferred(d, numsects, lba)
SectorBytes(d, n, lba) ==
  [k \in 1 .. n * SectorSize |->
     IF (k - 1) \div SectorSize < Filled(d, n, lba)
     THEN <<Id(d), FirstSectorOf(d, lba) * SectorSize + k - 1>> ELSE NONE]

\* IDEAtaPIRead waits for one more interrupt than there is, with interrupts
\* disabled, once a medium has been read; without one the packet fails.
Hangs(d, n) ==
  idedev[d].reserved /\ idedev[d].type = "atapi" /\ n % Byte # 0
    /\ Disk(d).kind = "atapi" /\ Disk(d).medium

\* read: part of a sector, whole sectors, part of a sector; what takes no
\* bytes is not asked for.
Pieces(pos, count) ==
  LET off == pos % SectorSize
      head == IF off = 0 THEN 0 ELSE IF count < SectorSize - off THEN count ELSE SectorSize - off
      lba == pos \div SectorSize + (IF off = 0 THEN 0 ELSE 1)
      whole == (count - head) \div SectorSize
      tail == (count - head) % SectorSize IN
  << [n |-> 1, lba |-> pos \div SectorSize, skip |-> off, take |-> head],
     [n |-> whole, lba |-> lba, skip |-> 0, take |-> whole * SectorSize],
     [n |-> 1, lba |-> lba + whole, skip |-> 0, take |-> tail] >>

PieceBytes(d, p) == [i \in 1 .. p.take |-> SectorBytes(d, p.n, p.lba)[p.skip + i]]
BytesRead(d, pos, count) ==
  LET p == Pieces(pos, count) IN PieceBytes(d, p[1]) \o PieceBytes(d, p[2]) \o PieceBytes(d, p[3])
ReadHangs(d, pos, count) ==
  \E i \in 1 .. 3 : Pieces(pos, count)[i].take # 0 /\ Hangs(d, Pieces(pos, count)[i].n)
-----------------------------------------------------------------------------
\* Reading the n-th file, at a position of it: the bytes, and where the
\* drive's own file is after that.  A partition seeks in the file of its
\* drive, which search_for_partitions opened; lseek takes a signed number,
\* and the partition does not look at what it returns.
NotSought(n, pos) == nodes[nodes[n].owner].reference   \* mutant: relies on the last position
Sought(n, pos) ==
  LET off == (nodes[n].start + pos) % Word IN
  IF off < Word \div 2 THEN off ELSE nodes[nodes[n].owner].reference
From(n, pos) == IF nodes[n].kind = "drive" THEN pos ELSE Sought(n, pos)
Device(n) == nodes[nodes[n].owner].priv
FileBytes(n, pos, count) == BytesRead(Device(n), From(n, pos), count)
FileHangs(n, pos, count) == ReadHangs(Device(n), From(n, pos), count)
Moved(n, pos, count) ==
  IF nodes[n].kind = "drive" THEN nodes
  ELSE [nodes EXCEPT ![nodes[n].owner].reference = (From(n, pos) + count) % Word]
-----------------------------------------------------------------------------
\* IDEInitialise: a channel is where the registers say, or where it always
\* was, and the two drives of each are probed.
BasePort(bar, channel) ==
  LET b == bar[2 * channel] IN Aligned(b, 4) + (IF b # 0 THEN 0 ELSE IF channel = 0 THEN 496 ELSE 368)
Unstarted == [device |-> 1, slot |-> NONE, count |-> 0]
NoDev == [reserved |-> FALSE, type |-> "ata", channel |-> 0, drive |-> 0, size |-> 0, lba |-> FALSE]

IdeInit ==
  /\ channels = [c \in 0 .. 1 |-> 0]
  /\ idedev = [d \in 0 .. 3 |-> NoDev]
  /\ probe = Unstarted
  /\ nodes = <<>>
  /\ file = NONE
  /\ result = NONE

Device1 == devices[probe.device]
Passing == pc = "ide" /\ probe.slot = NONE
NextProbe(made) ==
  IF probe.slot < 3 THEN [probe EXCEPT !.slot = @ + 1, !.count = made]
  ELSE [Unstarted EXCEPT !.device = probe.device + 1]

\* pci_init goes through the devices; IDEFind takes the controllers.
PassDevice ==
  /\ Passing /\ probe.device <= Len(devices) /\ Device1.class # <<1, 1>>
  /\ probe' = [probe EXCEPT !.device = @ + 1]
  /\ UNCHANGED <<machine, pc, pciVars, channels, idedev, nodes, file, result>>

IDEFind ==
  /\ Passing /\ probe.device <= Len(devices) /\ Device1.class = <<1, 1>>
  /\ channels' = [c \in 0 .. 1 |-> BasePort(Device1.bar, c)]
  /\ probe' = [probe EXCEPT !.slot = 0]
  /\ UNCHANGED <<machine, pc, pciVars, idedev, nodes, file, result>>

Found ==
  /\ Passing /\ probe.device > Len(devices)
  /\ pc' = "mount"
  /\ UNCHANGED <<machine, pciVars, ideVars>>

Probing == pc = "ide" /\ probe.slot # NONE
Channel == probe.slot \div 2
Slave == probe.slot % 2
HereId == <<channels[Channel], Slave>>
Here == DriveOf(HereId)

\* The wait for an answer: it ends with an error or with data.
WaitsForData(drive) == drive.kind = "ata"   \* mutant: does not look for an error
Answers(drive) == drive.kind \in {"ata", "atapi", "other"}
NoAnswer ==
  /\ Probing /\ Here.kind # "none" /\ ~Answers(Here)
  /\ pc' = "hang"
  /\ UNCHANGED <<machine, pciVars, ideVars>>

\* No drive, or an error without the signature of a packet device.
ProbeNothing ==
  /\ Probing
  /\ Here.kind = "none" \/ (Here.kind = "other" /\ Answers(Here))
  /\ idedev' = [idedev EXCEPT ![probe.count].reserved = FALSE]
  /\ probe' = NextProbe(probe.count)
  /\ UNCHANGED <<machine, pc, pciVars, channels, nodes, file, result>>

\* The file of a drive keeps the number of the drive on its channel, where
\* reading it takes the number of an entry of IDEDev.
Identified == [reserved |-> TRUE, type |-> Here.kind, channel |-> Channel, drive |-> Slave,
               size |-> Here.size, lba |-> Here.lba]
DriveNode(owner) ==
  [name |-> <<probe.count>>, kind |-> "drive", owner |-> owner, priv |-> Slave, start |-> 0,
   reference |-> 0, of |-> HereId]

\* search_for_partitions: a file for each FAT32 entry of the sector read.
\* Where nothing was read the stack decides, that may hold an earlier one.
PartNode(owner, e, i) ==
  [name |-> <<probe.count, i - 1>>, kind |-> "part", owner |-> owner, priv |-> 0,
   start |-> (e.start * SectorSize) % Word, reference |-> 0, of |-> HereId]
PartNodes(owner, table) ==
  IF table = NONE THEN <<>>
  ELSE LET Made(i) == IF table[i].fat THEN <<PartNode(owner, table[i], i)>> ELSE <<>> IN
       Made(1) \o Made(2) \o Made(3) \o Made(4)
TableRead(bytes) ==
  IF bytes[1] = NONE THEN {NONE} \cup {machine.drives[id].table : id \in DOMAIN machine.drives}
  ELSE {DriveOf(bytes[1][1]).table}

ProbeDrive ==
  /\ Probing /\ Here.kind \in {"ata", "atapi"} /\ Answers(Here)
  /\ idedev' = [idedev EXCEPT ![probe.count] = Identified]
  /\ nodes' = Append(nodes, DriveNode(Len(nodes) + 1))
  /\ pc' = "partitions"
  /\ UNCHANGED <<machine, pciVars, channels, probe, file, result>>

SearchForPartitions ==
  LET owner == Len(nodes) IN
  /\ pc = "partitions"
  /\ IF FileHangs(owner, 0, SectorSize)
     THEN pc' = "hang" /\ UNCHANGED nodes
     ELSE /\ \E table \in TableRead(FileBytes(owner, 0, SectorSize)) :
               nodes' = [nodes EXCEPT ![owner].reference = SectorSize] \o PartNodes(owner, table)
          /\ pc' = "ide"
  /\ probe' = NextProbe(probe.count + 1)
  /\ UNCHANGED <<machine, pciVars, channels, idedev, file, result>>

IdeNext ==
  \/ PassDevice
  \/ IDEFind
  \/ Found
  \/ NoAnswer
  \/ ProbeNothing
  \/ ProbeDrive
  \/ SearchForPartitions
-----------------------------------------------------------------------------
\* The program opens the files, moves in them and reads them.
Open ==
  /\ pc = "run"
  /\ \E n \in DOMAIN nodes : file' = [node |-> n, offset |-> 0]
  /\ result' = NONE
  /\ UNCHANGED <<machine, pc, pciVars, channels, idedev, probe, nodes>>

Lseek ==
  /\ pc = "run" /\ file # NONE
  /\ \E pos \in Seeks : file' = [file EXCEPT !.offset = pos]
  /\ result' = NONE
  /\ UNCHANGED <<machine, pc, pciVars, channels, idedev, probe, nodes>>

Read ==
  /\ pc = "run" /\ file # NONE /\ From(file.node, file.offset) \in Starts
  /\ \E count \in Counts :
       LET n == file.node
           pos == file.offset IN
       IF FileHangs(n, pos, count)
       THEN pc' = "hang" /\ UNCHANGED <<nodes, file, result>>
       ELSE /\ nodes' = Moved(n, pos, count)
            /\ file' = [file EXCEPT !.offset = (pos + count) % Word]
            /\ result' = [node |-> n, pos |-> pos, data |-> FileBytes(n, pos, count)]
            /\ UNCHANGED pc
  /\ UNCHANGED <<machine, pciVars, channels, idedev, probe>>
-----------------------------------------------------------------------------
\* The drives before one, in the order they are probed.
Controllers == {k \in DOMAIN devices : devices[k].class = <<1, 1>>}
NumberedRight(n) ==
  /\ Cardinality(Controllers) = 1
  /\ nodes[n].of[1] = channels[0]
  /\ nodes[n].of[2] = 1 => DriveOf(<<channels[0], 0>>).kind \in {"ata", "atapi"}

\* Reading the file of a drive or of a partition returns the bytes of that
\* drive, from the start of the partition on, whoever has read other files
\* of the same drive in between: through partial sectors, the way the drive
\* is addressed, and the position the partitions of a drive share.  For the
\* files it is promised for: a disk on the first channel with every drive
\* before it there, below 2 GB, less than 256 sectors, none of them bad.
ReadsTheDisk ==
  result # NONE =>
    LET n == result.node
        count == Len(result.data)
        from == nodes[n].start + result.pos
        disk == DriveOf(nodes[n].of)
        sectors == from \div SectorSize .. (from + count - 1) \div SectorSize IN
    (/\ NumberedRight(n) /\ disk.kind = "ata"
     /\ from + count <= Word \div 2 /\ count \div SectorSize < Byte
     /\ sectors \subseteq 0 .. disk.size - 1 /\ sectors \cap disk.bad = {})
    => result.data = [i \in 1 .. count |-> <<nodes[n].of, from + i - 1>>]
=============================================================================
