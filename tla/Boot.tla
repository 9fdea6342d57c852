-------------------------------- MODULE Boot --------------------------------
(***************************************************************************)
(* Starting up, from the devices of the machine to the first program: the   *)
(* PCI functions are registered, the IDE drives probed and searched for     *)
(* partitions, the first partition of the first drive mounted, the program  *)
(* on it loaded and entered.  After that it reads the disks.                *)
(***************************************************************************)
EXTENDS Ide, Elf

ASSUME BootAssumption == PAGE_SIZE = Page /\ \A m \in Machines : m.programs \subseteq Images

vars == <<machine, pc, pciVars, ideVars, elfVars>>
startVars == <<machine, pciVars, channels, idedev, probe, file, result>>

Init == PciInit /\ IdeInit /\ ElfInit
-----------------------------------------------------------------------------
\* init: the file the file system is mounted from is looked up by its name,
\* and the mount fails unless its first sector is that of a FAT32 volume.
\* Where that sector was not read, the stack decides.
Named(name) == {n \in DOMAIN nodes : nodes[n].name = name}
RootFile == CHOOSE n \in Named(<<0, 0>>) : \A k \in Named(<<0, 0>>) : n <= k
Volume(bytes) ==
  IF bytes[1] = NONE THEN {"fat32", "endless", "other"}
  ELSE LET table == DriveOf(bytes[1][1]).table
           starts == {i \in DOMAIN table : table[i].start * SectorSize = bytes[1][2]} IN
       IF starts = {} THEN {"other"} ELSE {table[i].volume : i \in starts}

\* Directories whose chains, or whose nesting, come back to themselves are
\* walked without end, or until the heap or the kernel's stack is used up.
Mounted(volume) ==
  CASE volume = "fat32" -> {"exec"}
    [] volume = "endless" -> {"hang", "panic"}
    [] OTHER -> {"panic"}

NoRoot ==
  /\ pc = "mount" /\ Named(<<0, 0>>) = {}
  /\ pc' = "panic"
  /\ UNCHANGED <<startVars, nodes, elfVars>>

Mount ==
  /\ pc = "mount" /\ Named(<<0, 0>>) # {}
  /\ IF FileHangs(RootFile, 0, SectorSize)
     THEN pc' = "hang" /\ UNCHANGED nodes
     ELSE /\ \E volume \in Volume(FileBytes(RootFile, 0, SectorSize)) : pc' \in Mounted(volume)
          /\ nodes' = Moved(RootFile, 0, SectorSize)
  /\ UNCHANGED <<startVars, elfVars>>

\* exec: what elf_load returns is not looked at; the entry of a
\* program that was not loaded is address zero.
Exec ==
  /\ pc = "exec" /\ load.step = "idle"
  /\ \/ /\ image' \in machine.programs
        /\ load' = At("verify", 0, 0, 0)
        /\ UNCHANGED pc
     \/ /\ pc' = "panic"
        /\ UNCHANGED <<image, load>>
  /\ UNCHANGED <<startVars, nodes, memory, position>>

Load ==
  /\ pc = "exec" /\ ElfNext
  /\ UNCHANGED <<startVars, nodes, pc>>

Enter ==
  /\ pc = "exec" /\ load.step \in {"loaded", "failed"}
  /\ pc' = IF load.step = "loaded" THEN "run" ELSE "wild"
  /\ UNCHANGED <<startVars, nodes, elfVars>>

StartUp ==
  \/ PciNext /\ UNCHANGED <<ideVars, elfVars>>
  \/ IdeNext /\ UNCHANGED elfVars
  \/ NoRoot
  \/ Mount
  \/ Exec
  \/ Load
  \/ Enter
Program == (Open \/ Lseek \/ Read) /\ UNCHANGED elfVars
Next == StartUp \/ Program

\* The processor goes on: a step of starting up that can be taken is taken.
Spec == Init /\ [][Next]_vars /\ WF_vars(StartUp)
-----------------------------------------------------------------------------
Drives == {machine.drives[id] : id \in DOMAIN machine.drives}
Stops == \E d \in Drives : d.kind = "stuck" \/ (d.kind = "atapi" /\ d.medium)

\* What is mounted may have no end: its volume has not, or was not read.
Endless == Named(<<0, 0>>) # {} /\ "endless" \in Volume(FileBytes(RootFile, 0, SectorSize))

\* A machine whose first disk has a FAT32 volume in its first partition, that
\* can be read, runs the program on it or says what is wrong with it.
Bootable ==
  /\ Cardinality({l \in DOMAIN bars : FunctionAt(l).class = <<1, 1>>}) = 1
  /\ \E id \in DOMAIN machine.drives :
       LET d == machine.drives[id] IN
       /\ id[2] = 0 /\ (\E l \in DOMAIN bars : FunctionAt(l).class = <<1, 1>> /\ id[1] = BasePort(bars[l], 0))
       /\ d.kind = "ata" /\ d.table # NONE /\ d.table[1].fat /\ d.table[1].volume = "fat32"
       /\ {0, d.table[1].start} \subseteq (0 .. d.size - 1) \ d.bad
       /\ d.table[1].start * SectorSize < Word \div 2

\* Starting up comes to an end on every machine without a drive that never
\* answers and without a CD (waiting for one interrupt too many hangs): in a
\* panic, in the program, or at address zero when its file is no program.  Only
\* mounting a volume that has no end, or was not read, may hang; on a bootable
\* machine nothing does, and a panic is for want of the program.
StartupEnds ==
  ~Stops => <>(/\ pc \in {"run", "panic", "wild"} \/ (pc = "hang" /\ Endless)
               /\ Bootable => /\ pc # "hang"
                              /\ pc = "panic" => image = ABSENT /\ load.step = "idle")
=============================================================================
