-------------------------------- MODULE Pci --------------------------------
(***************************************************************************)
(* Finding the PCI devices of the machine: every function of every slot is  *)
(* looked for, its base address registers (BARs) are read and probed, and   *)
(* the memory behind them is mapped at its own address for the kernel.      *)
(*                                                                          *)
(* A location is a slot (bus and slot in one number) and a function.  An    *)
(* address has Word values instead of 2^32, and nothing else runs while the *)
(* configuration space is looked at: registering a device is one step.      *)
(***************************************************************************)
EXTENDS Integers, Sequences, FiniteSets

CONSTANTS
  Word,       \* values of an address and of a size
  Page,       \* bytes of a page
  Slots,      \* slots of the machine
  Machines,   \* the machines that may be booted: functions and drives
  MAX_DEVICES,
  NONE

ASSUME PciAssumption ==
  /\ {Word, Page, Slots, MAX_DEVICES} \subseteq Nat \ {0} /\ Word % Page = 0 /\ Page % 16 = 0
  /\ \A m \in Machines : Cardinality(DOMAIN m.functions) <= MAX_DEVICES

VARIABLES
  machine,  \* the machine: functions and drives
  pc,       \* "pci", then the later stages of starting up
  at,       \* the function that is looked for next
  bars,     \* [location -> [0 .. 5 -> the register's value]]
  devices,  \* the devices registered: location and the registers read
  mapped,   \* addresses of the pages mapped for devices
  pcinodes  \* the names made in /dev/pci

pciVars == <<at, bars, devices, mapped, pcinodes>>
-----------------------------------------------------------------------------
Aligned(x, n) == (x \div n) * n   \* x & ~(n - 1)
Bar == 0 .. 5
FunctionAt(l) == machine.functions[l]
Exists(l) == l \in DOMAIN machine.functions

\* The device's side: a register keeps the bits of an address its region is
\* aligned to, and the flags it has; the upper half of a 64-bit register
\* keeps every bit, and one that is not there reads as zero.
Region(l, i) == FunctionAt(l).regions[i]
Kept(r, value) ==
  CASE r.kind = "none" -> 0
    [] r.kind = "high" -> value
    [] OTHER -> Aligned(value, r.size) + r.flags
WriteBar(l, b, i, value) == [b EXCEPT ![i] = Kept(Region(l, i), value)]
AllOnes == Word - 1

\* What PCI says of a machine: every register holds a value it can hold; a
\* memory region is a power of two of at least 16 bytes, below 4 GB, and the
\* register after a 64-bit one is its upper half; only a device that says so
\* has functions after the first.
RegionSound(regions, i) ==
  LET r == regions[i] IN
  /\ r.kind \in {"none", "io", "mem", "mem64", "high"}
  /\ r.value \in 0 .. AllOnes /\ Kept(r, r.value) = r.value
  /\ r.kind = "io" => r.value % 2 = 1
  /\ r.kind \in {"mem", "mem64"} =>
       /\ r.size \in 1 .. AllOnes /\ r.size % 16 = 0 /\ Word % r.size = 0
       /\ r.flags \in IF r.kind = "mem" THEN {0, 2, 8, 10} ELSE {4, 12}
  /\ r.kind = "mem64" => i # 5 /\ regions[i + 1].kind = "high"
ASSUME MachineAssumption ==
  \A m \in Machines :
    /\ DOMAIN m.functions \subseteq (0 .. Slots - 1) \X (0 .. 7)
    /\ \A l \in DOMAIN m.functions :
         /\ l[2] # 0 => <<l[1], 0>> \in DOMAIN m.functions /\ m.functions[<<l[1], 0>>].multi = TRUE
         /\ \A i \in Bar : RegionSound(m.functions[l].regions, i)

\* pciGetBARSize: all ones are written, the size is in the bits that stay
\* zero, and the register gets its value back.  The size, and the registers.
SizeOf(mask, unit, words) == (words - Aligned(mask, unit)) % words
LowRestored(l, b, i, value) ==   \* mutant: forgets the upper half
  IF Region(l, i).kind = "high" THEN b ELSE WriteBar(l, b, i, value)
Restored(l, b, i, value) == WriteBar(l, b, i, value)
GetBARSize(l, b, i) ==
  LET low == b[i]
      once == WriteBar(l, b, i, AllOnes) IN
  IF low = 0 THEN <<0, b>>
  ELSE IF low % 2 = 1 THEN <<SizeOf(once[i], 4, Word), Restored(l, once, i, low)>>
  ELSE IF (low \div 2) % 4 # 2 THEN <<SizeOf(once[i], 16, Word), Restored(l, once, i, low)>>
  ELSE IF i = 5 THEN <<0, b>>
  ELSE LET both == WriteBar(l, once, i + 1, AllOnes) IN
       <<SizeOf(both[i + 1] * Word + both[i], 16, Word * Word) % Word,
         Restored(l, Restored(l, both, i, low), i + 1, b[i + 1])>>

\* The page addresses paging_map is called with: it drops the offset.
PagesOf(phys, size) ==
  {Aligned((phys + k * Page) % Word, Page) : k \in 0 .. (size + Page - 1) \div Page - 1}

\* pciRegister's loop over the registers of l, as they were read.
ProbeBar(l, done, i) ==
  LET read == bars[l][i] IN
  IF read = 0 \/ read % 2 = 1 THEN done
  ELSE LET sized == GetBARSize(l, done.bars, i) IN
       [bars |-> sized[2], pages |-> done.pages \cup PagesOf(Aligned(read, 16), sized[1])]
Probed(l) ==
  LET Then(done, i) == ProbeBar(l, done, i) IN
  Then(Then(Then(Then(Then(Then([bars |-> bars[l], pages |-> {}], 0), 1), 2), 3), 4), 5)

\* pciClassToFileName.
Listed(names, subclass) == IF subclass < Len(names) THEN names[subclass + 1] ELSE "unknown"
FileName(c, s) ==
  CASE c = 0 -> IF s = 1 THEN "lvga" ELSE "unknown"
    [] c = 1 /\ s = 128 -> "mass"
    [] c = 2 /\ s = 128 -> "network"
    [] c = 3 /\ s = 128 -> "display"
    [] c = 6 /\ s = 128 -> "bridge"
    [] c = 1 -> Listed(<<"scsi", "ide", "floppy", "ipi", "raid", "ata", "sata", "sas">>, s)
    [] c = 2 -> Listed(<<"eth", "token", "fddi", "atm", "isdn", "worldfip", "picmg">>, s)
    [] c = 3 -> Listed(<<"vga", "xga", "vga3d">>, s)
    [] c = 6 -> Listed(<<"host", "isa", "eisa", "mca", "pcipci", "pcmcia", "nubus", "cardbus",
                         "raceway", "pcipcisemi", "infinibandpci">>, s)
    [] c = 12 -> Listed(<<"firewire", "access", "ssa", "usb", "fibre", "sm", "infiniband", "ipmi",
                          "sercos", "canbus">>, s)
    [] OTHER -> "unknown"

PciInit ==
  /\ machine \in Machines
  /\ pc = "pci"
  /\ at = <<0, 0>>
  /\ bars = [l \in DOMAIN machine.functions |-> [i \in Bar |-> machine.functions[l].regions[i].value]]
  /\ devices = <<>>
  /\ mapped = {}
  /\ pcinodes = <<>>
-----------------------------------------------------------------------------
\* pciEnumerateDevices: functions after the first are looked for only when
\* the header of the first says that there may be any.
FuncLimit(slot) == IF FunctionAt(<<slot, 0>>).multi THEN 8 ELSE 1
NextSlot == <<at[1] + 1, 0>>
NextFunction == IF at[2] + 1 < FuncLimit(at[1]) THEN <<at[1], at[2] + 1>> ELSE NextSlot
Enumerating == pc = "pci" /\ at[1] < Slots

SkipFunction ==
  /\ Enumerating /\ ~Exists(at)
  /\ at' = IF at[2] = 0 THEN NextSlot ELSE NextFunction
  /\ UNCHANGED <<machine, pc, bars, devices, mapped, pcinodes>>

DeviceInfo(l) == [at |-> l, class |-> FunctionAt(l).class, bar |-> bars[l]]
Register ==
  /\ Enumerating /\ Exists(at)
  /\ LET probed == Probed(at)
         class == FunctionAt(at).class IN
     /\ devices' = Append(devices, DeviceInfo(at))
     /\ bars' = [bars EXCEPT ![at] = probed.bars]
     /\ mapped' = mapped \cup probed.pages
     /\ pcinodes' = Append(pcinodes, FileName(class[1], class[2]))
  /\ at' = NextFunction
  /\ UNCHANGED <<machine, pc>>

Enumerated ==
  /\ pc = "pci" /\ at[1] = Slots
  /\ pc' = "ide"
  /\ UNCHANGED <<machine, pciVars>>

PciNext == SkipFunction \/ Register \/ Enumerated
-----------------------------------------------------------------------------
\* The memory of a function that the firmware gave an address.
MemoryOf(l) ==
  UNION {PagesOf(Aligned(r.value, 16), r.size) :
           r \in {Region(l, i) : i \in {j \in Bar : Region(l, j).kind \in {"mem", "mem64"}
                                                   /\ Region(l, j).value # 0}}}
Below4GB == \A l \in DOMAIN bars : \A i \in Bar : Region(l, i).kind = "high" => Region(l, i).value = 0

\* Probing leaves every register as the firmware set it, whatever regions it
\* is between, and once all devices are registered each is, once, and exactly
\* the pages of the memory of the devices are mapped: where all of it is below
\* 4 GB, for an upper half that is not zero is taken for another region.
BarsKeptAndMapped ==
  /\ \A l \in DOMAIN bars : \A i \in Bar : bars[l][i] = Region(l, i).value
  /\ pc # "pci" =>
       /\ Below4GB => mapped = UNION {MemoryOf(l) : l \in DOMAIN bars}
       /\ {devices[k].at : k \in DOMAIN devices} = DOMAIN bars
       /\ Len(devices) = Cardinality(DOMAIN bars)
=============================================================================
