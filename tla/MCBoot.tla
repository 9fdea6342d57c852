------------------------------- MODULE MCBoot -------------------------------
(* Instance of Boot for TLC: machines with the devices of an ordinary PC,   *)
(* addresses of 4096 values, pages of 16 bytes and sectors of two; a byte   *)
(* has eight values, so that a read of sixteen bytes is one of "256"        *)
(* sectors.  Sectors 62, 63, 1007 and 1008 are where a head and a cylinder  *)
(* end.                                                                     *)
EXTENDS Boot, TLC

None == [kind |-> "none", value |-> 0, size |-> 1, flags |-> 0]
Io(a, n) == [kind |-> "io", value |-> a + 1, size |-> n, flags |-> 1]
Mem(a, n) == [kind |-> "mem", value |-> a + 8, size |-> n, flags |-> 8]
Mem64(a, n) == [kind |-> "mem64", value |-> a + 4, size |-> n, flags |-> 4]
High == [kind |-> "high", value |-> 0, size |-> 1, flags |-> 0]
Fn(class, multi, given) ==
  [class |-> class, multi |-> multi,
   regions |-> [i \in 0 .. 5 |-> IF i \in DOMAIN given THEN given[i] ELSE None]]

Unset == [kind |-> "mem", value |-> 0, size |-> 16, flags |-> 0]
Above == [kind |-> "high", value |-> 4, size |-> 1, flags |-> 0]
Host == Fn(<<6, 0>>, FALSE, 1 :> Unset)
Isa == Fn(<<6, 1>>, TRUE, <<>>)
Legacy == Fn(<<1, 1>>, FALSE, 4 :> Io(192, 16))
Native == Fn(<<1, 1>>, FALSE, 0 :> Io(768, 8) @@ 2 :> Io(800, 8) @@ 4 :> Io(832, 16))
Vga == Fn(<<3, 0>>, FALSE, 0 :> Mem(1024, 64) @@ 2 :> Mem(1104, 16))
Usb == Fn(<<12, 3>>, FALSE, 0 :> Mem64(2048, 32) @@ 1 :> High @@ 2 :> Io(64, 4) @@ 3 :> Mem(2096, 16))

Far == Fn(<<3, 0>>, FALSE, 0 :> Mem(1024, 64) @@ 1 :> Mem64(512, 256) @@ 2 :> Above @@ 3 :> Mem(1104, 16))

Pc == <<0, 0>> :> Host @@ <<1, 0>> :> Isa @@ <<1, 1>> :> Legacy @@ <<2, 0>> :> Vga @@ <<4, 0>> :> Usb
FarPc == <<0, 0>> :> Host @@ <<1, 0>> :> Isa @@ <<1, 1>> :> Legacy @@ <<3, 0>> :> Far
TwoControllers == <<0, 0>> :> Legacy @@ <<1, 0>> :> Native

Fat32(start) == [fat |-> TRUE, start |-> start, volume |-> "fat32"]
Other(start) == [fat |-> FALSE, start |-> start, volume |-> "other"]
Broken(start) == [fat |-> TRUE, start |-> start, volume |-> "other"]
EndlessAt(start) == [fat |-> TRUE, start |-> start, volume |-> "endless"]
Ata(lba, size, bad, table) ==
  [kind |-> "ata", size |-> size, lba |-> lba, medium |-> FALSE, table |-> table, bad |-> bad]
Cd(medium) == [kind |-> "atapi", size |-> 0, lba |-> FALSE, medium |-> medium, table |-> NONE, bad |-> {}]
Only(kind) == [kind |-> kind, size |-> 0, lba |-> FALSE, medium |-> FALSE, table |-> NONE, bad |-> {}]

Disk1 == Ata(TRUE, 1100, {5}, <<Fat32(3), Other(9), Fat32(1020), Other(0)>>)
DiskCHS == Ata(FALSE, 1030, {}, <<Fat32(1), Fat32(1007), Other(0), Other(0)>>)
DiskSmall == Ata(TRUE, 20, {}, <<Fat32(3), Other(0), Other(0), Other(0)>>)
DiskBroken == Ata(TRUE, 20, {}, <<Broken(3), Other(9), Other(0), Other(0)>>)
DiskEndless == Ata(TRUE, 20, {}, <<EndlessAt(3), Other(9), Other(0), Other(0)>>)
DiskUnread == Ata(TRUE, 20, {3}, <<Fat32(3), Other(9), Other(0), Other(0)>>)

Seg(vaddr, offset, filesz, memsz) ==
  [type |-> "load", vaddr |-> vaddr, offset |-> offset, filesz |-> filesz, memsz |-> memsz]
Note == [type |-> "note", vaddr |-> 0, offset |-> 0, filesz |-> 0, memsz |-> 0]
Image(valid, length, headers) == [valid |-> valid, length |-> length, headers |-> headers]
Small == Image(TRUE, 40, <<Seg(35, 8, 20, 50)>>)
MCImages ==
  { Small,
    Image(TRUE, 90, <<Note, Seg(20, 16, 30, 30), Seg(64, 48, 20, 20), Seg(100, 70, 4, 40)>>),
    Image(TRUE, 90, <<Seg(20, 16, 30, 30), Seg(52, 48, 20, 40)>>),
    Image(TRUE, 50, <<Seg(16, 16, 40, 48), ABSENT>>),
    Image(FALSE, 6, <<>>) }

Machine(functions, drives, programs) == [functions |-> functions, drives |-> drives, programs |-> programs]
MCMachines ==
  { Machine(Pc, <<496, 0>> :> Disk1 @@ <<368, 0>> :> Cd(FALSE), {Small}),
    Machine(Pc, <<496, 0>> :> DiskCHS @@ <<496, 1>> :> Disk1 @@ <<368, 1>> :> Only("other"), {Small}),
    Machine(Pc, <<496, 1>> :> Disk1 @@ <<368, 0>> :> Cd(TRUE), {Small}),
    Machine(Pc, <<496, 0>> :> Cd(TRUE) @@ <<496, 1>> :> Disk1, {Small}),
    Machine(Pc, <<496, 0>> :> Disk1 @@ <<496, 1>> :> Only("stuck"), {Small}),
    Machine(Pc, <<496, 0>> :> DiskSmall, MCImages),
    Machine(FarPc, <<496, 0>> :> DiskBroken, {Small}),
    Machine(Pc, <<496, 0>> :> DiskEndless, {Small}),
    Machine(Pc, <<496, 0>> :> DiskUnread, {Small}),
    Machine(TwoControllers, <<496, 0>> :> Disk1 @@ <<800, 1>> :> DiskCHS, {Small}),
    Machine(TwoControllers, <<496, 0>> :> Disk1 @@ <<768, 1>> :> Disk1 @@ <<800, 0>> :> Cd(TRUE), {Small}) }
=============================================================================
