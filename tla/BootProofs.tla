----------------------------- MODULE BootProofs -----------------------------
(***************************************************************************)
(* Proofs about starting up, for every machine the assumptions allow.       *)
(***************************************************************************)
EXTENDS Boot, TLAPS, SequenceTheorems, FiniteSetTheorems, WellFoundedInduction

-----------------------------------------------------------------------------

\* The machine stays what it is.
LEMMA MachineStays ==
  ASSUME Next
  PROVE  machine' = machine
<1>1. PciNext => machine' = machine  BY DEF PciNext, SkipFunction, Register, Enumerated
<1>2. IdeNext => machine' = machine
  BY DEF IdeNext, PassDevice, IDEFind, Found, NoAnswer, ProbeNothing, ProbeDrive, SearchForPartitions
<1>3. NoRoot \/ Mount \/ Exec \/ Load \/ Enter => machine' = machine
  BY DEF NoRoot, Mount, Exec, Load, Enter, startVars
<1>4. Program => machine' = machine  BY DEF Program, Open, Lseek, Read
<1> QED  BY <1>1, <1>2, <1>3, <1>4 DEF Next, StartUp

-----------------------------------------------------------------------------
(* PCI: the registers of a function.                                        *)

LEMMA PciNumbers ==
  /\ Word \in Nat /\ Word > 0 /\ Page \in Nat /\ Page > 0 /\ Slots \in Nat /\ Slots > 0
  /\ Word % 16 = 0
<1>1. /\ Word \in Nat /\ Word > 0 /\ Page \in Nat /\ Page > 0 /\ Slots \in Nat /\ Slots > 0
      /\ Word % Page = 0 /\ Page % 16 = 0
  BY PciAssumption
<1> DEFINE a == Word \div Page  b == Page \div 16
<1>2. a \in Nat /\ b \in Nat /\ Word = a * Page /\ Page = b * 16  BY <1>1
<1> HIDE DEF a, b
<1>3. Word = (a * b) * 16 /\ a * b \in Nat  BY <1>2
<1>4. Word % 16 = 0  BY <1>3
<1> QED  BY <1>1, <1>4

\* An address is aligned to the last multiple it reaches.
LEMMA AlignedIs ==
  ASSUME NEW x \in Nat, NEW n \in Nat, n > 0, NEW k \in Nat, k * n <= x, x < k * n + n
  PROVE  Aligned(x, n) = k * n
<1> DEFINE q == x \div n
<1>1. q \in Nat /\ q * n <= x /\ x < q * n + n  BY SMT
<1> HIDE DEF q
<1>2. ASSUME q >= k + 1 PROVE FALSE
  <2>1. q * n >= (k + 1) * n  BY <1>1, <1>2
  <2>2. (k + 1) * n = k * n + n /\ k * n \in Nat /\ q * n \in Nat  BY <1>1
  <2> QED  BY <1>1, <2>1, <2>2
<1>3. ASSUME k >= q + 1 PROVE FALSE
  <2>1. k * n >= (q + 1) * n  BY <1>1, <1>3
  <2>2. (q + 1) * n = q * n + n /\ k * n \in Nat /\ q * n \in Nat  BY <1>1
  <2> QED  BY <1>1, <2>1, <2>2
<1>4. q = k  BY <1>1, <1>2, <1>3
<1> QED  BY <1>4 DEF Aligned, q

\* What a memory register holds when all ones are written to it.
LEMMA OnesKept ==
  ASSUME NEW n \in 1 .. AllOnes, Word % n = 0
  PROVE  Aligned(AllOnes, n) = Word - n
<1>1. n \in Nat /\ n > 0 /\ n < Word /\ AllOnes = Word - 1 /\ AllOnes \in Nat  BY PciNumbers DEF AllOnes
<1> DEFINE q == Word \div n
<1>2. q \in Nat /\ Word = q * n  BY <1>1, PciNumbers
<1> HIDE DEF q
<1>3. q >= 1
  <2> SUFFICES ASSUME q = 0 PROVE FALSE  BY <1>2
  <2> QED  BY <1>1, <1>2, PciNumbers
<1>4. q - 1 \in Nat /\ (q - 1) * n = Word - n  BY <1>1, <1>2, <1>3
<1>5. (q - 1) * n <= AllOnes /\ AllOnes < (q - 1) * n + n  BY <1>1, <1>4, PciNumbers
<1>6. Aligned(AllOnes, n) = (q - 1) * n  BY <1>1, <1>4, <1>5, AlignedIs
<1> QED  BY <1>4, <1>6

\* The size read back, from a register of one word and from one of two.
LEMMA SizeRead ==
  ASSUME NEW n \in 1 .. AllOnes, n % 16 = 0, NEW f \in 0 .. 15,
         NEW words \in Nat, words % 16 = 0, words >= Word
  PROVE  SizeOf(words - n + f, 16, words) = n
<1>1. n \in Nat /\ n > 0 /\ n < words /\ words - n \in Nat  BY PciNumbers DEF AllOnes
<1> DEFINE k == (words - n) \div 16
<1>2. k \in Nat /\ k * 16 = words - n  BY <1>1
<1> HIDE DEF k
<1>3. Aligned(words - n + f, 16) = k * 16  BY <1>1, <1>2, AlignedIs
<1>4. words - Aligned(words - n + f, 16) = n  BY <1>1, <1>2, <1>3
<1>5. n % words = n  BY <1>1
<1> QED  BY <1>4, <1>5 DEF SizeOf

LEMMA TwoWords ==
  ASSUME NEW n \in 1 .. AllOnes, NEW f \in 0 .. 15
  PROVE  /\ AllOnes * Word + (Word - n + f) = Word * Word - n + f
         /\ Word * Word \in Nat /\ (Word * Word) % 16 = 0 /\ Word * Word >= Word
         /\ n % Word = n
<1>1. n \in Nat /\ n < Word /\ AllOnes = Word - 1 /\ Word \in Nat /\ Word > 0 /\ Word % 16 = 0
  BY PciNumbers DEF AllOnes
<1>2. AllOnes * Word = Word * Word - Word /\ Word * Word \in Nat  BY <1>1
<1>3. (Word * Word) % 16 = 0
  <2> DEFINE k == Word \div 16
  <2>1. k \in Nat /\ Word = k * 16  BY <1>1
  <2> HIDE DEF k
  <2>2. Word * Word = (k * Word) * 16 /\ k * Word \in Nat  BY <1>1, <2>1
  <2> QED  BY <2>2
<1>4. Word * Word >= Word  BY <1>1
<1>5. n % Word = n  BY <1>1
<1> QED  BY <1>1, <1>2, <1>3, <1>4, <1>5

\* The registers of a function, as the firmware set them.
AsSet(l) == [i \in Bar |-> Region(l, i).value]

LEMMA RegionsAreSound ==
  ASSUME machine \in Machines, NEW l \in DOMAIN machine.functions, NEW i \in Bar
  PROVE  RegionSound(FunctionAt(l).regions, i) /\ Region(l, i) = FunctionAt(l).regions[i]
BY MachineAssumption DEF FunctionAt, Region

LEMMA ValueKept ==
  ASSUME machine \in Machines, NEW l \in DOMAIN machine.functions, NEW i \in Bar
  PROVE  Kept(Region(l, i), Region(l, i).value) = Region(l, i).value /\ Region(l, i).value \in 0 .. AllOnes
BY RegionsAreSound DEF RegionSound

\* Whatever is written to a register, it gets its value back.
LEMMA RestoredTo ==
  ASSUME machine \in Machines, NEW l \in DOMAIN machine.functions, NEW i \in Bar, NEW value
  PROVE  Restored(l, WriteBar(l, AsSet(l), i, value), i, AsSet(l)[i]) = AsSet(l)
<1>1. AsSet(l)[i] = Region(l, i).value  BY DEF AsSet
<1> QED  BY <1>1, ValueKept DEF Restored, WriteBar, AsSet

LEMMA RestoredBoth ==
  ASSUME machine \in Machines, NEW l \in DOMAIN machine.functions, NEW i \in Bar, i # 5, NEW v, NEW w
  PROVE  Restored(l, Restored(l, WriteBar(l, WriteBar(l, AsSet(l), i, v), i + 1, w), i, AsSet(l)[i]),
                  i + 1, AsSet(l)[i + 1]) = AsSet(l)
<1>1. i + 1 \in Bar /\ i + 1 # i  BY DEF Bar
<1>2. AsSet(l)[i] = Region(l, i).value /\ AsSet(l)[i + 1] = Region(l, i + 1).value  BY <1>1 DEF AsSet
<1> QED  BY <1>1, <1>2, ValueKept DEF Restored, WriteBar, AsSet

\* The low bits of a memory register say what it is.
LEMMA TypeBits ==
  ASSUME machine \in Machines, NEW l \in DOMAIN machine.functions, NEW i \in Bar,
         Region(l, i).kind \in {"mem", "mem64"}
  PROVE  /\ Region(l, i).value % 2 = 0
         /\ (Region(l, i).value \div 2) % 4 = 2 <=> Region(l, i).kind = "mem64"
<1> DEFINE r == Region(l, i)
<1>1. /\ r.size \in 1 .. AllOnes /\ r.size % 16 = 0 /\ r.kind \in {"mem", "mem64"}
      /\ r.flags \in (IF r.kind = "mem" THEN {0, 2, 8, 10} ELSE {4, 12})
      /\ Kept(r, r.value) = r.value /\ r.value \in Nat
  BY RegionsAreSound, PciNumbers DEF RegionSound, AllOnes
<1>2. r.value = (r.value \div r.size) * r.size + r.flags  BY <1>1 DEF Kept, Aligned
<1> DEFINE q == r.value \div r.size  n == r.size \div 16
<1>3. q \in Nat /\ n \in Nat /\ r.size = n * 16 /\ r.size \in Nat  BY <1>1, PciNumbers DEF AllOnes
<1>4. r.value = q * r.size + r.flags  BY <1>2
<1> HIDE DEF q, n
<1> DEFINE m == q * n
<1>5. m \in Nat /\ r.value = m * 16 + r.flags  BY <1>3, <1>4
<1> HIDE DEF m, r
<1>6. CASE r.kind = "mem"  BY <1>1, <1>5, <1>6 DEF r
<1>7. CASE r.kind = "mem64"  BY <1>1, <1>5, <1>7 DEF r
<1> QED  BY <1>1, <1>6, <1>7

\* Measuring restores the registers, and finds the size of a memory region.
LEMMA Measured ==
  ASSUME machine \in Machines, NEW l \in DOMAIN machine.functions, NEW i \in Bar
  PROVE  /\ GetBARSize(l, AsSet(l), i)[2] = AsSet(l)
         /\ Region(l, i).kind \in {"mem", "mem64"} /\ Region(l, i).value # 0 =>
              GetBARSize(l, AsSet(l), i)[1] = Region(l, i).size
<1> DEFINE b == AsSet(l)  r == Region(l, i)  low == b[i]  once == WriteBar(l, b, i, AllOnes)
           both == WriteBar(l, once, i + 1, AllOnes)
           sized == GetBARSize(l, b, i)
<1>1. low = r.value /\ once = [b EXCEPT ![i] = Kept(r, AllOnes)]  BY DEF AsSet, WriteBar
<1>2. CASE low = 0
  BY <1>1, <1>2 DEF GetBARSize
<1>3. CASE low # 0 /\ low % 2 = 1
  <2>1. sized = <<SizeOf(once[i], 4, Word), Restored(l, once, i, low)>>  BY <1>3 DEF GetBARSize
  <2>2. r.kind \notin {"mem", "mem64"}  BY <1>1, <1>3, TypeBits
  <2>3. sized[2] = b  BY <2>1, RestoredTo
  <2> QED  BY <2>2, <2>3
<1>4. CASE low # 0 /\ low % 2 # 1 /\ (low \div 2) % 4 # 2
  <2>1. sized = <<SizeOf(once[i], 16, Word), Restored(l, once, i, low)>>  BY <1>4 DEF GetBARSize
  <2>2. sized[2] = b  BY <2>1, RestoredTo
  <2>3. ASSUME r.kind \in {"mem", "mem64"} PROVE sized[1] = r.size
    <3>1. /\ r.size \in 1 .. AllOnes /\ r.size % 16 = 0 /\ r.flags \in {0, 2, 4, 8, 10, 12} /\ Word % r.size = 0
      BY <2>3, RegionsAreSound DEF RegionSound
    <3>2. once[i] = Kept(r, AllOnes)  BY <1>1 DEF AsSet
    <3>3. Kept(r, AllOnes) = Word - r.size + r.flags  BY <2>3, <3>1, OnesKept DEF Kept
    <3> QED  BY <2>1, <3>1, <3>2, <3>3, SizeRead, PciNumbers
  <2> QED  BY <2>2, <2>3
<1>5. CASE low # 0 /\ low % 2 # 1 /\ (low \div 2) % 4 = 2 /\ i = 5
  <2>1. sized = <<0, b>>  BY <1>5 DEF GetBARSize
  <2>2. r.kind \notin {"mem", "mem64"}
    <3>1. r.kind # "mem64"  BY <1>5, RegionsAreSound DEF RegionSound
    <3> QED  BY <1>1, <1>5, <3>1, TypeBits
  <2> QED  BY <2>1, <2>2
<1>6. CASE low # 0 /\ low % 2 # 1 /\ (low \div 2) % 4 = 2 /\ i # 5
  <2>1. sized = <<SizeOf(both[i + 1] * Word + both[i], 16, Word * Word) % Word,
                  Restored(l, Restored(l, both, i, low), i + 1, b[i + 1])>>
    BY <1>6 DEF GetBARSize
  <2>2. sized[2] = b  BY <1>6, <2>1, RestoredBoth
  <2>3. ASSUME r.kind \in {"mem", "mem64"} PROVE sized[1] = r.size
    <3>1. r.kind = "mem64"  BY <1>1, <1>6, <2>3, TypeBits
    <3>2. /\ r.size \in 1 .. AllOnes /\ r.size % 16 = 0 /\ r.flags \in 0 .. 15 /\ Word % r.size = 0
          /\ Region(l, i + 1).kind = "high" /\ i + 1 \in Bar /\ i + 1 # i
      BY <1>6, <3>1, RegionsAreSound DEF RegionSound, Region, Bar
    <3>3. both[i] = Kept(r, AllOnes) /\ both[i + 1] = Kept(Region(l, i + 1), AllOnes)
      BY <1>1, <3>2 DEF AsSet, WriteBar
    <3>4. both[i] = Word - r.size + r.flags  BY <3>1, <3>2, <3>3, OnesKept DEF Kept
    <3>5. both[i + 1] = AllOnes  BY <3>2, <3>3 DEF Kept
    <3>6. both[i + 1] * Word + both[i] = Word * Word - r.size + r.flags  BY <3>2, <3>4, <3>5, TwoWords
    <3> DEFINE words == Word * Word
    <3>7. words \in Nat /\ words % 16 = 0 /\ words >= Word /\ r.size % Word = r.size  BY <3>2, TwoWords
    <3> HIDE DEF words
    <3>8. SizeOf(words - r.size + r.flags, 16, words) = r.size  BY <3>2, <3>7, SizeRead
    <3>9. SizeOf(both[i + 1] * Word + both[i], 16, Word * Word) = r.size  BY <3>6, <3>8 DEF words
    <3> QED  BY <2>1, <3>7, <3>9
  <2> QED  BY <2>2, <2>3
<1> QED  BY <1>2, <1>3, <1>4, <1>5, <1>6

\* One register looked at: the registers stay, and its memory is mapped.
MemoryAt(l, i) ==
  IF Region(l, i).kind \in {"mem", "mem64"} /\ Region(l, i).value # 0
  THEN PagesOf(Aligned(Region(l, i).value, 16), Region(l, i).size) ELSE {}
BelowFor(l) == \A i \in Bar : Region(l, i).kind = "high" => Region(l, i).value = 0

LEMMA OneProbed ==
  ASSUME machine \in Machines, NEW l \in DOMAIN machine.functions, NEW i \in Bar, NEW done,
         bars[l] = AsSet(l), done.bars = AsSet(l)
  PROVE  /\ ProbeBar(l, done, i).bars = AsSet(l)
         /\ BelowFor(l) => ProbeBar(l, done, i).pages = done.pages \cup MemoryAt(l, i)
<1> DEFINE r == Region(l, i)  read == bars[l][i]
<1>1. read = r.value  BY DEF AsSet
<1>2. CASE read = 0 \/ read % 2 = 1
  <2>1. ProbeBar(l, done, i) = done  BY <1>2 DEF ProbeBar
  <2>2. MemoryAt(l, i) = {}  BY <1>1, <1>2, TypeBits DEF MemoryAt
  <2> QED  BY <2>1, <2>2
<1>3. CASE ~(read = 0 \/ read % 2 = 1)
  <2> DEFINE sized == GetBARSize(l, AsSet(l), i)
  <2>1. ProbeBar(l, done, i) = [bars |-> sized[2], pages |-> done.pages \cup PagesOf(Aligned(read, 16), sized[1])]
    BY <1>3 DEF ProbeBar
  <2>2. sized[2] = AsSet(l)  BY Measured
  <2>3. ASSUME BelowFor(l) PROVE PagesOf(Aligned(read, 16), sized[1]) = MemoryAt(l, i)
    <3>1. r.kind \in {"mem", "mem64"}
      <4>1. r.kind # "none"  BY <1>1, <1>3, ValueKept DEF Kept
      <4>2. r.kind # "io"  BY <1>1, <1>3, RegionsAreSound DEF RegionSound
      <4>3. r.kind # "high"  BY <1>1, <1>3, <2>3 DEF BelowFor
      <4> QED  BY <4>1, <4>2, <4>3, RegionsAreSound DEF RegionSound
    <3>2. sized[1] = r.size  BY <1>1, <1>3, <3>1, Measured
    <3> QED  BY <1>1, <1>3, <3>1, <3>2 DEF MemoryAt
  <2> QED  BY <2>1, <2>2, <2>3
<1> QED  BY <1>2, <1>3

LEMMA AllProbed ==
  ASSUME machine \in Machines, NEW l \in DOMAIN machine.functions, bars[l] = AsSet(l)
  PROVE  /\ Probed(l).bars = AsSet(l)
         /\ BelowFor(l) => Probed(l).pages = UNION {MemoryAt(l, i) : i \in Bar}
<1> DEFINE d0 == [bars |-> bars[l], pages |-> {}]
           d1 == ProbeBar(l, d0, 0)  d2 == ProbeBar(l, d1, 1)  d3 == ProbeBar(l, d2, 2)
           d4 == ProbeBar(l, d3, 3)  d5 == ProbeBar(l, d4, 4)  d6 == ProbeBar(l, d5, 5)
<1>0. 0 \in Bar /\ 1 \in Bar /\ 2 \in Bar /\ 3 \in Bar /\ 4 \in Bar /\ 5 \in Bar  BY DEF Bar
<1>1. Probed(l) = d6  BY DEF Probed
<1>2. d0.bars = AsSet(l) /\ d0.pages = {}  OBVIOUS
<1> HIDE DEF d0
<1>3. d1.bars = AsSet(l) /\ (BelowFor(l) => d1.pages = MemoryAt(l, 0))  BY <1>0, <1>2, OneProbed
<1> HIDE DEF d1
<1>4. d2.bars = AsSet(l) /\ (BelowFor(l) => d2.pages = d1.pages \cup MemoryAt(l, 1))  BY <1>0, <1>3, OneProbed
<1> HIDE DEF d2
<1>5. d3.bars = AsSet(l) /\ (BelowFor(l) => d3.pages = d2.pages \cup MemoryAt(l, 2))  BY <1>0, <1>4, OneProbed
<1> HIDE DEF d3
<1>6. d4.bars = AsSet(l) /\ (BelowFor(l) => d4.pages = d3.pages \cup MemoryAt(l, 3))  BY <1>0, <1>5, OneProbed
<1> HIDE DEF d4
<1>7. d5.bars = AsSet(l) /\ (BelowFor(l) => d5.pages = d4.pages \cup MemoryAt(l, 4))  BY <1>0, <1>6, OneProbed
<1> HIDE DEF d5
<1>8. d6.bars = AsSet(l) /\ (BelowFor(l) => d6.pages = d5.pages \cup MemoryAt(l, 5))  BY <1>0, <1>7, OneProbed
<1> HIDE DEF d6
<1>9. Bar = {0, 1, 2, 3, 4, 5}  BY DEF Bar
<1>10. BelowFor(l) => d6.pages = UNION {MemoryAt(l, i) : i \in {0, 1, 2, 3, 4, 5}}
  BY <1>3, <1>4, <1>5, <1>6, <1>7, <1>8
<1> QED  BY <1>1, <1>8, <1>9, <1>10

LEMMA MemoryByRegister ==
  ASSUME NEW l
  PROVE  MemoryOf(l) = UNION {MemoryAt(l, i) : i \in Bar}
BY DEF MemoryOf, MemoryAt

-----------------------------------------------------------------------------
(* Going through the slots.                                                 *)

Passed(l) == l[1] < at[1] \/ (l[1] = at[1] /\ l[2] < at[2])
Registered == {devices[k].at : k \in DOMAIN devices}

PciInv ==
  /\ machine \in Machines
  /\ at \in (0 .. Slots) \X (0 .. 7)
  /\ at[2] # 0 => /\ at[1] < Slots /\ <<at[1], 0>> \in DOMAIN machine.functions
                  /\ machine.functions[<<at[1], 0>>].multi = TRUE
  /\ DOMAIN bars = DOMAIN machine.functions /\ \A l \in DOMAIN bars : bars[l] = AsSet(l)
  /\ devices \in Seq({DeviceInfo(l) : l \in DOMAIN machine.functions})
  /\ Registered = {l \in DOMAIN machine.functions : Passed(l)}
  /\ IsFiniteSet(Registered) /\ Cardinality(Registered) = Len(devices)
  /\ Below4GB => mapped = UNION {MemoryOf(l) : l \in Registered}
  /\ pc # "pci" => at[1] = Slots

LEMMA AtKinds ==
  ASSUME PciInv
  PROVE  /\ at = <<at[1], at[2]>> /\ at[1] \in 0 .. Slots /\ at[2] \in 0 .. 7 /\ Slots \in Nat
         /\ \A l \in DOMAIN machine.functions :
              l = <<l[1], l[2]>> /\ l[1] \in 0 .. Slots - 1 /\ l[2] \in 0 .. 7
BY PciNumbers, MachineAssumption DEF PciInv

\* What is passed when the next function, or the next slot, is looked for.
LEMMA NextSlotPasses ==
  ASSUME PciInv, at[1] < Slots, at' = NextSlot,
         \A l \in DOMAIN machine.functions : l[1] = at[1] => l[2] <= at[2]
  PROVE  /\ at' \in (0 .. Slots) \X (0 .. 7) /\ at'[2] = 0
         /\ {l \in DOMAIN machine.functions : Passed(l)'}
              = {l \in DOMAIN machine.functions : Passed(l)} \cup (DOMAIN machine.functions \cap {at})
<1>1. at'[1] = at[1] + 1 /\ at'[2] = 0 /\ at' \in (0 .. Slots) \X (0 .. 7)  BY AtKinds DEF NextSlot
<1>2. ASSUME NEW l \in DOMAIN machine.functions
      PROVE  Passed(l)' <=> Passed(l) \/ l = at
  BY <1>1, AtKinds DEF Passed
<1> QED  BY <1>1, <1>2

LEMMA NextFunctionPasses ==
  ASSUME PciInv, at' = <<at[1], at[2] + 1>>, at[2] < 7
  PROVE  /\ at' \in (0 .. Slots) \X (0 .. 7) /\ at'[1] = at[1]
         /\ {l \in DOMAIN machine.functions : Passed(l)'}
              = {l \in DOMAIN machine.functions : Passed(l)} \cup (DOMAIN machine.functions \cap {at})
<1>1. at'[1] = at[1] /\ at'[2] = at[2] + 1 /\ at' \in (0 .. Slots) \X (0 .. 7)  BY AtKinds
<1>2. ASSUME NEW l \in DOMAIN machine.functions
      PROVE  Passed(l)' <=> Passed(l) \/ l = at
  BY <1>1, AtKinds DEF Passed
<1> QED  BY <1>1, <1>2

LEMMA PciStarts ==
  ASSUME PciInit
  PROVE  PciInv
<1>1. machine \in Machines /\ at = <<0, 0>> /\ devices = <<>> /\ mapped = {} /\ pc = "pci"  BY DEF PciInit
<1>2. at \in (0 .. Slots) \X (0 .. 7) /\ at[2] = 0 /\ at[1] = 0  BY <1>1, PciNumbers
<1>3. DOMAIN bars = DOMAIN machine.functions /\ \A l \in DOMAIN bars : bars[l] = AsSet(l)
  BY DEF PciInit, AsSet, Region, FunctionAt
<1>4. Registered = {}  BY <1>1 DEF Registered
<1>5. {l \in DOMAIN machine.functions : Passed(l)} = {}
  <2> SUFFICES ASSUME NEW l \in DOMAIN machine.functions, Passed(l) PROVE FALSE  OBVIOUS
  <2>1. l[1] \in 0 .. Slots - 1 /\ l[2] \in 0 .. 7  BY <1>1, MachineAssumption
  <2> QED  BY <1>2, <2>1, PciNumbers DEF Passed
<1>6. IsFiniteSet(Registered) /\ Cardinality(Registered) = 0  BY <1>4, FS_EmptySet
<1>7. UNION {MemoryOf(l) : l \in Registered} = {}  BY <1>4
<1> QED  BY <1>1, <1>2, <1>3, <1>4, <1>5, <1>6, <1>7 DEF PciInv

LEMMA RegisterKeeps ==
  ASSUME PciInv, Register
  PROVE  PciInv'
<1>0. PICK l : l = at  OBVIOUS
<1>1. /\ machine' = machine /\ pc' = pc /\ pc = "pci" /\ at[1] < Slots /\ machine \in Machines
      /\ l \in DOMAIN machine.functions /\ bars[l] = AsSet(l) /\ at' = NextFunction
  BY <1>0 DEF PciInv, Register, Enumerating, Exists
<1>2. \A k, i : Region(k, i)' = Region(k, i) /\ FunctionAt(k)' = FunctionAt(k)  BY <1>1 DEF Region, FunctionAt
<1>3. \A k : AsSet(k)' = AsSet(k)  BY <1>2 DEF AsSet
<1>4. DOMAIN bars' = DOMAIN bars /\ \A k \in DOMAIN bars : bars'[k] = bars[k]
  BY <1>0, <1>1, AllProbed DEF Register
<1>5. DOMAIN bars' = DOMAIN machine'.functions /\ \A k \in DOMAIN bars' : bars'[k] = AsSet(k)'
  BY <1>1, <1>3, <1>4 DEF PciInv
<1>6. \A k \in DOMAIN machine.functions : DeviceInfo(k)' = DeviceInfo(k)
  BY <1>2, <1>4 DEF DeviceInfo, PciInv
<1>7. devices' = Append(devices, DeviceInfo(l))  BY <1>0 DEF Register
<1> DEFINE Info == {DeviceInfo(k) : k \in DOMAIN machine.functions}
<1>8. Info' = Info  BY <1>1, <1>6
<1>9. devices \in Seq(Info) /\ DeviceInfo(l) \in Info /\ DeviceInfo(l).at = l
  BY <1>1 DEF PciInv, DeviceInfo
<1> HIDE DEF Info
<1>10. /\ devices' \in Seq(Info) /\ Len(devices') = Len(devices) + 1 /\ Len(devices) \in Nat
       /\ DOMAIN devices = 1 .. Len(devices) /\ DOMAIN devices' = 1 .. Len(devices) + 1
       /\ \A k \in DOMAIN devices : devices'[k] = devices[k]
       /\ devices'[Len(devices) + 1] = DeviceInfo(l)
  BY <1>7, <1>9
<1>11. Registered' = Registered \cup {l}
  BY <1>9, <1>10 DEF Registered
<1>12. l \notin Registered
  <2>1. ~Passed(l)  BY <1>0, AtKinds DEF Passed
  <2> QED  BY <2>1 DEF PciInv
<1>13. IsFiniteSet(Registered') /\ Cardinality(Registered') = Len(devices')
  <2>1. IsFiniteSet(Registered) /\ Cardinality(Registered) = Len(devices)  BY DEF PciInv
  <2>2. IsFiniteSet(Registered \cup {l}) /\ Cardinality(Registered \cup {l}) = Cardinality(Registered) + 1
    BY <1>12, <2>1, FS_AddElement
  <2> QED  BY <1>10, <1>11, <2>1, <2>2
<1>14. ASSUME Below4GB' PROVE mapped' = UNION {MemoryOf(k)' : k \in Registered'}
  <2>1. \A k \in DOMAIN bars : BelowFor(k)  BY <1>2, <1>4, <1>14 DEF Below4GB, BelowFor
  <2>2. Below4GB  BY <2>1 DEF Below4GB, BelowFor
  <2>3. Probed(l).pages = MemoryOf(l)  BY <1>1, <2>1, AllProbed, MemoryByRegister DEF PciInv
  <2>4. mapped' = mapped \cup MemoryOf(l)  BY <1>0, <2>3 DEF Register
  <2>5. \A k : MemoryOf(k)' = MemoryOf(k)  BY <1>2 DEF MemoryOf
  <2>6. mapped = UNION {MemoryOf(k) : k \in Registered}  BY <2>2 DEF PciInv
  <2> QED  BY <1>11, <2>4, <2>5, <2>6
<1> DEFINE first == machine.functions[<<at[1], 0>>]
<1>15. FuncLimit(at[1]) = IF first.multi THEN 8 ELSE 1  BY DEF FuncLimit, FunctionAt
<1>16. CASE at[2] + 1 < FuncLimit(at[1])
  <2>1. at' = <<at[1], at[2] + 1>> /\ at[2] < 7 /\ FuncLimit(at[1]) # 1
    BY <1>1, <1>15, <1>16, AtKinds DEF NextFunction
  <2>2. first.multi = TRUE /\ <<at[1], 0>> \in DOMAIN machine.functions
    <3>1. CASE at[2] # 0  BY <3>1 DEF PciInv
    <3>2. CASE at[2] = 0  BY <1>0, <1>1, <1>15, <2>1, <3>2, AtKinds
    <3> QED  BY <3>1, <3>2
  <2>3. /\ at' \in (0 .. Slots) \X (0 .. 7) /\ at'[1] = at[1]
        /\ {k \in DOMAIN machine.functions : Passed(k)'}
              = {k \in DOMAIN machine.functions : Passed(k)} \cup (DOMAIN machine.functions \cap {at})
    BY <2>1, NextFunctionPasses
  <2>4. Registered' = {k \in DOMAIN machine'.functions : Passed(k)'}
    BY <1>0, <1>1, <1>11, <2>3 DEF PciInv
  <2> QED  BY <1>1, <1>5, <1>8, <1>10, <1>13, <1>14, <2>2, <2>3, <2>4 DEF PciInv, Info
<1>17. CASE ~(at[2] + 1 < FuncLimit(at[1]))
  <2>1. at' = NextSlot  BY <1>1, <1>17 DEF NextFunction
  <2>2. ASSUME NEW k \in DOMAIN machine.functions, k[1] = at[1] PROVE k[2] <= at[2]
    <3>1. CASE k[2] = 0  BY <3>1, AtKinds
    <3>2. CASE k[2] # 0
      <4>1. first.multi = TRUE  BY <1>1, <2>2, <3>2, MachineAssumption
      <4>2. at[2] + 1 >= 8  BY <1>15, <1>17, <4>1, AtKinds
      <4> QED  BY <4>2, AtKinds, <2>2
    <3> QED  BY <3>1, <3>2
  <2>3. /\ at' \in (0 .. Slots) \X (0 .. 7) /\ at'[2] = 0
        /\ {k \in DOMAIN machine.functions : Passed(k)'}
              = {k \in DOMAIN machine.functions : Passed(k)} \cup (DOMAIN machine.functions \cap {at})
    BY <1>1, <2>1, <2>2, NextSlotPasses
  <2>4. Registered' = {k \in DOMAIN machine'.functions : Passed(k)'}
    BY <1>0, <1>1, <1>11, <2>3 DEF PciInv
  <2> QED  BY <1>1, <1>5, <1>8, <1>10, <1>13, <1>14, <2>3, <2>4 DEF PciInv, Info
<1> QED  BY <1>16, <1>17

\* What is registered stays so while at moves on.
LEMMA PciSame ==
  ASSUME PciInv, machine' = machine, bars' = bars, devices' = devices, mapped' = mapped
  PROVE  /\ DOMAIN bars' = DOMAIN machine'.functions /\ \A l \in DOMAIN bars' : bars'[l] = AsSet(l)'
         /\ devices' \in Seq({DeviceInfo(l)' : l \in DOMAIN machine'.functions})
         /\ Registered' = Registered /\ IsFiniteSet(Registered') /\ Cardinality(Registered') = Len(devices')
         /\ Below4GB' => mapped' = UNION {MemoryOf(l)' : l \in Registered'}
<1>1. \A k, i : Region(k, i)' = Region(k, i) /\ FunctionAt(k)' = FunctionAt(k)  BY DEF Region, FunctionAt
<1>2. \A k : AsSet(k)' = AsSet(k) /\ DeviceInfo(k)' = DeviceInfo(k) /\ MemoryOf(k)' = MemoryOf(k)
  BY <1>1 DEF AsSet, DeviceInfo, MemoryOf
<1>3. Registered' = Registered  BY DEF Registered
<1>4. Below4GB' = Below4GB  BY <1>1 DEF Below4GB
<1>5. {DeviceInfo(l)' : l \in DOMAIN machine'.functions} = {DeviceInfo(l) : l \in DOMAIN machine.functions}
  BY <1>2
<1> QED  BY <1>2, <1>3, <1>4, <1>5 DEF PciInv

LEMMA SkipFunctionKeeps ==
  ASSUME PciInv, SkipFunction
  PROVE  PciInv'
<1>1. /\ machine' = machine /\ pc' = pc /\ pc = "pci" /\ at[1] < Slots /\ machine \in Machines
      /\ at \notin DOMAIN machine.functions /\ at' = IF at[2] = 0 THEN NextSlot ELSE NextFunction
      /\ bars' = bars /\ devices' = devices /\ mapped' = mapped
  BY DEF PciInv, SkipFunction, Enumerating, Exists
<1>2. /\ DOMAIN bars' = DOMAIN machine'.functions /\ \A l \in DOMAIN bars' : bars'[l] = AsSet(l)'
      /\ devices' \in Seq({DeviceInfo(l)' : l \in DOMAIN machine'.functions})
      /\ Registered' = Registered /\ IsFiniteSet(Registered') /\ Cardinality(Registered') = Len(devices')
      /\ Below4GB' => mapped' = UNION {MemoryOf(l)' : l \in Registered'}
  BY <1>1, PciSame
<1>3. CASE at' = NextSlot
  <2>2. ASSUME NEW k \in DOMAIN machine.functions, k[1] = at[1] PROVE k[2] <= at[2]
    <3>1. CASE at[2] = 0
      <4>1. k[2] = 0  BY <1>1, <2>2, <3>1, AtKinds, MachineAssumption
      <4> QED  BY <4>1, AtKinds
    <3>2. CASE at[2] # 0
      <4>1. FuncLimit(at[1]) = 8  BY <3>2 DEF PciInv, FuncLimit, FunctionAt
      <4>2. ~(at[2] + 1 < 8)  BY <1>1, <1>3, <3>2, <4>1, AtKinds DEF NextFunction, NextSlot
      <4> QED  BY <4>2, AtKinds, <2>2
    <3> QED  BY <3>1, <3>2
  <2>3. /\ at' \in (0 .. Slots) \X (0 .. 7) /\ at'[2] = 0
        /\ {k \in DOMAIN machine.functions : Passed(k)'}
              = {k \in DOMAIN machine.functions : Passed(k)} \cup (DOMAIN machine.functions \cap {at})
    BY <1>1, <1>3, <2>2, NextSlotPasses
  <2>4. Registered' = {k \in DOMAIN machine'.functions : Passed(k)'}
    BY <1>1, <1>2, <2>3 DEF PciInv
  <2> QED  BY <1>1, <1>2, <2>3, <2>4 DEF PciInv
<1>4. CASE at' # NextSlot
  <2>1. at[2] # 0 /\ at' = NextFunction  BY <1>1, <1>4
  <2>2. /\ at[1] < Slots /\ <<at[1], 0>> \in DOMAIN machine.functions
        /\ machine.functions[<<at[1], 0>>].multi = TRUE
    BY <2>1 DEF PciInv
  <2>3. at' = <<at[1], at[2] + 1>> /\ at[2] < 7
    BY <1>4, <2>1, <2>2, AtKinds DEF NextFunction, FuncLimit, FunctionAt
  <2>4. /\ at' \in (0 .. Slots) \X (0 .. 7) /\ at'[1] = at[1]
        /\ {k \in DOMAIN machine.functions : Passed(k)'}
              = {k \in DOMAIN machine.functions : Passed(k)} \cup (DOMAIN machine.functions \cap {at})
    BY <2>3, NextFunctionPasses
  <2>5. Registered' = {k \in DOMAIN machine'.functions : Passed(k)'}
    BY <1>1, <1>2, <2>4 DEF PciInv
  <2> QED  BY <1>1, <1>2, <2>2, <2>4, <2>5 DEF PciInv
<1> QED  BY <1>3, <1>4

\* After the enumeration nothing of it changes.
LEMMA PciStays ==
  ASSUME PciInv, machine' = machine, UNCHANGED pciVars, pc' # "pci" => pc # "pci" \/ at[1] = Slots
  PROVE  PciInv'
<1>1. at' = at /\ bars' = bars /\ devices' = devices /\ mapped' = mapped  BY DEF pciVars
<1>2. \A l : Passed(l)' = Passed(l)  BY <1>1 DEF Passed
<1>3. at[1] = Slots \/ pc' = "pci"  BY DEF PciInv
<1> QED  BY <1>1, <1>2, <1>3, PciSame DEF PciInv

LEMMA PciKept ==
  ASSUME PciInv, [Next]_vars
  PROVE  PciInv'
<1>1. CASE PciNext
  <2>1. CASE Enumerated
    BY <2>1, PciStays DEF Enumerated
  <2> QED  BY <1>1, <2>1, SkipFunctionKeeps, RegisterKeeps DEF PciNext
<1>2. CASE machine' = machine /\ UNCHANGED pciVars /\ pc # "pci"
  BY <1>2, PciStays
<1>3. CASE UNCHANGED vars
  <2>1. machine' = machine /\ pc' = pc /\ UNCHANGED pciVars  BY <1>3 DEF vars
  <2> QED  BY <2>1, PciStays DEF PciInv
<1>4. CASE Next /\ ~PciNext
  <2>1. IdeNext => UNCHANGED pciVars /\ pc # "pci"
    BY DEF IdeNext, PassDevice, IDEFind, Found, NoAnswer, ProbeNothing, ProbeDrive, SearchForPartitions,
           Passing, Probing
  <2>2. NoRoot \/ Mount \/ Exec \/ Load \/ Enter => UNCHANGED pciVars /\ pc # "pci"
    BY DEF NoRoot, Mount, Exec, Load, Enter, startVars
  <2>3. Program => UNCHANGED pciVars /\ pc # "pci"  BY DEF Program, Open, Lseek, Read
  <2>4. machine' = machine  BY <1>4, MachineStays
  <2> QED  BY <1>2, <1>4, <2>1, <2>2, <2>3, <2>4 DEF Next, StartUp
<1> QED  BY <1>1, <1>3, <1>4

LEMMA EnumeratedAll ==
  ASSUME PciInv
  PROVE  BarsKeptAndMapped
<1>1. \A l \in DOMAIN bars : \A i \in Bar : bars[l][i] = Region(l, i).value  BY DEF PciInv, AsSet
<1>2. ASSUME pc # "pci" PROVE Registered = DOMAIN bars
  <2>1. at[1] = Slots  BY <1>2 DEF PciInv
  <2>2. \A l \in DOMAIN machine.functions : Passed(l)  BY <2>1, AtKinds DEF Passed
  <2> QED  BY <2>2 DEF PciInv
<1>3. Len(devices) = Cardinality(Registered) /\ (Below4GB => mapped = UNION {MemoryOf(l) : l \in Registered})
  BY DEF PciInv
<1>4. Registered = {devices[k].at : k \in DOMAIN devices}  BY DEF Registered
<1>5. ASSUME pc # "pci"
      PROVE  /\ Below4GB => mapped = UNION {MemoryOf(l) : l \in DOMAIN bars}
             /\ {devices[k].at : k \in DOMAIN devices} = DOMAIN bars
             /\ Len(devices) = Cardinality(DOMAIN bars)
  <2>1. Registered = DOMAIN bars  BY <1>2, <1>5
  <2> QED  BY <1>3, <1>4, <2>1
<1> QED  BY <1>1, <1>5 DEF BarsKeptAndMapped

\* Probing leaves the base address registers as the firmware set them, and
\* when the slots are done every function is registered once and exactly the
\* memory of the devices is mapped: pciEnumerateDevices and pciRegister.
THEOREM BarsAreKeptAndMapped == Spec => []BarsKeptAndMapped
<1>1. Init => PciInv  BY PciStarts DEF Init
<1>2. PciInv /\ [Next]_vars => PciInv'  BY PciKept
<1>3. PciInv => BarsKeptAndMapped  BY EnumeratedAll
<1> QED  BY <1>1, <1>2, <1>3, PTL DEF Spec

-----------------------------------------------------------------------------
(* The ELF loader.                                                          *)

Ph(i) == image.headers[i]
Loads(n) == {i \in 1 .. n : Ph(i).type = "load"}

\* The headers whose pages are mapped, and how far each is filled.
Mapped ==
  CASE load.step \in {"header", "map"} -> load.header - 1
    [] load.step = "fill" -> load.header
    [] load.step = "loaded" -> Len(image.headers)
    [] OTHER -> 0
Reach(i) ==
  IF load.step = "fill" /\ i = load.header THEN load.virt ELSE Ph(i).vaddr + Ph(i).filesz

\* What ImageIsFile assumes, of the headers that are mapped.
ApartUpTo(n) ==
  \A i, j \in Loads(n) : i # j => PagesOfSegment(Ph(i)) \cap PagesOfSegment(Ph(j)) = {}
WholeUpTo(n) == \A i \in Loads(n) : InFile(Ph(i))

\* A byte of a mapped page is what the segment filled there has in the file,
\* and zero where none is filled.
FilledWith(n) ==
  /\ DOMAIN memory = UNION {PagesOfSegment(Ph(i)) : i \in Loads(n)}
  /\ \A p \in DOMAIN memory, o \in 0 .. PAGE_SIZE - 1 :
       /\ \A i \in Loads(n) :
            p + o \in Ph(i).vaddr .. Reach(i) - 1 => memory[p][o] = <<Ph(i).offset + p + o - Ph(i).vaddr>>
       /\ (\A i \in Loads(n) : p + o \notin Ph(i).vaddr .. Reach(i) - 1) => memory[p][o] = Zero

\* Where elf_load is in the file and in the segment.
Cursor ==
  /\ load.header \in 1 .. Len(image.headers) /\ Ph(load.header) \in ProgramHeader
  /\ Ph(load.header).type = "load"
Filling ==
  /\ Cursor
  /\ load.virt \in Nat /\ load.left \in Nat /\ load.virt >= Ph(load.header).vaddr
  /\ load.virt + load.left = Ph(load.header).vaddr + Ph(load.header).filesz
  /\ InFile(Ph(load.header)) => position = Ph(load.header).offset + load.virt - Ph(load.header).vaddr

Steps == {"idle", "verify", "header", "map", "fill", "loaded", "failed"}
ElfTypes ==
  /\ load \in [step : Steps, header : Nat, virt : Nat, left : Nat]
  /\ position \in Nat
  /\ load.step # "idle" => image \in Images
  /\ load.step \in {"idle", "verify"} => DOMAIN memory = {}
ElfInv ==
  /\ ElfTypes
  /\ load.step = "map" => Cursor
  /\ load.step = "fill" => Filling
  /\ load.step = "header" => load.header \in 1 .. Len(image.headers) + 1
  /\ \A i \in 1 .. Mapped : Ph(i) \in ProgramHeader
  /\ load.step \in {"header", "map", "fill", "loaded"} /\ ApartUpTo(Mapped) /\ WholeUpTo(Mapped) =>
       FilledWith(Mapped)

\* An address is in the page it is rounded down to.
LEMMA PageOfAddress ==
  ASSUME NEW a \in Nat
  PROVE  /\ Down(a) \in Nat /\ Down(a) <= a /\ Down(a) % PAGE_SIZE = 0
         /\ a % PAGE_SIZE \in 0 .. PAGE_SIZE - 1 /\ Down(a) + (a % PAGE_SIZE) = a
         /\ Up(a) >= a /\ Up(a) \in Nat
<1>1. PAGE_SIZE \in Nat /\ PAGE_SIZE > 0  BY ElfAssumption
<1>2. /\ Down(a) \in Nat /\ Down(a) <= a
      /\ a % PAGE_SIZE \in 0 .. PAGE_SIZE - 1 /\ Down(a) + (a % PAGE_SIZE) = a
  BY <1>1 DEF Down
<1>3. Down(a) % PAGE_SIZE = 0
  BY <1>1 DEF Down
<1>4. Up(a) >= a /\ Up(a) \in Nat
  BY <1>1 DEF Up, Down
<1> QED  BY <1>2, <1>3, <1>4

LEMMA AddressOfPage ==
  ASSUME NEW p \in Nat, p % PAGE_SIZE = 0, NEW o \in 0 .. PAGE_SIZE - 1
  PROVE  Down(p + o) = p
<1>1. PAGE_SIZE \in Nat /\ PAGE_SIZE > 0  BY ElfAssumption
<1> DEFINE x == (p + o) \div PAGE_SIZE  y == p \div PAGE_SIZE
<1>2. /\ x \in Nat /\ y \in Nat /\ y * PAGE_SIZE = p
      /\ x * PAGE_SIZE <= p + o /\ p + o < (x + 1) * PAGE_SIZE
  BY <1>1
<1> HIDE DEF x, y
<1>3. /\ x * PAGE_SIZE \in Nat /\ (x + 1) * PAGE_SIZE = x * PAGE_SIZE + PAGE_SIZE
      /\ y * PAGE_SIZE \in Nat /\ (y + 1) * PAGE_SIZE = y * PAGE_SIZE + PAGE_SIZE
  BY <1>1, <1>2
<1>4. ASSUME x >= y + 1 PROVE FALSE
  <2>1. x * PAGE_SIZE >= (y + 1) * PAGE_SIZE  BY <1>1, <1>2, <1>4
  <2> QED  BY <1>1, <1>2, <1>3, <2>1
<1>5. ASSUME y >= x + 1 PROVE FALSE
  <2>1. y * PAGE_SIZE >= (x + 1) * PAGE_SIZE  BY <1>1, <1>2, <1>5
  <2> QED  BY <1>1, <1>2, <1>3, <2>1
<1>6. x = y  BY <1>2, <1>4, <1>5
<1> QED  BY <1>2, <1>6 DEF Down, x

\* Down keeps the order of addresses.
LEMMA DownGrows ==
  ASSUME NEW a \in Nat, NEW b \in Nat, a <= b
  PROVE  Down(a) <= Down(b)
<1>1. PAGE_SIZE \in Nat /\ PAGE_SIZE > 0  BY ElfAssumption
<1> DEFINE x == a \div PAGE_SIZE  y == b \div PAGE_SIZE
<1>2. /\ x \in Nat /\ y \in Nat
      /\ x * PAGE_SIZE <= a /\ b < (y + 1) * PAGE_SIZE
  BY <1>1
<1> HIDE DEF x, y
<1>3. x <= y
  <2> SUFFICES ASSUME x >= y + 1 PROVE FALSE  BY <1>2
  <2>1. x * PAGE_SIZE >= (y + 1) * PAGE_SIZE  BY <1>1, <1>2
  <2>2. x * PAGE_SIZE \in Nat /\ (y + 1) * PAGE_SIZE \in Nat  BY <1>1, <1>2
  <2> QED  BY <1>2, <2>1, <2>2
<1>4. x * PAGE_SIZE <= y * PAGE_SIZE  BY <1>1, <1>2, <1>3
<1> QED  BY <1>4 DEF Down, x, y

\* The page of an address of a segment is one of the segment's.
LEMMA PageOfSegment ==
  ASSUME NEW ph \in ProgramHeader, NEW a \in Nat, InSegment(ph, a)
  PROVE  Down(a) \in PagesOfSegment(ph)
<1>1. ph.vaddr \in Nat /\ ph.memsz \in Nat /\ ph.vaddr + ph.memsz \in Nat  BY DEF ProgramHeader
<1>2. ph.vaddr <= a /\ a < ph.vaddr + ph.memsz  BY <1>1 DEF InSegment
<1>3. Down(ph.vaddr) <= Down(a) /\ Down(ph.vaddr) \in Nat  BY <1>1, <1>2, DownGrows, PageOfAddress
<1>4. Down(a) < Up(ph.vaddr + ph.memsz) /\ Up(ph.vaddr + ph.memsz) \in Nat
  BY <1>1, <1>2, PageOfAddress
<1>5. Down(a) \in Nat /\ Down(a) % PAGE_SIZE = 0  BY PageOfAddress
<1> QED  BY <1>3, <1>4, <1>5 DEF PagesOfSegment, PageSet

LEMMA PagesAreAligned ==
  ASSUME NEW ph \in ProgramHeader, NEW p \in PagesOfSegment(ph)
  PROVE  p \in Nat /\ p % PAGE_SIZE = 0
<1>1. ph.vaddr \in Nat /\ ph.vaddr + ph.memsz \in Nat  BY DEF ProgramHeader
<1>2. Down(ph.vaddr) \in Nat /\ Up(ph.vaddr + ph.memsz) \in Nat  BY <1>1, PageOfAddress
<1> QED  BY <1>2 DEF PagesOfSegment, PageSet

LEMMA ElfStarts ==
  ASSUME ElfInit
  PROVE  ElfInv
<1>1. load = [step |-> "idle", header |-> 0, virt |-> 0, left |-> 0] /\ position = 0 /\ DOMAIN memory = {}
  BY DEF ElfInit, Idle, At
<1>2. Mapped = 0  BY <1>1 DEF Mapped
<1> QED  BY <1>1, <1>2 DEF ElfInv, ElfTypes, Steps

\* The headers of an image.
LEMMA HeadersAre ==
  ASSUME image \in Images
  PROVE  /\ Len(image.headers) \in Nat /\ image.length \in Nat
         /\ \A i \in 1 .. Len(image.headers) : Ph(i) = ABSENT \/ Ph(i) \in ProgramHeader
<1>1. image.length \in Nat /\ image.headers \in Seq(ProgramHeader \cup {ABSENT})
  BY ElfAssumption
<1> QED  BY <1>1 DEF Ph

LEMMA VerifyKeeps ==
  ASSUME ElfInv, Verify
  PROVE  ElfInv'
<1>1. /\ load.step = "verify" /\ image \in Images /\ DOMAIN memory = {}
      /\ image' = image /\ memory' = memory
  BY DEF ElfInv, ElfTypes, Verify
<1>2. position' \in Nat /\ HeaderSize \in Nat  BY ElfAssumption DEF Verify
<1>3. CASE image.valid
  <2>1. load' = [step |-> "header", header |-> 1, virt |-> 0, left |-> 0]  BY <1>3 DEF Verify, At
  <2>2. Mapped' = 0  BY <2>1 DEF Mapped
  <2>3. Loads(0)' = {}  BY DEF Loads
  <2>4. FilledWith(Mapped)'  BY <1>1, <2>2, <2>3 DEF FilledWith
  <2>5. 1 \in 1 .. Len(image.headers) + 1  BY <1>1, HeadersAre
  <2> QED  BY <1>1, <1>2, <2>1, <2>2, <2>4, <2>5 DEF ElfInv, ElfTypes, Steps
<1>4. CASE ~image.valid
  <2>1. load' = [step |-> "failed", header |-> 0, virt |-> 0, left |-> 0]  BY <1>4 DEF Verify, At
  <2>2. Mapped' = 0  BY <2>1 DEF Mapped
  <2> QED  BY <1>1, <1>2, <2>1, <2>2 DEF ElfInv, ElfTypes, Steps
<1> QED  BY <1>3, <1>4

LEMMA ReadHeaderKeeps ==
  ASSUME ElfInv, ReadHeader
  PROVE  ElfInv'
<1> DEFINE h == load.header  n == Len(image.headers)
<1>1. /\ load.step = "header" /\ image \in Images /\ image' = image /\ memory' = memory
      /\ h \in 1 .. n + 1 /\ h \in Nat /\ load.virt \in Nat /\ load.left \in Nat
      /\ position \in Nat /\ load \in [step : Steps, header : Nat, virt : Nat, left : Nat]
  BY DEF ElfInv, ElfTypes, ReadHeader
<1>2. n \in Nat /\ \A i \in 1 .. n : Ph(i) = ABSENT \/ Ph(i) \in ProgramHeader  BY <1>1, HeadersAre
<1>3. position' \in Nat
  <2>1. HeaderEnd(h) \in Nat  BY <1>1, ElfAssumption DEF HeaderEnd
  <2> QED  BY <1>1, <2>1 DEF ReadHeader
<1>4. Mapped = h - 1  BY <1>1 DEF Mapped
<1>5. \A i \in 1 .. h - 1 : Ph(i) \in ProgramHeader  BY <1>4 DEF ElfInv
<1>6. ApartUpTo(h - 1) /\ WholeUpTo(h - 1) => FilledWith(h - 1)  BY <1>1, <1>4 DEF ElfInv
<1>7. \A i : Ph(i)' = Ph(i)  BY <1>1 DEF Ph
<1>8. \A k : Loads(k)' = Loads(k)  BY <1>7 DEF Loads
<1>9. ASSUME load'.step # "fill", NEW k
      PROVE  /\ ApartUpTo(k)' = ApartUpTo(k) /\ WholeUpTo(k)' = WholeUpTo(k)
             /\ FilledWith(k) => FilledWith(k)'
  <2>1. \A i : Reach(i)' = Reach(i)  BY <1>1, <1>7, <1>9 DEF Reach
  <2>2. ApartUpTo(k)' = ApartUpTo(k)  BY <1>7, <1>8 DEF ApartUpTo, PagesOfSegment
  <2>3. WholeUpTo(k)' = WholeUpTo(k)  BY <1>1, <1>7, <1>8 DEF WholeUpTo, InFile
  <2>4. ASSUME FilledWith(k) PROVE FilledWith(k)'
    <3>1. \A i : PagesOfSegment(Ph(i))' = PagesOfSegment(Ph(i))  BY <1>7 DEF PagesOfSegment
    <3>2. UNION {PagesOfSegment(Ph(i))' : i \in Loads(k)'} = UNION {PagesOfSegment(Ph(i)) : i \in Loads(k)}
      BY <1>8, <3>1
    <3>3. DOMAIN memory' = UNION {PagesOfSegment(Ph(i))' : i \in Loads(k)'}
      BY <1>1, <2>4, <3>2 DEF FilledWith
    <3> QED  BY <1>1, <1>7, <1>8, <2>1, <2>4, <3>3 DEF FilledWith
  <2> QED  BY <2>2, <2>3, <2>4
<1> HIDE DEF n
<1>10. CASE h > n
  <2>1. load' = [step |-> "loaded", header |-> 0, virt |-> 0, left |-> 0]
    BY <1>1, <1>10 DEF ReadHeader, At, n
  <2>2. Mapped' = h - 1  BY <1>1, <1>2, <1>10, <2>1 DEF Mapped, n
  <2> HIDE DEF h
  <2> QED  BY <1>1, <1>3, <1>5, <1>6, <1>7, <1>9, <2>1, <2>2 DEF ElfInv, ElfTypes, Steps
<1>11. CASE h <= n /\ Ph(h) = ABSENT
  <2>1. load' = [step |-> "failed", header |-> 0, virt |-> 0, left |-> 0]
    BY <1>1, <1>2, <1>11 DEF ReadHeader, At, n, Header, Ph
  <2>2. Mapped' = 0  BY <2>1 DEF Mapped
  <2> QED  BY <1>1, <1>3, <2>1, <2>2 DEF ElfInv, ElfTypes, Steps
<1>12. CASE h <= n /\ Ph(h) # ABSENT /\ Ph(h).type = "load"
  <2>1. load' = [load EXCEPT !.step = "map"]
    BY <1>1, <1>2, <1>12 DEF ReadHeader, n, Header, Ph
  <2>2. /\ load'.step = "map" /\ load'.header = h
        /\ load' \in [step : Steps, header : Nat, virt : Nat, left : Nat]
    BY <1>1, <2>1 DEF Steps
  <2>3. Mapped' = h - 1  BY <2>2 DEF Mapped
  <2>4. h \in 1 .. n /\ Ph(h) \in ProgramHeader  BY <1>1, <1>2, <1>12
  <2>5. Cursor'  BY <1>1, <1>7, <1>12, <2>2, <2>4 DEF Cursor, n
  <2> HIDE DEF h
  <2> QED  BY <1>1, <1>3, <1>5, <1>6, <1>7, <1>9, <2>2, <2>3, <2>5 DEF ElfInv, ElfTypes
<1>13. CASE h <= n /\ Ph(h) # ABSENT /\ Ph(h).type # "load"
  <2>1. load' = [load EXCEPT !.header = @ + 1]
    BY <1>1, <1>2, <1>13 DEF ReadHeader, n, Header, Ph
  <2>2. /\ load'.step = "header" /\ load'.header = h + 1
        /\ load' \in [step : Steps, header : Nat, virt : Nat, left : Nat]
    BY <1>1, <2>1
  <2>3. Mapped' = h  BY <1>1, <2>2 DEF Mapped
  <2>4. h \in 1 .. n /\ Ph(h) \in ProgramHeader  BY <1>1, <1>2, <1>13
  <2>5. \A i \in 1 .. h : Ph(i) \in ProgramHeader  BY <1>1, <1>5, <2>4
  <2>6. Loads(h) = Loads(h - 1)  BY <1>1, <1>13 DEF Loads
  <2>7. ApartUpTo(h) /\ WholeUpTo(h) => FilledWith(h)  
    BY <1>6, <2>6 DEF ApartUpTo, WholeUpTo, FilledWith
  <2>8. load'.header \in 1 .. Len(image.headers) + 1  BY <1>1, <1>2, <1>13, <2>2 DEF n
  <2> HIDE DEF h
  <2> QED  BY <1>1, <1>3, <1>7, <1>9, <2>2, <2>3, <2>5, <2>7, <2>8 DEF ElfInv, ElfTypes
<1> QED  BY <1>1, <1>2, <1>10, <1>11, <1>12, <1>13

LEMMA MapSegmentKeeps ==
  ASSUME ElfInv, MapSegment
  PROVE  ElfInv'
<1>0. PICK h : h = load.header  OBVIOUS
<1> DEFINE new == PagesOfSegment(Ph(h))
<1>1. /\ load.step = "map" /\ image \in Images /\ image' = image /\ Cursor
      /\ load \in [step : Steps, header : Nat, virt : Nat, left : Nat]
  BY DEF ElfInv, ElfTypes, MapSegment
<1>2. /\ h \in 1 .. Len(image.headers) /\ h \in Nat /\ Len(image.headers) \in Nat
      /\ Ph(h) \in ProgramHeader /\ Ph(h).type = "load"
  BY <1>0, <1>1, HeadersAre DEF Cursor
<1>3. Mapped = h - 1  BY <1>0, <1>1 DEF Mapped
<1>4. \A i \in 1 .. h : Ph(i) \in ProgramHeader  BY <1>2, <1>3 DEF ElfInv
<1>5. /\ Ph(h).vaddr \in Nat /\ Ph(h).filesz \in Nat /\ Ph(h).offset \in Nat  BY <1>2 DEF ProgramHeader
<1>6. /\ load'.step = "fill" /\ load'.header = h /\ load'.virt = Ph(h).vaddr /\ load'.left = Ph(h).filesz
      /\ load' \in [step : Steps, header : Nat, virt : Nat, left : Nat]
      /\ position' = Ph(h).offset
  BY <1>0, <1>1, <1>5 DEF MapSegment, Header, Ph, Steps, SeekTo
<1>7. Mapped' = h  BY <1>6 DEF Mapped
<1>8. \A i : Ph(i)' = Ph(i)  BY <1>1 DEF Ph
<1>9. Filling'  BY <1>1, <1>2, <1>5, <1>6, <1>8 DEF Filling, Cursor
<1>10. \A i \in 1 .. h : Reach(i)' = IF i = h THEN Ph(h).vaddr ELSE Reach(i)
  BY <1>1, <1>6, <1>8 DEF Reach
<1>11. \A k : Loads(k)' = Loads(k)  BY <1>8 DEF Loads
<1>12. Loads(h) = Loads(h - 1) \cup {h}  BY <1>2 DEF Loads
<1>13. ASSUME ApartUpTo(h)', WholeUpTo(h)' PROVE FilledWith(h)'
  <2>1. ApartUpTo(h)  BY <1>8, <1>11, <1>13 DEF ApartUpTo, PagesOfSegment
  <2>2. WholeUpTo(h)  BY <1>1, <1>8, <1>11, <1>13 DEF WholeUpTo, InFile
  <2>3. FilledWith(h - 1)
    BY <1>1, <1>3, <1>12, <2>1, <2>2 DEF ElfInv, ApartUpTo, WholeUpTo
  <2>4. \A i \in Loads(h - 1) : i # h /\ i \in Loads(h) /\ i \in 1 .. h  BY <1>2, <1>12 DEF Loads
  <2>5. \A i \in Loads(h - 1) : PagesOfSegment(Ph(i)) \cap new = {}
    BY <1>12, <2>1, <2>4 DEF ApartUpTo
  <2>6. DOMAIN memory \cap new = {}  BY <2>3, <2>5 DEF FilledWith
  <2>7. DOMAIN memory' = DOMAIN memory \cup new
    BY <1>0 DEF MapSegment, Over, Header, Ph
  <2>8. \A p \in DOMAIN memory : memory'[p] = memory[p]
    BY <1>0, <2>6 DEF MapSegment, Over, Header, Ph
  <2>9. \A p \in new, o \in 0 .. PAGE_SIZE - 1 : memory'[p][o] = Zero
    BY <1>0 DEF MapSegment, Over, Header, Ph, Blank
  <2>10. DOMAIN memory' = UNION {PagesOfSegment(Ph(i))' : i \in Loads(h)'}
    <3>1. \A i : PagesOfSegment(Ph(i))' = PagesOfSegment(Ph(i))  BY <1>8 DEF PagesOfSegment
    <3>2. UNION {PagesOfSegment(Ph(i)) : i \in Loads(h)}
            = new \cup UNION {PagesOfSegment(Ph(i)) : i \in Loads(h - 1)}
      BY <1>12
    <3> QED  BY <1>11, <2>3, <2>7, <3>1, <3>2 DEF FilledWith
  <2>11. ASSUME NEW p \in DOMAIN memory', NEW o \in 0 .. PAGE_SIZE - 1
         PROVE  /\ \A i \in Loads(h) :
                     p + o \in Ph(i).vaddr .. Reach(i)' - 1 => memory'[p][o] = <<Ph(i).offset + p + o - Ph(i).vaddr>>
                /\ (\A i \in Loads(h) : p + o \notin Ph(i).vaddr .. Reach(i)' - 1) => memory'[p][o] = Zero
    <3>1. \A i \in Loads(h - 1) : Reach(i)' = Reach(i)  BY <1>10, <2>4
    <3>2. Ph(h).vaddr .. Reach(h)' - 1 = {}  BY <1>2, <1>5, <1>10
    <3>3. CASE p \in DOMAIN memory
      BY <1>12, <2>3, <2>8, <3>1, <3>2, <3>3 DEF FilledWith
    <3>4. CASE p \in new
      <4>1. p \in Nat /\ p % PAGE_SIZE = 0  BY <1>2, <3>4, PagesAreAligned
      <4>2. ASSUME NEW i \in Loads(h - 1), p + o \in Ph(i).vaddr .. Reach(i) - 1 PROVE FALSE
        <5>1. Ph(i) \in ProgramHeader  BY <1>4, <2>4
        <5>2. Reach(i) = Ph(i).vaddr + Ph(i).filesz  BY <1>1 DEF Reach
        <5>3. InSegment(Ph(i), p + o)  BY <4>2, <5>1, <5>2 DEF InSegment, ProgramHeader
        <5>4. p \in PagesOfSegment(Ph(i))  
          <6>1. p + o \in Nat  BY <4>1, ElfAssumption
          <6> QED  BY <4>1, <5>1, <5>3, <6>1, PageOfSegment, AddressOfPage
        <5> QED  BY <2>5, <3>4, <5>4
      <4> QED  BY <1>12, <2>9, <3>1, <3>2, <3>4, <4>2
    <3> QED  BY <2>7, <3>3, <3>4
  <2> QED  BY <1>8, <1>11, <2>10, <2>11 DEF FilledWith
<1>14. position' \in Nat  BY <1>5, <1>6
<1> QED  BY <1>1, <1>4, <1>6, <1>7, <1>8, <1>9, <1>13, <1>14 DEF ElfInv, ElfTypes

\* What is stored in pages that are mapped.
LEMMA StorePoint ==
  ASSUME NEW bytes, NEW p \in DOMAIN memory, NEW o \in 0 .. PAGE_SIZE - 1
  PROVE  Store(bytes)[p][o] = IF p + o \in DOMAIN bytes THEN bytes[p + o] ELSE memory[p][o]
BY DEF Store

\* Segments that are apart share no address either.
LEMMA ApartAddresses ==
  ASSUME NEW n, ApartUpTo(n), \A i \in 1 .. n : Ph(i) \in ProgramHeader,
         NEW i \in Loads(n), NEW j \in Loads(n), NEW a \in Nat,
         InSegment(Ph(i), a), InSegment(Ph(j), a)
  PROVE  i = j
<1>1. Ph(i) \in ProgramHeader /\ Ph(j) \in ProgramHeader  BY DEF Loads
<1>2. Down(a) \in PagesOfSegment(Ph(i)) \cap PagesOfSegment(Ph(j))  BY <1>1, PageOfSegment
<1> QED  BY <1>2 DEF ApartUpTo

LEMMA ReadPageKeeps ==
  ASSUME ElfInv, ReadPage
  PROVE  ElfInv'
<1>0. PICK h : h = load.header  OBVIOUS
<1>1. /\ load.step = "fill" /\ load.left > 0 /\ image \in Images /\ image' = image /\ Filling
      /\ load \in [step : Steps, header : Nat, virt : Nat, left : Nat] /\ position \in Nat
  BY DEF ElfInv, ElfTypes, ReadPage
<1>2. /\ h \in 1 .. Len(image.headers) /\ h \in Nat /\ Len(image.headers) \in Nat
      /\ image.length \in Nat /\ Ph(h) \in ProgramHeader /\ Ph(h).type = "load"
  BY <1>0, <1>1, HeadersAre DEF Filling, Cursor
<1>3. Mapped = h  BY <1>0, <1>1 DEF Mapped
<1>4. \A i \in 1 .. h : Ph(i) \in ProgramHeader  BY <1>3 DEF ElfInv
<1>5. PICK v \in Nat, l \in Nat, a \in Nat, m \in Nat :
        v = load.virt /\ l = load.left /\ a = Amount /\ m = Available /\ a <= l /\ a > 0 /\ m <= a
  <2>1. load.virt \in Nat /\ load.left \in Nat  BY <1>1
  <2> DEFINE w == load.virt % PAGE_SIZE
  <2>2. w \in 0 .. PAGE_SIZE - 1 /\ PAGE_SIZE \in Nat  BY <2>1, PageOfAddress, ElfAssumption
  <2>3. Amount = IF load.left < PAGE_SIZE - w THEN load.left ELSE PAGE_SIZE - w  BY DEF Amount
  <2> HIDE DEF w
  <2>5. Amount \in Nat /\ Amount <= load.left /\ Amount > 0  BY <1>1, <2>1, <2>2, <2>3
  <2>4. Available \in Nat /\ Available <= Amount  BY <1>1, <1>2, <2>5 DEF Available
  <2> QED  BY <2>1, <2>4, <2>5, <2>4
<1>6. /\ Ph(h).vaddr \in Nat /\ Ph(h).filesz \in Nat /\ Ph(h).offset \in Nat /\ Ph(h).memsz \in Nat
      /\ Ph(h).filesz <= Ph(h).memsz
  BY <1>2 DEF ProgramHeader
<1>7. /\ load'.step = "fill" /\ load'.header = h /\ load'.virt = v + a /\ load'.left = l - a
      /\ load' \in [step : Steps, header : Nat, virt : Nat, left : Nat]
      /\ position' = position + m /\ position' \in Nat
  <2>1. load' = [load EXCEPT !.virt = v + a, !.left = l - a] /\ position' = position + m
    BY <1>1, <1>5 DEF ReadPage
  <2>2. v + a \in Nat /\ l - a \in Nat /\ position + m \in Nat  BY <1>1, <1>5
  <2>3. load \in [step : Steps, header : Nat, virt : Nat, left : Nat]  BY <1>1
  <2>4. load' \in [step : Steps, header : Nat, virt : Nat, left : Nat]  BY <2>1, <2>2, <2>3
  <2>5. load'.step = load.step /\ load'.header = load.header /\ load'.virt = v + a /\ load'.left = l - a
    BY <2>1, <2>3
  <2> QED  BY <1>0, <1>1, <2>1, <2>2, <2>4, <2>5
<1>8. Mapped' = h  BY <1>7 DEF Mapped
<1>9. \A i : Ph(i)' = Ph(i)  BY <1>1 DEF Ph
<1>10. v >= Ph(h).vaddr /\ v + l = Ph(h).vaddr + Ph(h).filesz  BY <1>0, <1>1, <1>5 DEF Filling
<1>11. ASSUME InFile(Ph(h)) PROVE position = Ph(h).offset + v - Ph(h).vaddr /\ m = a
  <2>1. position = Ph(h).offset + v - Ph(h).vaddr  BY <1>0, <1>1, <1>5, <1>11 DEF Filling
  <2>2. position + a <= image.length
    <3> DEFINE f == Ph(h).offset  u == Ph(h).vaddr  z == Ph(h).filesz
    <3>1. f \in Nat /\ u \in Nat /\ z \in Nat /\ image.length \in Nat /\ v + l = u + z  BY <1>2, <1>6, <1>10
    <3>2. f + z <= image.length /\ position = f + v - u  BY <1>11, <2>1 DEF InFile
    <3>3. a <= l /\ position \in Nat  BY <1>1, <1>5
    <3> HIDE DEF f, u, z
    <3> QED  BY <3>1, <3>2, <3>3
  <2>3. m = a  BY <1>1, <1>2, <1>5, <2>2 DEF Available
  <2> QED  BY <2>1, <2>3
<1>12. Filling'
  <2>1. Cursor'  BY <1>2, <1>1, <1>7, <1>9 DEF Cursor
  <2>2. InFile(Ph(h)) => position' = Ph(h).offset + load'.virt - Ph(h).vaddr
    BY <1>1, <1>5, <1>6, <1>7, <1>11
  <2>3. InFile(Ph(h))' = InFile(Ph(h))  BY <1>1, <1>9 DEF InFile
  <2> QED  BY <1>1, <1>5, <1>6, <1>7, <1>9, <1>10, <2>1, <2>2, <2>3 DEF Filling
<1>13. \A i \in 1 .. h : Reach(i)' = IF i = h THEN v + a ELSE Reach(i)
  BY <1>0, <1>1, <1>7, <1>9 DEF Reach
<1>14. \A i \in 1 .. h : Reach(i) = IF i = h THEN v ELSE Ph(i).vaddr + Ph(i).filesz
  BY <1>0, <1>1, <1>5 DEF Reach
<1>15. \A k : Loads(k)' = Loads(k)  BY <1>9 DEF Loads
<1>16. h \in Loads(h) /\ \A i \in Loads(h) : i \in 1 .. h  BY <1>2 DEF Loads
<1>17. ASSUME ApartUpTo(h)', WholeUpTo(h)' PROVE FilledWith(h)'
  <2>1. ApartUpTo(h)  BY <1>9, <1>15, <1>17 DEF ApartUpTo, PagesOfSegment
  <2>2. WholeUpTo(h)  BY <1>1, <1>9, <1>15, <1>17 DEF WholeUpTo, InFile
  <2>3. FilledWith(h)  BY <1>1, <1>3, <2>1, <2>2 DEF ElfInv
  <2>4. position = Ph(h).offset + v - Ph(h).vaddr /\ m = a  BY <1>11, <1>16, <2>2 DEF WholeUpTo
  <2>5. DOMAIN memory' = DOMAIN memory  BY DEF ReadPage, Store
  <2>6. \A p \in DOMAIN memory, o \in 0 .. PAGE_SIZE - 1 :
          memory'[p][o] = IF p + o \in v .. v + a - 1 THEN <<position + p + o - v>> ELSE memory[p][o]
    <3> SUFFICES ASSUME NEW p \in DOMAIN memory, NEW o \in 0 .. PAGE_SIZE - 1
                 PROVE  memory'[p][o] = IF p + o \in v .. v + a - 1 THEN <<position + p + o - v>> ELSE memory[p][o]
      OBVIOUS
    <3> DEFINE bytes == [b \in v .. v + a - 1 |-> <<position + b - v>>]
    <3>1. memory' = Store(bytes)  BY <1>5, <2>4 DEF ReadPage
    <3>2. memory'[p][o] = IF p + o \in DOMAIN bytes THEN bytes[p + o] ELSE memory[p][o]
      BY <3>1, StorePoint
    <3>3. ASSUME p + o \in v .. v + a - 1 PROVE bytes[p + o] = <<position + p + o - v>>
      <4> DEFINE b == p + o
      <4>1. bytes[b] = <<position + b - v>>  BY <3>3
      <4>2. position + b - v = position + p + o - v  
        <5>1. p \in Nat
          <6>1. PICK i \in Loads(h) : p \in PagesOfSegment(Ph(i))  BY <2>3 DEF FilledWith
          <6> QED  BY <1>4, <1>16, <6>1, PagesAreAligned
        <5> QED  BY <1>1, <1>5, <5>1, ElfAssumption
      <4> QED  BY <4>1, <4>2
    <3>4. DOMAIN bytes = v .. v + a - 1  OBVIOUS
    <3> HIDE DEF bytes
    <3> QED  BY <3>2, <3>3, <3>4
  <2>7. DOMAIN memory' = UNION {PagesOfSegment(Ph(i))' : i \in Loads(h)'}
    <3>1. \A i : PagesOfSegment(Ph(i))' = PagesOfSegment(Ph(i))  BY <1>9 DEF PagesOfSegment
    <3> QED  BY <1>15, <2>3, <2>5, <3>1 DEF FilledWith
  <2>8. ASSUME NEW p \in DOMAIN memory', NEW o \in 0 .. PAGE_SIZE - 1
         PROVE  /\ \A i \in Loads(h) :
                     p + o \in Ph(i).vaddr .. Reach(i)' - 1 => memory'[p][o] = <<Ph(i).offset + p + o - Ph(i).vaddr>>
                /\ (\A i \in Loads(h) : p + o \notin Ph(i).vaddr .. Reach(i)' - 1) => memory'[p][o] = Zero
    <3>1. p \in Nat /\ p + o \in Nat
      <4>1. PICK i \in Loads(h) : p \in PagesOfSegment(Ph(i))  BY <2>3, <2>5 DEF FilledWith
      <4>2. p \in Nat  BY <1>4, <1>16, <4>1, PagesAreAligned
      <4> QED  BY <4>2, ElfAssumption
    <3>2. CASE p + o \in v .. v + a - 1
      <4>1. InSegment(Ph(h), p + o)  BY <1>1, <1>5, <1>6, <1>10, <3>1, <3>2 DEF InSegment
      <4>2. memory'[p][o] = <<position + p + o - v>>  BY <2>5, <2>6, <3>2
      <4>3. position + p + o - v = Ph(h).offset + p + o - Ph(h).vaddr
        <5> DEFINE f == Ph(h).offset  u == Ph(h).vaddr
        <5>1. f \in Nat /\ u \in Nat /\ p \in Nat /\ o \in Nat  BY <1>6, <3>1, ElfAssumption
        <5>2. position = f + v - u  BY <2>4
        <5> HIDE DEF f, u
        <5>3. position + p + o - v = f + p + o - u  BY <5>1, <5>2
        <5> QED  BY <5>3 DEF f, u
      <4>4. ASSUME NEW i \in Loads(h), p + o \in Ph(i).vaddr .. Reach(i)' - 1 PROVE i = h
        <5> SUFFICES ASSUME i # h PROVE FALSE  OBVIOUS
        <5>1. Ph(i) \in ProgramHeader /\ i \in 1 .. h  BY <1>4, <1>16
        <5>2. InSegment(Ph(i), p + o)  BY <1>13, <1>14, <3>1, <4>4, <5>1 DEF InSegment, ProgramHeader
        <5> QED  BY <1>4, <1>16, <2>1, <3>1, <4>1, <5>2, ApartAddresses
      <4>5. p + o \in Ph(h).vaddr .. Reach(h)' - 1
        <5>1. Reach(h)' = v + a  BY <1>2, <1>13
        <5>2. v <= p + o /\ p + o < v + a /\ Ph(h).vaddr <= v  BY <1>5, <1>10, <3>1, <3>2
        <5> QED  BY <1>6, <3>1, <5>1, <5>2
      <4> QED  BY <1>16, <4>2, <4>3, <4>4, <4>5
    <3>3. CASE p + o \notin v .. v + a - 1
      <4>1. memory'[p][o] = memory[p][o]  BY <2>5, <2>6, <3>3
      <4>2. ASSUME NEW i \in Loads(h)
            PROVE  p + o \in Ph(i).vaddr .. Reach(i)' - 1 <=> p + o \in Ph(i).vaddr .. Reach(i) - 1
        <5>1. CASE i # h  BY <1>13, <1>14, <1>16, <5>1
        <5>2. CASE i = h
          <6>1. Reach(h)' = v + a /\ Reach(h) = v  BY <1>2, <1>13, <1>14
          <6>2. Ph(h).vaddr \in Nat /\ ~(v <= p + o /\ p + o < v + a)  BY <1>5, <1>6, <3>1, <3>3
          <6> QED  BY <3>1, <5>2, <6>1, <6>2
        <5> QED  BY <5>1, <5>2
      <4> QED  BY <2>3, <2>5, <4>1, <4>2 DEF FilledWith
    <3> QED  BY <3>2, <3>3
  <2> QED  BY <1>9, <1>15, <2>7, <2>8 DEF FilledWith
<1> QED  BY <1>1, <1>4, <1>7, <1>8, <1>9, <1>12, <1>17 DEF ElfInv, ElfTypes

LEMMA ClearBssKeeps ==
  ASSUME ElfInv, ClearBss
  PROVE  ElfInv'
<1>0. PICK h : h = load.header  OBVIOUS
<1>1. /\ load.step = "fill" /\ load.left = 0 /\ image \in Images /\ image' = image /\ Filling
      /\ load \in [step : Steps, header : Nat, virt : Nat, left : Nat]
      /\ position \in Nat /\ position' = position
  BY DEF ElfInv, ElfTypes, ClearBss
<1>2. /\ h \in 1 .. Len(image.headers) /\ h \in Nat /\ Len(image.headers) \in Nat
      /\ Ph(h) \in ProgramHeader /\ Ph(h).type = "load"
  BY <1>0, <1>1, HeadersAre DEF Filling, Cursor
<1>3. Mapped = h  BY <1>0, <1>1 DEF Mapped
<1>4. \A i \in 1 .. h : Ph(i) \in ProgramHeader  BY <1>3 DEF ElfInv
<1>6. /\ Ph(h).vaddr \in Nat /\ Ph(h).filesz \in Nat /\ Ph(h).memsz \in Nat
      /\ Ph(h).filesz <= Ph(h).memsz
  BY <1>2 DEF ProgramHeader
<1>7. /\ load'.step = "header" /\ load'.header = h + 1
      /\ load' \in [step : Steps, header : Nat, virt : Nat, left : Nat]
  <2>1. load' = [load EXCEPT !.step = "header", !.header = h + 1]  BY <1>0 DEF ClearBss
  <2>2. "header" \in Steps /\ h + 1 \in Nat  BY <1>2 DEF Steps
  <2> QED  BY <1>1, <2>1, <2>2
<1>8. Mapped' = h  BY <1>2, <1>7 DEF Mapped
<1>9. \A i : Ph(i)' = Ph(i)  BY <1>1 DEF Ph
<1>10. load.virt = Ph(h).vaddr + Ph(h).filesz  BY <1>0, <1>1, <1>6 DEF Filling
<1>13. \A i : Reach(i)' = Ph(i).vaddr + Ph(i).filesz /\ Reach(i) = Ph(i).vaddr + Ph(i).filesz
  BY <1>0, <1>1, <1>7, <1>9, <1>10 DEF Reach
<1>15. \A k : Loads(k)' = Loads(k)  BY <1>9 DEF Loads
<1>16. h \in Loads(h) /\ \A i \in Loads(h) : i \in 1 .. h  BY <1>2 DEF Loads
<1>17. ASSUME ApartUpTo(h)', WholeUpTo(h)' PROVE FilledWith(h)'
  <2>1. ApartUpTo(h)  BY <1>9, <1>15, <1>17 DEF ApartUpTo, PagesOfSegment
  <2>2. WholeUpTo(h)  BY <1>1, <1>9, <1>15, <1>17 DEF WholeUpTo, InFile
  <2>3. FilledWith(h)  BY <1>1, <1>3, <2>1, <2>2 DEF ElfInv
  <2> DEFINE bss == Ph(h).vaddr + Ph(h).filesz .. Ph(h).vaddr + Ph(h).memsz - 1
  <2>5. DOMAIN memory' = DOMAIN memory  BY DEF ClearBss, Store
  <2>6. \A p \in DOMAIN memory, o \in 0 .. PAGE_SIZE - 1 :
          memory'[p][o] = IF p + o \in bss THEN Zero ELSE memory[p][o]
    <3> DEFINE bytes == [b \in bss |-> Zero]
    <3>1. memory' = Store(bytes)  BY <1>0 DEF ClearBss, Header, Ph
    <3>2. DOMAIN bytes = bss /\ \A b \in bss : bytes[b] = Zero  OBVIOUS
    <3> HIDE DEF bytes, bss
    <3> QED  BY <3>1, <3>2, StorePoint
  <2>7. ASSUME NEW p \in DOMAIN memory, NEW o \in 0 .. PAGE_SIZE - 1, p + o \in bss
        PROVE  memory[p][o] = Zero
    <3>1. p \in Nat /\ p + o \in Nat
      <4>1. PICK i \in Loads(h) : p \in PagesOfSegment(Ph(i))  BY <2>3 DEF FilledWith
      <4>2. p \in Nat  BY <1>4, <1>16, <4>1, PagesAreAligned
      <4> QED  BY <4>2, ElfAssumption
    <3>2. InSegment(Ph(h), p + o)  BY <1>6, <2>7, <3>1 DEF InSegment
    <3>3. ASSUME NEW i \in Loads(h), p + o \in Ph(i).vaddr .. Reach(i) - 1 PROVE FALSE
      <4>1. Ph(i) \in ProgramHeader  BY <1>4, <1>16
      <4>2. InSegment(Ph(i), p + o)  BY <1>13, <3>1, <3>3, <4>1 DEF InSegment, ProgramHeader
      <4>3. i = h  BY <1>4, <1>16, <2>1, <3>1, <3>2, <4>2, ApartAddresses
      <4> QED  BY <1>6, <1>13, <2>7, <3>1, <3>3, <4>3
    <3> QED  BY <2>3, <3>3 DEF FilledWith
  <2> HIDE DEF bss
  <2>8. \A p \in DOMAIN memory, o \in 0 .. PAGE_SIZE - 1 : memory'[p][o] = memory[p][o]
    BY <2>6, <2>7
  <2>9. DOMAIN memory' = UNION {PagesOfSegment(Ph(i))' : i \in Loads(h)'}
    <3>1. \A i : PagesOfSegment(Ph(i))' = PagesOfSegment(Ph(i))  BY <1>9 DEF PagesOfSegment
    <3> QED  BY <1>15, <2>3, <2>5, <3>1 DEF FilledWith
  <2>10. ASSUME NEW p \in DOMAIN memory', NEW o \in 0 .. PAGE_SIZE - 1
         PROVE  /\ \A i \in Loads(h) :
                     p + o \in Ph(i).vaddr .. Reach(i)' - 1 => memory'[p][o] = <<Ph(i).offset + p + o - Ph(i).vaddr>>
                /\ (\A i \in Loads(h) : p + o \notin Ph(i).vaddr .. Reach(i)' - 1) => memory'[p][o] = Zero
    BY <1>13, <2>3, <2>5, <2>8 DEF FilledWith
  <2> QED  BY <1>9, <1>15, <2>9, <2>10 DEF FilledWith
<1>18. load'.header \in 1 .. Len(image.headers) + 1  BY <1>2, <1>7
<1> QED  BY <1>1, <1>4, <1>7, <1>8, <1>9, <1>17, <1>18 DEF ElfInv, ElfTypes

\* The program is taken from the machine that was started.
LEMMA ExecKeeps ==
  ASSUME ElfInv, machine \in Machines, Exec
  PROVE  ElfInv'
<1>1. load.step = "idle" /\ memory' = memory /\ position' = position /\ DOMAIN memory = {} /\ position \in Nat
  BY DEF Exec, ElfInv, ElfTypes
<1>2. CASE image' \in machine.programs /\ load' = At("verify", 0, 0, 0)
  <2>1. image' \in Images  BY <1>2, BootAssumption
  <2>2. load' = [step |-> "verify", header |-> 0, virt |-> 0, left |-> 0]  BY <1>2 DEF At
  <2>3. Mapped' = 0  BY <2>2 DEF Mapped
  <2> QED  BY <1>1, <2>1, <2>2, <2>3 DEF ElfInv, ElfTypes, Steps
<1>3. CASE UNCHANGED <<image, load>>
  <2>1. Mapped = 0 /\ Mapped' = 0  BY <1>1, <1>3 DEF Mapped
  <2> QED  BY <1>1, <1>3, <2>1 DEF ElfInv, ElfTypes
<1> QED  BY <1>2, <1>3 DEF Exec

LEMMA ElfStutters ==
  ASSUME ElfInv, UNCHANGED elfVars
  PROVE  ElfInv'
<1>1. image' = image /\ memory' = memory /\ load' = load /\ position' = position  BY DEF elfVars
<1>2. \A i : Ph(i)' = Ph(i)  BY <1>1 DEF Ph
<1>3. Mapped' = Mapped /\ \A i : Reach(i)' = Reach(i)  BY <1>1, <1>2 DEF Mapped, Reach
<1>4. \A k : Loads(k)' = Loads(k)  BY <1>2 DEF Loads
<1>5. \A i : PagesOfSegment(Ph(i))' = PagesOfSegment(Ph(i)) /\ InFile(Ph(i))' = InFile(Ph(i))
  BY <1>1, <1>2 DEF PagesOfSegment, InFile
<1>6. ASSUME NEW k
      PROVE  ApartUpTo(k)' = ApartUpTo(k) /\ WholeUpTo(k)' = WholeUpTo(k) /\ (FilledWith(k) => FilledWith(k)')
  BY <1>1, <1>2, <1>3, <1>4, <1>5 DEF ApartUpTo, WholeUpTo, FilledWith
<1>7. Cursor' = Cursor  BY <1>1, <1>2 DEF Cursor
<1>8. Filling => Filling'  BY <1>1, <1>2, <1>5, <1>7 DEF Filling
<1> QED  BY <1>1, <1>2, <1>3, <1>6, <1>7, <1>8 DEF ElfInv, ElfTypes

\* What ImageIsFile says follows when every header was read.
LEMMA LoadedIsFile ==
  ASSUME ElfInv
  PROVE  ImageIsFile
<1> SUFFICES ASSUME load.step = "loaded", Apart, \A i \in Segments : InFile(image.headers[i])
             PROVE  /\ DOMAIN memory = UNION {PagesOfSegment(image.headers[i]) : i \in Segments}
                    /\ \A i \in Segments : \A k \in 0 .. image.headers[i].memsz - 1 :
                         ByteAt(image.headers[i].vaddr + k)
                           = IF k < image.headers[i].filesz THEN <<image.headers[i].offset + k>> ELSE Zero
                    /\ \A p \in DOMAIN memory, o \in 0 .. PAGE_SIZE - 1 :
                         (\A i \in Segments : ~InSegment(image.headers[i], p + o)) => memory[p][o] = Zero
  BY DEF ImageIsFile
<1> DEFINE n == Len(image.headers)
<1>1. image \in Images  BY DEF ElfInv, ElfTypes
<1>2. DOMAIN image.headers = 1 .. n /\ n \in Nat  BY <1>1, ElfAssumption
<1>3. Mapped = n  BY DEF Mapped
<1>4. \A i \in 1 .. n : Ph(i) \in ProgramHeader  BY <1>3 DEF ElfInv
<1>5. Segments = Loads(n)  BY <1>2 DEF Segments, Loads, Ph
<1>6. ApartUpTo(n) /\ WholeUpTo(n)  BY <1>5 DEF Apart, ApartUpTo, WholeUpTo, Ph
<1>7. FilledWith(n)  BY <1>3, <1>6 DEF ElfInv
<1>8. \A i \in Loads(n) : /\ Ph(i) = image.headers[i] /\ Ph(i) \in ProgramHeader
                          /\ Reach(i) = Ph(i).vaddr + Ph(i).filesz
  BY <1>4 DEF Loads, Ph, Reach
<1>9. DOMAIN memory = UNION {PagesOfSegment(image.headers[i]) : i \in Segments}
  BY <1>5, <1>7, <1>8 DEF FilledWith
<1>10. \A p \in DOMAIN memory : p \in Nat /\ p % PAGE_SIZE = 0
  BY <1>7, <1>8, PagesAreAligned DEF FilledWith
<1>11. ASSUME NEW i \in Segments, NEW k \in 0 .. Ph(i).memsz - 1
       PROVE  ByteAt(Ph(i).vaddr + k) = IF k < Ph(i).filesz THEN <<Ph(i).offset + k>> ELSE Zero
  <2> DEFINE a == Ph(i).vaddr + k  p == Down(a)  o == a % PAGE_SIZE
  <2>1. /\ i \in Loads(n) /\ Ph(i) \in ProgramHeader /\ Ph(i).vaddr \in Nat /\ Ph(i).memsz \in Nat
        /\ Ph(i).filesz \in Nat /\ Ph(i).offset \in Nat
    BY <1>5, <1>8 DEF ProgramHeader
  <2>2. a \in Nat /\ k \in Nat /\ InSegment(Ph(i), a)  BY <2>1 DEF InSegment
  <2>3. p \in PagesOfSegment(Ph(i))  BY <2>1, <2>2, PageOfSegment
  <2>4. p \in DOMAIN memory  BY <1>7, <2>1, <2>3 DEF FilledWith
  <2>5. p \in Nat /\ o \in 0 .. PAGE_SIZE - 1 /\ p + o = a  BY <2>2, PageOfAddress
  <2>6. ByteAt(Ph(i).vaddr + k) = memory[p][o]  BY DEF ByteAt
  <2>7. CASE k < Ph(i).filesz
    <3>1. a \in Ph(i).vaddr .. Reach(i) - 1  BY <1>8, <2>1, <2>2, <2>7
    <3> HIDE DEF p, o
    <3>2. memory[p][o] = <<Ph(i).offset + p + o - Ph(i).vaddr>>
      BY <1>7, <2>1, <2>4, <2>5, <3>1 DEF FilledWith
    <3>3. Ph(i).offset + p + o - Ph(i).vaddr = Ph(i).offset + k
      <4> DEFINE f == Ph(i).offset  u == Ph(i).vaddr
      <4>1. p + o = u + k /\ o \in Nat  BY <2>5, ElfAssumption
      <4>2. f \in Nat /\ u \in Nat /\ k \in Nat /\ p \in Nat  BY <2>1, <2>2, <2>5
      <4> HIDE DEF f, u
      <4> QED  BY <4>1, <4>2 DEF f, u
    <3> QED  BY <2>6, <2>7, <3>2, <3>3
  <2>8. CASE k >= Ph(i).filesz
    <3>1. ASSUME NEW j \in Loads(n), a \in Ph(j).vaddr .. Reach(j) - 1 PROVE FALSE
      <4>1. Ph(j) \in ProgramHeader /\ Reach(j) = Ph(j).vaddr + Ph(j).filesz  BY <1>8
      <4>2. InSegment(Ph(j), a)  BY <2>2, <3>1, <4>1 DEF InSegment, ProgramHeader
      <4>3. i = j  BY <1>4, <1>6, <2>1, <2>2, <4>2, ApartAddresses
      <4> QED  BY <2>1, <2>2, <2>8, <3>1, <4>1, <4>3
    <3> HIDE DEF p, o
    <3>2. memory[p][o] = Zero  BY <1>7, <2>4, <2>5, <3>1 DEF FilledWith
    <3> QED  BY <2>1, <2>2, <2>6, <2>8, <3>2
  <2> QED  BY <2>1, <2>2, <2>7, <2>8
<1>12. ASSUME NEW p \in DOMAIN memory, NEW o \in 0 .. PAGE_SIZE - 1,
              \A i \in Segments : ~InSegment(Ph(i), p + o)
       PROVE  memory[p][o] = Zero
  <2>1. p \in Nat /\ p + o \in Nat  BY <1>10, ElfAssumption
  <2>2. ASSUME NEW i \in Loads(n), p + o \in Ph(i).vaddr .. Reach(i) - 1 PROVE FALSE
    <3>1. Ph(i) \in ProgramHeader /\ Reach(i) = Ph(i).vaddr + Ph(i).filesz  BY <1>8
    <3>2. InSegment(Ph(i), p + o)  BY <2>1, <2>2, <3>1 DEF InSegment, ProgramHeader
    <3> QED  BY <1>5, <1>12, <3>2
  <2> QED  BY <1>7, <2>2 DEF FilledWith
<1> QED  BY <1>5, <1>8, <1>9, <1>11, <1>12

ImageInv == machine \in Machines /\ ElfInv

LEMMA ImageStarts ==
  ASSUME Init
  PROVE  ImageInv
BY ElfStarts DEF Init, PciInit, ImageInv

LEMMA ImageKept ==
  ASSUME ImageInv, [Next]_vars
  PROVE  ImageInv'
<1>1. CASE Load
  <2>1. machine' = machine  BY <1>1 DEF Load, startVars
  <2>2. ElfNext  BY <1>1 DEF Load
  <2>3. ElfInv'  
    BY <2>2, VerifyKeeps, ReadHeaderKeeps, MapSegmentKeeps, ReadPageKeeps, ClearBssKeeps DEF ElfNext, ImageInv
  <2> QED  BY <2>1, <2>3 DEF ImageInv
<1>2. CASE Exec
  BY <1>2, ExecKeeps DEF ImageInv, Exec, startVars
<1>3. CASE UNCHANGED elfVars /\ machine' = machine
  BY <1>3, ElfStutters DEF ImageInv
<1>4. CASE Next /\ ~Load /\ ~Exec
  <2>1. UNCHANGED elfVars  BY <1>4 DEF Next, StartUp, NoRoot, Mount, Enter, Program
  <2> QED  BY <1>3, <1>4, <2>1, MachineStays
<1>5. CASE UNCHANGED vars
  BY <1>3, <1>5 DEF vars
<1> QED  BY <1>1, <1>2, <1>4, <1>5

\* What is loaded is the program of the file, for every file with segments
\* that share no page and are whole in it: elf_load, in kernel/elf.c.
THEOREM TheImageIsTheFile == Spec => []ImageIsFile
<1>1. Init => ImageInv  BY ImageStarts
<1>2. ImageInv /\ [Next]_vars => ImageInv'  BY ImageKept
<1>3. ImageInv => ImageIsFile  BY LoadedIsFile DEF ImageInv
<1> QED  BY <1>1, <1>2, <1>3, PTL DEF Spec

-----------------------------------------------------------------------------
(* IDE: a sector and its registers.                                         *)

LEMMA IdeNumbers ==
  /\ SectorSize \in Nat /\ SectorSize > 0 /\ Byte \in Nat /\ Byte > 1
  /\ Byte2 \in Nat /\ Byte3 \in Nat /\ Byte2 > 0 /\ Byte3 > 0
  /\ Byte2 = Byte * Byte /\ Byte3 = Byte2 * Byte
<1>1. SectorSize \in Nat /\ SectorSize > 0 /\ Byte \in Nat /\ Byte > 1  BY IdeAssumption
<1>2. Byte2 \in Nat /\ Byte2 > 0  BY <1>1 DEF Byte2
<1>3. Byte3 \in Nat /\ Byte3 > 0  BY <1>1, <1>2 DEF Byte3
<1> QED  BY <1>1, <1>2, <1>3 DEF Byte2, Byte3

\* The quotient and the remainder are the only ones.
LEMMA OneQuotient ==
  ASSUME NEW n \in Nat, n > 0, NEW x \in Nat, NEW q \in Nat, NEW r \in Nat, x = q * n + r, r < n
  PROVE  x \div n = q /\ x % n = r
<1> DEFINE p == x \div n
<1>1. p \in Nat /\ p * n <= x /\ x < p * n + n /\ x % n = x - p * n
  BY SMT
<1> HIDE DEF p
<1>2. ASSUME p >= q + 1 PROVE FALSE
  <2>1. p * n >= (q + 1) * n  BY <1>1, <1>2
  <2>2. (q + 1) * n = q * n + n /\ q * n \in Nat /\ p * n \in Nat  BY <1>1
  <2> QED  BY <1>1, <2>1, <2>2
<1>3. ASSUME q >= p + 1 PROVE FALSE
  <2>1. q * n >= (p + 1) * n  BY <1>1, <1>3
  <2>2. (p + 1) * n = p * n + n /\ q * n \in Nat /\ p * n \in Nat  BY <1>1
  <2> QED  BY <1>1, <2>1, <2>2
<1>4. p = q  BY <1>1, <1>2, <1>3
<1>5. q * n \in Nat  OBVIOUS
<1> QED  BY <1>1, <1>4, <1>5 DEF p

LEMMA Quotient ==
  ASSUME NEW n \in Nat, n > 0, NEW x \in Nat
  PROVE  /\ x \div n \in Nat /\ x % n \in Nat /\ x % n < n /\ (x \div n) * n \in Nat
         /\ x = (x \div n) * n + (x % n)
<1>1. x \div n \in Nat /\ x % n \in Nat /\ x % n < n /\ x = (x \div n) * n + (x % n)  BY SMT
<1> QED  BY <1>1

\* A quotient stays below a bound, and is taken in two steps.
LEMMA QuotientBelow ==
  ASSUME NEW n \in Nat, n > 0, NEW x \in Nat, NEW m \in Nat, x < m * n
  PROVE  x \div n < m
<1> DEFINE p == x \div n
<1>1. p \in Nat /\ p * n <= x  BY Quotient
<1> HIDE DEF p
<1>2. ASSUME p >= m PROVE FALSE
  <2>1. p * n >= m * n  BY <1>1, <1>2
  <2>2. p * n \in Nat /\ m * n \in Nat  BY <1>1
  <2> QED  BY <1>1, <2>1, <2>2
<1> QED  BY <1>1, <1>2 DEF p

LEMMA QuotientTwice ==
  ASSUME NEW n \in Nat, n > 0, NEW k \in Nat, k > 0, NEW x \in Nat
  PROVE  x \div (k * n) = (x \div n) \div k
<1> DEFINE p == x \div n  r == x % n  q == p \div k  s == p % k
<1>1. p \in Nat /\ r \in Nat /\ r < n /\ x = p * n + r  BY Quotient
<1> HIDE DEF p, r
<1>2. q \in Nat /\ s \in Nat /\ s < k /\ p = q * k + s  BY <1>1, Quotient
<1> HIDE DEF q, s
<1>3. q * k \in Nat /\ k * n \in Nat /\ k * n > 0 /\ s * n \in Nat /\ q * (k * n) \in Nat  BY <1>2
<1>4. x = q * (k * n) + (s * n + r)
  <2>1. p * n = (q * k) * n + s * n  BY <1>1, <1>2, <1>3
  <2>2. (q * k) * n = q * (k * n)  BY <1>2
  <2> QED  BY <1>1, <1>2, <1>3, <2>1, <2>2
<1>5. s * n + r < k * n
  <2>1. (s + 1) * n <= k * n  BY <1>2
  <2>2. (s + 1) * n = s * n + n  BY <1>2
  <2> QED  BY <1>1, <1>3, <2>1, <2>2
<1>6. s * n + r \in Nat  BY <1>1, <1>3
<1> DEFINE kn == k * n  t == s * n + r
<1>7. kn \in Nat /\ kn > 0 /\ t \in Nat /\ x = q * kn + t /\ t < kn  BY <1>3, <1>4, <1>5, <1>6
<1> HIDE DEF kn, t
<1>8. x \div kn = q  BY <1>2, <1>7, OneQuotient
<1> QED  BY <1>8 DEF kn, q, p

\* The digits of a number.
LEMMA DigitsOf ==
  ASSUME NEW x \in Nat
  PROVE  /\ x = (x % Byte) + (x \div Byte) * Byte
         /\ x \div Byte = ((x \div Byte) % Byte) + (x \div Byte2) * Byte
         /\ x \div Byte2 = ((x \div Byte2) % Byte) + (x \div Byte3) * Byte
         /\ {x % Byte, x \div Byte, x \div Byte2, x \div Byte3, (x \div Byte) % Byte, (x \div Byte2) % Byte} \subseteq Nat
<1>1. x \div Byte \in Nat /\ x % Byte \in Nat /\ x = (x % Byte) + (x \div Byte) * Byte  BY Quotient, IdeNumbers
<1>2. x \div Byte2 = (x \div Byte) \div Byte  BY QuotientTwice, IdeNumbers
<1>3. x \div Byte3 = (x \div Byte2) \div Byte
  <2>1. Byte3 = Byte * Byte2  BY IdeNumbers
  <2> QED  BY <2>1, QuotientTwice, IdeNumbers
<1> DEFINE y == x \div Byte
<1>4. y \in Nat  BY <1>1
<1> HIDE DEF y
<1>5. y \div Byte \in Nat /\ y % Byte \in Nat /\ y = (y % Byte) + (y \div Byte) * Byte  BY <1>4, Quotient, IdeNumbers
<1> DEFINE z == y \div Byte
<1>6. z \in Nat  BY <1>5
<1> HIDE DEF z
<1>7. z \div Byte \in Nat /\ z % Byte \in Nat /\ z = (z % Byte) + (z \div Byte) * Byte  BY <1>6, Quotient, IdeNumbers
<1> QED  BY <1>1, <1>2, <1>3, <1>5, <1>7 DEF y, z

\* IDEAccess names every sector below 2 GB by registers that mean it.
LEMMA AddressedByNumber ==
  ASSUME NEW x \in Nat, x < 16 * Byte3
  PROVE  Addressed(LBA28(x)) = x
<1> DEFINE a == x % Byte  b == (x \div Byte) % Byte  c == (x \div Byte2) % Byte
           p == x \div Byte  q == x \div Byte2  t == x \div Byte3
<1>1. /\ a \in Nat /\ b \in Nat /\ c \in Nat /\ p \in Nat /\ q \in Nat /\ t \in Nat
      /\ x = a + p * Byte /\ p = b + q * Byte /\ q = c + t * Byte
  BY DigitsOf
<1>2. t < 16  BY QuotientBelow, IdeNumbers
<1>3. t % 16 = t  BY <1>1, <1>2
<1>4. Addressed(LBA28(x)) = a + b * Byte + c * Byte2 + (t % 16) * Byte3
  BY DEF Addressed, LBA28, Digits
<1> HIDE DEF a, b, c, p, q, t
<1>5. q * Byte2 = c * Byte2 + t * Byte3
  <2>1. q * Byte2 = c * Byte2 + (t * Byte) * Byte2  BY <1>1, IdeNumbers
  <2>2. (t * Byte) * Byte2 = t * Byte3  BY <1>1, IdeNumbers
  <2> QED  BY <2>1, <2>2
<1>6. p * Byte = b * Byte + q * Byte2  BY <1>1, IdeNumbers
<1>7. /\ b * Byte \in Nat /\ c * Byte2 \in Nat /\ t * Byte3 \in Nat /\ q * Byte2 \in Nat /\ p * Byte \in Nat
  BY <1>1, IdeNumbers
<1>8. Addressed(LBA28(x)) = a + b * Byte + c * Byte2 + t * Byte3  BY <1>3, <1>4
<1> DEFINE bb == b * Byte  cc == c * Byte2  tt == t * Byte3  pp == p * Byte  qq == q * Byte2
<1>9. /\ a \in Nat /\ bb \in Nat /\ cc \in Nat /\ tt \in Nat /\ pp \in Nat /\ qq \in Nat
      /\ x = a + pp /\ pp = bb + qq /\ qq = cc + tt /\ Addressed(LBA28(x)) = a + bb + cc + tt
  BY <1>1, <1>5, <1>6, <1>7, <1>8
<1> HIDE DEF bb, cc, tt, pp, qq
<1> QED  BY <1>9

LEMMA AddressedByHead ==
  ASSUME NEW x \in Nat, x < Byte2 * (Heads * PerTrack)
  PROVE  Addressed(CHS(x)) = x
<1>0. Heads = 16 /\ PerTrack = 63 /\ Heads * PerTrack = 1008  BY DEF Heads, PerTrack
<1> DEFINE sect == (x % 63) + 1  track == x + 1 - sect  cyl == track \div 1008
           head == (track % 1008) \div 63
<1>1. x \div 63 \in Nat /\ x % 63 \in 0 .. 62 /\ x = (x \div 63) * 63 + (x % 63)  OBVIOUS
<1>2. sect \in 1 .. 63 /\ track \in Nat /\ track <= x /\ track + sect - 1 = x /\ track % 63 = 0  BY <1>1
<1>3. Addressed(CHS(x)) = (((cyl % Byte) + ((cyl \div Byte) % Byte) * Byte) * 16 + head) * 63 + sect - 1
  BY <1>0 DEF Addressed, CHS, Heads, PerTrack
<1> HIDE DEF sect, track
<1>4. cyl \in Nat /\ head \in Nat /\ track = cyl * 1008 + head * 63  BY <1>2
<1>5. cyl < Byte2  BY <1>0, <1>2, QuotientBelow, IdeNumbers
<1> HIDE DEF cyl, head
<1> DEFINE b == cyl \div Byte
<1>6. b \in Nat /\ cyl % Byte \in Nat /\ cyl = b * Byte + (cyl % Byte)  BY <1>4, Quotient, IdeNumbers
<1>7. b < Byte  BY <1>4, <1>5, QuotientBelow, IdeNumbers
<1> HIDE DEF b
<1>8. b % Byte = b  BY <1>6, <1>7, IdeNumbers
<1>9. (cyl % Byte) + (b % Byte) * Byte = cyl
  <2>1. b * Byte \in Nat  BY <1>6, IdeNumbers
  <2> QED  BY <1>4, <1>6, <1>8, <2>1
<1>10. Addressed(CHS(x)) = (cyl * 16 + head) * 63 + sect - 1  BY <1>3, <1>9 DEF b
<1> QED  BY <1>2, <1>4, <1>10

LEMMA SectorIsAddressed ==
  ASSUME NEW x \in Nat, x * SectorSize < Word \div 2, NEW can \in BOOLEAN
  PROVE  Addressed(Registers(x, can)) = x
<1>1. Word \in Nat /\ Word \div 2 \in Nat /\ 2 * (Word \div 2) <= Word  BY PciAssumption
<1>2. ASSUME NEW m \in Nat, Word <= 2 * SectorSize * m PROVE x < m
  <2> SUFFICES ASSUME x >= m PROVE FALSE  OBVIOUS
  <2>1. x * SectorSize >= m * SectorSize  BY IdeNumbers
  <2>2. m * SectorSize \in Nat /\ 2 * SectorSize * m = 2 * (m * SectorSize) /\ x * SectorSize \in Nat
    BY IdeNumbers
  <2> QED  BY <1>1, <1>2, <2>1, <2>2
<1>3. Byte2 * (Heads * PerTrack) \in Nat  BY IdeNumbers DEF Heads, PerTrack
<1>4. 16 * Byte3 \in Nat  BY IdeNumbers
<1>5. x < Byte2 * (Heads * PerTrack)  BY <1>2, <1>3, AddressAssumption
<1>6. x < 16 * Byte3  BY <1>2, <1>4, AddressAssumption
<1>7. Registers(x, can) = IF can THEN LBA28(x) ELSE CHS(x)  BY <1>4, <1>6 DEF Registers
<1> QED  BY <1>5, <1>6, <1>7, AddressedByNumber, AddressedByHead

-----------------------------------------------------------------------------
(* IDE: what a read returns.                                                *)

\* A disk that was probed, and sectors of it that can be read.
Ready(d) ==
  /\ idedev[d].reserved = TRUE /\ idedev[d].type = "ata" /\ idedev[d].lba \in BOOLEAN
  /\ Disk(d).kind = "ata" /\ Disk(d).size \in Nat /\ idedev[d].size = Disk(d).size
Readable(d, n, lba) ==
  /\ n < Byte /\ (lba + n) * SectorSize <= Word \div 2 /\ lba + n <= Disk(d).size
  /\ \A k \in 0 .. n - 1 : lba + k \notin Disk(d).bad

LEMMA SectorsRead ==
  ASSUME NEW d, Ready(d), NEW n \in Nat, n > 0, NEW lba \in Nat, Readable(d, n, lba),
         NEW k \in 1 .. n * SectorSize
  PROVE  SectorBytes(d, n, lba)[k] = <<Id(d), lba * SectorSize + k - 1>>
<1>1. Word \in Nat /\ Word > 0 /\ Word \div 2 \in Nat  BY PciAssumption
<1>2. n % Byte = n  BY IdeNumbers DEF Readable
<1>3. FirstSectorOf(d, lba) = lba
  <2>1. lba * SectorSize < (lba + n) * SectorSize
    <3>1. (lba + n) * SectorSize = lba * SectorSize + n * SectorSize  BY IdeNumbers
    <3>2. n * SectorSize \in Nat /\ n * SectorSize > 0 /\ lba * SectorSize \in Nat  BY IdeNumbers
    <3> QED  BY <3>1, <3>2
  <2>2. lba * SectorSize \in Nat /\ (lba + n) * SectorSize \in Nat  BY IdeNumbers
  <2>3. lba * SectorSize < Word \div 2  BY <1>1, <2>1, <2>2 DEF Readable
  <2> QED  BY <2>3, SectorIsAddressed DEF FirstSectorOf, Ready
<1>4. Transferred(d, n, lba) = n
  <2>1. \A j \in 0 .. n - 1 : ~Fails(d, lba + j)  BY DEF Fails, Readable, Ready
  <2> QED  BY <1>3, <2>1 DEF Transferred, Ready
<1>5. Filled(d, n, lba) = n
  <2>1. (lba + n) % Word <= lba + n /\ (lba + n) % Word \in Nat  
    <3> DEFINE x == lba + n
    <3>1. x \in Nat  OBVIOUS
    <3> HIDE DEF x
    <3>2. x % Word <= x /\ x % Word \in Nat
      <4>1. x = (x \div Word) * Word + (x % Word) /\ (x \div Word) * Word \in Nat /\ x % Word \in Nat
        BY <1>1, <3>1, Quotient
      <4> QED  BY <3>1, <4>1
    <3> QED  BY <3>2 DEF x
  <2>2. ~((lba + n) % Word > idedev[d].size)  BY <2>1 DEF Readable, Ready
  <2> QED  BY <1>2, <1>4, <2>2 DEF Filled, Ready
<1>6. k - 1 \in Nat /\ n * SectorSize \in Nat /\ k - 1 < n * SectorSize  BY IdeNumbers
<1>7. (k - 1) \div SectorSize < n  BY <1>6, QuotientBelow, IdeNumbers
<1> QED  BY <1>3, <1>5, <1>6, <1>7 DEF SectorBytes

\* The pieces of a read are one after the other, and cover it.
LEMMA PiecesFollow ==
  ASSUME NEW pos \in Nat, NEW count \in Nat, count > 0
  PROVE  \E off \in Nat, head \in Nat, whole \in Nat, tail \in Nat, first \in Nat, lba \in Nat :
           /\ Pieces(pos, count) =
                << [n |-> 1, lba |-> first, skip |-> off, take |-> head],
                   [n |-> whole, lba |-> lba, skip |-> 0, take |-> whole * SectorSize],
                   [n |-> 1, lba |-> lba + whole, skip |-> 0, take |-> tail] >>
           /\ first * SectorSize + off = pos /\ off + head <= SectorSize /\ tail < SectorSize
           /\ head + whole * SectorSize + tail = count /\ whole * SectorSize \in Nat
           /\ whole > 0 \/ tail > 0 => lba * SectorSize = pos + head
           /\ first = pos \div SectorSize
<1> DEFINE off == pos % SectorSize
           head == IF off = 0 THEN 0 ELSE IF count < SectorSize - off THEN count ELSE SectorSize - off
           first == pos \div SectorSize
           lba == first + (IF off = 0 THEN 0 ELSE 1)
           whole == (count - head) \div SectorSize
           tail == (count - head) % SectorSize
<1>1. first \in Nat /\ off \in Nat /\ off < SectorSize /\ first * SectorSize \in Nat /\ first * SectorSize + off = pos
  BY Quotient, IdeNumbers
<1>2. Pieces(pos, count) =
        << [n |-> 1, lba |-> first, skip |-> off, take |-> head],
           [n |-> whole, lba |-> lba, skip |-> 0, take |-> whole * SectorSize],
           [n |-> 1, lba |-> lba + whole, skip |-> 0, take |-> tail] >>
  BY DEF Pieces
<1> HIDE DEF off, first
<1>3. head \in Nat /\ head <= count /\ off + head <= SectorSize /\ lba \in Nat  BY <1>1, IdeNumbers
<1>4. count - head \in Nat  BY <1>3
<1>5. /\ whole \in Nat /\ tail \in Nat /\ tail < SectorSize /\ whole * SectorSize \in Nat
      /\ count - head = whole * SectorSize + tail
  BY <1>4, Quotient, IdeNumbers
<1>6. ASSUME whole > 0 \/ tail > 0 PROVE lba * SectorSize = pos + head
  <2>1. count - head > 0  
    <3>1. whole > 0 => whole * SectorSize > 0  BY <1>5, IdeNumbers
    <3> HIDE DEF whole, tail, head
    <3> QED  BY <1>5, <1>6, <3>1
  <2>2. CASE off = 0  BY <1>1, <2>2
  <2>3. CASE off # 0
    <3>1. head = SectorSize - off  BY <1>1, <2>1, <2>3, IdeNumbers
    <3>2. lba * SectorSize = first * SectorSize + SectorSize  BY <1>1, <2>3, IdeNumbers
    <3> QED  BY <1>1, <3>1, <3>2, IdeNumbers
  <2> QED  BY <2>2, <2>3
<1>7. head + whole * SectorSize + tail = count
  <2> DEFINE w == whole * SectorSize
  <2>1. w \in Nat /\ count - head = w + tail  BY <1>5
  <2> HIDE DEF w, head, tail
  <2> QED  BY <1>3, <1>5, <2>1 DEF w
<1> HIDE DEF head, lba, whole, tail
<1> QED  BY <1>1, <1>2, <1>3, <1>5, <1>6, <1>7 DEF first

LEMMA SequenceOf ==
  ASSUME NEW n \in Nat, NEW f, f = [i \in 1 .. n |-> f[i]]
  PROVE  f \in Seq({f[i] : i \in 1 .. n}) /\ Len(f) = n
<1>1. f \in [1 .. n -> {f[i] : i \in 1 .. n}]  OBVIOUS
<1> QED  BY <1>1

\* The i-th byte of a read, in the piece it is in.
ReadByte(d, p, i) ==
  IF i <= p[1].take THEN SectorBytes(d, p[1].n, p[1].lba)[p[1].skip + i]
  ELSE IF i <= p[1].take + p[2].take THEN SectorBytes(d, p[2].n, p[2].lba)[p[2].skip + i - p[1].take]
  ELSE SectorBytes(d, p[3].n, p[3].lba)[p[3].skip + i - p[1].take - p[2].take]

ReadAs(r, d, p, count) ==
  /\ Len(r) = count
  /\ r = [i \in 1 .. count |-> r[i]]
  /\ \A i \in 1 .. count : r[i] = ReadByte(d, p, i)

\* A read returns as many bytes as were asked for, each from its piece.
LEMMA ReadsCount ==
  ASSUME NEW d, NEW pos \in Nat, NEW count \in Nat, count > 0
  PROVE  ReadAs(BytesRead(d, pos, count), d, Pieces(pos, count), count)
<1> DEFINE p == Pieces(pos, count)
<1>1. /\ p[1].take \in Nat /\ p[2].take \in Nat /\ p[3].take \in Nat
      /\ p[1].skip \in Nat /\ p[2].skip \in Nat /\ p[3].skip \in Nat
      /\ p[1].take + p[2].take + p[3].take = count
  <2>1. PICK off \in Nat, head \in Nat, whole \in Nat, tail \in Nat, first \in Nat, lba \in Nat :
          /\ p = << [n |-> 1, lba |-> first, skip |-> off, take |-> head],
                    [n |-> whole, lba |-> lba, skip |-> 0, take |-> whole * SectorSize],
                    [n |-> 1, lba |-> lba + whole, skip |-> 0, take |-> tail] >>
          /\ first * SectorSize + off = pos /\ off + head <= SectorSize /\ tail < SectorSize
          /\ head + whole * SectorSize + tail = count /\ whole * SectorSize \in Nat
          /\ whole > 0 \/ tail > 0 => lba * SectorSize = pos + head
          /\ first = pos \div SectorSize
    BY PiecesFollow, Zenon
  <2> HIDE DEF p
  <2>2. p[1].take = head /\ p[2].take = whole * SectorSize /\ p[3].take = tail
        /\ p[1].skip = off /\ p[2].skip = 0 /\ p[3].skip = 0
    BY <2>1
  <2> QED  BY <2>1, <2>2
<1> HIDE DEF p
<1> DEFINE l == p[1].take  m == p[2].take  n == p[3].take
           a == PieceBytes(d, p[1])  b == PieceBytes(d, p[2])  c == PieceBytes(d, p[3])
           A == {a[i] : i \in 1 .. l}  B == {b[i] : i \in 1 .. m}  C == {c[i] : i \in 1 .. n}
           S == A \cup B \cup C
<1>2. l \in Nat /\ m \in Nat /\ n \in Nat /\ l + m + n = count  BY <1>1
<1>3. /\ a = [i \in 1 .. l |-> SectorBytes(d, p[1].n, p[1].lba)[p[1].skip + i]]
      /\ b = [i \in 1 .. m |-> SectorBytes(d, p[2].n, p[2].lba)[p[2].skip + i]]
      /\ c = [i \in 1 .. n |-> SectorBytes(d, p[3].n, p[3].lba)[p[3].skip + i]]
  BY DEF PieceBytes
<1>4. a = [i \in 1 .. l |-> a[i]] /\ b = [i \in 1 .. m |-> b[i]] /\ c = [i \in 1 .. n |-> c[i]]  BY <1>3
<1>5. BytesRead(d, pos, count) = a \o b \o c  BY DEF BytesRead, p
<1> HIDE DEF a, b, c, l, m, n
<1>6. a \in Seq(A) /\ Len(a) = l /\ b \in Seq(B) /\ Len(b) = m /\ c \in Seq(C) /\ Len(c) = n
  BY <1>2, <1>4, SequenceOf
<1>7. a \in Seq(S) /\ b \in Seq(S) /\ c \in Seq(S)  BY <1>6, SeqMonotonic
<1> HIDE DEF S
<1>8. a \o b \in Seq(S) /\ Len(a \o b) = l + m
      /\ \A i \in 1 .. l + m : (a \o b)[i] = IF i <= l THEN a[i] ELSE b[i - l]
  BY <1>6, <1>7, ConcatProperties
<1> DEFINE ab == a \o b
<1> HIDE DEF ab
<1>9. ab \in Seq(S) /\ Len(ab) = l + m  BY <1>8 DEF ab
<1>10. ab \o c \in Seq(S) /\ Len(ab \o c) = count
       /\ \A i \in 1 .. count : (ab \o c)[i] = IF i <= l + m THEN ab[i] ELSE c[i - (l + m)]
  BY <1>2, <1>6, <1>7, <1>9, ConcatProperties
<1>11. BytesRead(d, pos, count) = ab \o c  BY <1>5 DEF ab
<1>12. ab \o c = [i \in 1 .. count |-> (ab \o c)[i]]
  <2> DEFINE r == ab \o c
  <2>1. r \in Seq(S) /\ Len(r) = count  BY <1>10
  <2> HIDE DEF r
  <2>2. r = [i \in 1 .. count |-> r[i]]  BY <2>1
  <2> QED  BY <2>2 DEF r
<1>13. ASSUME NEW i \in 1 .. count
       PROVE  (ab \o c)[i] = IF i <= l THEN SectorBytes(d, p[1].n, p[1].lba)[p[1].skip + i]
                             ELSE IF i <= l + m THEN SectorBytes(d, p[2].n, p[2].lba)[p[2].skip + i - l]
                             ELSE SectorBytes(d, p[3].n, p[3].lba)[p[3].skip + i - l - m]
  <2>1. CASE i <= l
    <3>1. (ab \o c)[i] = a[i] /\ i \in 1 .. l  BY <1>2, <1>8, <1>10, <2>1 DEF ab
    <3> QED  BY <1>3, <2>1, <3>1
  <2>2. CASE i > l /\ i <= l + m
    <3>1. (ab \o c)[i] = b[i - l] /\ i - l \in 1 .. m  BY <1>2, <1>8, <1>10, <2>2 DEF ab
    <3>2. b[i - l] = SectorBytes(d, p[2].n, p[2].lba)[p[2].skip + (i - l)]  BY <1>3, <3>1
    <3>3. p[2].skip + (i - l) = p[2].skip + i - l  BY <1>1, <1>2
    <3> QED  BY <1>2, <2>2, <3>1, <3>2, <3>3
  <2>3. CASE i > l + m
    <3>1. (ab \o c)[i] = c[i - (l + m)] /\ i - (l + m) \in 1 .. n  BY <1>2, <1>10, <2>3
    <3>2. c[i - (l + m)] = SectorBytes(d, p[3].n, p[3].lba)[p[3].skip + (i - (l + m))]  BY <1>3, <3>1
    <3>3. p[3].skip + (i - (l + m)) = p[3].skip + i - l - m  BY <1>1, <1>2
    <3> QED  BY <1>2, <2>3, <3>1, <3>2, <3>3
  <2>4. i <= l \/ (i > l /\ i <= l + m) \/ i > l + m  BY <1>2
  <2> QED  BY <2>1, <2>2, <2>3, <2>4, Zenon
<1>14. Len(BytesRead(d, pos, count)) = count  BY <1>10, <1>11
<1>15. BytesRead(d, pos, count) = [i \in 1 .. count |-> BytesRead(d, pos, count)[i]]
  BY <1>11, <1>12
<1>16. ASSUME NEW i \in 1 .. count
       PROVE  BytesRead(d, pos, count)[i] = ReadByte(d, p, i)
  <2>1. (ab \o c)[i] = ReadByte(d, p, i)  BY <1>13, Zenon DEF ReadByte, l, m
  <2> QED  BY <1>11, <2>1
<1> DEFINE r == BytesRead(d, pos, count)
<1>17. Len(r) = count /\ r = [i \in 1 .. count |-> r[i]]  BY <1>14, <1>15
<1>18. \A i \in 1 .. count : r[i] = ReadByte(d, p, i)  BY <1>16
<1> HIDE DEF r
<1>19. ReadAs(r, d, p, count)  BY <1>17, <1>18 DEF ReadAs
<1> QED  BY <1>19 DEF p, r

\* Sectors between the first and the last of a read can be read.
LEMMA SectorsReadable ==
  ASSUME NEW d, Ready(d), NEW pos \in Nat, NEW count \in Nat, count > 0, pos + count <= Word \div 2,
         pos \div SectorSize .. (pos + count - 1) \div SectorSize \subseteq 0 .. Disk(d).size - 1,
         (pos \div SectorSize .. (pos + count - 1) \div SectorSize) \cap Disk(d).bad = {},
         NEW n \in Nat, n > 0, n < Byte, NEW lba \in Nat, pos \div SectorSize <= lba,
         (lba + n - 1) * SectorSize < pos + count,
         (lba + n) * SectorSize <= Word \div 2
  PROVE  Readable(d, n, lba)
<1> DEFINE first == pos \div SectorSize  last == (pos + count - 1) \div SectorSize
<1>1. /\ first \in Nat /\ last \in Nat /\ pos + count - 1 \in Nat
      /\ pos + count - 1 < last * SectorSize + SectorSize /\ last * SectorSize \in Nat
  <2>1. pos + count - 1 \in Nat  OBVIOUS
  <2> QED  BY <2>1, Quotient, IdeNumbers
<1> HIDE DEF first, last
<1>2. lba + n - 1 <= last
  <2> SUFFICES ASSUME lba + n - 1 >= last + 1 PROVE FALSE  BY <1>1
  <2>1. (lba + n - 1) * SectorSize >= (last + 1) * SectorSize  BY <1>1, IdeNumbers
  <2>2. (last + 1) * SectorSize = last * SectorSize + SectorSize  BY <1>1, IdeNumbers
  <2>3. (lba + n - 1) * SectorSize \in Nat  BY IdeNumbers
  <2> QED  BY <1>1, <2>1, <2>2, <2>3, IdeNumbers
<1>3. \A k \in 0 .. n - 1 : lba + k \in first .. last  BY <1>1, <1>2 DEF first
<1>4. \A k \in 0 .. n - 1 : lba + k \in 0 .. Disk(d).size - 1 /\ lba + k \notin Disk(d).bad
  BY <1>3 DEF first, last
<1>5. lba + (n - 1) \in 0 .. Disk(d).size - 1
  <2>1. n - 1 \in 0 .. n - 1  OBVIOUS
  <2> QED  BY <1>4, <2>1
<1> QED  BY <1>4, <1>5 DEF Readable, Ready

\* The end of the sector of an address below the middle of a word.
LEMMA SectorsEnd ==
  ASSUME NEW x \in Nat, x * SectorSize < Word \div 2, (Word \div 2) % SectorSize = 0
  PROVE  (x + 1) * SectorSize <= Word \div 2
<1> DEFINE h == Word \div 2  q == h \div SectorSize
<1>1. h \in Nat  BY PciAssumption
<1> HIDE DEF h
<1>2. q \in Nat /\ h = q * SectorSize  BY <1>1, IdeNumbers DEF h
<1> HIDE DEF q
<1>3. x < q
  <2> SUFFICES ASSUME x >= q PROVE FALSE  BY <1>2
  <2>1. x * SectorSize >= q * SectorSize  BY <1>2, IdeNumbers
  <2>2. x * SectorSize \in Nat /\ q * SectorSize \in Nat  BY <1>2, IdeNumbers
  <2> QED  BY <1>2, <2>1, <2>2 DEF h
<1>4. (x + 1) * SectorSize <= q * SectorSize  BY <1>2, <1>3, IdeNumbers
<1> QED  BY <1>2, <1>4 DEF h

LEMMA ReadIsOfTheDisk ==
  ASSUME NEW d, Ready(d), NEW pos \in Nat, NEW count \in Nat, count > 0, pos + count <= Word \div 2,
         count \div SectorSize < Byte,
         pos \div SectorSize .. (pos + count - 1) \div SectorSize \subseteq 0 .. Disk(d).size - 1,
         (pos \div SectorSize .. (pos + count - 1) \div SectorSize) \cap Disk(d).bad = {}
  PROVE  BytesRead(d, pos, count) = [i \in 1 .. count |-> <<Id(d), pos + i - 1>>]
<1>0. (Word \div 2) % SectorSize = 0 /\ Word \div 2 \in Nat  BY AddressAssumption, PciAssumption
<1> DEFINE p == Pieces(pos, count)  r == BytesRead(d, pos, count)
<1>r. ReadAs(r, d, p, count)  BY ReadsCount
<1> HIDE DEF r
<1>1. PICK off \in Nat, head \in Nat, whole \in Nat, tail \in Nat, first \in Nat, lba \in Nat :
          /\ p = << [n |-> 1, lba |-> first, skip |-> off, take |-> head],
                    [n |-> whole, lba |-> lba, skip |-> 0, take |-> whole * SectorSize],
                    [n |-> 1, lba |-> lba + whole, skip |-> 0, take |-> tail] >>
          /\ first * SectorSize + off = pos /\ off + head <= SectorSize /\ tail < SectorSize
          /\ head + whole * SectorSize + tail = count /\ whole * SectorSize \in Nat
          /\ whole > 0 \/ tail > 0 => lba * SectorSize = pos + head
          /\ first = pos \div SectorSize
  BY PiecesFollow, Zenon
<1> HIDE DEF p
<1> DEFINE w == whole * SectorSize  f == first * SectorSize  g == lba * SectorSize
<1>2. /\ w \in Nat /\ f \in Nat /\ g \in Nat /\ f + off = pos /\ head + w + tail = count
      /\ whole > 0 \/ tail > 0 => g = pos + head
      /\ (lba + whole) * SectorSize = g + w
      /\ whole > 0 => w >= SectorSize
  BY <1>1, IdeNumbers
<1> HIDE DEF w, f, g
<1>3. /\ p[1].n = 1 /\ p[1].lba = first /\ p[1].skip = off /\ p[1].take = head
      /\ p[2].n = whole /\ p[2].lba = lba /\ p[2].skip = 0 /\ p[2].take = w
      /\ p[3].n = 1 /\ p[3].lba = lba + whole /\ p[3].skip = 0 /\ p[3].take = tail
  BY <1>1 DEF w
<1>4. ASSUME head > 0, NEW i \in 1 .. head
      PROVE  SectorBytes(d, 1, first)[off + i] = <<Id(d), pos + i - 1>>
  <2>1. f < Word \div 2  BY <1>0, <1>2, <1>4
  <2>2. (first + 1) * SectorSize <= Word \div 2  BY <1>0, <2>1, SectorsEnd DEF f
  <2>3. (first + 1 - 1) * SectorSize < pos + count
    <3>1. first + 1 - 1 = first  OBVIOUS
    <3>2. f < pos + count  BY <1>2
    <3> QED  BY <3>1, <3>2 DEF f
  <2>4. Readable(d, 1, first)
    <3> DEFINE one == 1
    <3>1. /\ one \in Nat /\ one > 0 /\ one < Byte /\ first \in Nat /\ pos \div SectorSize <= first
          /\ (first + one - 1) * SectorSize < pos + count /\ (first + one) * SectorSize <= Word \div 2
      BY <1>1, <2>2, <2>3, IdeNumbers
    <3> HIDE DEF one
    <3>2. Readable(d, one, first)  BY <3>1, SectorsReadable
    <3> QED  BY <3>2 DEF one
  <2>5. off + i \in 1 .. 1 * SectorSize  BY <1>1, IdeNumbers
  <2>6. SectorBytes(d, 1, first)[off + i] = <<Id(d), f + (off + i) - 1>>  BY <2>4, <2>5, SectorsRead DEF f
  <2>7. f + (off + i) - 1 = pos + i - 1  BY <1>2
  <2> QED  BY <2>6, <2>7
<1>5. ASSUME whole > 0, NEW i \in 1 .. w
      PROVE  SectorBytes(d, whole, lba)[0 + i] = <<Id(d), pos + head + i - 1>>
  <2>1. g = pos + head  BY <1>2, <1>5
  <2>2. whole < Byte
    <3>1. whole * SectorSize <= count  BY <1>2 DEF w
    <3> DEFINE c == count \div SectorSize
    <3>2. c \in Nat /\ count < c * SectorSize + SectorSize /\ c * SectorSize \in Nat /\ c < Byte
      <4>1. c \in Nat /\ count % SectorSize < SectorSize /\ count % SectorSize \in Nat
            /\ count = c * SectorSize + (count % SectorSize) /\ c * SectorSize \in Nat
        BY Quotient, IdeNumbers
      <4> QED  BY <4>1, IdeNumbers
    <3> HIDE DEF c
    <3>3. ASSUME whole >= c + 1 PROVE FALSE
      <4>1. whole * SectorSize >= (c + 1) * SectorSize  BY <3>2, <3>3, IdeNumbers
      <4>2. (c + 1) * SectorSize = c * SectorSize + SectorSize  BY <3>2, IdeNumbers
      <4> QED  BY <1>1, <3>1, <3>2, <4>1, <4>2, IdeNumbers
    <3> QED  BY <3>2, <3>3, IdeNumbers
  <2>3. (lba + whole) * SectorSize <= Word \div 2  BY <1>0, <1>2, <2>1
  <2>4. (lba + whole - 1) * SectorSize < pos + count
    <3>1. (lba + whole - 1) * SectorSize = g + w - SectorSize
      <4> DEFINE y == lba + whole - 1
      <4>1. y \in Nat /\ y + 1 = lba + whole  BY <1>5
      <4> HIDE DEF y
      <4>2. (y + 1) * SectorSize = y * SectorSize + SectorSize /\ y * SectorSize \in Nat  BY <4>1, IdeNumbers
      <4>3. (y + 1) * SectorSize = g + w  BY <1>2, <4>1
      <4>4. y * SectorSize = g + w - SectorSize  BY <1>2, <4>2, <4>3, IdeNumbers
      <4> QED  BY <4>4 DEF y
    <3> QED  BY <1>2, <2>1, <3>1, IdeNumbers
  <2>5. first <= lba
    <3> SUFFICES ASSUME first >= lba + 1 PROVE FALSE  OBVIOUS
    <3>1. first * SectorSize >= (lba + 1) * SectorSize  BY IdeNumbers
    <3>2. (lba + 1) * SectorSize = g + SectorSize  BY IdeNumbers DEF g
    <3> QED  BY <1>2, <2>1, <3>1, <3>2, IdeNumbers DEF f
  <2>6. Readable(d, whole, lba)  BY <1>1, <1>5, <2>2, <2>3, <2>4, <2>5, SectorsReadable
  <2>7. 0 + i \in 1 .. whole * SectorSize  BY <1>2 DEF w
  <2>8. SectorBytes(d, whole, lba)[0 + i] = <<Id(d), g + (0 + i) - 1>>
    BY <1>5, <2>6, <2>7, SectorsRead DEF g
  <2>9. g + (0 + i) - 1 = pos + head + i - 1  BY <1>2, <2>1
  <2> QED  BY <2>8, <2>9
<1>6. ASSUME tail > 0, NEW i \in 1 .. tail
      PROVE  SectorBytes(d, 1, lba + whole)[0 + i] = <<Id(d), pos + head + w + i - 1>>
  <2>1. g = pos + head  BY <1>2, <1>6
  <2> DEFINE x == lba + whole
  <2>2. x \in Nat /\ x * SectorSize = g + w  BY <1>2
  <2> HIDE DEF x
  <2>3. x * SectorSize < Word \div 2  BY <1>0, <1>2, <1>6, <2>1, <2>2
  <2>4. (x + 1) * SectorSize <= Word \div 2  BY <1>0, <2>2, <2>3, SectorsEnd
  <2>5. (x + 1 - 1) * SectorSize < pos + count
    <3>1. x + 1 - 1 = x  BY <2>2
    <3>2. x * SectorSize < pos + count  BY <1>2, <1>6, <2>1, <2>2
    <3> QED  BY <3>1, <3>2
  <2>6. first <= x
    <3> SUFFICES ASSUME first >= x + 1 PROVE FALSE  BY <2>2
    <3>1. first * SectorSize >= (x + 1) * SectorSize  BY <2>2, IdeNumbers
    <3>2. (x + 1) * SectorSize = g + w + SectorSize  BY <2>2, IdeNumbers
    <3> QED  BY <1>2, <2>1, <3>1, <3>2, IdeNumbers DEF f
  <2>7. Readable(d, 1, x)
    <3> DEFINE one == 1
    <3>1. /\ one \in Nat /\ one > 0 /\ one < Byte /\ x \in Nat /\ pos \div SectorSize <= x
          /\ (x + one - 1) * SectorSize < pos + count /\ (x + one) * SectorSize <= Word \div 2
      BY <1>1, <2>2, <2>4, <2>5, <2>6, IdeNumbers
    <3> HIDE DEF one
    <3>2. Readable(d, one, x)  BY <3>1, SectorsReadable
    <3> QED  BY <3>2 DEF one
  <2>8. 0 + i \in 1 .. 1 * SectorSize  BY <1>1, IdeNumbers
  <2>9. SectorBytes(d, 1, x)[0 + i] = <<Id(d), x * SectorSize + (0 + i) - 1>>
    BY <2>2, <2>7, <2>8, SectorsRead
  <2>10. x * SectorSize + (0 + i) - 1 = pos + head + w + i - 1  BY <1>2, <2>1, <2>2
  <2> QED  BY <2>9, <2>10 DEF x
<1>7. ASSUME NEW i \in 1 .. count
      PROVE  r[i] = <<Id(d), pos + i - 1>>
  <2>1. r[i] =
          IF i <= head THEN SectorBytes(d, 1, first)[off + i]
          ELSE IF i <= head + w THEN SectorBytes(d, whole, lba)[0 + i - head]
          ELSE SectorBytes(d, 1, lba + whole)[0 + i - head - w]
    <3>1. r[i] = ReadByte(d, p, i)  BY <1>r DEF ReadAs
    <3> QED  BY <1>3, <3>1 DEF ReadByte
  <2>2. CASE i <= head
    <3>1. i \in 1 .. head /\ head > 0  BY <2>2
    <3> QED  BY <1>4, <2>1, <2>2, <3>1
  <2>3. CASE i > head /\ i <= head + w
    <3>1. i - head \in 1 .. w /\ whole > 0  BY <1>1, <1>2, <2>3, IdeNumbers DEF w
    <3>2. 0 + i - head = 0 + (i - head) /\ pos + head + (i - head) - 1 = pos + i - 1  OBVIOUS
    <3>3. SectorBytes(d, whole, lba)[0 + (i - head)] = <<Id(d), pos + head + (i - head) - 1>>
      BY <1>5, <3>1
    <3>4. r[i] = SectorBytes(d, whole, lba)[0 + i - head]  BY <2>1, <2>3
    <3> QED  BY <3>2, <3>3, <3>4
  <2>4. CASE i > head + w
    <3>1. i - head - w \in 1 .. tail /\ tail > 0  BY <1>2, <2>4
    <3>2. 0 + i - head - w = 0 + (i - head - w) /\ pos + head + w + (i - head - w) - 1 = pos + i - 1  BY <1>2
    <3>3. SectorBytes(d, 1, lba + whole)[0 + (i - head - w)] = <<Id(d), pos + head + w + (i - head - w) - 1>>
      BY <1>6, <3>1
    <3>4. r[i] = SectorBytes(d, 1, lba + whole)[0 + i - head - w]  BY <1>2, <2>1, <2>4
    <3> QED  BY <3>2, <3>3, <3>4
  <2>5. i <= head \/ (i > head /\ i <= head + w) \/ i > head + w  BY <1>2
  <2> QED  BY <2>2, <2>3, <2>4, <2>5
<1>8. r = [i \in 1 .. count |-> r[i]]  BY <1>r DEF ReadAs
<1> QED  BY <1>7, <1>8 DEF r
-----------------------------------------------------------------------------
(* IDE: the drives found, and the files made of them.                       *)

FileNode == [name : Seq(Nat), kind : {"drive", "part"}, owner : Nat, priv : {0, 1}, start : Nat,
             reference : Nat, of : Nat \X {0, 1}]
IdeDev == [reserved : BOOLEAN, type : {"ata", "atapi"}, channel : 0 .. 1, drive : 0 .. 1, size : Nat, lba : BOOLEAN]
IdeTypes ==
  /\ channels \in [0 .. 1 -> Nat]
  /\ idedev \in [0 .. 3 -> IdeDev]
  /\ probe \in [device : Nat \ {0}, slot : (0 .. 3) \cup {NONE}, count : 0 .. 3]
  /\ nodes \in Seq(FileNode)
  /\ file # NONE => file \in [node : DOMAIN nodes, offset : Nat]

\* A file is a drive's, or a partition's on a drive with a file.
OwnedBy(n, o) ==
  /\ o \in DOMAIN nodes /\ nodes[o].kind = "drive" /\ nodes[o].of = nodes[n].of
  /\ nodes[n].kind = "drive" => o = n /\ nodes[n].start = 0 /\ nodes[n].priv = nodes[n].of[2]

ProbeInv ==
  /\ probe.slot = NONE => probe.count = 0
  /\ probe.slot # NONE => probe.count <= probe.slot /\ probe.device \in Controllers
  /\ pc = "pci" => probe.device = 1 /\ probe.slot = NONE /\ nodes = <<>>
  /\ pc = "partitions" =>
       /\ probe.slot # NONE /\ nodes # <<>>
       /\ nodes[Len(nodes)].kind = "drive" /\ nodes[Len(nodes)].of = HereId
  /\ result # NONE => pc \in {"run", "hang"}

\* With one controller, k: the drives of it that have been looked for, the
\* entries of IDEDev made, and what they say of the two on the first channel.
Asked == IF pc = "partitions" THEN 1 ELSE 0
Sure(k) == IF probe.slot # NONE THEN probe.slot + Asked ELSE IF k < probe.device THEN 4 ELSE 0
First(d) == DriveOf(<<channels[0], d>>)
Present(d) == First(d).kind \in {"ata", "atapi"}
Known(d) ==
  /\ idedev[d].reserved = TRUE /\ idedev[d].type = First(d).kind /\ idedev[d].channel = 0
  /\ idedev[d].drive = d /\ idedev[d].size = First(d).size /\ idedev[d].lba = First(d).lba
Enough(n) == probe.slot # NONE => probe.count + Asked >= n
FoundInv(k) ==
  /\ \A n \in DOMAIN nodes : nodes[n].of[2] < Sure(k)
  /\ Sure(k) >= 1 /\ Present(0) => Known(0) /\ Enough(1)
  /\ Sure(k) >= 2 /\ Present(0) /\ Present(1) => Known(1) /\ Enough(2)

IdeInv ==
  /\ IdeTypes
  /\ \A n \in DOMAIN nodes : OwnedBy(n, nodes[n].owner)
  /\ ProbeInv
  /\ \A k : Controllers = {k} => FoundInv(k)

LEMMA NoneIsNoNumber == NONE \notin Nat
BY IdeAssumption

LEMMA IdeStarts ==
  ASSUME Init
  PROVE  IdeInv
<1>1. /\ channels = [c \in 0 .. 1 |-> 0] /\ idedev = [d \in 0 .. 3 |-> NoDev] /\ probe = Unstarted
      /\ nodes = <<>> /\ file = NONE /\ result = NONE /\ pc = "pci" /\ devices = <<>>
  BY DEF Init, IdeInit, PciInit
<1>2. NoDev \in IdeDev  BY DEF NoDev, IdeDev
<1>3. IdeTypes  BY <1>1, <1>2 DEF IdeTypes, Unstarted
<1>4. ProbeInv  BY <1>1 DEF ProbeInv, Unstarted
<1>5. Controllers = {}  BY <1>1 DEF Controllers
<1> QED  BY <1>1, <1>3, <1>4, <1>5 DEF IdeInv

\* While the functions are registered no drive is looked for.
LEMMA RegisteringKeeps ==
  ASSUME IdeInv, PciInv', PciNext, UNCHANGED ideVars
  PROVE  IdeInv'
<1>1. /\ channels' = channels /\ idedev' = idedev /\ probe' = probe /\ nodes' = nodes /\ file' = file
      /\ result' = result /\ machine' = machine /\ pc = "pci" /\ pc' \in {"pci", "ide"}
  BY DEF ideVars, PciNext, SkipFunction, Register, Enumerated, Enumerating
<1>2. IdeTypes /\ ProbeInv  BY DEF IdeInv
<1>3. probe.device = 1 /\ probe.slot = NONE /\ nodes = <<>> /\ result = NONE /\ probe.count = 0
  BY <1>1, <1>2 DEF ProbeInv
<1>4. IdeTypes'  BY <1>1, <1>2 DEF IdeTypes
<1>5. ProbeInv'  BY <1>1, <1>3 DEF ProbeInv
<1>6. ASSUME NEW k, Controllers' = {k} PROVE FoundInv(k)'
  <2>1. k \in DOMAIN devices'  BY <1>6 DEF Controllers
  <2>2. k \in Nat /\ ~(k < 1)  BY <2>1 DEF PciInv
  <2>3. Sure(k)' = 0  BY <1>1, <1>3, <2>2 DEF Sure
  <2> QED  BY <1>1, <1>3, <2>3 DEF FoundInv
<1> QED  BY <1>1, <1>3, <1>4, <1>5, <1>6 DEF IdeInv

\* The files stay, and what is found does.
Alike(m, n) ==
  /\ m[n].kind = nodes[n].kind /\ m[n].owner = nodes[n].owner /\ m[n].priv = nodes[n].priv
  /\ m[n].start = nodes[n].start /\ m[n].of = nodes[n].of
SameFiles == nodes' \in Seq(FileNode) /\ Len(nodes') = Len(nodes) /\ \A n \in DOMAIN nodes : Alike(nodes', n)

LEMMA FilesStay ==
  ASSUME IdeTypes, SameFiles, \A n \in DOMAIN nodes : OwnedBy(n, nodes[n].owner)
  PROVE  DOMAIN nodes' = DOMAIN nodes /\ \A n \in DOMAIN nodes' : OwnedBy(n, nodes[n].owner)'
<1>1. DOMAIN nodes' = DOMAIN nodes  BY DEF IdeTypes, SameFiles
<1>2. ASSUME NEW n \in DOMAIN nodes PROVE OwnedBy(n, nodes[n].owner)'
  <2>1. OwnedBy(n, nodes[n].owner) /\ nodes'[n].owner = nodes[n].owner  BY <1>2 DEF SameFiles, Alike
  <2>2. nodes[n].owner \in DOMAIN nodes  BY <2>1 DEF OwnedBy
  <2> QED  BY <1>1, <2>1, <2>2 DEF OwnedBy, SameFiles, Alike
<1> QED  BY <1>1, <1>2

LEMMA IdeQuiet ==
  ASSUME IdeInv, SameFiles, UNCHANGED <<machine, devices, channels, idedev, probe>>,
         pc \notin {"pci", "partitions"}, pc' \notin {"pci", "partitions"},
         file' # NONE => file' \in [node : DOMAIN nodes, offset : Nat],
         result' # NONE => pc' \in {"run", "hang"}
  PROVE  IdeInv'
<1>1. IdeTypes /\ ProbeInv  BY DEF IdeInv
<1>2. DOMAIN nodes' = DOMAIN nodes /\ \A n \in DOMAIN nodes' : OwnedBy(n, nodes[n].owner)'
  BY <1>1, FilesStay DEF IdeInv
<1>3. IdeTypes'  BY <1>1, <1>2 DEF IdeTypes, SameFiles
<1>4. Controllers' = Controllers  BY DEF Controllers
<1>5. ProbeInv'  BY <1>1, <1>4 DEF ProbeInv
<1>6. ASSUME NEW k, Controllers' = {k} PROVE FoundInv(k)'
  <2>1. FoundInv(k)  BY <1>4, <1>6 DEF IdeInv
  <2>2. Asked' = Asked  BY DEF Asked
  <2>3. Sure(k)' = Sure(k)  BY <2>2 DEF Sure
  <2>4. \A d : First(d)' = First(d)  BY DEF First, DriveOf
  <2>5. \A d : Present(d)' = Present(d) /\ Known(d)' = Known(d) /\ Enough(d)' = Enough(d)
    BY <2>2, <2>4 DEF Present, Known, Enough
  <2>6. \A n \in DOMAIN nodes' : nodes'[n].of[2] < Sure(k)'  BY <1>2, <2>1, <2>3 DEF FoundInv, SameFiles, Alike
  <2> QED  BY <2>1, <2>3, <2>5, <2>6 DEF FoundInv
<1> QED  BY <1>2, <1>3, <1>5, <1>6 DEF IdeInv

LEMMA FilesUnchanged ==
  ASSUME IdeInv, nodes' = nodes
  PROVE  SameFiles
BY DEF IdeInv, IdeTypes, SameFiles, Alike

-----------------------------------------------------------------------------
\* The devices that are no controllers are passed.
LEMMA PassDeviceKeeps ==
  ASSUME PciInv, IdeInv, PassDevice
  PROVE  IdeInv'
<1>1. IdeTypes /\ ProbeInv  BY DEF IdeInv
<1>2. /\ machine' = machine /\ pc' = pc /\ devices' = devices /\ channels' = channels /\ idedev' = idedev
      /\ nodes' = nodes /\ file' = file /\ result' = result /\ pc = "ide" /\ probe.slot = NONE
      /\ probe' = [probe EXCEPT !.device = @ + 1] /\ devices[probe.device].class # <<1, 1>>
  BY DEF PassDevice, Passing, pciVars, Device1
<1>3. /\ probe \in [device : Nat \ {0}, slot : (0 .. 3) \cup {NONE}, count : 0 .. 3]
      /\ probe.count = 0
  BY <1>1, <1>2 DEF IdeTypes, ProbeInv
<1>4. /\ probe' \in [device : Nat \ {0}, slot : (0 .. 3) \cup {NONE}, count : 0 .. 3]
      /\ probe'.slot = probe.slot /\ probe'.count = probe.count /\ probe'.device = probe.device + 1
  BY <1>2, <1>3
<1>5. IdeTypes'  BY <1>1, <1>2, <1>4 DEF IdeTypes
<1>6. \A n \in DOMAIN nodes' : OwnedBy(n, nodes[n].owner)'  BY <1>2 DEF IdeInv, OwnedBy
<1>7. ProbeInv'  BY <1>1, <1>2, <1>4 DEF ProbeInv
<1>8. ASSUME NEW k, Controllers' = {k} PROVE FoundInv(k)'
  <2>1. Controllers = {k}  BY <1>2, <1>8 DEF Controllers
  <2>2. FoundInv(k)  BY <2>1 DEF IdeInv
  <2>3. k \in DOMAIN devices /\ devices[k].class = <<1, 1>>  BY <2>1 DEF Controllers
  <2>4. k # probe.device  BY <1>2, <2>3
  <2>5. k < probe.device <=> k < probe'.device
    BY <1>3, <1>4, <2>3, <2>4 DEF PciInv
  <2>6. Sure(k)' = Sure(k)  BY <1>2, <1>4, <2>5 DEF Sure
  <2>7. \A d : First(d)' = First(d)  BY <1>2 DEF First, DriveOf
  <2>8. \A d : Present(d)' = Present(d) /\ Known(d)' = Known(d) /\ Enough(d)'
    BY <1>2, <1>4, <2>7 DEF Present, Known, Enough
  <2> QED  BY <1>2, <2>2, <2>6, <2>8 DEF FoundInv
<1> QED  BY <1>5, <1>6, <1>7, <1>8 DEF IdeInv

\* A register of a device registered is a number, and so is a base port.
LEMMA PortsAreNumbers ==
  ASSUME PciInv, NEW k \in DOMAIN devices, NEW c \in 0 .. 1
  PROVE  BasePort(devices[k].bar, c) \in Nat
<1>1. PICK l \in DOMAIN machine.functions : devices[k] = DeviceInfo(l)  BY DEF PciInv
<1>2. devices[k].bar = [i \in Bar |-> Region(l, i).value]  BY <1>1 DEF DeviceInfo, PciInv, AsSet
<1>3. 2 * c \in Bar  BY DEF Bar
<1>4. devices[k].bar[2 * c] \in Nat
  <2>1. Region(l, 2 * c).value \in Nat  BY <1>3, ValueKept, PciNumbers DEF PciInv, AllOnes
  <2> QED  BY <1>2, <1>3, <2>1
<1> DEFINE b == devices[k].bar[2 * c]
<1>5. (b \div 4) * 4 \in Nat  BY <1>4
<1> HIDE DEF b
<1>6. BasePort(devices[k].bar, c) = (b \div 4) * 4 + (IF b # 0 THEN 0 ELSE IF c = 0 THEN 496 ELSE 368)
  BY DEF BasePort, Aligned, b
<1> QED  BY <1>5, <1>6

LEMMA IDEFindKeeps ==
  ASSUME PciInv, IdeInv, IDEFind
  PROVE  IdeInv'
<1>1. IdeTypes /\ ProbeInv  BY DEF IdeInv
<1>2. /\ machine' = machine /\ pc' = pc /\ devices' = devices /\ idedev' = idedev
      /\ nodes' = nodes /\ file' = file /\ result' = result /\ pc = "ide" /\ probe.slot = NONE
      /\ probe' = [probe EXCEPT !.slot = 0] /\ devices[probe.device].class = <<1, 1>>
      /\ channels' = [c \in 0 .. 1 |-> BasePort(devices[probe.device].bar, c)] /\ probe.device <= Len(devices)
  BY DEF IDEFind, Passing, pciVars, Device1
<1>3. /\ probe \in [device : Nat \ {0}, slot : (0 .. 3) \cup {NONE}, count : 0 .. 3]
      /\ probe.count = 0
  BY <1>1, <1>2 DEF IdeTypes, ProbeInv
<1>4. /\ probe' \in [device : Nat \ {0}, slot : (0 .. 3) \cup {NONE}, count : 0 .. 3]
      /\ probe'.slot = 0 /\ probe'.count = 0 /\ probe'.device = probe.device
  BY <1>2, <1>3
<1>5. probe.device \in DOMAIN devices  BY <1>2, <1>3 DEF PciInv
<1>6. probe.device \in Controllers /\ Controllers' = Controllers  BY <1>2, <1>5 DEF Controllers
<1>7. channels' \in [0 .. 1 -> Nat]  BY <1>2, <1>5, PortsAreNumbers
<1>8. IdeTypes'  BY <1>1, <1>2, <1>4, <1>7 DEF IdeTypes
<1>9. \A n \in DOMAIN nodes' : OwnedBy(n, nodes[n].owner)'  BY <1>2 DEF IdeInv, OwnedBy
<1>10. ProbeInv'  BY <1>1, <1>2, <1>4, <1>6 DEF ProbeInv
<1>11. ASSUME NEW k, Controllers' = {k} PROVE FoundInv(k)'
  <2>1. FoundInv(k)  BY <1>6, <1>11 DEF IdeInv
  <2>2. k = probe.device  BY <1>6, <1>11
  <2>3. Sure(k) = 0  BY <1>2, <1>3, <2>2 DEF Sure
  <2>4. nodes = <<>>
    <3>1. ASSUME NEW n \in DOMAIN nodes PROVE FALSE
      <4>1. nodes[n] \in FileNode  BY <1>1 DEF IdeTypes
      <4>2. nodes[n].of[2] \in {0, 1}  BY <4>1 DEF FileNode
      <4>3. nodes[n].of[2] < 0  BY <2>1, <2>3 DEF FoundInv
      <4> QED  BY <4>2, <4>3
    <3>2. nodes \in Seq(FileNode)  BY <1>1 DEF IdeTypes
    <3>3. Len(nodes) \in Nat /\ DOMAIN nodes = 1 .. Len(nodes)  BY <3>2
    <3>4. Len(nodes) = 0
      <4>1. Len(nodes) > 0 => 1 \in DOMAIN nodes  BY <3>3
      <4> QED  BY <3>1, <3>3, <4>1
    <3> QED  BY <3>2, <3>4, EmptySeq
  <2>5. Sure(k)' = 0
    <3>1. pc' = "ide" /\ probe'.slot = 0 /\ NONE # 0  BY <1>2, <1>4, NoneIsNoNumber
    <3>2. Asked' = 0  BY <3>1 DEF Asked
    <3> QED  BY <3>1, <3>2 DEF Sure
  <2> QED  BY <1>2, <2>4, <2>5 DEF FoundInv
<1> QED  BY <1>8, <1>9, <1>10, <1>11 DEF IdeInv

-----------------------------------------------------------------------------
\* What NextProbe makes of probe.
LEMMA NextProbeIs ==
  ASSUME probe \in [device : Nat \ {0}, slot : (0 .. 3) \cup {NONE}, count : 0 .. 3],
         probe.slot # NONE, NEW made \in Nat, made <= probe.slot + 1, NEW q, q = NextProbe(made)
  PROVE  /\ q \in [device : Nat \ {0}, slot : (0 .. 3) \cup {NONE}, count : 0 .. 3]
         /\ probe.slot < 3 =>
              q.slot = probe.slot + 1 /\ q.count = made /\ q.device = probe.device /\ q.slot # NONE
         /\ probe.slot = 3 => q.slot = NONE /\ q.count = 0 /\ q.device = probe.device + 1
<1>1. CASE probe.slot < 3
  <2>1. q = [probe EXCEPT !.slot = @ + 1, !.count = made]  BY <1>1 DEF NextProbe
  <2>2. q = [device |-> probe.device, slot |-> probe.slot + 1, count |-> made]  BY <2>1
  <2>3. probe.slot + 1 \in 0 .. 3 /\ made \in 0 .. 3 /\ probe.slot + 1 # NONE  BY <1>1, NoneIsNoNumber
  <2> QED  BY <1>1, <2>2, <2>3
<1>2. CASE probe.slot = 3
  <2>1. q = [Unstarted EXCEPT !.device = probe.device + 1]  BY <1>2 DEF NextProbe
  <2>2. q = [device |-> probe.device + 1, slot |-> NONE, count |-> 0]  BY <2>1 DEF Unstarted
  <2> QED  BY <1>2, <2>2
<1>3. probe.slot < 3 \/ probe.slot = 3  OBVIOUS
<1> QED  BY <1>1, <1>2, <1>3

\* The next drive is one more that was looked for.
LEMMA NextIsSure ==
  ASSUME IdeInv, probe.slot # NONE, NEW made \in Nat, made <= probe.slot + 1, probe' = NextProbe(made),
         pc' \in {"ide", "hang"}, NEW k, Controllers = {k}
  PROVE  Sure(k)' = probe.slot + 1 /\ (probe'.slot # NONE => probe'.count = made)
<1>1. /\ probe \in [device : Nat \ {0}, slot : (0 .. 3) \cup {NONE}, count : 0 .. 3]
      /\ probe.device \in Controllers
  BY DEF IdeInv, IdeTypes, ProbeInv
<1>2. k = probe.device  BY <1>1
<1>3. /\ probe.slot < 3 =>
           probe'.slot = probe.slot + 1 /\ probe'.count = made /\ probe'.slot # NONE
      /\ probe.slot = 3 => probe'.slot = NONE /\ probe'.device = probe.device + 1
  BY <1>1, NextProbeIs
<1>4. Asked' = 0  BY DEF Asked
<1>5. CASE probe.slot < 3  BY <1>1, <1>3, <1>4, <1>5 DEF Sure
<1>6. CASE probe.slot = 3
  <2>1. k < probe'.device  BY <1>1, <1>2, <1>3, <1>6
  <2> QED  BY <1>3, <1>6, <2>1 DEF Sure
<1>7. probe.slot < 3 \/ probe.slot = 3  BY <1>1
<1> QED  BY <1>5, <1>6, <1>7

\* The drive that is looked for.
LEMMA HereIs ==
  ASSUME IdeTypes, probe.slot # NONE
  PROVE  /\ probe.slot \in 0 .. 3 /\ probe.count \in 0 .. 3 /\ Channel \in 0 .. 1 /\ Slave \in 0 .. 1
         /\ Slave <= probe.slot /\ HereId = <<channels[Channel], Slave>> /\ HereId \in Nat \X {0, 1}
         /\ probe.slot = 0 => Channel = 0 /\ Slave = 0
         /\ probe.slot = 1 => Channel = 0 /\ Slave = 1
         /\ probe.slot < 2 => Here = First(probe.slot)
<1>1. probe.slot \in 0 .. 3 /\ probe.count \in 0 .. 3  BY DEF IdeTypes
<1>2. /\ Channel \in 0 .. 1 /\ Slave \in 0 .. 1 /\ Slave <= probe.slot
      /\ probe.slot = 0 => Channel = 0 /\ Slave = 0
      /\ probe.slot = 1 => Channel = 0 /\ Slave = 1
  BY <1>1 DEF Channel, Slave
<1>3. channels[Channel] \in Nat  BY <1>2 DEF IdeTypes
<1>4. HereId = <<channels[Channel], Slave>> /\ HereId \in Nat \X {0, 1}  BY <1>2, <1>3 DEF HereId
<1>5. ASSUME probe.slot < 2 PROVE Here = First(probe.slot)
  <2>1. Channel = 0 /\ Slave = probe.slot  BY <1>1, <1>2, <1>5
  <2> QED  BY <2>1 DEF Here, First, HereId
<1> QED  BY <1>1, <1>2, <1>4, <1>5

\* What is known of the entries of IDEDev before the one made next.
LEMMA KnownStays ==
  ASSUME machine' = machine, channels' = channels, NEW d, idedev'[d] = idedev[d]
  PROVE  First(d)' = First(d) /\ Present(d)' = Present(d) /\ Known(d)' = Known(d)
<1>1. First(d)' = First(d)  BY DEF First, DriveOf
<1> QED  BY <1>1 DEF Present, Known

LEMMA PresentStays ==
  ASSUME machine' = machine, channels' = channels
  PROVE  \A d : First(d)' = First(d) /\ Present(d)' = Present(d)
<1>1. \A d : First(d)' = First(d)  BY DEF First, DriveOf
<1> QED  BY <1>1 DEF Present

LEMMA ProbeNothingKeeps ==
  ASSUME IdeInv, ProbeNothing
  PROVE  IdeInv'
<1>1. IdeTypes /\ ProbeInv  BY DEF IdeInv
<1>2. /\ machine' = machine /\ pc' = pc /\ devices' = devices /\ channels' = channels
      /\ nodes' = nodes /\ file' = file /\ result' = result /\ pc = "ide" /\ probe.slot # NONE
      /\ probe' = NextProbe(probe.count) /\ Here.kind \notin {"ata", "atapi"}
      /\ idedev' = [idedev EXCEPT ![probe.count].reserved = FALSE]
  BY DEF ProbeNothing, Probing, pciVars
<1>3. probe \in [device : Nat \ {0}, slot : (0 .. 3) \cup {NONE}, count : 0 .. 3] /\ idedev \in [0 .. 3 -> IdeDev]
  BY <1>1 DEF IdeTypes
<1>4. /\ probe.slot \in 0 .. 3 /\ probe.count \in 0 .. 3 /\ probe.count <= probe.slot /\ probe.device \in Controllers
  BY <1>1, <1>2, HereIs DEF ProbeInv
<1>5. /\ probe' \in [device : Nat \ {0}, slot : (0 .. 3) \cup {NONE}, count : 0 .. 3]
      /\ probe.slot < 3 => /\ probe'.slot = probe.slot + 1 /\ probe'.count = probe.count
                           /\ probe'.device = probe.device /\ probe'.slot # NONE
      /\ probe.slot = 3 => probe'.slot = NONE /\ probe'.count = 0
  BY <1>2, <1>3, <1>4, NextProbeIs
<1>6. idedev' \in [0 .. 3 -> IdeDev] /\ \A d \in 0 .. 3 : d # probe.count => idedev'[d] = idedev[d]
  <2> DEFINE r == [idedev[probe.count] EXCEPT !.reserved = FALSE]
  <2>1. idedev[probe.count] \in IdeDev  BY <1>3, <1>4
  <2>2. r \in IdeDev  BY <2>1 DEF IdeDev
  <2>3. idedev' = [idedev EXCEPT ![probe.count] = r]  BY <1>2
  <2> HIDE DEF r
  <2> QED  BY <1>3, <1>4, <2>2, <2>3
<1>7. IdeTypes'  BY <1>1, <1>2, <1>5, <1>6 DEF IdeTypes
<1>8. \A n \in DOMAIN nodes' : OwnedBy(n, nodes[n].owner)'  BY <1>2 DEF IdeInv, OwnedBy
<1>9. Controllers' = Controllers  BY <1>2 DEF Controllers
<1>10. ProbeInv'
  <2>1. CASE probe.slot < 3  BY <1>1, <1>2, <1>4, <1>5, <1>9, <2>1 DEF ProbeInv
  <2>2. CASE probe.slot = 3  BY <1>1, <1>2, <1>4, <1>5, <1>9, <2>2 DEF ProbeInv
  <2> QED  BY <1>4, <2>1, <2>2
<1>11. ASSUME NEW k, Controllers' = {k} PROVE FoundInv(k)'
  <2>1. FoundInv(k)  BY <1>9, <1>11 DEF IdeInv
  <2>2. /\ Sure(k)' = probe.slot + 1 /\ (probe'.slot # NONE => probe'.count = probe.count)
    <3>1. probe.count \in Nat /\ probe.count <= probe.slot + 1 /\ pc' \in {"ide", "hang"} /\ Controllers = {k}
      BY <1>2, <1>4, <1>9, <1>11
    <3> QED  BY <1>2, <3>1, NextIsSure
  <2>3. Sure(k) = probe.slot  BY <1>2, <1>4 DEF Sure, Asked
  <2>4. \A d : First(d)' = First(d) /\ Present(d)' = Present(d)  BY <1>2, PresentStays
  <2>5. Asked = 0 /\ Asked' = 0  BY <1>2 DEF Asked
  <2>6. \A n \in DOMAIN nodes' : nodes'[n].of[2] < Sure(k)'
    <3>1. ASSUME NEW n \in DOMAIN nodes PROVE nodes[n].of[2] < probe.slot + 1
      <4>1. nodes[n] \in FileNode  BY <1>1 DEF IdeTypes
      <4>2. nodes[n].of[2] \in {0, 1}  BY <4>1 DEF FileNode
      <4>3. nodes[n].of[2] < probe.slot  BY <2>1, <2>3 DEF FoundInv
      <4> QED  BY <1>4, <4>2, <4>3
    <3> QED  BY <1>2, <2>2, <3>1
  <2>7. ASSUME Present(0) PROVE Known(0)' /\ Enough(1)'
    <3>1. probe.slot # 0  BY <1>1, <1>2, <2>7, HereIs DEF Present
    <3>2. Sure(k) >= 1  BY <1>4, <2>3, <3>1
    <3>3. Known(0) /\ probe.count >= 1  BY <1>2, <1>4, <2>1, <2>5, <2>7, <3>2 DEF FoundInv, Enough
    <3>4. idedev'[0] = idedev[0]  BY <1>4, <1>6, <3>3
    <3>5. Known(0)'  BY <1>2, <3>3, <3>4, KnownStays
    <3> QED  BY <1>4, <2>2, <2>5, <3>3, <3>5 DEF Enough
  <2>8. ASSUME Sure(k)' >= 2, Present(0), Present(1) PROVE Known(1)' /\ Enough(2)'
    <3>1. probe.slot # 1  BY <1>1, <1>2, <2>8, HereIs DEF Present
    <3>2. Sure(k) >= 2  BY <1>4, <2>2, <2>3, <2>8, <3>1
    <3>3. Known(1) /\ probe.count >= 2  BY <1>2, <1>4, <2>1, <2>5, <2>8, <3>2 DEF FoundInv, Enough
    <3>4. idedev'[1] = idedev[1]  BY <1>4, <1>6, <3>3
    <3>5. Known(1)'  BY <1>2, <3>3, <3>4, KnownStays
    <3> QED  BY <1>4, <2>2, <2>5, <3>3, <3>5 DEF Enough
  <2> QED  BY <2>4, <2>6, <2>7, <2>8 DEF FoundInv
<1> QED  BY <1>7, <1>8, <1>10, <1>11 DEF IdeInv

\* An ATA or ATAPI drive is one the machine has.
LEMMA DrivesAre ==
  ASSUME machine \in Machines, NEW id, DriveOf(id).kind \in {"ata", "atapi"}
  PROVE  /\ DriveOf(id).size \in Nat /\ DriveOf(id).lba \in BOOLEAN
         /\ DriveOf(id).table # NONE => \A i \in 1 .. 4 : DriveOf(id).table[i].start \in Nat
BY AddressAssumption DEF DriveOf, NoDrive

LEMMA ProbeDriveKeeps ==
  ASSUME machine \in Machines, IdeInv, ProbeDrive
  PROVE  IdeInv'
<1>1. IdeTypes /\ ProbeInv  BY DEF IdeInv
<1>2. /\ machine' = machine /\ devices' = devices /\ channels' = channels /\ file' = file /\ result' = result
      /\ probe' = probe /\ pc = "ide" /\ pc' = "partitions" /\ probe.slot # NONE /\ Here.kind \in {"ata", "atapi"}
      /\ idedev' = [idedev EXCEPT ![probe.count] = Identified]
      /\ nodes' = Append(nodes, DriveNode(Len(nodes) + 1))
  BY DEF ProbeDrive, Probing, pciVars
<1>3. idedev \in [0 .. 3 -> IdeDev] /\ nodes \in Seq(FileNode)  BY <1>1 DEF IdeTypes
<1>4. /\ probe.slot \in 0 .. 3 /\ probe.count \in 0 .. 3 /\ probe.count <= probe.slot /\ probe.device \in Controllers
      /\ Slave \in 0 .. 1 /\ Slave <= probe.slot /\ Channel \in 0 .. 1
      /\ HereId = <<channels[Channel], Slave>> /\ HereId \in Nat \X {0, 1}
      /\ probe.slot = 0 => Channel = 0 /\ Slave = 0
      /\ probe.slot = 1 => Channel = 0 /\ Slave = 1
      /\ probe.slot < 2 => Here = First(probe.slot)
  BY <1>1, <1>2, HereIs DEF ProbeInv
<1>5. Here.size \in Nat /\ Here.lba \in BOOLEAN  BY <1>2, DrivesAre DEF Here
<1>6. Identified \in IdeDev  BY <1>2, <1>4, <1>5 DEF Identified, IdeDev
<1>7. /\ idedev' \in [0 .. 3 -> IdeDev] /\ idedev'[probe.count] = Identified
      /\ \A d \in 0 .. 3 : d # probe.count => idedev'[d] = idedev[d]
  BY <1>2, <1>3, <1>4, <1>6
<1> DEFINE m == Len(nodes) + 1  e == DriveNode(m)
<1>8. m \in Nat  BY <1>3
<1>9. /\ e \in FileNode /\ e.kind = "drive" /\ e.owner = m /\ e.start = 0 /\ e.of = HereId /\ e.priv = HereId[2]
  <2> HIDE DEF m
  <2>1. Slave \in {0, 1} /\ <<probe.count>> \in Seq(Nat)  BY <1>4
  <2> QED  BY <1>4, <1>8, <2>1 DEF DriveNode, FileNode
<1> HIDE DEF e
<1>10. /\ nodes' \in Seq(FileNode) /\ Len(nodes') = m /\ DOMAIN nodes' = DOMAIN nodes \cup {m} /\ nodes'[m] = e
       /\ \A n \in DOMAIN nodes : nodes'[n] = nodes[n] /\ n # m
  BY <1>2, <1>3, <1>9 DEF e
<1>11. IdeTypes'  BY <1>1, <1>2, <1>7, <1>10 DEF IdeTypes
<1>12. ASSUME NEW n \in DOMAIN nodes' PROVE OwnedBy(n, nodes[n].owner)'
  <2>1. CASE n = m  BY <1>9, <1>10, <2>1 DEF OwnedBy
  <2>2. CASE n # m
    <3>1. n \in DOMAIN nodes /\ nodes'[n] = nodes[n]  BY <1>10, <1>12, <2>2
    <3>2. OwnedBy(n, nodes[n].owner)  BY <3>1 DEF IdeInv
    <3>3. nodes[n].owner \in DOMAIN nodes  BY <3>2 DEF OwnedBy
    <3> QED  BY <1>10, <3>1, <3>2, <3>3 DEF OwnedBy
  <2> QED  BY <2>1, <2>2
<1>13. Controllers' = Controllers  BY <1>2 DEF Controllers
<1>14. HereId' = HereId  BY <1>2 DEF HereId, Channel, Slave
<1>15. ProbeInv'
  <2>1. nodes' # <<>> /\ nodes'[Len(nodes')].kind = "drive" /\ nodes'[Len(nodes')].of = HereId'
    BY <1>8, <1>9, <1>10, <1>14
  <2> QED  BY <1>1, <1>2, <1>4, <1>13, <2>1 DEF ProbeInv
<1>16. ASSUME NEW k, Controllers' = {k} PROVE FoundInv(k)'
  <2>1. FoundInv(k)  BY <1>13, <1>16 DEF IdeInv
  <2>2. Sure(k)' = probe.slot + 1 /\ Sure(k) = probe.slot /\ Asked = 0 /\ Asked' = 1
    BY <1>2, <1>4 DEF Sure, Asked
  <2>3. \A d : First(d)' = First(d) /\ Present(d)' = Present(d)  BY <1>2, PresentStays
  <2>4. \A n \in DOMAIN nodes' : nodes'[n].of[2] < Sure(k)'
    <3>1. ASSUME NEW n \in DOMAIN nodes PROVE nodes[n].of[2] < probe.slot + 1
      <4>1. nodes[n] \in FileNode  BY <1>3
      <4>2. nodes[n].of[2] \in {0, 1}  BY <4>1 DEF FileNode
      <4>3. nodes[n].of[2] < probe.slot  BY <2>1, <2>2 DEF FoundInv
      <4> QED  BY <1>4, <4>2, <4>3
    <3>2. e.of[2] < probe.slot + 1  BY <1>4, <1>9
    <3> QED  BY <1>10, <2>2, <3>1, <3>2
  <2>5. ASSUME NEW d \in {0, 1}, probe.slot = d, probe.count = d PROVE Known(d)'
    <3>1. Here = First(d) /\ Channel = 0 /\ Slave = d /\ idedev'[d] = Identified
      BY <1>4, <1>7, <2>5
    <3>2. First(d)' = First(d)  BY <2>3
    <3> QED  BY <3>1, <3>2 DEF Known, Identified
  <2>6. ASSUME Present(0) PROVE Known(0)' /\ Enough(1)'
    <3>1. CASE probe.slot = 0
      <4>1. probe.count = 0  BY <1>4, <3>1
      <4> QED  BY <1>2, <2>2, <2>5, <3>1, <4>1 DEF Enough
    <3>2. CASE probe.slot >= 1
      <4>1. Known(0) /\ probe.count >= 1  BY <1>2, <1>4, <2>1, <2>2, <2>6, <3>2 DEF FoundInv, Enough
      <4>2. idedev'[0] = idedev[0]  BY <1>4, <1>7, <4>1
      <4>3. Known(0)'  BY <1>2, <4>1, <4>2, KnownStays
      <4> QED  BY <1>2, <1>4, <2>2, <4>1, <4>3 DEF Enough
    <3> QED  BY <1>4, <3>1, <3>2
  <2>7. ASSUME Sure(k)' >= 2, Present(0), Present(1) PROVE Known(1)' /\ Enough(2)'
    <3>1. probe.slot >= 1  BY <1>4, <2>2, <2>7
    <3>2. probe.count >= 1  BY <1>2, <1>4, <2>1, <2>2, <2>7, <3>1 DEF FoundInv, Enough
    <3>3. CASE probe.slot = 1
      <4>1. probe.count = 1  BY <1>4, <3>2, <3>3
      <4> QED  BY <1>2, <2>2, <2>5, <3>3, <4>1 DEF Enough
    <3>4. CASE probe.slot >= 2
      <4>1. Known(1) /\ probe.count >= 2  BY <1>2, <1>4, <2>1, <2>2, <2>7, <3>4 DEF FoundInv, Enough
      <4>2. idedev'[1] = idedev[1]  BY <1>4, <1>7, <4>1
      <4>3. Known(1)'  BY <1>2, <4>1, <4>2, KnownStays
      <4> QED  BY <1>2, <1>4, <2>2, <4>1, <4>3 DEF Enough
    <3> QED  BY <1>4, <3>1, <3>3, <3>4
  <2> QED  BY <2>3, <2>4, <2>6, <2>7 DEF FoundInv
<1> QED  BY <1>11, <1>12, <1>15, <1>16 DEF IdeInv

-----------------------------------------------------------------------------
\* Moving in the file of a drive.
LEMMA Referenced ==
  ASSUME nodes \in Seq(FileNode), NEW o \in DOMAIN nodes, NEW x \in Nat,
         NEW a, a = [nodes EXCEPT ![o].reference = x]
  PROVE  /\ a \in Seq(FileNode) /\ Len(a) = Len(nodes) /\ DOMAIN a = DOMAIN nodes
         /\ \A n \in DOMAIN nodes : Alike(a, n)
<1> DEFINE r == [nodes[o] EXCEPT !.reference = x]
<1>1. nodes[o] \in FileNode  OBVIOUS
<1>2. /\ r \in FileNode /\ r.kind = nodes[o].kind /\ r.owner = nodes[o].owner /\ r.priv = nodes[o].priv
      /\ r.start = nodes[o].start /\ r.of = nodes[o].of
  BY <1>1 DEF FileNode
<1>3. a = [nodes EXCEPT ![o] = r]  OBVIOUS
<1> HIDE DEF r
<1> QED  BY <1>2, <1>3 DEF Alike

\* The partitions made of a table are files on the drive.
PartsOf(o) == {r \in FileNode : r.kind = "part" /\ r.owner = o /\ r.of = HereId}

LEMMA PartNodesAre ==
  ASSUME NEW o \in Nat, NEW table, table # NONE => \A i \in 1 .. 4 : table[i].start \in Nat,
         HereId \in Nat \X {0, 1}, probe.count \in Nat
  PROVE  PartNodes(o, table) \in Seq(PartsOf(o))
<1> DEFINE Made(i) == IF table[i].fat THEN <<PartNode(o, table[i], i)>> ELSE <<>>
<1>1. ASSUME table # NONE, NEW i \in 1 .. 4 PROVE Made(i) \in Seq(PartsOf(o))
  <2> DEFINE s == (table[i].start * SectorSize) % Word  q == PartNode(o, table[i], i)
  <2>1. s \in Nat
    <3>1. table[i].start \in Nat /\ Word \in Nat /\ Word > 0  BY <1>1, PciNumbers
    <3>2. table[i].start * SectorSize \in Nat  BY <3>1, IdeNumbers
    <3> QED  BY <3>1, <3>2
  <2>2. q = [name |-> <<probe.count, i - 1>>, kind |-> "part", owner |-> o, priv |-> 0,
             start |-> s, reference |-> 0, of |-> HereId]
    BY DEF PartNode
  <2> HIDE DEF s, q
  <2>3. <<probe.count, i - 1>> \in Seq(Nat)  BY <1>1
  <2>4. q \in PartsOf(o)  BY <2>1, <2>2, <2>3 DEF PartsOf, FileNode
  <2>5. <<q>> \in Seq(PartsOf(o)) /\ <<>> \in Seq(PartsOf(o))  BY <2>4
  <2> QED  BY <2>5 DEF q
<1>2. CASE table = NONE  BY <1>2 DEF PartNodes
<1>3. CASE table # NONE
  <2>1. PartNodes(o, table) = Made(1) \o Made(2) \o Made(3) \o Made(4)  BY <1>3 DEF PartNodes
  <2>2. Made(1) \in Seq(PartsOf(o)) /\ Made(2) \in Seq(PartsOf(o)) /\ Made(3) \in Seq(PartsOf(o))
        /\ Made(4) \in Seq(PartsOf(o))
    BY <1>1, <1>3
  <2> HIDE DEF Made
  <2> QED  BY <2>1, <2>2
<1> QED  BY <1>2, <1>3

LEMMA TablesAre ==
  ASSUME machine \in Machines, NEW bytes, NEW table \in TableRead(bytes)
  PROVE  table # NONE => \A i \in 1 .. 4 : table[i].start \in Nat
<1>1. CASE bytes[1] = NONE
  <2>1. ASSUME NEW id \in DOMAIN machine.drives, machine.drives[id].table # NONE
        PROVE  \A i \in 1 .. 4 : machine.drives[id].table[i].start \in Nat
    BY <2>1, AddressAssumption
  <2> QED  BY <1>1, <2>1 DEF TableRead
<1>2. CASE bytes[1] # NONE
  <2> DEFINE id == bytes[1][1]
  <2>1. table = DriveOf(id).table  BY <1>2 DEF TableRead
  <2> HIDE DEF id
  <2>2. CASE id \in DOMAIN machine.drives  BY <2>1, <2>2, AddressAssumption DEF DriveOf
  <2>3. CASE id \notin DOMAIN machine.drives  BY <2>1, <2>3 DEF DriveOf, NoDrive
  <2> QED  BY <2>2, <2>3
<1> QED  BY <1>1, <1>2

\* The files after a drive's, where they are.
LEMMA PartsJoin ==
  ASSUME NEW o \in Nat, nodes \in Seq(FileNode), Len(nodes) = o, NEW parts \in Seq(PartsOf(o)),
         NEW a \in Seq(FileNode), Len(a) = o, \A n \in DOMAIN nodes : Alike(a, n)
  PROVE  /\ a \o parts \in Seq(FileNode) /\ DOMAIN nodes \subseteq DOMAIN (a \o parts)
         /\ \A n \in DOMAIN nodes : Alike(a \o parts, n)
         /\ \A n \in DOMAIN (a \o parts) : n \notin DOMAIN nodes => (a \o parts)[n] \in PartsOf(o)
<1>1. parts \in Seq(FileNode) /\ Len(parts) \in Nat
  <2>1. PartsOf(o) \subseteq FileNode  BY DEF PartsOf
  <2> QED  BY <2>1, SeqMonotonic
<1> DEFINE l == Len(parts)  q == a \o parts
<1>2. /\ q \in Seq(FileNode) /\ Len(q) = o + l
      /\ \A i \in 1 .. o + l : q[i] = IF i <= o THEN a[i] ELSE parts[i - o]
  <2>1. /\ a \o parts \in Seq(FileNode) /\ Len(a \o parts) = Len(a) + Len(parts)
        /\ \A i \in 1 .. Len(a) + Len(parts) :
             (a \o parts)[i] = IF i <= Len(a) THEN a[i] ELSE parts[i - Len(a)]
    BY <1>1, ConcatProperties, Zenon
  <2> HIDE DEF l, q
  <2> QED  BY <2>1 DEF l, q
<1>3. DOMAIN nodes = 1 .. o /\ DOMAIN q = 1 .. o + l /\ l \in Nat /\ DOMAIN parts = 1 .. l  BY <1>1, <1>2
<1> HIDE DEF l, q
<1>4. \A n \in DOMAIN nodes : n \in DOMAIN q /\ q[n] = a[n]  BY <1>2, <1>3
<1>5. ASSUME NEW n \in DOMAIN q, n \notin DOMAIN nodes PROVE q[n] \in PartsOf(o)
  <2>1. n - o \in 1 .. l /\ q[n] = parts[n - o]  BY <1>2, <1>3, <1>5
  <2> QED  BY <1>3, <2>1
<1>6. \A n \in DOMAIN nodes : Alike(q, n)  BY <1>4 DEF Alike
<1>7. q \in Seq(FileNode) /\ DOMAIN nodes \subseteq DOMAIN q  BY <1>2, <1>4
<1> QED  BY <1>5, <1>6, <1>7 DEF q

LEMMA SearchForPartitionsKeeps ==
  ASSUME machine \in Machines, IdeInv, SearchForPartitions
  PROVE  IdeInv'
<1>1. IdeTypes /\ ProbeInv  BY DEF IdeInv
<1> DEFINE o == Len(nodes)
<1>2. /\ machine' = machine /\ devices' = devices /\ channels' = channels /\ idedev' = idedev
      /\ file' = file /\ result' = result /\ pc = "partitions" /\ pc' \in {"ide", "hang"}
      /\ probe' = NextProbe(probe.count + 1)
  BY DEF SearchForPartitions, pciVars
<1>3. /\ nodes' = nodes \/ \E table \in TableRead(FileBytes(o, 0, SectorSize)) :
            nodes' = [nodes EXCEPT ![o].reference = SectorSize] \o PartNodes(o, table)
  BY DEF SearchForPartitions
<1>4. /\ nodes \in Seq(FileNode) /\ nodes # <<>> /\ nodes[o].kind = "drive" /\ nodes[o].of = HereId
      /\ probe \in [device : Nat \ {0}, slot : (0 .. 3) \cup {NONE}, count : 0 .. 3] /\ probe.slot # NONE
      /\ result = NONE /\ o \in DOMAIN nodes /\ o \in Nat
  BY <1>1, <1>2 DEF IdeTypes, ProbeInv
<1>5. /\ probe.slot \in 0 .. 3 /\ probe.count \in 0 .. 3 /\ probe.count <= probe.slot /\ probe.device \in Controllers
      /\ Slave \in 0 .. 1 /\ Slave <= probe.slot /\ HereId = <<channels[Channel], Slave>> /\ HereId \in Nat \X {0, 1}
  BY <1>1, <1>4, HereIs DEF ProbeInv
<1>6. probe.count + 1 \in Nat /\ probe.count + 1 <= probe.slot + 1  BY <1>5
<1>7. /\ probe' \in [device : Nat \ {0}, slot : (0 .. 3) \cup {NONE}, count : 0 .. 3]
      /\ probe.slot < 3 => /\ probe'.slot = probe.slot + 1 /\ probe'.count = probe.count + 1
                           /\ probe'.device = probe.device /\ probe'.slot # NONE
      /\ probe.slot = 3 => probe'.slot = NONE /\ probe'.count = 0
  BY <1>2, <1>4, <1>6, NextProbeIs
<1>8. /\ nodes' \in Seq(FileNode) /\ DOMAIN nodes \subseteq DOMAIN nodes'
      /\ \A n \in DOMAIN nodes : Alike(nodes', n)
      /\ \A n \in DOMAIN nodes' : n \notin DOMAIN nodes => nodes'[n] \in PartsOf(o)
  <2>1. CASE nodes' = nodes  BY <1>4, <2>1 DEF Alike
  <2>2. CASE nodes' # nodes
    <3>1. PICK table \in TableRead(FileBytes(o, 0, SectorSize)) :
            nodes' = [nodes EXCEPT ![o].reference = SectorSize] \o PartNodes(o, table)
      BY <1>3, <2>2
    <3>2. table # NONE => \A i \in 1 .. 4 : table[i].start \in Nat  BY TablesAre
    <3>3. PartNodes(o, table) \in Seq(PartsOf(o))  BY <1>4, <1>5, <3>2, PartNodesAre
    <3> DEFINE a == [nodes EXCEPT ![o].reference = SectorSize]  parts == PartNodes(o, table)
    <3>4. a \in Seq(FileNode) /\ Len(a) = o /\ \A n \in DOMAIN nodes : Alike(a, n)
      BY <1>4, IdeNumbers, Referenced
    <3>5. nodes' = a \o parts /\ parts \in Seq(PartsOf(o)) /\ o \in Nat /\ Len(nodes) = o  BY <1>4, <3>1, <3>3
    <3> HIDE DEF a, parts, o
    <3> QED  BY <1>4, <3>4, <3>5, PartsJoin
  <2> QED  BY <2>1, <2>2
<1> HIDE DEF o
<1>9. IdeTypes'
  <2>1. file # NONE => file \in [node : DOMAIN nodes', offset : Nat]  BY <1>1, <1>8 DEF IdeTypes
  <2> QED  BY <1>1, <1>2, <1>7, <1>8, <2>1 DEF IdeTypes
<1>10. ASSUME NEW n \in DOMAIN nodes' PROVE OwnedBy(n, nodes[n].owner)'
  <2>1. CASE n \in DOMAIN nodes
    <3>1. OwnedBy(n, nodes[n].owner)  BY <2>1 DEF IdeInv
    <3>2. nodes[n].owner \in DOMAIN nodes  BY <3>1 DEF OwnedBy, Alike
    <3> QED  BY <1>8, <2>1, <3>1, <3>2 DEF OwnedBy, Alike
  <2>2. CASE n \notin DOMAIN nodes
    <3>1. nodes'[n].kind = "part" /\ nodes'[n].owner = o /\ nodes'[n].of = HereId
      BY <1>8, <1>10, <2>2 DEF PartsOf
    <3> QED  BY <1>4, <1>8, <3>1 DEF OwnedBy, Alike
  <2> QED  BY <2>1, <2>2
<1>11. Controllers' = Controllers  BY <1>2 DEF Controllers
<1>12. ProbeInv'
  <2>1. CASE probe.slot < 3  BY <1>2, <1>4, <1>5, <1>7, <1>11, <2>1 DEF ProbeInv
  <2>2. CASE probe.slot = 3  BY <1>2, <1>4, <1>5, <1>7, <1>11, <2>2 DEF ProbeInv
  <2> QED  BY <1>5, <2>1, <2>2
<1>13. ASSUME NEW k, Controllers' = {k} PROVE FoundInv(k)'
  <2>1. FoundInv(k)  BY <1>11, <1>13 DEF IdeInv
  <2>2. Sure(k)' = probe.slot + 1 /\ (probe'.slot # NONE => probe'.count = probe.count + 1)
    BY <1>2, <1>4, <1>6, <1>11, <1>13, NextIsSure
  <2>3. Sure(k) = probe.slot + 1  BY <1>2, <1>4 DEF Sure, Asked
  <2>4. \A d \in {0, 1} : First(d)' = First(d) /\ Present(d)' = Present(d) /\ Known(d)' = Known(d)
    BY <1>2, KnownStays
  <2>5. Asked = 1 /\ Asked' = 0  BY <1>2 DEF Asked
  <2>6. \A n \in DOMAIN nodes' : nodes'[n].of[2] < Sure(k)'
    <3>1. ASSUME NEW n \in DOMAIN nodes' PROVE nodes'[n].of[2] < probe.slot + 1
      <4>1. CASE n \in DOMAIN nodes  BY <1>8, <2>1, <2>3, <4>1 DEF FoundInv, Alike
      <4>2. CASE n \notin DOMAIN nodes
        <5>1. nodes'[n].of = HereId  BY <1>8, <3>1, <4>2 DEF PartsOf
        <5>2. nodes'[n].of[2] = Slave  BY <1>5, <5>1
        <5> QED  BY <1>5, <5>2
      <4> QED  BY <4>1, <4>2
    <3> QED  BY <2>2, <3>1
  <2>7. \A m \in 1 .. 2 : Enough(m) => Enough(m)'  BY <1>4, <1>5, <2>2, <2>5 DEF Enough
  <2>8. Sure(k)' = Sure(k)  BY <2>2, <2>3
  <2> QED  BY <2>1, <2>4, <2>6, <2>7, <2>8 DEF FoundInv
<1> QED  BY <1>9, <1>10, <1>12, <1>13 DEF IdeInv

-----------------------------------------------------------------------------
\* Reading a file moves in the file of its drive.
LEMMA FromIsANumber ==
  ASSUME IdeInv, NEW n \in DOMAIN nodes, NEW pos \in Nat
  PROVE  /\ From(n, pos) \in Nat /\ nodes \in Seq(FileNode) /\ nodes[n] \in FileNode
         /\ nodes[n].owner \in DOMAIN nodes /\ OwnedBy(n, nodes[n].owner)
<1>1. nodes \in Seq(FileNode) /\ nodes[n] \in FileNode  BY DEF IdeInv, IdeTypes
<1>2. OwnedBy(n, nodes[n].owner)  BY DEF IdeInv
<1> DEFINE o == nodes[n].owner
<1>3. o \in DOMAIN nodes /\ nodes[o] \in FileNode  BY <1>1, <1>2 DEF OwnedBy
<1>4. nodes[n].start \in Nat  BY <1>1 DEF FileNode
<1>5. nodes[o].reference \in Nat  BY <1>3 DEF FileNode
<1>6. (nodes[n].start + pos) % Word \in Nat  BY <1>4, PciNumbers
<1>7. From(n, pos) \in Nat  BY <1>5, <1>6 DEF From, Sought
<1> QED  BY <1>1, <1>2, <1>3, <1>7

LEMMA MovedAre ==
  ASSUME IdeInv, NEW n \in DOMAIN nodes, NEW pos \in Nat, NEW count \in Nat, nodes' = Moved(n, pos, count)
  PROVE  SameFiles
<1> DEFINE x == (From(n, pos) + count) % Word  o == nodes[n].owner
<1>0. From(n, pos) \in Nat /\ nodes \in Seq(FileNode) /\ o \in DOMAIN nodes  BY FromIsANumber
<1>1. x \in Nat /\ nodes \in Seq(FileNode) /\ o \in DOMAIN nodes  BY <1>0, PciNumbers
<1>2. CASE nodes[n].kind = "drive"
  <2>1. nodes' = nodes  BY <1>2 DEF Moved
  <2> QED  BY <2>1, FilesUnchanged
<1>3. CASE nodes[n].kind # "drive"
  <2>1. nodes' = [nodes EXCEPT ![o].reference = x]  BY <1>3 DEF Moved
  <2> HIDE DEF o, x
  <2> QED  BY <1>1, <2>1, Referenced DEF SameFiles
<1> QED  BY <1>2, <1>3

\* The file the file system is mounted from is a file.
LEMMA RootIsAFile ==
  ASSUME nodes \in Seq(FileNode), Named(<<0, 0>>) # {}
  PROVE  RootFile \in DOMAIN nodes
<1> DEFINE S == Named(<<0, 0>>)
<1>1. S \in SUBSET Nat /\ S # {} /\ S \subseteq DOMAIN nodes  BY DEF Named
<1> HIDE DEF S
<1>2. \E n \in S : \A k \in S : n <= k
  <2>1. IsWellFoundedOn(OpToRel(<, Nat), Nat)  BY NatLessThanWellFounded
  <2>2. PICK n \in S : \A k \in S : ~ (<<k, n>> \in OpToRel(<, Nat))  BY <1>1, <2>1, WFMin
  <2>3. \A k \in S : ~ (k < n)  BY <1>1, <2>2 DEF OpToRel
  <2> QED  BY <1>1, <2>3
<1>3. (CHOOSE n \in S : \A k \in S : n <= k) \in S  BY <1>2
<1> QED  BY <1>1, <1>3 DEF RootFile, S

\* Nothing changes when nothing does.
LEMMA IdeStutters ==
  ASSUME IdeInv, UNCHANGED vars
  PROVE  IdeInv'
<1>1. /\ machine' = machine /\ pc' = pc /\ devices' = devices /\ channels' = channels /\ idedev' = idedev
      /\ probe' = probe /\ nodes' = nodes /\ file' = file /\ result' = result
  BY DEF vars, pciVars, ideVars
<1>2. IdeTypes'  BY <1>1 DEF IdeInv, IdeTypes
<1>3. \A n \in DOMAIN nodes' : OwnedBy(n, nodes[n].owner)'  BY <1>1 DEF IdeInv, OwnedBy
<1>4. Controllers' = Controllers  BY <1>1 DEF Controllers
<1>5. ProbeInv'
  <2>1. HereId' = HereId  BY <1>1 DEF HereId, Channel, Slave
  <2>2. ProbeInv  BY DEF IdeInv
  <2> QED  BY <1>1, <1>4, <2>1, <2>2 DEF ProbeInv
<1>6. ASSUME NEW k, Controllers' = {k} PROVE FoundInv(k)'
  <2>1. FoundInv(k)  BY <1>4, <1>6 DEF IdeInv
  <2>2. Asked' = Asked  BY <1>1 DEF Asked
  <2>3. Sure(k)' = Sure(k)  BY <1>1, <2>2 DEF Sure
  <2>4. \A d \in {0, 1} : First(d)' = First(d) /\ Present(d)' = Present(d) /\ Known(d)' = Known(d)
    BY <1>1, KnownStays
  <2>5. \A m : Enough(m)' = Enough(m)  BY <1>1, <2>2 DEF Enough
  <2> QED  BY <1>1, <2>1, <2>3, <2>4, <2>5 DEF FoundInv
<1> QED  BY <1>2, <1>3, <1>5, <1>6 DEF IdeInv

LEMMA ReadKeeps ==
  ASSUME IdeInv, Read
  PROVE  IdeInv'
<1>1. /\ pc = "run" /\ UNCHANGED <<machine, devices, channels, idedev, probe>>
      /\ file \in [node : DOMAIN nodes, offset : Nat]
  BY DEF Read, pciVars, IdeInv, IdeTypes
<1>2. PICK count \in Counts :
        IF FileHangs(file.node, file.offset, count)
        THEN pc' = "hang" /\ UNCHANGED <<nodes, file, result>>
        ELSE /\ nodes' = Moved(file.node, file.offset, count)
             /\ file' = [file EXCEPT !.offset = (file.offset + count) % Word]
             /\ UNCHANGED pc
  BY DEF Read
<1>3. CASE FileHangs(file.node, file.offset, count)
  <2>1. nodes' = nodes /\ file' = file /\ pc' = "hang"  BY <1>2, <1>3
  <2> QED  BY <1>1, <2>1, FilesUnchanged, IdeQuiet
<1>4. CASE ~FileHangs(file.node, file.offset, count)
  <2>1. /\ nodes' = Moved(file.node, file.offset, count) /\ pc' = pc
        /\ file' = [file EXCEPT !.offset = (file.offset + count) % Word]
    BY <1>2, <1>4
  <2>2. file.node \in DOMAIN nodes /\ file.offset \in Nat /\ count \in Nat  BY <1>1, IdeAssumption
  <2>3. (file.offset + count) % Word \in Nat  BY <2>2, PciNumbers
  <2>4. file' \in [node : DOMAIN nodes, offset : Nat]  BY <1>1, <2>1, <2>3
  <2>5. SameFiles  BY <2>1, <2>2, MovedAre
  <2> QED  BY <1>1, <2>1, <2>4, <2>5, IdeQuiet
<1> QED  BY <1>3, <1>4

LEMMA IdeKept ==
  ASSUME PciInv, PciInv', IdeInv, [Next]_vars
  PROVE  IdeInv'
<1>1. machine \in Machines /\ IdeTypes /\ ProbeInv  BY DEF PciInv, IdeInv
<1>2. CASE PciNext /\ UNCHANGED ideVars  BY <1>2, RegisteringKeeps
<1>3. CASE IdeNext
  <2>1. CASE PassDevice  BY <2>1, PassDeviceKeeps
  <2>2. CASE IDEFind  BY <2>2, IDEFindKeeps
  <2>3. CASE Found \/ NoAnswer
    <3>1. /\ UNCHANGED <<machine, devices, channels, idedev, probe>> /\ nodes' = nodes /\ file' = file
          /\ result' = result /\ pc = "ide" /\ pc' \in {"mount", "hang"}
      BY <2>3 DEF Found, NoAnswer, Passing, Probing, pciVars, ideVars
    <3>2. result = NONE  BY <1>1, <3>1 DEF ProbeInv
    <3>3. file' # NONE => file' \in [node : DOMAIN nodes, offset : Nat]  BY <1>1, <3>1 DEF IdeTypes
    <3> QED  BY <3>1, <3>2, <3>3, FilesUnchanged, IdeQuiet
  <2>4. CASE ProbeNothing  BY <2>4, ProbeNothingKeeps
  <2>5. CASE ProbeDrive  BY <1>1, <2>5, ProbeDriveKeeps
  <2>6. CASE SearchForPartitions  BY <1>1, <2>6, SearchForPartitionsKeeps
  <2> QED  BY <1>3, <2>1, <2>2, <2>3, <2>4, <2>5, <2>6 DEF IdeNext
<1>4. CASE NoRoot \/ Mount \/ Exec \/ Load \/ Enter
  <2>1. /\ UNCHANGED <<machine, devices, channels, idedev, probe>> /\ file' = file /\ result' = result
        /\ pc \in {"mount", "exec"} /\ pc' \in {"mount", "exec", "panic", "hang", "run", "wild"}
    <3>1. \A volume : Mounted(volume) \subseteq {"exec", "hang", "panic"}  BY DEF Mounted
    <3> QED  BY <1>4, <3>1 DEF NoRoot, Mount, Exec, Load, Enter, startVars, pciVars
  <2>2. result = NONE  BY <1>1, <2>1 DEF ProbeInv
  <2>3. file' # NONE => file' \in [node : DOMAIN nodes, offset : Nat]  BY <1>1, <2>1 DEF IdeTypes
  <2>4. SameFiles
    <3>1. CASE nodes' = nodes  BY <3>1, FilesUnchanged
    <3>2. CASE nodes' # nodes
      <4>1. Named(<<0, 0>>) # {} /\ nodes' = Moved(RootFile, 0, SectorSize)
        BY <1>4, <3>2 DEF NoRoot, Mount, Exec, Load, Enter
      <4>2. RootFile \in DOMAIN nodes  BY <1>1, <4>1, RootIsAFile DEF IdeTypes
      <4> QED  BY <4>1, <4>2, IdeNumbers, MovedAre
    <3> QED  BY <3>1, <3>2
  <2> QED  BY <2>1, <2>2, <2>3, <2>4, IdeQuiet
<1>5. CASE Open \/ Lseek
  <2>1. /\ UNCHANGED <<machine, devices, channels, idedev, probe>> /\ nodes' = nodes /\ result' = NONE
        /\ pc = "run" /\ pc' = "run"
    BY <1>5 DEF Open, Lseek, pciVars
  <2>2. file' \in [node : DOMAIN nodes, offset : Nat]
    <3>1. CASE Open  BY <3>1 DEF Open
    <3>2. CASE Lseek
      <4>1. PICK pos \in Seeks : file' = [file EXCEPT !.offset = pos]  BY <3>2 DEF Lseek
      <4>2. file \in [node : DOMAIN nodes, offset : Nat]  BY <1>1, <3>2 DEF Lseek, IdeTypes
      <4>3. pos \in Nat  BY IdeAssumption, PciNumbers
      <4> QED  BY <4>1, <4>2, <4>3
    <3> QED  BY <1>5, <3>1, <3>2
  <2> QED  BY <2>1, <2>2, FilesUnchanged, IdeQuiet
<1>6. CASE Read  BY <1>6, ReadKeeps
<1>7. CASE UNCHANGED vars  BY <1>7, IdeStutters
<1> QED  BY <1>2, <1>3, <1>4, <1>5, <1>6, <1>7 DEF Next, StartUp, Program

-----------------------------------------------------------------------------
\* What is read when the file of a disk is read for which it is promised.
Promised(n, from, count) ==
  LET disk == DriveOf(nodes[n].of)
      sectors == from \div SectorSize .. (from + count - 1) \div SectorSize IN
  /\ NumberedRight(n) /\ disk.kind = "ata"
  /\ from + count <= Word \div 2 /\ count \div SectorSize < Byte
  /\ sectors \subseteq 0 .. disk.size - 1 /\ sectors \cap disk.bad = {}

LEMMA FileReadIsOfTheDisk ==
  ASSUME PciInv, IdeInv, NEW n \in DOMAIN nodes, NEW pos \in Nat, NEW count \in Nat, count > 0,
         Promised(n, nodes[n].start + pos, count)
  PROVE  FileBytes(n, pos, count) = [i \in 1 .. count |-> <<nodes[n].of, nodes[n].start + pos + i - 1>>]
<1> DEFINE from == nodes[n].start + pos  d == nodes[n].of[2]  o == nodes[n].owner
           sectors == from \div SectorSize .. (from + count - 1) \div SectorSize
<1>1. /\ machine \in Machines /\ nodes \in Seq(FileNode) /\ nodes[n] \in FileNode /\ OwnedBy(n, nodes[n].owner)
      /\ devices \in Seq({DeviceInfo(l) : l \in DOMAIN machine.functions})
  BY DEF PciInv, IdeInv, IdeTypes
<1>2. /\ NumberedRight(n) /\ DriveOf(nodes[n].of).kind = "ata"
      /\ from + count <= Word \div 2 /\ count \div SectorSize < Byte
      /\ sectors \subseteq 0 .. DriveOf(nodes[n].of).size - 1 /\ sectors \cap DriveOf(nodes[n].of).bad = {}
  BY DEF Promised
<1>3. nodes[n].of = <<channels[0], d>> /\ d \in {0, 1} /\ nodes[n].start \in Nat
  <2>1. nodes[n].of \in Nat \X {0, 1} /\ nodes[n].start \in Nat  BY <1>1 DEF FileNode
  <2> QED  BY <1>2, <2>1 DEF NumberedRight
<1>4. Device(n) = d
  <2>1. o \in DOMAIN nodes /\ nodes[o].kind = "drive" /\ nodes[o].of = nodes[n].of  BY <1>1 DEF OwnedBy
  <2>2. OwnedBy(o, nodes[o].owner)  BY <2>1 DEF IdeInv
  <2> QED  BY <2>1, <2>2 DEF OwnedBy, Device
<1>5. from \in Nat /\ from < Word \div 2 /\ Word \in Nat /\ Word > 0  BY <1>2, <1>3, PciNumbers
<1>6. From(n, pos) = from
  <2>1. CASE nodes[n].kind = "drive"
    <3>1. nodes[n].start = 0  BY <1>1, <2>1 DEF OwnedBy
    <3> QED  BY <2>1, <3>1 DEF From
  <2>2. CASE nodes[n].kind # "drive"
    <3>1. from % Word = from  BY <1>5
    <3> QED  BY <1>5, <2>2, <3>1 DEF From, Sought
  <2> QED  BY <2>1, <2>2
<1>7. PICK k : Controllers = {k}
  <2>1. DOMAIN devices = 1 .. Len(devices) /\ Len(devices) \in Nat  BY <1>1
  <2>2. Controllers \subseteq 1 .. Len(devices)  BY <2>1 DEF Controllers
  <2>3. IsFiniteSet(1 .. Len(devices))  BY <2>1, FS_Interval
  <2>4. IsFiniteSet(Controllers)  BY <2>2, <2>3, FS_Subset
  <2>5. Cardinality(Controllers) = 1  BY <1>2 DEF NumberedRight
  <2> QED  BY <2>4, <2>5, FS_Singleton
<1>8. FoundInv(k) /\ d < Sure(k)  BY <1>7 DEF IdeInv, FoundInv
<1>9. Known(d)
  <2>1. Sure(k) \in Nat  BY DEF IdeInv, IdeTypes, Sure, Asked
  <2>2. CASE d = 0
    <3>1. Present(0)  BY <1>2, <1>3, <2>2 DEF Present, First
    <3>2. Sure(k) >= 1  BY <1>8, <2>1, <2>2
    <3> QED  BY <1>8, <2>2, <3>1, <3>2 DEF FoundInv
  <2>3. CASE d = 1
    <3>1. Present(0) /\ Present(1)  BY <1>2, <1>3, <2>3 DEF Present, First, NumberedRight
    <3>2. Sure(k) >= 2  BY <1>8, <2>1, <2>3
    <3> QED  BY <1>8, <2>3, <3>1, <3>2 DEF FoundInv
  <2> QED  BY <1>3, <2>2, <2>3
<1>10. First(d) = DriveOf(nodes[n].of)  BY <1>3 DEF First
<1>11. Id(d) = nodes[n].of /\ Disk(d) = DriveOf(nodes[n].of)  BY <1>3, <1>9 DEF Known, Id, Disk
<1>12. DriveOf(nodes[n].of).size \in Nat /\ DriveOf(nodes[n].of).lba \in BOOLEAN  BY <1>1, <1>2, DrivesAre
<1>13. Ready(d)  BY <1>2, <1>9, <1>10, <1>11, <1>12 DEF Ready, Known
<1>14. BytesRead(d, from, count) = [i \in 1 .. count |-> <<Id(d), from + i - 1>>]
  <2> HIDE DEF from, d
  <2>1. sectors \subseteq 0 .. Disk(d).size - 1 /\ sectors \cap Disk(d).bad = {}  BY <1>2, <1>11
  <2> QED  BY <1>2, <1>5, <1>13, <2>1, ReadIsOfTheDisk
<1>15. FileBytes(n, pos, count) = BytesRead(d, from, count)  BY <1>4, <1>6 DEF FileBytes
<1> HIDE DEF d
<1> QED  BY <1>11, <1>14, <1>15

LEMMA ReadTrue ==
  ASSUME PciInv, IdeInv, Read, pc' # "hang"
  PROVE  ReadsTheDisk'
<1>0. PICK n, pos : n = file.node /\ pos = file.offset  OBVIOUS
<1>1. /\ UNCHANGED <<machine, devices, channels, idedev, probe>> /\ file \in [node : DOMAIN nodes, offset : Nat]
  BY DEF Read, pciVars, IdeInv, IdeTypes
<1>2. PICK count \in Counts :
        /\ nodes' = Moved(n, pos, count)
        /\ result' = [node |-> n, pos |-> pos, data |-> FileBytes(n, pos, count)]
  BY <1>0 DEF Read
<1>3. n \in DOMAIN nodes /\ pos \in Nat /\ count \in Nat /\ count > 0  BY <1>0, <1>1, IdeAssumption
<1>4. SameFiles  BY <1>2, <1>3, MovedAre
<1>5. nodes'[n].of = nodes[n].of /\ nodes'[n].start = nodes[n].start  BY <1>3, <1>4 DEF SameFiles, Alike
<1> DEFINE data == FileBytes(n, pos, count)  from == nodes[n].start + pos
<1>6. Len(data) = count
  <2>1. From(n, pos) \in Nat  BY <1>3, FromIsANumber
  <2>2. ReadAs(data, Device(n), Pieces(From(n, pos), count), count)  BY <1>3, <2>1, ReadsCount DEF FileBytes
  <2> HIDE DEF data
  <2> QED  BY <2>2 DEF ReadAs
<1>7. result'.node = n /\ result'.pos = pos /\ result'.data = data  BY <1>2
<1>8. \A id : DriveOf(id)' = DriveOf(id)  BY <1>1 DEF DriveOf
<1>9. Controllers' = Controllers  BY <1>1 DEF Controllers
<1>10. NumberedRight(n)' <=> NumberedRight(n)  BY <1>1, <1>5, <1>8, <1>9 DEF NumberedRight
<1>11. Promised(n, from, count) => data = [i \in 1 .. count |-> <<nodes[n].of, from + i - 1>>]
  BY <1>3, FileReadIsOfTheDisk
<1> HIDE DEF data
<1>12. from = nodes'[n].start + result'.pos /\ Len(result'.data) = count  BY <1>5, <1>6, <1>7
<1> HIDE DEF from
<1> QED  BY <1>5, <1>6, <1>7, <1>8, <1>10, <1>11, <1>12 DEF ReadsTheDisk, Promised

\* A read that ended stays what it was.
LEMMA ReadStays ==
  ASSUME UNCHANGED <<machine, devices, channels, nodes, result>>, ReadsTheDisk
  PROVE  ReadsTheDisk'
<1>1. \A id : DriveOf(id)' = DriveOf(id)  BY DEF DriveOf
<1>2. Controllers' = Controllers  BY DEF Controllers
<1>3. \A n : NumberedRight(n)' = NumberedRight(n)  BY <1>1, <1>2 DEF NumberedRight
<1> QED  BY <1>1, <1>3 DEF ReadsTheDisk

DiskInv == PciInv /\ IdeInv /\ ReadsTheDisk

LEMMA DiskKept ==
  ASSUME DiskInv, [Next]_vars
  PROVE  DiskInv'
<1>1. PciInv /\ IdeInv /\ ReadsTheDisk /\ PciInv' /\ IdeInv' /\ ProbeInv  BY PciKept, IdeKept DEF DiskInv, IdeInv
<1> SUFFICES ReadsTheDisk'  BY <1>1 DEF DiskInv
<1>2. CASE Read
  <2>1. CASE pc' # "hang"  BY <1>1, <1>2, <2>1, ReadTrue
  <2>2. CASE pc' = "hang"
    <3>1. UNCHANGED <<machine, devices, channels, nodes, result>>  BY <1>2, <2>2 DEF Read, pciVars
    <3> QED  BY <1>1, <3>1, ReadStays
  <2> QED  BY <2>1, <2>2
<1>3. CASE Open \/ Lseek
  BY <1>3 DEF Open, Lseek, ReadsTheDisk
<1>4. CASE StartUp
  <2>1. pc \notin {"run", "hang"} /\ result' = result
    BY <1>4 DEF StartUp, PciNext, SkipFunction, Register, Enumerated, Enumerating, IdeNext, PassDevice, IDEFind,
                Found, NoAnswer, ProbeNothing, ProbeDrive, SearchForPartitions, Passing, Probing,
                NoRoot, Mount, Exec, Load, Enter, startVars, ideVars
  <2>2. result' = NONE  BY <1>1, <2>1 DEF ProbeInv
  <2> QED  BY <2>2 DEF ReadsTheDisk
<1>5. CASE UNCHANGED vars
  <2>1. UNCHANGED <<machine, devices, channels, nodes, result>>  BY <1>5 DEF vars, pciVars, ideVars
  <2> QED  BY <1>1, <2>1, ReadStays
<1>6. ReadsTheDisk'  BY <1>2, <1>3, <1>4, <1>5 DEF Next, Program
<1> QED  BY <1>6

\* Reading the file of a disk or of a partition returns the bytes of that disk
\* from where the file begins, for every sector and byte count it is promised
\* for: IDEInitialise, search_for_partitions, ide_read and IDEAccess.
THEOREM FilesReadTheDisk == Spec => []ReadsTheDisk
<1>1. Init => DiskInv
  <2>1. Init => result = NONE  BY DEF Init, IdeInit
  <2> QED  BY <2>1, PciStarts, IdeStarts DEF Init, DiskInv, ReadsTheDisk
<1>2. DiskInv /\ [Next]_vars => DiskInv'  BY DiskKept
<1>3. DiskInv => ReadsTheDisk  BY DEF DiskInv
<1> QED  BY <1>1, <1>2, <1>3, PTL DEF Spec
=============================================================================
