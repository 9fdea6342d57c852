-------------------------------- MODULE Elf --------------------------------
(***************************************************************************)
(* Loading the program of a file into the address space it will run in:     *)
(* each segment's pages are mapped, filled from the file page by page, and  *)
(* the rest of the segment is cleared.                                      *)
(*                                                                          *)
(* A byte of the file is named by its position.  A page is fresh and zero   *)
(* when it is mapped: mapping it again loses what it held.                  *)
(***************************************************************************)
EXTENDS Integers, Sequences, FiniteSets

CONSTANTS
  PAGE_SIZE,   \* bytes of a page
  Images,      \* the files that may be the program's
  HeaderSize,  \* bytes of a header
  ABSENT

\* A file: whether its header is that of a program for this machine, its
\* length, and its program headers (ABSENT: not all of it in the file).
ProgramHeader ==
  {ph \in [type : {"load", "note"}, vaddr : Nat, offset : Nat, filesz : Nat, memsz : Nat] :
     ph.filesz <= ph.memsz}
ASSUME ElfAssumption ==
  /\ PAGE_SIZE \in Nat \ {0} /\ HeaderSize \in Nat
  /\ \A m \in Images : m.length \in Nat /\ m.headers \in Seq(ProgramHeader \cup {ABSENT})

VARIABLES
  image,     \* the file
  memory,    \* [address of a mapped page -> [offset -> byte]]
  load,      \* the step of elf_load, the header it is at, and what is left
  position   \* the file's position

elfVars == <<image, memory, load, position>>
-----------------------------------------------------------------------------
Down(x) == (x \div PAGE_SIZE) * PAGE_SIZE
Up(x) == Down(x + PAGE_SIZE - 1)
PageSet(from, to) == {a \in from .. to - 1 : a % PAGE_SIZE = 0}
PagesOfSegment(ph) == PageSet(Down(ph.vaddr), Up(ph.vaddr + ph.memsz))

Zero == <<>>
Blank == [o \in 0 .. PAGE_SIZE - 1 |-> Zero]
Over(f, g) == [x \in DOMAIN f \cup DOMAIN g |-> IF x \in DOMAIN g THEN g[x] ELSE f[x]]
Store(bytes) ==
  [p \in DOMAIN memory |-> [o \in 0 .. PAGE_SIZE - 1 |-> IF p + o \in DOMAIN bytes THEN bytes[p + o] ELSE memory[p][o]]]

At(step, i, virt, left) == [step |-> step, header |-> i, virt |-> virt, left |-> left]
Idle == At("idle", 0, 0, 0)
Header == image.headers[load.header]
HeaderEnd(i) == HeaderSize * (i + 1)

ElfInit ==
  /\ image = ABSENT
  /\ memory = [p \in {} |-> Blank]
  /\ load = Idle
  /\ position = 0

\* elf_load: the file must begin with a whole header of the right kind.
Verify ==
  /\ load.step = "verify"
  /\ load' = IF image.valid THEN At("header", 1, 0, 0) ELSE At("failed", 0, 0, 0)
  /\ position' = HeaderSize
  /\ UNCHANGED <<image, memory>>

ReadHeader ==
  /\ load.step = "header"
  /\ load' = IF load.header > Len(image.headers) THEN At("loaded", 0, 0, 0)
             ELSE IF Header = ABSENT THEN At("failed", 0, 0, 0)
             ELSE IF Header.type = "load" THEN [load EXCEPT !.step = "map"]
             ELSE [load EXCEPT !.header = @ + 1]
  /\ position' = IF load.header > Len(image.headers) THEN position ELSE HeaderEnd(load.header)
  /\ UNCHANGED <<image, memory>>

\* elf_load_segment.
NoSeek(ph) == position   \* mutant: reads on from the header
SeekTo(ph) == ph.offset
MapSegment ==
  /\ load.step = "map"
  /\ memory' = Over(memory, [p \in PagesOfSegment(Header) |-> Blank])
  /\ position' = SeekTo(Header)
  /\ load' = [load EXCEPT !.step = "fill", !.virt = Header.vaddr, !.left = Header.filesz]
  /\ UNCHANGED image

Amount ==
  LET room == PAGE_SIZE - (load.virt % PAGE_SIZE) IN IF load.left < room THEN load.left ELSE room
Available == IF position >= image.length THEN 0
             ELSE IF position + Amount <= image.length THEN Amount ELSE image.length - position
ReadPage ==
  /\ load.step = "fill" /\ load.left > 0
  /\ memory' = Store([a \in load.virt .. load.virt + Available - 1 |-> <<position + a - load.virt>>])
  /\ position' = position + Available
  /\ load' = [load EXCEPT !.virt = @ + Amount, !.left = @ - Amount]
  /\ UNCHANGED image

ClearBss ==
  /\ load.step = "fill" /\ load.left = 0
  /\ memory' = Store([a \in Header.vaddr + Header.filesz .. Header.vaddr + Header.memsz - 1 |-> Zero])
  /\ load' = [load EXCEPT !.step = "header", !.header = @ + 1]
  /\ UNCHANGED <<image, position>>

ElfNext == Verify \/ ReadHeader \/ MapSegment \/ ReadPage \/ ClearBss
-----------------------------------------------------------------------------
Segments == {i \in DOMAIN image.headers : image.headers[i].type = "load"}
Apart ==
  \A i, j \in Segments : i # j =>
    PagesOfSegment(image.headers[i]) \cap PagesOfSegment(image.headers[j]) = {}
InFile(ph) == ph.offset + ph.filesz <= image.length
ByteAt(a) == memory[Down(a)][a % PAGE_SIZE]
InSegment(ph, a) == a \in ph.vaddr .. ph.vaddr + ph.memsz - 1

\* What is loaded is the program of the file: every byte of every segment is
\* the file's, those after filesz are zero, and so is what surrounds the
\* segments.  For segments that are whole in the file and share no page:
\* a page two segments share keeps only what the later one puts there.
ImageIsFile ==
  load.step = "loaded" /\ Apart /\ (\A i \in Segments : InFile(image.headers[i])) =>
    /\ DOMAIN memory = UNION {PagesOfSegment(image.headers[i]) : i \in Segments}
    /\ \A i \in Segments :
         LET ph == image.headers[i] IN
         \A k \in 0 .. ph.memsz - 1 :
           ByteAt(ph.vaddr + k) = IF k < ph.filesz THEN <<ph.offset + k>> ELSE Zero
    /\ \A p \in DOMAIN memory, o \in 0 .. PAGE_SIZE - 1 :
         (\A i \in Segments : ~InSegment(image.headers[i], p + o)) => memory[p][o] = Zero
=============================================================================
