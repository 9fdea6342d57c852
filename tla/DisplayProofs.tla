---------------------------- MODULE DisplayProofs -----------------------------
(***************************************************************************)
(* Proofs about the programs that draw, use the devices and use a heap, for *)
(* every screen, buffer, page, width of a size_t and number of blocks.      *)
(***************************************************************************)
EXTENDS Display, TLAPS, WellFoundedInduction

-----------------------------------------------------------------------------
(* Drawing on the screen.                                                   *)

LEMMA Numbers ==
  /\ Word \in Nat /\ Word > 0 /\ Word % 2 = 0 /\ Word \div 2 \in Nat /\ Word = 2 * (Word \div 2)
  /\ CharWidth \in Nat /\ CharHeight \in Nat
BY ScreenAssumption

LEMMA PlusIs ==
  ASSUME NEW a \in Nat, NEW b \in Nat
  PROVE  /\ Plus(a, b) \in 0 .. Word - 1
         /\ a + b < Word => Plus(a, b) = a + b
         /\ a + b >= Word /\ a + b < 2 * Word => Plus(a, b) = a + b - Word
<1> DEFINE c == a + b
<1>1. c \in Nat  OBVIOUS
<1> HIDE DEF c
<1>2. /\ c % Word \in 0 .. Word - 1
      /\ c < Word => c % Word = c
      /\ c >= Word /\ c < 2 * Word => c % Word = c - Word
  BY <1>1, Numbers
<1>3. Plus(a, b) = c % Word  BY DEF Plus, c
<1>4. /\ Plus(a, b) \in 0 .. Word - 1
      /\ c < Word => Plus(a, b) = c
      /\ c >= Word /\ c < 2 * Word => Plus(a, b) = c - Word
  BY <1>2, <1>3
<1> QED  BY <1>4, Numbers DEF c

LEMMA SumIsNat ==
  ASSUME NEW a \in Nat, NEW b \in Nat
  PROVE  Plus(a, b) \in Nat
<1>1. Plus(a, b) \in 0 .. Word - 1  BY PlusIs
<1> QED  BY <1>1, Numbers

\* The framebuffer in use is one of those a bootloader passes.
FbSound == fb # NONE => ModeSound(fb)

LEMMA ScreenIs ==
  ASSUME FbSound, fb # NONE
  PROVE  /\ fb.w \in Nat /\ fb.h \in Nat /\ fb.p \in Nat /\ fb.p > 0 /\ fb.bpp \in Nat
         /\ fb.w < Word \div 2 /\ fb.h < Word \div 2 /\ FbSize \in Nat /\ FbSize < Word \div 2
         /\ BytesPerPixel \in Nat /\ fb.p >= fb.w * BytesPerPixel
         /\ BytesPerPixel = 4 => fb.p % 4 = 0
<1>1. ModeSound(fb)  BY DEF FbSound
<1>2. fb \in Mode  BY <1>1 DEF ModeSound
<1>3. fb.w \in Nat /\ fb.h \in Nat /\ fb.p \in Nat /\ fb.p > 0 /\ fb.bpp \in Nat  BY <1>2 DEF Mode
<1>4. BytesPerPixel \in Nat  BY <1>3 DEF BytesPerPixel
<1>5. FbSize \in Nat  BY <1>3 DEF FbSize
<1> QED  BY <1>1, <1>3, <1>4, <1>5 DEF ModeSound, FbSize, BytesPerPixel

\* The four bytes of a pixel on the screen.
Slack == IF BytesPerPixel = 4 THEN 0 ELSE 3
LEMMA PixelInside ==
  ASSUME FbSound, fb # NONE, NEW x \in 0 .. fb.w - 1, NEW y \in 0 .. fb.h - 1
  PROVE  BytesAt(PixelAt(<<x, y>>)) \subseteq 0 .. FbSize - 1 + Slack
<1> DEFINE B == BytesPerPixel
           row == y * fb.p
           col == x * B
<1>1. /\ fb.w \in Nat /\ fb.h \in Nat /\ fb.p \in Nat /\ fb.p > 0 /\ FbSize \in Nat /\ B \in Nat
      /\ FbSize < Word \div 2 /\ fb.p >= fb.w * B
  BY ScreenIs
<1> HIDE DEF B
<1>2. row \in Nat /\ row + fb.p <= FbSize
  <2>1. (y + 1) * fb.p <= fb.h * fb.p  BY <1>1
  <2>2. (y + 1) * fb.p = row + fb.p /\ fb.h * fb.p = FbSize  BY <1>1 DEF FbSize
  <2> QED  BY <1>1, <2>1, <2>2
<1>3. col \in Nat /\ col + B <= fb.p
  <2>1. (x + 1) * B <= fb.w * B  BY <1>1
  <2>2. (x + 1) * B = col + B  BY <1>1
  <2> QED  BY <1>1, <2>1, <2>2
<1> HIDE DEF row, col
<1>4. row + col \in Nat /\ row + col + B <= FbSize /\ (B = 0 => row + col < FbSize)
  <2>1. B = 0 => col = 0  BY <1>1 DEF col
  <2> QED  BY <1>1, <1>2, <1>3, <2>1
<1>5. PixelAt(<<x, y>>) = row + col
  <2>1. PixelAt(<<x, y>>) = (row + col) % Word  BY DEF PixelAt, row, col, B
  <2>2. row + col < Word  BY <1>1, <1>4, Numbers
  <2>3. (row + col) % Word = row + col
    <3> DEFINE s == row + col
    <3>1. s \in Nat /\ s < Word  BY <1>4, <2>2
    <3> HIDE DEF s
    <3>2. s % Word = s  BY <3>1, Numbers
    <3> QED  BY <3>2 DEF s
  <2> QED  BY <2>1, <2>3
<1> QED  BY <1>1, <1>4, <1>5 DEF BytesAt, Slack, B

LEMMA PixelsInside ==
  ASSUME FbSound, fb # NONE, NEW pixels \in SUBSET OnScreen
  PROVE  BytesOf(pixels) \subseteq 0 .. FbSize - 1 + Slack
<1>1. ASSUME NEW px \in pixels
      PROVE  BytesAt(PixelAt(px)) \subseteq 0 .. FbSize - 1 + Slack
  <2>1. PICK x \in 0 .. fb.w - 1, y \in 0 .. fb.h - 1 : px = <<x, y>>  BY DEF OnScreen
  <2> QED  BY <2>1, PixelInside
<1> QED  BY <1>1 DEF BytesOf

\* fb_clear writes whole numbers of pixels.
LEMMA ClearInside ==
  ASSUME FbSound, fb # NONE, BytesPerPixel # 0
  PROVE  ClearBytes \subseteq 0 .. FbSize - 1 + Slack
<1>1. /\ fb.h \in Nat /\ fb.p \in Nat /\ FbSize \in Nat /\ BytesPerPixel \in Nat
      /\ BytesPerPixel = 4 => fb.p % 4 = 0
  BY ScreenIs
<1>2. BytesPerPixel = 4 => FbSize % 4 = 0
  <2> SUFFICES ASSUME fb.p % 4 = 0 PROVE FbSize % 4 = 0  BY <1>1
  <2> DEFINE q == fb.p \div 4
  <2>1. q \in Nat /\ fb.p = 4 * q  BY <1>1
  <2> HIDE DEF q
  <2>2. FbSize = 4 * (q * fb.h) /\ q * fb.h \in Nat  BY <1>1, <2>1 DEF FbSize
  <2> QED  BY <2>2
<1>3. ASSUME NEW i \in 0 .. FbSize - 1, i % BytesPerPixel = 0
      PROVE  BytesAt(i) \subseteq 0 .. FbSize - 1 + Slack
  <2>1. CASE BytesPerPixel = 4
    <3>1. i % 4 = 0 /\ FbSize % 4 = 0  BY <1>2, <1>3, <2>1
    <3> DEFINE u == i \div 4
               v == FbSize \div 4
    <3>3. u \in Nat /\ v \in Nat /\ i = 4 * u /\ FbSize = 4 * v /\ i < FbSize  BY <1>1, <3>1
    <3> HIDE DEF u, v
    <3>2. i + 3 <= FbSize - 1  BY <3>3
    <3> QED  BY <1>1, <2>1, <3>2 DEF BytesAt, Slack
  <2>2. CASE BytesPerPixel # 4
    BY <1>1, <2>2 DEF BytesAt, Slack
  <2> QED  BY <2>1, <2>2
<1> QED  BY <1>3 DEF ClearBytes

\* What a character draws, and a text: nothing that is not on the screen.
LEMMA ShownAre ==
  ASSUME NEW from \in Nat, NEW n \in Nat, NEW limit \in Nat, NEW j \in Shown(from, n, limit)
  PROVE  j \in Nat /\ Plus(from, j) \in 0 .. limit - 1
<1>1. j \in 0 .. n - 1 /\ \A i \in 0 .. j : Plus(from, i) < limit  BY DEF Shown
<1>2. Plus(from, j) < limit  BY <1>1
<1>3. Plus(from, j) \in Nat  BY <1>1, SumIsNat
<1> QED  BY <1>1, <1>2, <1>3

LEMMA CharacterOnScreen ==
  ASSUME FbSound, fb # NONE, NEW c, NEW x \in Nat, NEW y \in Nat, NEW background
  PROVE  Putchar(c, x, y, background) \subseteq OnScreen
<1> SUFFICES ASSUME NEW px \in Putchar(c, x, y, background) PROVE px \in OnScreen  OBVIOUS
<1>1. PICK cell \in Shown(x, CharWidth, fb.w) \X Shown(y, CharHeight, fb.h) :
        px = <<Plus(x, cell[1]), Plus(y, cell[2])>>
  BY DEF Putchar
<1>2. fb.w \in Nat /\ fb.h \in Nat  BY ScreenIs
<1>3. cell[1] \in Shown(x, CharWidth, fb.w) /\ cell[2] \in Shown(y, CharHeight, fb.h)  OBVIOUS
<1>4. Plus(x, cell[1]) \in 0 .. fb.w - 1  BY <1>2, <1>3, ShownAre, Numbers
<1>5. Plus(y, cell[2]) \in 0 .. fb.h - 1  BY <1>2, <1>3, ShownAre, Numbers
<1> QED  BY <1>1, <1>4, <1>5 DEF OnScreen

Texts == [x : Nat, y : Nat, pixels : SUBSET OnScreen, done : BOOLEAN]

LEMMA TextIs ==
  ASSUME NEW x \in Nat, NEW y \in Nat, NEW pixels \in SUBSET OnScreen, NEW done \in BOOLEAN
  PROVE  Text(x, y, pixels, done) \in Texts
BY DEF Text, Texts

LEMMA TextHas ==
  ASSUME NEW t \in Texts
  PROVE  t.x \in Nat /\ t.y \in Nat /\ t.pixels \in SUBSET OnScreen /\ t.done \in BOOLEAN
BY DEF Texts

LEMMA NewLineIs ==
  ASSUME NEW t \in Texts, NEW x \in Nat
  PROVE  NewLine(t, x) \in Texts
<1>0. t.y \in Nat /\ t.x \in Nat /\ t.pixels \in SUBSET OnScreen /\ t.done \in BOOLEAN  BY TextHas
<1>1. Plus(t.y, CharHeight) \in Nat  BY <1>0, SumIsNat, Numbers
<1> QED  BY <1>0, <1>1, TextIs DEF NewLine

LEMMA PutsOneIs ==
  ASSUME FbSound, fb # NONE, NEW t \in Texts, NEW c, NEW x \in Nat, NEW background
  PROVE  PutsOne(t, c, x, background) \in Texts
<1>0. t.x \in Nat /\ t.y \in Nat /\ t.pixels \in SUBSET OnScreen  BY TextHas
<1>1. CASE t.done  BY <1>1 DEF PutsOne
<1>2. CASE ~t.done /\ c = "\r"
  BY <1>0, <1>2, TextIs DEF PutsOne
<1>3. CASE ~t.done /\ c = "\n" /\ c # "\r"
  BY <1>3, NewLineIs DEF PutsOne
<1>4. CASE ~t.done /\ c # "\n" /\ c # "\r"
  <2> DEFINE put == Text(Plus(t.x, CharWidth), t.y, t.pixels \cup Putchar(c, t.x, t.y, background), FALSE)
             moved == IF Plus(put.x, CharWidth) > fb.w THEN NewLine(put, x) ELSE put
             ends == Plus(moved.y, CharHeight) > fb.h
  <2>1. Putchar(c, t.x, t.y, background) \subseteq OnScreen  BY <1>0, CharacterOnScreen
  <2>2. Plus(t.x, CharWidth) \in Nat  BY <1>0, SumIsNat, Numbers
  <2>3. put \in Texts  BY <1>0, <2>1, <2>2, TextIs
  <2>4. PutsOne(t, c, x, background) = Text(moved.x, moved.y, moved.pixels, ends)
    BY <1>4 DEF PutsOne
  <2> HIDE DEF put
  <2>5. moved \in Texts  BY <2>3, NewLineIs
  <2> HIDE DEF moved
  <2>6. ends \in BOOLEAN  OBVIOUS
  <2>7. moved.x \in Nat /\ moved.y \in Nat /\ moved.pixels \in SUBSET OnScreen  BY <2>5, TextHas
  <2> HIDE DEF ends
  <2>8. Text(moved.x, moved.y, moved.pixels, ends) \in Texts  BY <2>6, <2>7, TextIs
  <2> QED  BY <2>4, <2>8
<1> QED  BY <1>1, <1>2, <1>3, <1>4

\* The smallest number of a set.
LEMMA SmallestOf ==
  ASSUME NEW S \in SUBSET Nat, S # {}
  PROVE  \E n \in S : \A k \in S : n <= k
<1>1. IsWellFoundedOn(OpToRel(<, Nat), Nat)  BY NatLessThanWellFounded
<1>2. PICK n \in S : \A k \in S : ~ (<<k, n>> \in OpToRel(<, Nat))  BY <1>1, WFMin
<1>3. \A k \in S : ~ (k < n)  BY <1>2 DEF OpToRel
<1> QED  BY <1>3

\* A text is what its characters do one after another: there is a function
\* that satisfies the recursion, and any that does is made of texts.
Writes(t, s, x, y, background, n) ==
  t = [k \in 0 .. n |-> IF k = 0 THEN Text(x, y, {}, FALSE) ELSE PutsOne(t[k - 1], s[k], x, background)]
LEMMA ATextExists ==
  ASSUME NEW s, NEW x, NEW y, NEW background, NEW n \in Nat
  PROVE  \E t : Writes(t, s, x, y, background, n)
<1> DEFINE S == {m \in Nat : ~ \E t : Writes(t, s, x, y, background, m)}
<1> SUFFICES ASSUME S # {} PROVE FALSE  OBVIOUS
<1>1. PICK m \in S : \A j \in S : m <= j
  <2>1. S \in SUBSET Nat  OBVIOUS
  <2> HIDE DEF S
  <2> QED  BY <2>1, SmallestOf
<1>2. m \in Nat /\ ~ \E t : Writes(t, s, x, y, background, m)  OBVIOUS
<1>3. CASE m = 0
  <2> DEFINE t == [k \in 0 .. 0 |-> Text(x, y, {}, FALSE)]
  <2>1. t = [k \in 0 .. 0 |-> IF k = 0 THEN Text(x, y, {}, FALSE) ELSE PutsOne(t[k - 1], s[k], x, background)]
    OBVIOUS
  <2>2. Writes(t, s, x, y, background, 0)  BY <2>1 DEF Writes
  <2> QED  BY <1>2, <1>3, <2>2
<1>4. CASE m # 0
  <2>1. m - 1 \in Nat /\ m - 1 \notin S  BY <1>1, <1>2, <1>4
  <2>2. PICK t : Writes(t, s, x, y, background, m - 1)  BY <2>1
  <2> DEFINE u == [k \in 0 .. m |-> IF k < m THEN t[k] ELSE PutsOne(t[m - 1], s[m], x, background)]
  <2>3. \A k \in 0 .. m - 1 : u[k] = t[k]  BY <1>2
  <2>4. \A k \in 0 .. m - 1 : t[k] = IF k = 0 THEN Text(x, y, {}, FALSE) ELSE PutsOne(t[k - 1], s[k], x, background)
    BY <2>2 DEF Writes
  <2>5. u[m] = PutsOne(t[m - 1], s[m], x, background)  BY <1>2
  <2>6. DOMAIN u = 0 .. m /\ u = [k \in 0 .. m |-> u[k]]  OBVIOUS
  <2> HIDE DEF u
  <2>7. ASSUME NEW k \in 0 .. m
        PROVE  u[k] = IF k = 0 THEN Text(x, y, {}, FALSE) ELSE PutsOne(u[k - 1], s[k], x, background)
    <3>1. CASE k = m
      <4>1. u[m - 1] = t[m - 1]  BY <1>2, <1>4, <2>3
      <4> QED  BY <1>4, <2>5, <3>1, <4>1
    <3>2. CASE k # m
      <4>1. k \in 0 .. m - 1  BY <1>2, <3>2
      <4>2. k # 0 => u[k - 1] = t[k - 1]  BY <2>3, <4>1
      <4> QED  BY <2>3, <2>4, <4>1, <4>2
    <3> QED  BY <3>1, <3>2
  <2>8. Writes(u, s, x, y, background, m)  BY <2>6, <2>7 DEF Writes
  <2> QED  BY <1>2, <2>8
<1> QED  BY <1>3, <1>4

LEMMA TextOnScreen ==
  ASSUME FbSound, fb # NONE, NEW s, Len(s) \in Nat, NEW x \in Nat, NEW y \in Nat, NEW background
  PROVE  Puts(s, x, y, background) \subseteq OnScreen
<1> DEFINE t == TextUpTo(s, x, y, background)
<1>1. t = CHOOSE u : Writes(u, s, x, y, background, Len(s))  BY DEF TextUpTo, Writes
<1>2. Writes(t, s, x, y, background, Len(s))  BY <1>1, ATextExists
<1> HIDE DEF t
<1>3. \A k \in 0 .. Len(s) :
        t[k] = IF k = 0 THEN Text(x, y, {}, FALSE) ELSE PutsOne(t[k - 1], s[k], x, background)
  BY <1>2 DEF Writes
<1> DEFINE S == {k \in 0 .. Len(s) : t[k] \notin Texts}
<1>4. ASSUME S # {} PROVE FALSE
  <2>1. PICK k \in S : \A j \in S : k <= j
    <3>1. S \in SUBSET Nat  OBVIOUS
    <3> HIDE DEF S
    <3> QED  BY <1>4, <3>1, SmallestOf
  <2>2. k \in 0 .. Len(s) /\ t[k] \notin Texts  OBVIOUS
  <2>3. CASE k = 0
    <3>1. t[k] = Text(x, y, {}, FALSE)  BY <1>3, <2>2, <2>3
    <3> QED  BY <2>2, <3>1, TextIs
  <2>4. CASE k # 0
    <3>1. k - 1 \in 0 .. Len(s) /\ k - 1 < k  BY <2>2, <2>4
    <3>2. t[k - 1] \in Texts  BY <2>1, <3>1
    <3>3. t[k] = PutsOne(t[k - 1], s[k], x, background)  BY <1>3, <2>2, <2>4
    <3> QED  BY <2>2, <3>2, <3>3, PutsOneIs
  <2> QED  BY <2>3, <2>4
<1>5. t[Len(s)] \in Texts  BY <1>4
<1>6. Puts(s, x, y, background) = t[Len(s)].pixels  BY DEF Puts, t
<1> QED  BY <1>5, <1>6, TextHas

\* Where a side of a rectangle is on the screen, and that it wraps around.
LEMMA SideIs ==
  ASSUME NEW x \in 0 .. Word - 1, NEW i \in Nat, i < Word \div 2, NEW limit \in Nat, limit < Word \div 2
  PROVE  /\ Plus(x, i) \in Nat
         /\ Signed(x) \in Int
         /\ Plus(x, i) < limit => Plus(x, i) = Signed(x) + i
         /\ Signed(x) + i \in 0 .. limit - 1 => Plus(x, i) = Signed(x) + i
<1> DEFINE half == Word \div 2
<1>0. half \in Nat /\ Word = 2 * half /\ x \in Nat /\ x < Word /\ Word \in Nat /\ i < half /\ limit < half  BY Numbers
<1> HIDE DEF half
<1>1. /\ Plus(x, i) \in 0 .. Word - 1
      /\ x + i < Word => Plus(x, i) = x + i
      /\ x + i >= Word /\ x + i < 2 * Word => Plus(x, i) = x + i - Word
  BY <1>0, PlusIs
<1>2. Signed(x) = IF x < half THEN x ELSE x - Word  BY DEF Signed, half
<1>3. CASE x < half  BY <1>0, <1>1, <1>2, <1>3
<1>4. CASE x >= half /\ x + i < Word  BY <1>0, <1>1, <1>2, <1>4
<1>5. CASE x >= half /\ x + i >= Word  BY <1>0, <1>1, <1>2, <1>5
<1> QED  BY <1>0, <1>3, <1>4, <1>5

LEMMA RowIs ==
  ASSUME FbSound, fb # NONE, NEW x \in 0 .. Word - 1, NEW w \in 0 .. Word \div 2, NEW b \in Nat, NEW t \in Int,
         b < fb.h => b = t, t \in 0 .. fb.h - 1 => b = t
  PROVE  RowOf(x, w, b) = ((Signed(x) .. Signed(x) + w - 1) \X {t}) \cap OnScreen
<1>1. fb.w \in Nat /\ fb.h \in Nat /\ fb.w < Word \div 2 /\ Word \in Nat /\ Word \div 2 \in Nat
  BY ScreenIs, Numbers
<1>2. \A i \in 0 .. w - 1 :
        /\ Plus(x, i) \in Nat
        /\ Signed(x) \in Int
        /\ Plus(x, i) < fb.w => Plus(x, i) = Signed(x) + i
        /\ Signed(x) + i \in 0 .. fb.w - 1 => Plus(x, i) = Signed(x) + i
  BY <1>1, SideIs
<1>3. Signed(x) \in Int  BY <1>1 DEF Signed
<1>4. RowOf(x, w, b) =
        IF b < fb.h THEN {<<Plus(x, i), b>> : i \in {j \in 0 .. w - 1 : Plus(x, j) < fb.w}} ELSE {}
  BY DEF RowOf
<1>5. ASSUME NEW q \in RowOf(x, w, b)
      PROVE  q \in ((Signed(x) .. Signed(x) + w - 1) \X {t}) \cap OnScreen
  <2>1. b < fb.h /\ b = t  BY <1>4
  <2>2. PICK i \in 0 .. w - 1 : Plus(x, i) < fb.w /\ q = <<Plus(x, i), b>>  BY <1>4, <2>1
  <2>3. Plus(x, i) = Signed(x) + i /\ Plus(x, i) \in 0 .. fb.w - 1  BY <1>1, <1>2, <2>2
  <2>4. Plus(x, i) \in Signed(x) .. Signed(x) + w - 1  BY <1>1, <1>3, <2>3
  <2>5. b \in 0 .. fb.h - 1  BY <1>1, <2>1
  <2> QED  BY <2>1, <2>2, <2>3, <2>4, <2>5 DEF OnScreen
<1>6. ASSUME NEW u \in Signed(x) .. Signed(x) + w - 1, u \in 0 .. fb.w - 1, t \in 0 .. fb.h - 1
      PROVE  <<u, t>> \in RowOf(x, w, b)
  <2> DEFINE i == u - Signed(x)
  <2>1. i \in 0 .. w - 1 /\ u = Signed(x) + i  BY <1>1, <1>3
  <2> HIDE DEF i
  <2>2. Plus(x, i) = u /\ u < fb.w  BY <1>1, <1>2, <1>6, <2>1
  <2>3. b = t /\ b < fb.h  BY <1>1, <1>6
  <2>4. <<u, t>> = <<Plus(x, i), b>>  BY <2>2, <2>3
  <2> QED  BY <1>4, <2>1, <2>2, <2>3, <2>4
<1>7. ASSUME NEW q \in ((Signed(x) .. Signed(x) + w - 1) \X {t}) \cap OnScreen
      PROVE  q \in RowOf(x, w, b)
  <2>1. PICK u \in Signed(x) .. Signed(x) + w - 1 : q = <<u, t>>  OBVIOUS
  <2>2. u \in 0 .. fb.w - 1 /\ t \in 0 .. fb.h - 1  BY <2>1 DEF OnScreen
  <2> QED  BY <1>6, <2>1, <2>2
<1> QED  BY <1>5, <1>7

LEMMA ColumnIs ==
  ASSUME FbSound, fb # NONE, NEW y \in 0 .. Word - 1, NEW h \in 0 .. Word \div 2, NEW a \in Nat, NEW t \in Int,
         a < fb.w => a = t, t \in 0 .. fb.w - 1 => a = t
  PROVE  ColumnOf(a, y, h) = ({t} \X (Signed(y) .. Signed(y) + h - 1)) \cap OnScreen
<1>1. fb.w \in Nat /\ fb.h \in Nat /\ fb.h < Word \div 2 /\ Word \in Nat /\ Word \div 2 \in Nat
  BY ScreenIs, Numbers
<1>2. \A i \in 0 .. h - 1 :
        /\ Plus(y, i) \in Nat
        /\ Signed(y) \in Int
        /\ Plus(y, i) < fb.h => Plus(y, i) = Signed(y) + i
        /\ Signed(y) + i \in 0 .. fb.h - 1 => Plus(y, i) = Signed(y) + i
  BY <1>1, SideIs
<1>3. Signed(y) \in Int  BY <1>1 DEF Signed
<1>4. ColumnOf(a, y, h) =
        IF a < fb.w THEN {<<a, Plus(y, i)>> : i \in {j \in 0 .. h - 1 : Plus(y, j) < fb.h}} ELSE {}
  BY DEF ColumnOf
<1>5. ASSUME NEW q \in ColumnOf(a, y, h)
      PROVE  q \in ({t} \X (Signed(y) .. Signed(y) + h - 1)) \cap OnScreen
  <2>1. a < fb.w /\ a = t  BY <1>4
  <2>2. PICK i \in 0 .. h - 1 : Plus(y, i) < fb.h /\ q = <<a, Plus(y, i)>>  BY <1>4, <2>1
  <2>3. Plus(y, i) = Signed(y) + i /\ Plus(y, i) \in 0 .. fb.h - 1  BY <1>1, <1>2, <2>2
  <2>4. Plus(y, i) \in Signed(y) .. Signed(y) + h - 1  BY <1>1, <1>3, <2>3
  <2>5. a \in 0 .. fb.w - 1  BY <1>1, <2>1
  <2> QED  BY <2>1, <2>2, <2>3, <2>4, <2>5 DEF OnScreen
<1>6. ASSUME NEW u \in Signed(y) .. Signed(y) + h - 1, u \in 0 .. fb.h - 1, t \in 0 .. fb.w - 1
      PROVE  <<t, u>> \in ColumnOf(a, y, h)
  <2> DEFINE i == u - Signed(y)
  <2>1. i \in 0 .. h - 1 /\ u = Signed(y) + i  BY <1>1, <1>3
  <2> HIDE DEF i
  <2>2. Plus(y, i) = u /\ u < fb.h  BY <1>1, <1>2, <1>6, <2>1
  <2>3. a = t /\ a < fb.w  BY <1>1, <1>6
  <2>4. <<t, u>> = <<a, Plus(y, i)>>  BY <2>2, <2>3
  <2> QED  BY <1>4, <2>1, <2>2, <2>3, <2>4
<1>7. ASSUME NEW q \in ({t} \X (Signed(y) .. Signed(y) + h - 1)) \cap OnScreen
      PROVE  q \in ColumnOf(a, y, h)
  <2>1. PICK u \in Signed(y) .. Signed(y) + h - 1 : q = <<t, u>>  OBVIOUS
  <2>2. u \in 0 .. fb.h - 1 /\ t \in 0 .. fb.w - 1  BY <2>1 DEF OnScreen
  <2> QED  BY <1>6, <2>1, <2>2
<1> QED  BY <1>5, <1>7

\* Every row and column is on the screen; and the four of a rectangle are its
\* border there.
LEMMA SidesOnScreen ==
  ASSUME FbSound, fb # NONE, NEW a \in Nat, NEW b \in Nat, NEW n \in Nat
  PROVE  RowOf(a, n, b) \subseteq OnScreen /\ ColumnOf(a, b, n) \subseteq OnScreen
<1>1. fb.w \in Nat /\ fb.h \in Nat  BY ScreenIs
<1>2. \A i \in 0 .. n - 1 : Plus(a, i) \in Nat /\ Plus(b, i) \in Nat
  <2> SUFFICES ASSUME NEW i \in Nat PROVE Plus(a, i) \in Nat /\ Plus(b, i) \in Nat  OBVIOUS
  <2> QED  BY SumIsNat
<1>3. RowOf(a, n, b) \subseteq OnScreen  BY <1>1, <1>2 DEF RowOf, OnScreen
<1>4. ColumnOf(a, b, n) \subseteq OnScreen  BY <1>1, <1>2 DEF ColumnOf, OnScreen
<1> QED  BY <1>3, <1>4

LEMMA RectOnScreen ==
  ASSUME FbSound, fb # NONE, NEW x \in 0 .. Word - 1, NEW y \in 0 .. Word - 1, NEW w \in Nat, NEW h \in Nat
  PROVE  DrawRect(x, y, w, h) \subseteq OnScreen
<1>1. \A a \in Nat, b \in Int : (a + b) % Word \in Nat
  <2> SUFFICES ASSUME NEW a \in Nat, NEW b \in Int PROVE (a + b) % Word \in Nat  OBVIOUS
  <2> DEFINE c == a + b
  <2>1. c \in Int  OBVIOUS
  <2> HIDE DEF c
  <2>2. c % Word \in Nat  BY <2>1, Numbers
  <2> QED  BY <2>2 DEF c
<1>2. x \in Nat /\ y \in Nat /\ w - 1 \in Int /\ h - 1 \in Int  BY Numbers
<1>3. Plus(y, h - 1) \in Nat  BY <1>1, <1>2 DEF Plus
<1>4. Plus(x, w - 1) \in Nat  BY <1>1, <1>2 DEF Plus
<1>5. RowOf(x, w, y) \subseteq OnScreen /\ ColumnOf(x, y, h) \subseteq OnScreen  BY <1>2, SidesOnScreen
<1>6. RowOf(x, w, Plus(y, h - 1)) \subseteq OnScreen  BY <1>2, <1>3, SidesOnScreen
<1>7. ColumnOf(Plus(x, w - 1), y, h) \subseteq OnScreen  BY <1>2, <1>4, SidesOnScreen
<1> QED  BY <1>5, <1>6, <1>7 DEF DrawRect

LEMMA RectIs ==
  ASSUME FbSound, fb # NONE, NEW x \in 0 .. Word - 1, NEW y \in 0 .. Word - 1,
         NEW w \in 1 .. Word \div 2, NEW h \in 1 .. Word \div 2
  PROVE  DrawRect(x, y, w, h) = Border(Signed(x), Signed(y), w, h) \cap OnScreen
<1>1. /\ fb.w \in Nat /\ fb.h \in Nat /\ fb.w < Word \div 2 /\ fb.h < Word \div 2
      /\ Word \in Nat /\ Word \div 2 \in Nat /\ Word > 0 /\ Word = 2 * (Word \div 2)
  BY ScreenIs, Numbers
<1> DEFINE X == Signed(x)
           Y == Signed(y)
           bottom == Plus(y, h - 1)
           right == Plus(x, w - 1)
<1>2. X \in Int /\ Y \in Int  BY <1>1 DEF Signed
<1>3. (y < fb.h => y = Y) /\ (Y \in 0 .. fb.h - 1 => y = Y)  BY <1>1 DEF Signed
<1>4. (x < fb.w => x = X) /\ (X \in 0 .. fb.w - 1 => x = X)  BY <1>1 DEF Signed
<1>5. h - 1 \in Nat /\ h - 1 < Word \div 2 /\ w - 1 \in Nat /\ w - 1 < Word \div 2  BY <1>1
<1>6. /\ bottom \in Nat /\ (bottom < fb.h => bottom = Y + (h - 1))
      /\ Y + (h - 1) \in 0 .. fb.h - 1 => bottom = Y + (h - 1)
  BY <1>1, <1>5, SideIs
<1>7. /\ right \in Nat /\ (right < fb.w => right = X + (w - 1))
      /\ X + (w - 1) \in 0 .. fb.w - 1 => right = X + (w - 1)
  BY <1>1, <1>5, SideIs
<1> HIDE DEF X, Y, bottom, right
<1>8. w \in 0 .. Word \div 2 /\ h \in 0 .. Word \div 2 /\ y \in Nat /\ x \in Nat
      /\ Y + (h - 1) \in Int /\ X + (w - 1) \in Int
  BY <1>1, <1>2
<1>9. RowOf(x, w, y) = ((X .. X + w - 1) \X {Y}) \cap OnScreen  BY <1>2, <1>3, <1>8, RowIs DEF X
<1>10. RowOf(x, w, bottom) = ((X .. X + w - 1) \X {Y + (h - 1)}) \cap OnScreen  BY <1>6, <1>8, RowIs DEF X
<1>11. ColumnOf(x, y, h) = ({X} \X (Y .. Y + h - 1)) \cap OnScreen  BY <1>2, <1>4, <1>8, ColumnIs DEF Y
<1>12. ColumnOf(right, y, h) = ({X + (w - 1)} \X (Y .. Y + h - 1)) \cap OnScreen  BY <1>7, <1>8, ColumnIs DEF Y
<1>13. DrawRect(x, y, w, h) = RowOf(x, w, y) \cup RowOf(x, w, bottom) \cup ColumnOf(x, y, h) \cup ColumnOf(right, y, h)
  BY DEF DrawRect, bottom, right
<1> DEFINE A == X .. X + w - 1
           C == Y .. Y + h - 1
           last == Y + (h - 1)
           end == X + (w - 1)
<1>14. X \in A /\ end \in A /\ Y \in C /\ last \in C /\ X + w - 1 = end /\ Y + h - 1 = last
  BY <1>1, <1>2
<1>15. Border(X, Y, w, h) = {px \in A \X C : px[1] \in {X, end} \/ px[2] \in {Y, last}}
  BY <1>14 DEF Border
<1> HIDE DEF A, C, last, end
<1>16. {px \in A \X C : px[1] \in {X, end} \/ px[2] \in {Y, last}}
        = (A \X {Y}) \cup (A \X {last}) \cup ({X} \X C) \cup ({end} \X C)
  BY <1>14
<1>17. DrawRect(x, y, w, h) = ((A \X {Y}) \cup (A \X {last}) \cup ({X} \X C) \cup ({end} \X C)) \cap OnScreen
  BY <1>9, <1>10, <1>11, <1>12, <1>13 DEF A, C, last, end
<1>18. DrawRect(x, y, w, h) = Border(X, Y, w, h) \cap OnScreen  BY <1>15, <1>16, <1>17
<1> QED  BY <1>18 DEF X, Y

LEMMA PixelIs ==
  ASSUME FbSound, fb # NONE, NEW x \in 0 .. Word - 1, NEW y \in 0 .. Word - 1
  PROVE  DrawPixel(x, y) = Border(Signed(x), Signed(y), 1, 1) \cap OnScreen
<1>1. /\ fb.w \in Nat /\ fb.h \in Nat /\ fb.w < Word \div 2 /\ fb.h < Word \div 2
      /\ Word \in Nat /\ Word \div 2 \in Nat /\ Word = 2 * (Word \div 2)
  BY ScreenIs, Numbers
<1> DEFINE X == Signed(x)
           Y == Signed(y)
<1>2. X \in Int /\ Y \in Int  BY <1>1 DEF Signed
<1>3. (x < fb.w => x = X) /\ (X \in 0 .. fb.w - 1 => x = X)  BY <1>1 DEF Signed
<1>4. (y < fb.h => y = Y) /\ (Y \in 0 .. fb.h - 1 => y = Y)  BY <1>1 DEF Signed
<1> HIDE DEF X, Y
<1>5. Border(X, Y, 1, 1) = {<<X, Y>>}
  <2>1. X .. X + 1 - 1 = {X} /\ Y .. Y + 1 - 1 = {Y} /\ X + 1 - 1 = X /\ Y + 1 - 1 = Y  BY <1>2
  <2> QED  BY <2>1 DEF Border
<1>6. <<X, Y>> \in OnScreen <=> X \in 0 .. fb.w - 1 /\ Y \in 0 .. fb.h - 1  BY DEF OnScreen
<1>7. x \in Nat /\ y \in Nat  BY <1>1
<1>8. CASE x < fb.w /\ y < fb.h
  <2>1. x = X /\ y = Y /\ X \in 0 .. fb.w - 1 /\ Y \in 0 .. fb.h - 1  BY <1>1, <1>3, <1>4, <1>7, <1>8
  <2>2. DrawPixel(x, y) = {<<X, Y>>}  BY <1>8, <2>1 DEF DrawPixel
  <2> QED  BY <1>5, <1>6, <2>1, <2>2 DEF X, Y
<1>9. CASE ~(x < fb.w /\ y < fb.h)
  <2>1. DrawPixel(x, y) = {}  BY <1>9 DEF DrawPixel
  <2>2. ~(X \in 0 .. fb.w - 1 /\ Y \in 0 .. fb.h - 1)  BY <1>1, <1>3, <1>4, <1>7, <1>9
  <2> QED  BY <1>5, <1>6, <2>1, <2>2 DEF X, Y
<1> QED  BY <1>8, <1>9

\* What DrawsInside says of a call and the bytes it writes.
Shape(call0) == Border(Signed(call0[2]), Signed(call0[3]), call0[4], call0[5]) \cap OnScreen
Proper(call0, bytes) ==
  /\ bytes \subseteq 0 .. FbSize - 1 + Slack
  /\ Len(call0) = 5 /\ call0[4] > 0 /\ call0[5] > 0 => bytes = BytesOf(Shape(call0))

LEMMA ProperDraws ==
  ASSUME NEW call0, NEW bytes, Proper(call0, bytes), Draws(call0, bytes), UNCHANGED fb
  PROVE  DrawsInside'
<1>1. drawn'.call = call0 /\ drawn'.bytes = bytes /\ fb' = fb  BY DEF Draws
<1>2. FbSize' = FbSize /\ BytesPerPixel' = BytesPerPixel  BY <1>1 DEF FbSize, BytesPerPixel
<1>3. drawn'.bytes \subseteq 0 .. FbSize' - 1 + (IF BytesPerPixel' = 4 THEN 0 ELSE 3)
  BY <1>1, <1>2 DEF Proper, Slack
<1>4. ASSUME Len(drawn'.call) = 5, drawn'.call[4] > 0, drawn'.call[5] > 0
      PROVE  drawn'.bytes =
               BytesOf(Border(Signed(drawn.call[2]), Signed(drawn.call[3]), drawn.call[4], drawn.call[5]) \cap OnScreen)'
  <2>1. drawn'.bytes = BytesOf(Shape(call0))  BY <1>1, <1>4 DEF Proper
  <2> QED  BY <1>1, <2>1 DEF Shape, BytesOf, BytesAt, PixelAt, BytesPerPixel, OnScreen, Border, Signed
<1> QED  BY <1>3, <1>4 DEF DrawsInside

LEMMA DrawIsInside ==
  ASSUME FbSound, DrawsInside, Draw
  PROVE  DrawsInside'
<1>1. fb # NONE /\ UNCHANGED fb  BY DEF Draw
<1>2. \A x \in Coord : x \in 0 .. Word - 1 /\ x \in Nat  BY ScreenAssumption
<1>3. ASSUME NEW x \in Coord, NEW y \in Coord, NEW background \in BOOLEAN, NEW c,
             DrawPixels(<<"putchar">>, Putchar(c, x, y, background))
      PROVE  DrawsInside'
  <2>1. Proper(<<"putchar">>, BytesOf(Putchar(c, x, y, background)))
    BY <1>1, <1>2, CharacterOnScreen, PixelsInside DEF Proper
  <2> QED  BY <1>1, <1>3, <2>1, ProperDraws DEF DrawPixels
<1>4. ASSUME NEW x \in Coord, NEW y \in Coord, NEW background \in BOOLEAN, NEW s \in Strings,
             DrawPixels(<<"puts">>, Puts(s, x, y, background))
      PROVE  DrawsInside'
  <2>1. Len(s) \in Nat  BY ScreenAssumption
  <2>2. Puts(s, x, y, background) \subseteq OnScreen  BY <1>1, <1>2, <2>1, TextOnScreen
  <2>3. Proper(<<"puts">>, BytesOf(Puts(s, x, y, background)))  BY <1>1, <2>2, PixelsInside DEF Proper
  <2> QED  BY <1>1, <1>4, <2>3, ProperDraws DEF DrawPixels
<1>5. ASSUME NEW x \in Coord, NEW y \in Coord, NEW w \in Size, NEW h \in Size,
             DrawPixels(<<"rect", x, y, w, h>>, DrawRect(x, y, w, h))
      PROVE  DrawsInside'
  <2> DEFINE call0 == <<"rect", x, y, w, h>>
  <2>1. w \in 0 .. Word \div 2 /\ h \in 0 .. Word \div 2 /\ w \in Nat /\ h \in Nat  BY ScreenAssumption
  <2>2. DrawRect(x, y, w, h) \subseteq OnScreen  BY <1>1, <1>2, <2>1, RectOnScreen
  <2>3. BytesOf(DrawRect(x, y, w, h)) \subseteq 0 .. FbSize - 1 + Slack  BY <1>1, <2>2, PixelsInside
  <2>4. ASSUME w > 0, h > 0 PROVE DrawRect(x, y, w, h) = Shape(call0)
    <3>1. w \in 1 .. Word \div 2 /\ h \in 1 .. Word \div 2  BY <2>1, <2>4
    <3> QED  BY <1>1, <1>2, <3>1, RectIs DEF Shape
  <2>5. Proper(call0, BytesOf(DrawRect(x, y, w, h)))  BY <2>3, <2>4 DEF Proper
  <2> QED  BY <1>1, <1>5, <2>5, ProperDraws DEF DrawPixels
<1>6. ASSUME NEW x \in Coord, NEW y \in Coord, DrawPixels(<<"pixel", x, y, 1, 1>>, DrawPixel(x, y))
      PROVE  DrawsInside'
  <2> DEFINE call0 == <<"pixel", x, y, 1, 1>>
  <2>1. DrawPixel(x, y) = Shape(call0)  BY <1>1, <1>2, PixelIs DEF Shape
  <2>2. DrawPixel(x, y) \subseteq OnScreen  BY <2>1 DEF Shape
  <2>3. BytesOf(DrawPixel(x, y)) \subseteq 0 .. FbSize - 1 + Slack  BY <1>1, <2>2, PixelsInside
  <2>4. Proper(call0, BytesOf(DrawPixel(x, y)))  BY <2>1, <2>3 DEF Proper
  <2> QED  BY <1>1, <1>6, <2>4, ProperDraws DEF DrawPixels
<1>7. ASSUME BytesPerPixel # 0, Draws(<<"clear">>, ClearBytes) PROVE DrawsInside'
  <2>1. Proper(<<"clear">>, ClearBytes)  BY <1>1, <1>7, ClearInside DEF Proper
  <2> QED  BY <1>1, <1>7, <2>1, ProperDraws
<1>8. ASSUME UNCHANGED drawn PROVE DrawsInside'
  BY <1>1, <1>8 DEF DrawsInside, FbSize, BytesOf, BytesAt, PixelAt, BytesPerPixel, OnScreen, Border, Signed
<1> QED  BY <1>3, <1>4, <1>5, <1>6, <1>7, <1>8 DEF Draw

-----------------------------------------------------------------------------
(* The device files and the programs that use them.                         *)

AnyDevice == {"fb", "fb-info", "null", "random", "rtc"}
Call == [op : {"read", "write"}, device : AnyDevice, left : Int, cnt : Int]
ToTheEnd == call.op = "write" /\ call.device = "fb" /\ (call.left > 0 => offset + call.left <= FbSize)
InCall == call \in Call /\ (call.device = "fb" => fb # NONE)
Programs ==
  /\ program \in {"devices", "heap", "open", "info", "plot"}
  /\ program \in {"open", "heap"} => call = NONE
  /\ program \in {"info", "plot"} => fb # NONE
  /\ program = "info" /\ call # NONE => call.device # "fb"
  /\ program = "plot" /\ call # NONE => ToTheEnd
ScreenInv ==
  /\ loader \in Loaders
  /\ status = "init" => drawn = NONE /\ (loader.multiboot => tag \in DOMAIN loader.tags)
  /\ FbSound
  /\ DrawsInside
CallInv ==
  /\ offset \in Nat
  /\ status \in {"init", "up"} => call = NONE
  /\ call # NONE => InCall
  /\ status = "run" => Programs
  /\ status = "wild" => program = "devices"
  /\ CallsStayInside

\* No device but the framebuffer touches anything but the kernel's buffer,
\* nor does the framebuffer before its end; and it writes what it is asked to.
LEMMA DoesIs ==
  ASSUME NEW ret, NEW buffer, NEW screen
  PROVE  Does(ret, buffer, screen).ret = ret /\ Does(ret, buffer, screen).buffer = buffer
         /\ Does(ret, buffer, screen).screen = screen
BY DEF Does

LEMMA UnderwayIs ==
  ASSUME NEW op \in {"read", "write"}, NEW device \in AnyDevice, NEW left \in Int, NEW cnt \in Int
  PROVE  /\ Underway(op, device, left, cnt) \in Call /\ Underway(op, device, left, cnt).op = op
         /\ Underway(op, device, left, cnt).device = device /\ Underway(op, device, left, cnt).left = left
BY DEF Underway, Call

LEMMA CallingIs ==
  ASSUME NEW op \in {"read", "write"}, NEW device \in AnyDevice, NEW n \in Int
  PROVE  /\ Calling(op, device, n) \in Call /\ Calling(op, device, n).op = op
         /\ Calling(op, device, n).device = device /\ Calling(op, device, n).left = n
BY UnderwayIs DEF Calling

LEMMA ChunkIs ==
  ASSUME call \in Call, call.left > 0
  PROVE  /\ call.left \in Int /\ ThisChunk \in 1 .. Chunk /\ ThisChunk <= call.left
         /\ Chunk \in Nat /\ Chunk % 4 = 0
<1>1. call.left \in Int  BY DEF Call
<1>2. Chunk \in Nat \ {0} /\ Chunk % 4 = 0  BY DevicesAssumption
<1> QED  BY <1>1, <1>2 DEF ThisChunk, AtMost

LEMMA OthersStay ==
  ASSUME NEW n \in 1 .. Chunk, NEW op, NEW device, device # "fb"
  PROVE  Stays(Doing(op, device, n)) /\ Doing(op, device, n).ret \in Int
<1>1. Chunk \in Nat /\ Chunk % 4 = 0 /\ InfoSize \in Nat /\ TimeSize \in Nat  BY DevicesAssumption
<1>2. \A ret, buffer : buffer \subseteq 0 .. Chunk - 1 => Stays(Does(ret, buffer, {}))
  <2> SUFFICES ASSUME NEW ret, NEW buffer, buffer \subseteq 0 .. Chunk - 1 PROVE Stays(Does(ret, buffer, {}))
    OBVIOUS
  <2>1. Does(ret, buffer, {}).buffer = buffer /\ Does(ret, buffer, {}).screen = {}  BY DoesIs
  <2> QED  BY <2>1 DEF Stays
<1>3. UpTo(n) \subseteq 0 .. Chunk - 1  BY <1>1 DEF UpTo
<1>4. UpTo(AtMost(n, InfoSize)) \subseteq 0 .. Chunk - 1 /\ AtMost(n, InfoSize) \in Int  BY <1>1 DEF UpTo, AtMost
<1>5. UpTo(AtMost(n, TimeSize)) \subseteq 0 .. Chunk - 1 /\ AtMost(n, TimeSize) \in Int  BY <1>1 DEF UpTo, AtMost
<1>6. UNION {i .. i + 3 : i \in {j \in UpTo(n) : j % 4 = 0}} \subseteq 0 .. Chunk - 1
  <2>1. ASSUME NEW i \in UpTo(n), i % 4 = 0 PROVE i .. i + 3 \subseteq 0 .. Chunk - 1
    <3> DEFINE u == i \div 4
               v == Chunk \div 4
    <3>1. i \in Nat /\ i < Chunk  BY <1>1 DEF UpTo
    <3>2. u \in Nat /\ v \in Nat /\ i = 4 * u /\ Chunk = 4 * v  BY <1>1, <2>1, <3>1
    <3> HIDE DEF u, v
    <3>3. i + 3 <= Chunk - 1  BY <3>1, <3>2
    <3> QED  BY <1>1, <3>1, <3>3
  <2> QED  BY <2>1
<1>7. Stays(Refuses) /\ Refuses.ret \in Int  BY <1>2, DoesIs DEF Refuses, Error
<1>8. Stays(ReadsInfo(n)) /\ ReadsInfo(n).ret \in Int  BY <1>2, <1>4, DoesIs DEF ReadsInfo
<1>9. Stays(ReadsTime(n)) /\ ReadsTime(n).ret \in Int  BY <1>2, <1>5, DoesIs DEF ReadsTime
<1>10. Stays(ReadsRandom(n)) /\ ReadsRandom(n).ret \in Int  BY <1>2, <1>6, DoesIs DEF ReadsRandom
<1>11. Stays(Does(n, UpTo(n), {})) /\ Does(n, UpTo(n), {}).ret \in Int  BY <1>2, <1>3, DoesIs
<1>12. Stays(Does(n, {}, {})) /\ Does(n, {}, {}).ret \in Int  BY <1>2, DoesIs
<1> QED  BY <1>7, <1>8, <1>9, <1>10, <1>11, <1>12 DEF Doing

LEMMA FbStays ==
  ASSUME FbSound, fb # NONE, NEW n \in 1 .. Chunk, NEW op \in {"read", "write"}, offset \in Nat, offset + n <= FbSize
  PROVE  Stays(Doing(op, "fb", n)) /\ Doing(op, "fb", n).ret = n
<1>1. Chunk \in Nat /\ FbSize \in Nat /\ FbSize < Word \div 2 /\ n \in Nat  BY DevicesAssumption, ScreenIs
<1>2. Stays(OfScreen(n)) /\ OfScreen(n).ret = n
  BY <1>1, DoesIs DEF OfScreen, Stays, UpTo
<1>3. AtMost(n, FbSize) = n  BY <1>1 DEF AtMost
<1>4. (FbSize - offset) % Word = FbSize - offset
  <2> DEFINE d == FbSize - offset
  <2>1. d \in Nat /\ d < Word  BY <1>1, Numbers
  <2> HIDE DEF d
  <2>2. d % Word = d  BY <2>1, Numbers
  <2> QED  BY <2>2 DEF d
<1>5. ~ (n > (FbSize - offset) % Word)  BY <1>1, <1>4
<1>6. ReadsFb(n) = OfScreen(n) /\ WritesFb(n) = OfScreen(n)  BY <1>3, <1>5 DEF ReadsFb, WritesFb
<1> QED  BY <1>2, <1>6 DEF Doing

LEMMA FbReturns ==
  ASSUME FbSound, fb # NONE, NEW n \in Int, NEW op \in {"read", "write"}
  PROVE  Doing(op, "fb", n).ret \in Int
<1>1. FbSize \in Int  BY ScreenIs
<1>2. AtMost(n, FbSize) \in Int  BY <1>1 DEF AtMost
<1>3. ReadsFb(n).ret \in Int  BY <1>2, DoesIs DEF ReadsFb, OfScreen
<1>4. WritesFb(n).ret \in Int  BY <1>1, DoesIs DEF WritesFb, OfScreen
<1> QED  BY <1>3, <1>4 DEF Doing

LEMMA DoneReturns ==
  ASSUME FbSound, InCall, call.left > 0
  PROVE  Done.ret \in Int
<1>1. call.op \in {"read", "write"} /\ call \in Call  BY DEF InCall, Call
<1>2. ThisChunk \in 1 .. Chunk /\ ThisChunk \in Int /\ Chunk \in Nat  BY <1>1, ChunkIs
<1>3. CASE call.device = "fb"
  <2>1. Doing(call.op, "fb", ThisChunk).ret \in Int  BY <1>1, <1>2, <1>3, FbReturns DEF InCall
  <2> QED  BY <1>3, <2>1 DEF Done
<1>4. CASE call.device # "fb"
  <2>1. Doing(call.op, call.device, ThisChunk).ret \in Int  BY <1>2, <1>4, OthersStay
  <2> QED  BY <2>1 DEF Done
<1> QED  BY <1>3, <1>4

\* Only a call on the framebuffer, and past its end, can go wild.
LEMMA WildIs ==
  ASSUME FbSound, InCall, call.left > 0, ~Stays(Done)
  PROVE  call.device = "fb" /\ (offset \in Nat => offset + ThisChunk > FbSize)
<1>1. call.op \in {"read", "write"} /\ call \in Call  BY DEF InCall, Call
<1>2. ThisChunk \in 1 .. Chunk /\ Chunk \in Nat  BY <1>1, ChunkIs
<1>3. call.device = "fb"
  <2> SUFFICES ASSUME call.device # "fb" PROVE FALSE  OBVIOUS
  <2>1. Stays(Doing(call.op, call.device, ThisChunk))  BY <1>2, OthersStay
  <2> QED  BY <2>1 DEF Done
<1>4. ASSUME offset \in Nat PROVE offset + ThisChunk > FbSize
  <2> SUFFICES ASSUME ~ (offset + ThisChunk > FbSize) PROVE FALSE  OBVIOUS
  <2>1. fb # NONE  BY <1>3 DEF InCall
  <2>2. FbSize \in Nat  BY <2>1, ScreenIs
  <2>3. offset + ThisChunk <= FbSize  BY <1>2, <1>4, <2>2
  <2>4. Stays(Doing(call.op, "fb", ThisChunk))  BY <1>1, <1>2, <1>4, <2>1, <2>3, FbStays
  <2> QED  BY <1>3, <2>4 DEF Done
<1> QED  BY <1>3, <1>4

\* The screen is found, and drawn on, before a program runs.
LEMMA ScreenFound ==
  ASSUME ScreenInv, ScreenNext
  PROVE  ScreenInv'
<1>1. CASE BadMagic
  BY <1>1 DEF BadMagic, screenVars, ScreenInv, FbSound, DrawsInside
<1>2. CASE NextTag
  <2>1. tag' \in DOMAIN loader'.tags
    BY <1>2, ScreenAssumption DEF NextTag, ScreenInv, ThisTag
  <2> QED  BY <1>2, <2>1 DEF NextTag, ScreenInv, FbSound, DrawsInside
<1>3. CASE FoundTag
  <2>1. fb' # NONE => ModeSound(fb')
    BY <1>3, ScreenAssumption DEF FoundTag, ScreenInv, ThisTag
  <2> QED  BY <1>3, <2>1 DEF FoundTag, ScreenInv, FbSound, DrawsInside
<1>4. CASE Draw
  <2>1. DrawsInside'  BY <1>4, DrawIsInside DEF ScreenInv
  <2>2. status' # "init" /\ UNCHANGED <<loader, fb>>
    BY <1>4 DEF Draw, DrawPixels
  <2> QED  BY <2>1, <2>2 DEF ScreenInv, FbSound
<1> QED  BY <1>1, <1>2, <1>3, <1>4 DEF ScreenNext

LEMMA ScreenStays ==
  ASSUME ScreenInv, UNCHANGED <<loader, fb>>, drawn' = NONE \/ UNCHANGED drawn,
         status' # "init" \/ UNCHANGED <<status, tag, drawn>>
  PROVE  ScreenInv'
<1>1. FbSound'  BY DEF ScreenInv, FbSound
<1>2. DrawsInside'
  BY DEF ScreenInv, DrawsInside, FbSize, BytesOf, BytesAt, PixelAt, BytesPerPixel, OnScreen, Border, Signed
<1> QED  BY <1>1, <1>2 DEF ScreenInv

LEMMA ScreenKept ==
  ASSUME ScreenInv, [Next]_vars
  PROVE  ScreenInv'
<1>1. CASE ScreenNext  BY <1>1, ScreenFound
<1>2. CASE Start  BY <1>2, ScreenStays DEF Start
<1>3. CASE DevicesNext
  BY <1>3, ScreenStays DEF DevicesNext, Wild, Turn, NotCopied, Nothing, screenVars
<1>4. CASE WindowManager
  BY <1>4, ScreenStays DEF WindowManager, OpenFiles, NoInfo, AllocateBack, Plot, Running, screenVars, machineVars
<1>5. CASE DeviceCall \/ HeapCall
  BY <1>5, ScreenStays DEF DeviceCall, HeapCall, Running, screenVars, machineVars
<1>6. CASE UNCHANGED vars  BY <1>6, ScreenStays DEF vars, screenVars
<1> QED  BY <1>1, <1>2, <1>3, <1>4, <1>5, <1>6 DEF Next

\* The steps of a call: no longer on, one chunk further, or wild.
LEMMA CallOver ==
  ASSUME ScreenInv, CallInv, status = "run", UNCHANGED <<status, fb, program>>, offset' \in Nat, call' = NONE
  PROVE  CallInv'
BY DEF CallInv, CallsStayInside, Programs

LEMMA TurnKept ==
  ASSUME ScreenInv, CallInv, status = "run", Turn, UNCHANGED program
  PROVE  CallInv'
<1>1. call # NONE /\ call.left > 0 /\ Stays(Done) /\ UNCHANGED <<fb, status>>  BY DEF Turn, screenVars
<1>2. FbSound /\ InCall /\ offset \in Nat /\ Programs  BY <1>1 DEF ScreenInv, CallInv
<1> DEFINE ret == Done.ret
<1>3. ret \in Int  BY <1>1, <1>2, DoneReturns
<1>4. call \in Call /\ call.left \in Int /\ ThisChunk \in 1 .. Chunk /\ ThisChunk <= call.left /\ Chunk \in Nat
  BY <1>1, <1>2, ChunkIs DEF InCall
<1> HIDE DEF ret
<1>5. CASE ret < 0
  <2>1. offset' = offset /\ call' = NONE  BY <1>5 DEF Turn, Ends, ret
  <2> QED  BY <1>1, <1>2, <2>1, CallOver
<1>6. CASE ret >= 0
  <2>1. /\ offset' = Moved(call.device, ret)
        /\ Loops(ret) \/ (call.op = "read" /\ Ends(Error))
    <3>1. ~(ret < 0)  BY <1>3, <1>6
    <3> QED  BY <3>1 DEF Turn, ret
  <2>2. offset' \in Nat  BY <1>2, <1>3, <1>6, <2>1 DEF Moved
  <2>3. CASE call' = NONE  BY <1>1, <2>2, <2>3, CallOver
  <2>4. CASE call' # NONE
    <3>1. /\ ~(ret < ThisChunk) /\ ret # 0 /\ ret # call.left
          /\ call' = Underway(call.op, call.device, call.left - ret, call.cnt + ret)
      BY <2>1, <2>4 DEF Loops, Ends
    <3>2. call' \in Call /\ call'.op = call.op /\ call'.device = call.device /\ call'.left = call.left - ret
      <4>1. call.op \in {"read", "write"} /\ call.device \in AnyDevice /\ call.cnt \in Int  BY <1>4 DEF Call
      <4>2. call.left - ret \in Int /\ call.cnt + ret \in Int  BY <1>3, <1>4, <4>1
      <4> DEFINE left0 == call.left - ret
                 cnt0 == call.cnt + ret
      <4>3. call' = Underway(call.op, call.device, left0, cnt0)  BY <3>1
      <4> HIDE DEF left0, cnt0
      <4>4. /\ call' \in Call /\ call'.op = call.op /\ call'.device = call.device /\ call'.left = left0
        BY <4>1, <4>2, <4>3, UnderwayIs DEF left0, cnt0
      <4> QED  BY <4>4 DEF left0
    <3>3. InCall'  BY <1>1, <1>2, <3>2 DEF InCall
    <3>4. ASSUME program = "plot" PROVE ToTheEnd'
      <4>1. /\ call.op = "write" /\ call.device = "fb" /\ offset + call.left <= FbSize
        BY <1>1, <1>2, <3>4 DEF Programs, ToTheEnd
      <4>2. fb # NONE  BY <1>2, <4>1 DEF InCall
      <4>3. FbSize \in Nat /\ offset + ThisChunk <= FbSize  BY <1>2, <1>4, <4>1, <4>2, ScreenIs
      <4>4. ret = ThisChunk  BY <1>2, <1>4, <4>1, <4>2, <4>3, FbStays DEF Done, ret
      <4>5. offset' = offset + ret  BY <2>1, <4>1 DEF Moved
      <4>6. FbSize' = FbSize  BY <1>1 DEF FbSize
      <4>7. offset' + call'.left <= FbSize'  BY <1>2, <1>3, <1>4, <3>2, <4>1, <4>3, <4>5, <4>6
      <4> QED  BY <3>2, <4>1, <4>7 DEF ToTheEnd
    <3>5. Programs'  BY <1>1, <1>2, <3>2, <3>4 DEF Programs
    <3> QED  BY <1>1, <2>2, <3>3, <3>5 DEF CallInv, CallsStayInside
  <2> QED  BY <2>3, <2>4
<1> QED  BY <1>3, <1>5, <1>6

LEMMA WildKept ==
  ASSUME ScreenInv, CallInv, status = "run", Wild, UNCHANGED program
  PROVE  CallInv'
<1>1. call # NONE /\ call.left > 0 /\ ~Stays(Done) /\ status' = "wild" /\ UNCHANGED <<fb, call, offset>>
  BY DEF Wild, screenVars, deviceVars
<1>2. FbSound /\ InCall /\ offset \in Nat /\ Programs  BY <1>1 DEF ScreenInv, CallInv
<1>3. call.device = "fb" /\ offset + ThisChunk > FbSize  BY <1>1, <1>2, WildIs
<1>4. CallsStayInside'
  BY <1>1, <1>3 DEF CallsStayInside, ThisChunk, AtMost, FbSize
<1>5. program # "plot"
  <2> SUFFICES ASSUME program = "plot" PROVE FALSE  OBVIOUS
  <2>1. offset + call.left <= FbSize  BY <1>1, <1>2 DEF Programs, ToTheEnd
  <2>2. call \in Call /\ fb # NONE  BY <1>2, <1>3 DEF InCall
  <2>3. call.left \in Int /\ ThisChunk <= call.left /\ ThisChunk \in 1 .. Chunk /\ Chunk \in Nat
    BY <1>1, <2>2, ChunkIs
  <2>4. FbSize \in Nat  BY <1>2, <2>2, ScreenIs
  <2> QED  BY <1>2, <1>3, <2>1, <2>3, <2>4
<1>6. program = "devices"  BY <1>1, <1>2, <1>3, <1>5 DEF Programs
<1>7. InCall'  BY <1>1, <1>2 DEF InCall
<1> QED  BY <1>1, <1>2, <1>4, <1>6, <1>7 DEF CallInv

\* The window manager plots a pixel that is on the screen: all its bytes are
\* before the framebuffer's end.
LEMMA PlotKept ==
  ASSUME ScreenInv, CallInv, Plot
  PROVE  CallInv'
<1>1. status = "run" /\ program = "plot" /\ UNCHANGED <<fb, status, program>>
  BY DEF Plot, Running, machineVars, screenVars
<1>2. FbSound /\ fb # NONE /\ offset \in Nat  BY <1>1 DEF ScreenInv, CallInv, Programs
<1>3. /\ fb.w \in Nat /\ fb.h \in Nat /\ fb.p \in Nat /\ FbSize \in Nat /\ FbSize < Word \div 2
      /\ BytesPerPixel \in Nat /\ fb.p >= fb.w * BytesPerPixel
  BY <1>2, ScreenIs
<1>4. PICK x \in Coord, y \in Coord : PlotAt(x, y) # NONE /\ offset' = PlotAt(x, y)  BY DEF Plot
<1>5. x \in Nat /\ y \in Nat  BY ScreenAssumption
<1> DEFINE B == BytesPerPixel
           base == (y * fb.w) % Word
<1>6. CASE x < fb.w /\ y < fb.h
  <2>1. offset' = Sought(Plus(base, x))  BY <1>4, <1>6 DEF PlotAt
  <2>2. y * fb.w \in Nat  BY <1>3, <1>5
  <2>3. base \in 0 .. Word - 1 /\ (y * fb.w < Word => base = y * fb.w)
    <3> DEFINE m == y * fb.w
    <3>1. m \in Nat  BY <2>2
    <3> HIDE DEF m
    <3>2. m % Word \in 0 .. Word - 1 /\ (m < Word => m % Word = m)  BY <3>1, Numbers
    <3> QED  BY <3>2 DEF m
  <2> HIDE DEF base
  <2>4. base \in Nat  BY <2>3, Numbers
  <2>5. /\ Plus(base, x) \in 0 .. Word - 1
        /\ base + x < Word => Plus(base, x) = base + x
    BY <1>5, <2>4, PlusIs
  <2>6. offset' \in Nat  BY <1>2, <2>1, <2>5, Numbers DEF Sought
  <2>7. ASSUME B > 0 PROVE offset' + B <= FbSize'
    <3> HIDE DEF B
    <3> DEFINE at == y * fb.w + x
               all == fb.h * fb.w
    <3>0. B \in Nat /\ B >= 1  BY <1>3, <2>7 DEF B
    <3>1. y * fb.w + fb.w <= all
      <4>1. (y + 1) * fb.w <= fb.h * fb.w  BY <1>3, <1>5, <1>6
      <4>2. (y + 1) * fb.w = y * fb.w + fb.w  BY <1>3, <1>5
      <4> QED  BY <4>1, <4>2
    <3>2. at \in Nat /\ all \in Nat /\ at <= all - 1  BY <1>3, <1>5, <1>6, <2>2, <3>1
    <3>3. all * B <= FbSize
      <4>1. fb.h * (fb.w * B) <= fb.h * fb.p  BY <1>3, <3>0 DEF B
      <4>2. fb.h * (fb.w * B) = all * B /\ fb.h * fb.p = FbSize  BY <1>3, <3>0 DEF FbSize
      <4> QED  BY <4>1, <4>2
    <3> HIDE DEF all
    <3>4. all - 1 + B <= all * B
      <4>1. (all - 1) * (B - 1) >= 0  BY <3>0, <3>2
      <4>2. (all - 1) * (B - 1) = all * B - all - B + 1  BY <3>0, <3>2
      <4> QED  BY <3>0, <3>2, <4>1, <4>2
    <3>5. at + B <= FbSize  BY <1>3, <3>0, <3>2, <3>3, <3>4
    <3>6. at < Word \div 2 /\ at < Word /\ y * fb.w < Word  BY <1>3, <1>5, <2>2, <3>0, <3>5, Numbers
    <3>7. Plus(base, x) = at  BY <2>3, <2>5, <3>6
    <3>8. offset' = at  BY <2>1, <3>6, <3>7 DEF Sought
    <3>9. FbSize' = FbSize  BY <1>1 DEF FbSize
    <3> QED  BY <3>5, <3>8, <3>9
  <2>8. /\ call' \in Call /\ call'.op = "write" /\ call'.device = "fb" /\ call'.left = B
    <3>1. "fb" \in AnyDevice /\ "write" \in {"read", "write"} /\ BytesPerPixel \in Int  BY <1>3 DEF AnyDevice
    <3>2. /\ Calling("write", "fb", BytesPerPixel) \in Call /\ Calling("write", "fb", BytesPerPixel).op = "write"
          /\ Calling("write", "fb", BytesPerPixel).device = "fb"
          /\ Calling("write", "fb", BytesPerPixel).left = BytesPerPixel
      BY <3>1, CallingIs
    <3>3. call' = Calling("write", "fb", BytesPerPixel)  BY DEF Plot
    <3> QED  BY <3>2, <3>3
  <2>9. ToTheEnd'  BY <2>7, <2>8 DEF ToTheEnd
  <2>10. InCall' /\ Programs'  BY <1>1, <1>2, <2>8, <2>9 DEF InCall, Programs
  <2> QED  BY <1>1, <2>6, <2>10 DEF CallInv, CallsStayInside
<1>7. CASE ~(x < fb.w /\ y < fb.h)
  BY <1>4, <1>7 DEF PlotAt
<1> QED  BY <1>6, <1>7

LEMMA ManagerKept ==
  ASSUME ScreenInv, CallInv, WindowManager
  PROVE  CallInv'
<1>1. CASE OpenFiles
  <2>1. status = "run" /\ program = "open" /\ call = NONE /\ offset' = offset /\ fb' = fb /\ offset \in Nat
    BY <1>1 DEF OpenFiles, Running, screenVars, CallInv
  <2>2. CASE status' = "exit" /\ UNCHANGED <<call, program>>
    BY <2>1, <2>2 DEF CallInv, CallsStayInside
  <2>3. CASE fb # NONE /\ call' = Calling("read", "fb-info", InfoSize) /\ program' = "info" /\ UNCHANGED status
    <3>1. InfoSize \in Int  BY DevicesAssumption
    <3>2. call' \in Call /\ call'.device = "fb-info"
      <4>1. "fb-info" \in AnyDevice /\ "read" \in {"read", "write"}  BY DEF AnyDevice
      <4>2. Calling("read", "fb-info", InfoSize) \in Call /\ Calling("read", "fb-info", InfoSize).device = "fb-info"
        BY <3>1, <4>1, CallingIs
      <4> QED  BY <2>3, <4>2
    <3>3. InCall' /\ Programs'  BY <2>1, <2>3, <3>2 DEF InCall, Programs
    <3> QED  BY <2>1, <2>3, <3>3 DEF CallInv, CallsStayInside
  <2> QED  BY <1>1, <2>2, <2>3 DEF OpenFiles
<1>2. CASE NoInfo
  <2>1. status = "run" /\ call = NONE /\ status' = "exit" /\ UNCHANGED <<offset, call>>
    BY <1>2 DEF NoInfo, Running, deviceVars
  <2> QED  BY <2>1 DEF CallInv, CallsStayInside
<1>3. CASE AllocateBack
  <2>1. /\ status = "run" /\ program = "info" /\ call = NONE /\ program' = "plot"
        /\ UNCHANGED <<offset, call, fb, status>>
    BY <1>3 DEF AllocateBack, Running, deviceVars, machineVars, screenVars
  <2>2. Programs'  BY <2>1 DEF CallInv, Programs
  <2> QED  BY <2>1, <2>2 DEF CallInv, CallsStayInside
<1>4. CASE Plot  BY <1>4, PlotKept
<1> QED  BY <1>1, <1>2, <1>3, <1>4 DEF WindowManager

LEMMA CallsKept ==
  ASSUME ScreenInv, CallInv, [Next]_vars
  PROVE  CallInv'
<1>1. CASE ScreenNext /\ UNCHANGED <<deviceVars, heapVars, program>>
  <2>1. status \in {"init", "up"} /\ status' \notin {"run", "wild"} /\ UNCHANGED <<offset, call>>
    BY <1>1 DEF ScreenNext, BadMagic, NextTag, FoundTag, Draw, DrawPixels, deviceVars
  <2> QED  BY <2>1 DEF CallInv, CallsStayInside
<1>2. CASE Start
  <2>1. /\ status = "up" /\ status' = "run" /\ program' \in {"devices", "heap", "open"} /\ UNCHANGED <<offset, call>>
    BY <1>2 DEF Start, deviceVars
  <2>2. Programs'  BY <2>1 DEF CallInv, Programs
  <2> QED  BY <2>1, <2>2 DEF CallInv, CallsStayInside
<1>3. CASE DevicesNext /\ UNCHANGED <<heapVars, program>>
  <2>1. CASE Turn  BY <1>3, <2>1, TurnKept DEF DevicesNext
  <2>2. CASE Wild  BY <1>3, <2>2, WildKept DEF DevicesNext
  <2>3. CASE NotCopied \/ Nothing
    <3>1. status = "run" /\ UNCHANGED <<status, fb, program, offset>> /\ call' = NONE
      BY <1>3, <2>3 DEF DevicesNext, NotCopied, Nothing, Ends, screenVars
    <3>2. offset' \in Nat  BY <3>1 DEF CallInv
    <3> QED  BY <3>1, <3>2, CallOver
  <2> QED  BY <1>3, <2>1, <2>2, <2>3 DEF DevicesNext
<1>4. CASE WindowManager  BY <1>4, ManagerKept
<1>5. CASE DeviceCall
  <2>1. status = "run" /\ program = "devices" /\ call = NONE /\ UNCHANGED <<status, fb, program>> /\ offset \in Nat
    BY <1>5 DEF DeviceCall, Running, machineVars, screenVars, CallInv
  <2>2. CASE \E op \in {"read", "write"}, device \in Device, n \in Counts :
               call' = Calling(op, device, n) /\ UNCHANGED offset
    <3>1. PICK op \in {"read", "write"}, device \in Device, n \in Counts :
            call' = Calling(op, device, n) /\ UNCHANGED offset
      BY <2>2
    <3>2. n \in Int  BY DevicesAssumption, Numbers
    <3>3. device \in AnyDevice /\ (device = "fb" => fb # NONE)  BY DEF Device, AnyDevice
    <3>4. call' \in Call /\ call'.device = device  BY <3>1, <3>2, <3>3, CallingIs
    <3>5. InCall' /\ Programs'  BY <2>1, <3>3, <3>4 DEF InCall, Programs
    <3> QED  BY <2>1, <3>1, <3>5 DEF CallInv, CallsStayInside
  <2>3. CASE (\E pos \in Offsets : offset' = Sought(pos)) /\ UNCHANGED call
    <3>1. PICK pos \in Offsets : offset' = Sought(pos)  BY <2>3
    <3>2. pos \in Nat  BY DevicesAssumption, Numbers
    <3>3. offset' \in Nat  BY <2>1, <3>1, <3>2 DEF Sought
    <3>4. call' = NONE  BY <2>1, <2>3
    <3> QED  BY <2>1, <3>3, <3>4, CallOver
  <2> QED  BY <1>5, <2>2, <2>3 DEF DeviceCall
<1>6. CASE HeapCall
  <2>1. status = "run" /\ call = NONE /\ UNCHANGED <<status, fb, program, offset, call>>
    BY <1>6 DEF HeapCall, Running, machineVars, screenVars, deviceVars
  <2>2. offset' \in Nat /\ call' = NONE  BY <2>1 DEF CallInv
  <2> QED  BY <2>1, <2>2, CallOver
<1>7. CASE UNCHANGED vars
  <2>1. UNCHANGED <<status, fb, program, offset, call>>  BY <1>7 DEF vars, screenVars, deviceVars
  <2>2. FbSize' = FbSize  BY <2>1 DEF FbSize
  <2>3. (call # NONE => InCall') /\ (ToTheEnd => ToTheEnd') /\ CallsStayInside'
    BY <2>1, <2>2 DEF CallInv, InCall, ToTheEnd, CallsStayInside, ThisChunk, AtMost
  <2>4. status = "run" => Programs'  BY <2>1, <2>3 DEF CallInv, Programs
  <2> QED  BY <2>1, <2>3, <2>4 DEF CallInv
<1> QED  BY <1>1, <1>2, <1>3, <1>4, <1>5, <1>6, <1>7 DEF Next

-----------------------------------------------------------------------------
(* The heap of a program.                                                   *)

Block == [at : Nat, pages : Nat, bytes : Nat \ {0}, filled : BOOLEAN]

\* The n-th block is at the n-th page, and as long as PagesFor says.
Placed ==
  /\ blocks \in Seq(Block)
  /\ heapnext = Len(blocks)
  /\ \A i \in DOMAIN blocks : blocks[i].at = i - 1 /\ blocks[i].pages = PagesFor(blocks[i].bytes)
HeapInv == Placed /\ BlocksIntact

\* What BlocksIntact assumes.
Modest ==
  /\ \A i \in 1 .. Len(blocks) - 1 : blocks[i].pages = 1
  /\ \A i \in DOMAIN blocks : Fits(blocks[i])
  /\ ~faulted

\* A quotient by PageSize, in the only way it is used.
LEMMA Quotient ==
  ASSUME NEW x \in Nat
  PROVE  /\ x \div PageSize \in Nat
         /\ (x \div PageSize) * PageSize > x - PageSize
         /\ x >= PageSize => x \div PageSize >= 1
BY HeapAssumption, SMT

LEMMA Remainder ==
  ASSUME NEW x \in Nat, x < SizeLimit
  PROVE  x % SizeLimit = x
BY HeapAssumption, SMT

LEMMA Remains ==
  ASSUME NEW x \in Nat
  PROVE  x % SizeLimit \in Nat
BY HeapAssumption, SMT

\* A block has a page or more, and holds its header and its bytes.
LEMMA PagesAreEnough ==
  ASSUME NEW bytes \in Nat \ {0}
  PROVE  /\ PagesFor(bytes) \in Nat
         /\ HeaderBytes + bytes + PageSize - 1 < SizeLimit =>
              /\ PagesFor(bytes) >= 1
              /\ PagesFor(bytes) * PageSize >= HeaderBytes + bytes
<1> DEFINE x == HeaderBytes + bytes + PageSize - 1
<1>1. HeaderBytes \in Nat /\ PageSize \in Nat \ {0} /\ x \in Nat /\ x >= PageSize
  BY HeapAssumption
<1>2. PagesFor(bytes) = (x % SizeLimit) \div PageSize
  BY DEF PagesFor
<1>3. PagesFor(bytes) \in Nat
  BY <1>1, <1>2, Remains, Quotient
<1>4. ASSUME x < SizeLimit
      PROVE  PagesFor(bytes) >= 1 /\ PagesFor(bytes) * PageSize > x - PageSize
  <2> HIDE DEF x
  <2>1. PagesFor(bytes) = x \div PageSize
    BY <1>1, <1>2, <1>4, Remainder
  <2> QED  BY <1>1, <2>1, Quotient
<1>5. ASSUME x < SizeLimit PROVE PagesFor(bytes) * PageSize >= HeaderBytes + bytes
  <2> DEFINE room == PagesFor(bytes) * PageSize
  <2>1. room \in Nat
    BY <1>1, <1>3
  <2>2. room > x - PageSize
    BY <1>4, <1>5
  <2> HIDE DEF room
  <2>3. room >= HeaderBytes + bytes
    BY <1>1, <2>1, <2>2
  <2> QED  BY <2>3 DEF room
<1> QED  BY <1>3, <1>4, <1>5

LEMMA IntactBlocks ==
  BlocksIntact <=> (Modest => \A i \in DOMAIN blocks : Intact(i))
BY DEF BlocksIntact, Modest

\* Two blocks of a program of that kind share no page.
LEMMA RunsApart ==
  ASSUME Placed, Modest, NEW i \in DOMAIN blocks, NEW j \in DOMAIN blocks, i # j
  PROVE  Run(blocks[i]) \cap Run(blocks[j]) = {}
<1>1. DOMAIN blocks = 1 .. Len(blocks) /\ Len(blocks) \in Nat
  BY DEF Placed
<1>2. blocks[i].at = i - 1 /\ blocks[j].at = j - 1
  BY DEF Placed
<1>3. blocks[i].pages \in Nat /\ blocks[j].pages \in Nat
  <2>1. blocks[i] \in Block /\ blocks[j] \in Block
    BY <1>1 DEF Placed
  <2> QED  BY <2>1 DEF Block
<1>4. i < j => blocks[i].pages = 1
  BY <1>1 DEF Modest
<1>5. j < i => blocks[j].pages = 1
  BY <1>1 DEF Modest
<1> QED  BY <1>1, <1>2, <1>3, <1>4, <1>5 DEF Run

LEMMA InitInv == HeapInit => HeapInv
BY DEF HeapInit, HeapInv, Placed, BlocksIntact

LEMMA MallocInv ==
  ASSUME HeapInv, NEW bytes \in 0 .. SizeLimit - 1, Malloc(bytes)
  PROVE  HeapInv'
<1> DEFINE n == Len(blocks)
           pages == PagesFor(bytes)
           new == [at |-> n, pages |-> pages, bytes |-> bytes, filled |-> FALSE]
<1>1. /\ Placed
      /\ blocks \in Seq(Block) /\ heapnext = n /\ n \in Nat /\ DOMAIN blocks = 1 .. n
  BY DEF HeapInv, Placed
<1>2. bytes \in Nat \ {0}
  BY HeapAssumption DEF Malloc
<1>3. pages \in Nat /\ new \in Block
  BY <1>1, <1>2, PagesAreEnough DEF Block
<1>4. blocks' = Append(blocks, new) /\ heapnext' = n + 1 /\ ~faulted
  BY <1>1 DEF Malloc, Advanced
<1>5. /\ Len(blocks') = n + 1 /\ DOMAIN blocks' = 1 .. n + 1 /\ blocks' \in Seq(Block)
      /\ blocks'[n + 1] = new
      /\ \A i \in 1 .. n : blocks'[i] = blocks[i]
  <2> HIDE DEF new
  <2> QED  BY <1>1, <1>3, <1>4
<1>6. Placed'
  <2>1. \A i \in 1 .. n : blocks'[i].at = i - 1 /\ blocks'[i].pages = PagesFor(blocks'[i].bytes)
    BY <1>1, <1>5 DEF Placed
  <2>2. blocks'[n + 1].at = n /\ blocks'[n + 1].pages = PagesFor(blocks'[n + 1].bytes)
    BY <1>5
  <2>3. \A i \in DOMAIN blocks' : blocks'[i].at = i - 1 /\ blocks'[i].pages = PagesFor(blocks'[i].bytes)
    BY <1>1, <1>5, <2>1, <2>2
  <2> QED  BY <1>4, <1>5, <2>3 DEF Placed, PagesFor
<1>7. BlocksIntact'
  <2> SUFFICES ASSUME Modest', NEW i \in 1 .. n + 1 PROVE Intact(i)'
    BY <1>5 DEF BlocksIntact, Modest
  <2> DEFINE mapped == Map({n} \cup n .. n + pages - 1)
  <2>1. \A j \in 1 .. n : blocks[j].pages = 1
    BY <1>1, <1>5 DEF Modest
  <2>2. Modest
    <3>1. \A j \in 1 .. n - 1 : blocks[j].pages = 1
      BY <1>1, <2>1
    <3>2. \A j \in 1 .. n : Fits(blocks[j])
      BY <1>1, <1>5 DEF Modest, Fits
    <3> QED  BY <1>1, <1>4, <3>1, <3>2 DEF Modest
  <2>3. page' = [mapped EXCEPT ![n].header = pages]
    BY <1>1 DEF Malloc
  <2>4. /\ DOMAIN mapped = DOMAIN page \cup {n} \cup n .. n + pages - 1
        /\ mapped[n] = Fresh
        /\ \A p \in DOMAIN page : p < n => mapped[p] = page[p]
    BY <1>1, <1>3 DEF Map
  <2>5. /\ DOMAIN page' = DOMAIN page \cup {n} \cup n .. n + pages - 1
        /\ page'[n].header = pages
        /\ \A p \in DOMAIN page : p < n => page'[p] = page[p]
    <3> HIDE DEF mapped
    <3> QED  BY <1>1, <2>3, <2>4 DEF Fresh
  <2>6. CASE i \in 1 .. n
    <3>1. Intact(i)
      BY <1>1, <2>2, <2>6 DEF HeapInv, BlocksIntact, Modest
    <3>2. Run(blocks[i]) = {i - 1} /\ blocks'[i] = blocks[i] /\ blocks[i].at = i - 1 /\ i - 1 < n
      BY <1>1, <1>5, <2>1, <2>6 DEF Run, Placed
    <3>3. i - 1 \in DOMAIN page /\ page'[i - 1] = page[i - 1]
      BY <2>5, <3>1, <3>2 DEF Intact
    <3> QED  BY <2>5, <3>1, <3>2, <3>3 DEF Intact, Run
  <2>7. CASE i = n + 1
    <3>1. Run(new) \subseteq DOMAIN page'
      BY <1>1, <1>3, <2>5 DEF Run
    <3>2. HeaderBytes + bytes + PageSize - 1 < SizeLimit
      BY <1>5 DEF Modest, Fits
    <3>3. pages * PageSize >= HeaderBytes + bytes
      BY <1>2, <3>2, PagesAreEnough
    <3> QED  BY <1>5, <2>5, <2>7, <3>1, <3>3 DEF Intact, Run
  <2> QED  BY <2>6, <2>7
<1> QED  BY <1>6, <1>7 DEF HeapInv

LEMMA FillInv ==
  ASSUME HeapInv, NEW k \in DOMAIN blocks, Fill(k)
  PROVE  HeapInv'
<1>1. /\ Placed /\ blocks \in Seq(Block) /\ DOMAIN blocks = 1 .. Len(blocks) /\ blocks[k] \in Block
  BY DEF HeapInv, Placed
<1>2. blocks' = [blocks EXCEPT ![k].filled = TRUE] /\ UNCHANGED <<heapnext, faulted>>
  BY DEF Fill
<1>3. /\ blocks' \in Seq(Block) /\ Len(blocks') = Len(blocks) /\ DOMAIN blocks' = DOMAIN blocks
      /\ \A i \in DOMAIN blocks :
           /\ i # k => blocks'[i] = blocks[i]
           /\ blocks'[i].at = blocks[i].at /\ blocks'[i].pages = blocks[i].pages
           /\ blocks'[i].bytes = blocks[i].bytes
  <2> DEFINE b == [blocks[k] EXCEPT !.filled = TRUE]
  <2>1. /\ b \in Block
        /\ b.at = blocks[k].at /\ b.pages = blocks[k].pages /\ b.bytes = blocks[k].bytes
    BY <1>1 DEF Block
  <2>2. blocks' = [blocks EXCEPT ![k] = b]
    BY <1>2
  <2> HIDE DEF b
  <2> QED  BY <1>1, <2>1, <2>2
<1>4. Placed'
  BY <1>1, <1>2, <1>3 DEF Placed, PagesFor
<1>5. BlocksIntact'
  <2> SUFFICES ASSUME Modest', NEW i \in DOMAIN blocks PROVE Intact(i)'
    BY <1>3 DEF BlocksIntact, Modest
  <2>1. Modest
    BY <1>1, <1>2, <1>3 DEF Modest, Fits
  <2>2. Intact(i)
    BY <2>1 DEF HeapInv, BlocksIntact, Modest
  <2>3. Run(blocks'[i]) = Run(blocks[i])
    BY <1>3 DEF Run
  <2>4. page' = [p \in DOMAIN page |->
                   IF p \notin Run(blocks[k]) THEN page[p]
                   ELSE [by |-> k, header |-> IF p = blocks[k].at THEN page[p].header ELSE NoBlock]]
    BY DEF Fill
  <2>5. blocks[i].at \in Run(blocks[i])
    <3>. blocks[i] \in Block
      BY <1>1
    <3>1. blocks[i].at \in Nat /\ blocks[i].pages \in Nat /\ blocks[i].bytes \in Nat \ {0}
      BY DEF Block
    <3>2. blocks[i].pages >= 1
      BY <1>1, <2>1, <3>1, PagesAreEnough DEF Placed, Modest, Fits
    <3> QED  BY <3>1, <3>2 DEF Run
  <2>6. Run(blocks'[i]) \subseteq DOMAIN page' /\ page'[blocks[i].at].header = blocks'[i].pages
    <3>1. DOMAIN page' = DOMAIN page
      BY <2>4
    <3>2. page'[blocks[i].at].header = page[blocks[i].at].header
      <4>1. blocks[i].at \in DOMAIN page
        BY <2>2, <2>5 DEF Intact
      <4>2. CASE blocks[i].at \notin Run(blocks[k])
        BY <2>4, <4>1, <4>2
      <4>3. CASE blocks[i].at \in Run(blocks[k])
        <5>1. i = k
          BY <1>1, <2>1, <2>5, <4>3, RunsApart
        <5> QED  BY <2>4, <4>1, <4>3, <5>1
      <4> QED  BY <4>2, <4>3
    <3> QED  BY <1>3, <2>2, <2>3, <3>1, <3>2 DEF Intact
  <2>7. blocks'[i].filled => \A p \in Run(blocks[i]) : page'[p].by = i
    <3>1. CASE i = k
      BY <2>2, <2>4, <3>1 DEF Intact
    <3>2. CASE i # k
      BY <1>1, <1>3, <2>1, <2>2, <2>4, <3>2, RunsApart DEF Intact
    <3> QED  BY <3>1, <3>2
  <2> QED  BY <1>3, <2>2, <2>3, <2>6, <2>7 DEF Intact, Run
<1> QED  BY <1>4, <1>5 DEF HeapInv

LEMMA FreeInv ==
  ASSUME HeapInv, NEW k \in DOMAIN blocks, Free(k)
  PROVE  HeapInv'
<1>1. UNCHANGED <<heapnext, blocks>>
  BY DEF Free
<1>2. Placed'
  BY <1>1 DEF HeapInv, Placed, PagesFor
<1>3. ASSUME faulted' = TRUE PROVE BlocksIntact'
  BY <1>3 DEF BlocksIntact
<1>4. ASSUME UNCHANGED <<page, faulted>> PROVE BlocksIntact'
  BY <1>1, <1>4 DEF HeapInv, BlocksIntact, Intact, Run, Fits
<1>5. BlocksIntact'
  BY <1>3, <1>4 DEF Free
<1> QED  BY <1>2, <1>5 DEF HeapInv

LEMMA StutterInv == HeapInv /\ UNCHANGED heapVars => HeapInv'
BY DEF HeapInv, heapVars, Placed, BlocksIntact, Intact, Run, Fits, PagesFor


-----------------------------------------------------------------------------
(* Every step, of a program or of whoever draws.                            *)

\* Every step is one of the heap's, or none to the heap.
LEMMA HeapKept ==
  ASSUME ScreenInv, CallInv, HeapInv, [Next]_vars
  PROVE  HeapInv'
<1>1. \A bytes \in 0 .. SizeLimit - 1 : Malloc(bytes) => HeapInv'  BY MallocInv
<1>2. \A i \in DOMAIN blocks : Fill(i) \/ Free(i) => HeapInv'  BY FillInv, FreeInv
<1>3. CASE UNCHANGED heapVars  BY <1>3, StutterInv
<1>4. CASE AllocateBack
  <2>1. FbSound /\ fb # NONE  BY <1>4 DEF AllocateBack, Running, ScreenInv, CallInv, Programs
  <2>2. fb.p \in Nat /\ fb.h \in Nat /\ BytesPerPixel \in Nat  BY <2>1, ScreenIs
  <2> DEFINE n == fb.p * fb.h * BytesPerPixel
  <2>3. n \in Nat  BY <2>2
  <2> HIDE DEF n
  <2>4. n % Word \in 0 .. Word - 1  BY <2>3, Numbers
  <2>5. BackSize \in 0 .. SizeLimit - 1  BY <2>4, DisplayAssumption DEF BackSize, n
  <2> QED  BY <1>1, <1>3, <1>4, <2>5 DEF AllocateBack
<1>5. CASE HeapCall
  <2>1. Counts \subseteq 0 .. SizeLimit - 1  BY DevicesAssumption, DisplayAssumption, Numbers
  <2> QED  BY <1>1, <1>2, <1>5, <2>1 DEF HeapCall, HeapNext
<1> QED  BY <1>3, <1>4, <1>5 DEF Next, vars, Start, DeviceCall, WindowManager, OpenFiles, NoInfo, Plot

DisplayInv == ScreenInv /\ CallInv /\ HeapInv

LEMMA DisplayInvariance == Spec => []DisplayInv
<1>1. Init => DisplayInv
  <2> SUFFICES ASSUME Init PROVE DisplayInv  OBVIOUS
  <2>1. ScreenInv
    BY ScreenAssumption DEF Init, ScreenInit, ScreenInv, FbSound, DrawsInside
  <2>2. CallInv
    BY DEF Init, ScreenInit, DevicesInit, CallInv, CallsStayInside
  <2> QED  BY <2>1, <2>2, InitInv DEF Init, DisplayInv
<1>2. DisplayInv /\ [Next]_vars => DisplayInv'
  BY ScreenKept, CallsKept, HeapKept DEF DisplayInv
<1> QED  BY <1>1, <1>2, PTL DEF Spec

\* Whatever is drawn, on whatever screen a bootloader passes, and whatever
\* the programs ask of the device files: what StaysInside says.
THEOREM NothingOutside == Spec => []StaysInside
<1>1. DisplayInv => StaysInside
  BY DEF DisplayInv, ScreenInv, CallInv, StaysInside
<1> QED  BY <1>1, DisplayInvariance, PTL

\* Whatever a program asks malloc for, in a number of blocks without a bound
\* but that of MaxBlocks: as long as only its last block is longer than a
\* page and it frees none, no block is written over.
THEOREM BlocksStayIntact == Spec => []BlocksIntact
<1>1. DisplayInv => BlocksIntact  BY DEF DisplayInv, HeapInv
<1> QED  BY <1>1, DisplayInvariance, PTL
=============================================================================
