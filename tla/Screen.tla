------------------------------- MODULE Screen -------------------------------
(***************************************************************************)
(* The framebuffer: finding it in what the bootloader passes, and drawing   *)
(* on it.  A drawing call is one step; it is known by the bytes it writes,  *)
(* four for a pixel whatever the depth is, and not by their colours.        *)
(***************************************************************************)
EXTENDS Integers, Sequences, FiniteSets

CONSTANTS
  Word,        \* values of a size_t
  Loaders,     \* what may be passed: whether it is multiboot's, [offset -> tag]
  CharWidth, CharHeight,
  Glyph,       \* [character of the font -> the <<column, row>> it sets]
  Strings,     \* bound: the strings drawn
  Coord, Size, \* bounds: the positions and sizes drawn at, as size_t's
  NONE

\* A side is a positive number to whoever draws; the bootloader's tags follow
\* each other up to the last, and the framebuffer they describe is below the
\* middle of the numbers, with rows long enough for their pixels.
Rounded(n) == ((n + 7) \div 8) * 8
Mode == [w : Nat, h : Nat, p : Nat \ {0}, bpp : Nat]
ModeSound(f) ==
  /\ f \in Mode
  /\ f.w < Word \div 2 /\ f.h < Word \div 2 /\ f.p * f.h < Word \div 2
  /\ f.p >= f.w * (f.bpp \div 8)
  /\ f.bpp \div 8 = 4 => f.p % 4 = 0
ASSUME ScreenAssumption ==
  /\ Word \in Nat \ {0} /\ Word % 2 = 0 /\ {CharWidth, CharHeight} \subseteq Nat \ {0}
  /\ Coord \subseteq 0 .. Word - 1 /\ Size \subseteq 0 .. Word \div 2
  /\ \A s \in Strings : Len(s) \in Nat
  /\ \A l \in Loaders :
       /\ l.multiboot => 8 \in DOMAIN l.tags
       /\ \A o \in DOMAIN l.tags :
            /\ l.tags[o].type = "other" => o + Rounded(l.tags[o].size) \in DOMAIN l.tags
            /\ l.tags[o].type = "framebuffer" => ModeSound(l.tags[o].fb)

VARIABLES
  loader,  \* what the bootloader has passed
  tag,     \* the offset of the tag fb_init looks at
  fb,      \* NONE, or the fb_t: w, h, bpp, p
  drawn,   \* NONE, or the drawing call that just ended and the bytes it wrote
  status   \* "init", "up", "run", or why nothing goes on

screenVars == <<loader, tag, fb, drawn>>

ScreenInit ==
  /\ loader \in Loaders
  /\ tag = 8
  /\ fb = NONE
  /\ drawn = NONE
  /\ status = "init"
-----------------------------------------------------------------------------
\* fb_init: the first tag of a framebuffer, or the end of the tags.
ThisTag == loader.tags[tag]

BadMagic ==
  /\ status = "init" /\ ~loader.multiboot
  /\ status' = "panic"
  /\ UNCHANGED screenVars

NextTag ==
  /\ status = "init" /\ loader.multiboot /\ ThisTag.type = "other"
  /\ tag' = tag + Rounded(ThisTag.size)
  /\ UNCHANGED <<loader, fb, drawn, status>>

FoundTag ==
  /\ status = "init" /\ loader.multiboot /\ ThisTag.type \in {"framebuffer", "end"}
  /\ fb' = IF ThisTag.type = "end" THEN NONE ELSE ThisTag.fb
  /\ status' = "up"
  /\ UNCHANGED <<loader, tag, drawn>>
-----------------------------------------------------------------------------
\* The pixels a call draws, as size_t's, and the bytes they are.
BytesPerPixel == fb.bpp \div 8
FbSize == fb.p * fb.h
PixelAt(px) == (px[2] * fb.p + px[1] * BytesPerPixel) % Word
BytesAt(a) == a .. a + 3
BytesOf(pixels) == UNION {BytesAt(PixelAt(px)) : px \in pixels}
Plus(a, b) == (a + b) % Word

\* fb_putchar: rows and columns, up to the first that is not on the screen.
\* A background of -1 is not drawn.
Shown(from, n, limit) == {k \in 0 .. n - 1 : \A j \in 0 .. k : Plus(from, j) < limit}
Putchar(c, x, y, background) ==
  IF c \notin DOMAIN Glyph \/ BytesPerPixel = 0 THEN {}
  ELSE {<<Plus(x, cell[1]), Plus(y, cell[2])>> :
          cell \in {k \in Shown(x, CharWidth, fb.w) \X Shown(y, CharHeight, fb.h) :
                      background \/ k \in Glyph[c]}}

\* fb_puts: text goes on in the next line at the right edge, and ends at the
\* lower one.
Text(x, y, pixels, done) == [x |-> x, y |-> y, pixels |-> pixels, done |-> done]
NewLine(t, x) == Text(x, Plus(t.y, CharHeight), t.pixels, t.done)
PutsOne(t, c, x, background) ==
  IF t.done THEN t
  ELSE IF c = "\r" THEN Text(x, t.y, t.pixels, FALSE)
  ELSE IF c = "\n" THEN NewLine(t, x)
  ELSE LET put == Text(Plus(t.x, CharWidth), t.y, t.pixels \cup Putchar(c, t.x, t.y, background), FALSE)
           moved == IF Plus(put.x, CharWidth) > fb.w THEN NewLine(put, x) ELSE put IN
       Text(moved.x, moved.y, moved.pixels, Plus(moved.y, CharHeight) > fb.h)
TextUpTo(s, x, y, background) ==
  LET text[k \in 0 .. Len(s)] ==
        IF k = 0 THEN Text(x, y, {}, FALSE)
        ELSE PutsOne(text[k - 1], s[k], x, background)
  IN text
Puts(s, x, y, background) == TextUpTo(s, x, y, background)[Len(s)].pixels

\* fb_draw_rect: two rows, then two columns.
RowOf(x, w, y) ==
  IF y < fb.h THEN {<<Plus(x, i), y>> : i \in {j \in 0 .. w - 1 : Plus(x, j) < fb.w}} ELSE {}
ColumnOf(x, y, h) ==
  IF x < fb.w THEN {<<x, Plus(y, i)>> : i \in {j \in 0 .. h - 1 : Plus(y, j) < fb.h}} ELSE {}
DrawRect(x, y, w, h) ==
  RowOf(x, w, y) \cup RowOf(x, w, Plus(y, h - 1))
    \cup ColumnOf(x, y, h) \cup ColumnOf(Plus(x, w - 1), y, h)

DrawPixel(x, y) == IF x < fb.w /\ y < fb.h THEN {<<x, y>>} ELSE {}

\* fb_clear does not go through pixels; one of less than a byte never ends.
ClearBytes == UNION {BytesAt(i) : i \in {j \in 0 .. FbSize - 1 : j % BytesPerPixel = 0}}

Draws(call, bytes) == drawn' = [call |-> call, bytes |-> bytes]
DrawPixels(call, pixels) == Draws(call, BytesOf(pixels)) /\ UNCHANGED status
\* A call changes nothing another depends on: one is looked at.
Draw ==
  /\ status = "up" /\ fb # NONE /\ drawn = NONE
  /\ \/ \E x, y \in Coord, background \in BOOLEAN :
          \/ \E c \in DOMAIN Glyph \cup {"none"} : DrawPixels(<<"putchar">>, Putchar(c, x, y, background))
          \/ \E s \in Strings : DrawPixels(<<"puts">>, Puts(s, x, y, background))
     \/ \E x, y \in Coord, w, h \in Size : DrawPixels(<<"rect", x, y, w, h>>, DrawRect(x, y, w, h))
     \/ \E x, y \in Coord : DrawPixels(<<"pixel", x, y, 1, 1>>, DrawPixel(x, y))
     \/ IF BytesPerPixel = 0
        THEN status' = "hung" /\ UNCHANGED drawn
        ELSE Draws(<<"clear">>, ClearBytes) /\ UNCHANGED status
  /\ UNCHANGED <<loader, tag, fb>>

ScreenNext == BadMagic \/ NextTag \/ FoundTag \/ Draw
-----------------------------------------------------------------------------
\* A size_t that stands for a negative number, and the border of a rectangle
\* on a screen without edges.
Signed(n) == IF n < Word \div 2 THEN n ELSE n - Word
Border(x, y, w, h) ==
  {px \in (x .. x + w - 1) \X (y .. y + h - 1) : px[1] \in {x, x + w - 1} \/ px[2] \in {y, y + h - 1}}
OnScreen == (0 .. fb.w - 1) \X (0 .. fb.h - 1)

\* Drawing writes to the framebuffer only, at most three bytes past it when
\* pixels have less than four; and a rectangle, or a pixel, wherever it is,
\* also to the left of the screen or above it, where its coordinates wrap
\* around, is drawn where it is on the screen, and nowhere else.
DrawsInside ==
  drawn # NONE =>
    /\ drawn.bytes \subseteq 0 .. FbSize - 1 + (IF BytesPerPixel = 4 THEN 0 ELSE 3)
    /\ Len(drawn.call) = 5 =>
         LET x == Signed(drawn.call[2])
             y == Signed(drawn.call[3])
             w == drawn.call[4]
             h == drawn.call[5] IN
         w > 0 /\ h > 0 =>
           drawn.bytes = BytesOf(Border(x, y, w, h) \cap OnScreen)
=============================================================================
