------------------------------ MODULE MCDisplay ------------------------------
(* Instance of Display for TLC: screens of three by three pixels and of     *)
(* two by four, with and without padding, at 32, 24, 16 and 4 bits a pixel; *)
(* glyphs of two by two; pages of 16 bytes, numbers of 512 values.          *)
EXTENDS Display, TLC

Screen(w, h, p, bpp) == [w |-> w, h |-> h, p |-> p, bpp |-> bpp]
Modes == {Screen(3, 3, 12, 32), Screen(3, 3, 16, 32), Screen(2, 4, 7, 24), Screen(3, 3, 10, 24),
          Screen(2, 4, 4, 16), Screen(2, 4, 4, 4)}
Tag(type, size, mode) == [type |-> type, size |-> size, fb |-> mode]
Passed(mode) ==
  [multiboot |-> TRUE,
   tags |-> 8 :> Tag("other", 9, NONE) @@ 24 :> Tag("framebuffer", 38, mode)]
MCLoaders ==
  {Passed(m) : m \in Modes}
    \cup {[multiboot |-> b, tags |-> 8 :> Tag("other", 16, NONE) @@ 24 :> Tag("end", 8, NONE)] : b \in BOOLEAN}
MCGlyph == "a" :> {<<0, 0>>, <<1, 1>>} @@ "b" :> {<<1, 0>>}
MCStrings == {<<"a", "b", "a">>, <<"a", "\n", "b">>, <<"b", "\r", "a">>, <<"none", "a", "\n", "b", "a">>}
=============================================================================
