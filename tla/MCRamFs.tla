------------------------------ MODULE MCRamFs ------------------------------
(* Instance of RamFs for TLC: two descriptors, chunks of two bytes, calls   *)
(* of up to two chunks, blocks of two and of four bytes, offsets up to      *)
(* seven.  Ends of 5 to 8 run out of memory, an end of 9 never ends.        *)
EXTENDS RamFs
=============================================================================
