-------------------------------- MODULE MCDb --------------------------------
(* Instance of Db for TLC: two tables of one or two columns, two strings of *)
(* one and two characters; four cells are the largest block, so that rows   *)
(* of one column double their capacity twice before the heap is out.        *)
EXTENDS Db, TLC
CONSTANTS a, b
MCLength == (a :> 1 @@ b :> 2)
=============================================================================
