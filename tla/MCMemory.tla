------------------------------ MODULE MCMemory ------------------------------
(* Instance of Memory for TLC: four pages for the program, two entries a    *)
(* table, a first table of the heap that is shared and one that is not,     *)
(* and five frames left for the program when it starts.                     *)
EXTENDS Memory
=============================================================================
