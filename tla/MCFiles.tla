------------------------------ MODULE MCFiles ------------------------------
(* Instance of Files for TLC: two files can be created; a table grows past  *)
(* the end of its block at the second growth; a hole and a forked child fit *)
(* in the bounds.                                                           *)
EXTENDS Files

\* The device and a leaf of each kind of parent; every other permanent vnode
\* behaves like the device.
MCPath == {[node |-> Serial, leaf |-> FALSE]} \cup
          [node : {Root, Ipc, Dev}, leaf : {TRUE}]
=============================================================================
