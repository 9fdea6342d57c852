---------------------------- MODULE AddressSpace ----------------------------
(***************************************************************************)
(* What the memory system promises a program: each of its pages is absent   *)
(* or holds a value of its own, a page it maps is zero, and a value stays   *)
(* until the program, or a system call on its behalf, changes it.           *)
(***************************************************************************)
CONSTANTS
  Page,
  Value,
  Zero,    \* the value of a page that has just been mapped
  Absent   \* not a value: there is no page

VARIABLE memory   \* [Page -> Value \cup {Absent}]

TypeOK == memory \in [Page -> Value \cup {Absent}]

Init == memory = [p \in Page |-> Absent]

Map(p) == memory' = [memory EXCEPT ![p] = Zero]

Unmap(p) == memory' = [memory EXCEPT ![p] = Absent]

\* A value for some pages, all of them present.
Put(S, v) ==
  /\ \A p \in S : memory[p] # Absent
  /\ memory' = [p \in Page |-> IF p \in S THEN v ELSE memory[p]]

Next ==
  \/ \E p \in Page : Map(p) \/ Unmap(p)
  \/ \E S \in SUBSET Page, v \in Value : Put(S, v)

Spec == Init /\ [][Next]_memory
=============================================================================
