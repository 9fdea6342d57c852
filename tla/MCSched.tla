------------------------------ MODULE MCSched ------------------------------
(* Instance of Sched for TLC: the kernel, the first user process and two    *)
(* forked children, enough for a child to be linked between two others.     *)
EXTENDS Sched
=============================================================================
