------------------------------- MODULE MCFat -------------------------------
(* Instance of Fat for TLC: six clusters of two sectors of two bytes.  The  *)
(* root directory fills its cluster: a file of one byte, a directory with a *)
(* directory in it after a deleted entry, and an empty file after that.     *)
(* Two clusters are free, less than the files and directories can want: a   *)
(* write at 4 is past a directory's only cluster, one at 3 is not.          *)
EXTENDS Fat, TLC

Entry(kind, first, size) == [kind |-> kind, first |-> first, size |-> size]
Skip == Entry("skip", 0, 0)
End == Entry("end", 0, 0)

MCOpenAt == {[cluster |-> 3, index |-> 2], [cluster |-> 2, index |-> 3]}
MCWrites == {<<5, 1>>, <<1, 2>>}

\* The table: clusters 2 (root), 3 and 4 (directories) and 5 (file) are taken.
Fat0(n) == IF n \in 0 .. 5 THEN 268435448 ELSE 0
FatSector0(k) == [e \in 0 .. 3 |-> Fat0(4 * k + e)]

MCDisk ==
  [s \in 1 .. 16 |->
     CASE s \in {1, 3} -> FatSector0(0)
       [] s \in {2, 4} -> FatSector0(1)
       [] s = 5 -> (0 :> Skip @@ 1 :> Entry("file", 5, 1))
       [] s = 6 -> (0 :> Entry("dir", 3, 0) @@ 1 :> Entry("file", 0, 0))
       [] s = 7 -> (0 :> Skip @@ 1 :> Skip)
       [] s = 8 -> (0 :> Entry("dir", 4, 0) @@ 1 :> End)
       [] s \in {9, 10} -> (0 :> Skip @@ 1 :> End)
       [] OTHER -> (0 :> 0 @@ 1 :> 0)]
=============================================================================
