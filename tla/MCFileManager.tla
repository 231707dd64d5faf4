--------------------------- MODULE MCFileManager ---------------------------
(* The file manager started in a root directory with one directory and one *)
(* file.  A directory that gets the path /1/1 cannot be read.              *)
EXTENDS FileManager

SmallTree == [q \in {<<>>, <<1>>, <<2>>} |-> IF q = <<2>> THEN File(<<>>) ELSE Dir]
Locked == {<<1, 1>>}

(* Name 2 has two characters, of which the first is name 1. *)
SmallStems == [n \in {1, 2} |-> IF n = 1 THEN <<1>> ELSE <<1, 2>>]
=============================================================================
