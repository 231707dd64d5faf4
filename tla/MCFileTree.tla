----------------------------- MODULE MCFileTree -----------------------------
(* File names "a" and "ab" as 1 and 2: of the second, the first character  *)
(* makes the first.                                                        *)
EXTENDS FileTree

SmallStems == [n \in {1, 2} |-> IF n = 1 THEN <<1>> ELSE <<1, 2>>]
=============================================================================
