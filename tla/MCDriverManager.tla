-------------------------- MODULE MCDriverManager --------------------------
(* Small instances of DriverManager for TLC. *)
EXTENDS DriverManager, TLC

(* Processes are interchangeable: fork() may return any of them. *)
PidSymmetry == Permutations(Pids)
=============================================================================
