--------------------------- MODULE MCEchoServer ---------------------------
(* The instance of EchoServer for TLC. *)
EXTENDS EchoServer, TLC

(* The clients are interchangeable, and the properties are about safety. *)
ClientSymmetry == Permutations(Clients)
=============================================================================
