--------------------------- MODULE MCDatabaseSetup ---------------------------
(* An instance of DatabaseSetup for TLC. *)
EXTENDS DatabaseSetup, TLC

CONSTANTS h1, h2

HandlerSymmetry == Permutations(Handlers)
=============================================================================
