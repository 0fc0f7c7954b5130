--------------------------- MODULE MCDatabaseKey ----------------------------
(* Instances of DatabaseKey for TLC. *)
EXTENDS DatabaseKey

CONSTANTS a1, a2, m1
=============================================================================
