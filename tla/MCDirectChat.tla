---------------------------- MODULE MCDirectChat ----------------------------
(* Instances of DirectChat for TLC. *)
EXTENDS DirectChat

CONSTANTS t1
=============================================================================
