---------------------------- MODULE MCScheduled -----------------------------
(* Instances of Scheduled for TLC. *)
EXTENDS Scheduled

CONSTANTS i1
=============================================================================
