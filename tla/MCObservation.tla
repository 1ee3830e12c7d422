---------------------------- MODULE MCObservation ----------------------------
(* Instances of Observation for TLC. *)
EXTENDS Observation

CONSTANTS d1, d2, s1, s2
=============================================================================
