--------------------------- MODULE MCSessionLease ---------------------------
(* Instances of SessionLease for TLC. *)
EXTENDS SessionLease

CONSTANTS p1, p2, p3

\* One runner dispatches writers; the others come for its lease.
OneSpawns == [p \in Runners |-> IF p = p1 THEN 2 ELSE 0]

\* All runners on one machine, or one of them on another.
OneOrTwoMachines == {{}, {p3}}
=============================================================================
