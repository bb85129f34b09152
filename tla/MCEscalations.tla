--------------------------- MODULE MCEscalations ----------------------------
(* Instances of Escalations for TLC. *)
EXTENDS Escalations

CONSTANTS p1, p2
=============================================================================
