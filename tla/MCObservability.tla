--------------------------- MODULE MCObservability ---------------------------
(* Instances of Observability for TLC. *)
EXTENDS Observability, TLC

Symmetric == Permutations(Items) \cup Permutations(Tasks)
=============================================================================
