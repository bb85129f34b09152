-------------------------- MODULE MCProgressReports --------------------------
(* Instances of ProgressReports for TLC: chat keys in the order a, b, c, d. *)
EXTENDS ProgressReports

CONSTANTS a, b, c, d, t1, t2

MCRank == [p \in Projects |-> CASE p = a -> 1 [] p = b -> 2 [] p = c -> 3 [] p = d -> 4]
=============================================================================
