---------------------------- MODULE MCWorkQueue -----------------------------
(* Instances of WorkQueue for TLC: two sessions of one runtime, and, where   *)
(* the run has three, a session of a second runtime.                         *)
EXTENDS WorkQueue, TLC

CONSTANTS s1, s2, s3, planner, executor, k1, k2

MCRoleOf2 == [s \in {s1, s2} |-> planner]
MCRoleOf3 == [s \in {s1, s2, s3} |-> IF s = s3 THEN executor ELSE planner]

\* The sessions of one runtime are interchangeable.
Symmetry2 == Permutations({s1, s2})
=============================================================================
