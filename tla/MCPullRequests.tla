---------------------------- MODULE MCPullRequests ----------------------------
(* Instances of PullRequests for TLC. *)
EXTENDS PullRequests, TLC

CONSTANTS p1, r1, r2, t1, t2, b1, b2, b3, b4

\* Repositories, tickets and the names that are accepted are interchangeable.
Symmetric ==
  Permutations(Repos) \cup Permutations(Tickets) \cup Permutations(Branches \ (Refused \cup Flags))
=============================================================================
