-------------------------- MODULE MCFounderChannel --------------------------
(* Instances of FounderChannel for TLC. *)
EXTENDS FounderChannel, TLC

CONSTANTS telegram, i1, i2, c1, c2, f1, f2, p1

\* The only adapter there is.
OnTelegram == [i \in Identities |-> telegram]
InTelegram == [c \in Chats |-> telegram]

Symmetric == Permutations(Founders) \cup Permutations(Identities) \cup Permutations(Chats)
=============================================================================
