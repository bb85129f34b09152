---------------------------- MODULE MCFounderChat ----------------------------
(* Instances of FounderChat for TLC. *)
EXTENDS FounderChat, TLC

CONSTANTS c1, u1, u2, q1, q2

Text(approval, rejection, clarification, durable) ==
  [approval |-> approval, rejection |-> rejection, clarification |-> clarification,
   question |-> FALSE, durable |-> durable]

\* A durable yes, a yes that is also a no, a request to explain, a durable answer, small talk.
SomeTexts == { Text(TRUE, FALSE, FALSE, TRUE), Text(TRUE, TRUE, FALSE, FALSE),
               Text(FALSE, FALSE, TRUE, TRUE), Text(FALSE, FALSE, FALSE, TRUE) }

\* The chat is paired with the second user.
PairedSecond == [c \in Chats |-> u2]

Symmetric == Permutations(Questions)
=============================================================================
