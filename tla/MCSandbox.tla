------------------------------ MODULE MCSandbox ------------------------------
(* Instances of Sandbox for TLC. *)
EXTENDS Sandbox, TLC

CONSTANTS plain, visual

\* One work item that Docker can serve, and one that asks for a GPU as well.
RequiresOfEach == (plain :> {"FILE_RW", "EXEC"}) @@ (visual :> {"EXEC", "GPU"})

Symmetric == Permutations(Containers) \cup Permutations(Sessions)
=============================================================================
