--------------------------- MODULE MCRuntimeStart ---------------------------
(* An instance of RuntimeStart for TLC. *)
EXTENDS RuntimeStart

CONSTANTS orchestrator, planner, prompt

\* Every file is as check_runtime wants it; Hermes can be imported.
MCFilesOf ==
  [p \in {orchestrator, planner} |->
    [skills |-> TRUE, link |-> "store", state_db |-> FALSE, token |-> TRUE,
     hermes |-> TRUE,
     disabled |-> IF p = orchestrator THEN {"skills"} ELSE {"delegation", "skills"},
     manifest |-> prompt, prompt |-> prompt]]
=============================================================================
