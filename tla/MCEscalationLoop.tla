-------------------------- MODULE MCEscalationLoop ---------------------------
(* Instances of EscalationLoop for TLC: work whose call a rule matches, or   *)
(* the rule engine raises on, work on a model of the catalog, and work whose *)
(* call only a loaded anchor lets through.                                   *)
EXTENDS EscalationLoop, TLC

CONSTANTS s1, s2, executor, gated, plain, broken, listed

MCRoleOf == [s \in Sessions |-> executor]

OpenCall == [readOnly |-> FALSE, rule |-> "none", inCatalog |-> FALSE,
             concept |-> "proceed"]

MCCallOf == [k \in Keys |->
  CASE k = gated  -> [OpenCall EXCEPT !.rule = "match"]
    [] k = broken -> [OpenCall EXCEPT !.rule = "raises"]
    [] k = listed -> [OpenCall EXCEPT !.inCatalog = TRUE]
    [] k = plain  -> OpenCall]

\* The sessions of the runtime are interchangeable.
Symmetric == Permutations({s1, s2})
=============================================================================
