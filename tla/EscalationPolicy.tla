--------------------------- MODULE EscalationPolicy ---------------------------
(***************************************************************************)
(* The decision of the plugin dev_assist_escalation_policy: what its hook  *)
(* pre_tool_call answers to a tool call of a runtime.  A call is what the  *)
(* predicates of the plugin say of it, each of which is a pure function of *)
(* the tool's name and redacted arguments.                                 *)
(***************************************************************************)

\* evaluate_rules: no deterministic rule matches the call, one does, or one raises.
RuleOutcomes == {"none", "match", "raises"}

\* The deviation rules of a loaded anchor: the first that matches the call has the
\* verdict ESCALATE, or one that lets it proceed; none matches; the matching raises.
ConceptOutcomes == {"escalate", "proceed", "unmatched", "raises"}

\* readOnly is _is_read_only: the tool only reads, or edits the runtime's own memory;
\* inCatalog is _is_within_catalog: the call names a model of the catalog.
Call == [readOnly  : BOOLEAN,
         rule      : RuleOutcomes,
         inCatalog : BOOLEAN,
         concept   : ConceptOutcomes]

\* The concept anchor of a process: the module loads it when it is imported, and again
\* on SIGHUP, where a load that fails leaves the anchor there was.
Anchors == {"unavailable", "loaded"}

Allow == "allow"

\* classify_concept_deviation, of a call that no deterministic rule matches: the
\* verdict PROCEED_OR_RULE_4_DECIDES evaluates the rules again, with the same result.
ConceptTrigger(call, anchor) ==
  IF anchor = "unavailable" THEN "concept:anchor_unavailable"
  ELSE IF call.concept = "proceed" THEN Allow
  ELSE IF call.concept = "unmatched" THEN "concept_deviation:classifier_safety_default"
  ELSE IF call.concept = "raises" THEN "concept_deviation:classifier_error"
  ELSE "concept_deviation"

\* Mutant: a rule engine that raises has matched nothing.
TriggerOpen(call, anchor) ==
  IF call.readOnly \/ call.inCatalog THEN Allow
  ELSE IF call.rule = "match" THEN "deterministic_rule"
  ELSE ConceptTrigger(call, anchor)

\* pre_tool_call: Allow, or the trigger_kind of the block.  The second look at the
\* rule paid:llm_provider_outside_catalog is left out: it is one of the rules that
\* evaluate_rules has found not to match the same arguments.
Trigger(call, anchor) ==
  IF call.readOnly THEN Allow
  ELSE IF call.rule = "raises" THEN "rule_engine_unavailable"
  ELSE IF call.rule = "match" THEN "deterministic_rule"
  ELSE IF call.inCatalog THEN Allow
  ELSE ConceptTrigger(call, anchor)

=============================================================================
