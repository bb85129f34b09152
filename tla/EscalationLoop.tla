---------------------------- MODULE EscalationLoop ----------------------------
(***************************************************************************)
(* The work queue, the escalation policy and the table of escalations      *)
(* together: a runtime claims a work item and makes the tool call the item *)
(* calls for; the hook allows it or writes a question for the Founder and  *)
(* blocks it; a blocked runtime gives the item back and polls again; the   *)
(* Founder answers.  How the questions reach the Founder is the module     *)
(* Escalations' own matter: here no surface iteration runs, and he may     *)
(* answer every question in the table.                                     *)
(***************************************************************************)
EXTENDS WorkQueue, EscalationPolicy

CONSTANTS
  CallOf,        \* the tool call that the work with a key makes
  Urgency,       \* the urgency the plugin gives its questions
  MaxRows,       \* bound: questions the table holds
  MaxAge         \* the ticks a question may be open

ASSUME EscalationLoopAssumption ==
  /\ CallOf \in [Keys -> Call]
  /\ Urgency \in Nat /\ MaxRows \in Nat /\ MaxAge \in Nat

VARIABLES
  rows,     \* the table escalations
  nextRow,  \* the id its AUTOINCREMENT gives next
  anchor,   \* the concept anchor the plugin has in the process of each session
  verdict,  \* what the hook answered each session for the row it holds
  ran       \* the work items whose tool call was made

loopvars == <<items, nextId, task, rows, nextRow, anchor, verdict, ran>>
table == <<rows, nextRow>>

E == INSTANCE Escalations
       WITH Pollers <- {}, Urgencies <- {Urgency}, Origins <- Ids, Limit <- 1,
            Cooldown <- 0, next <- nextRow, batch <- [p \in {} |-> {}],
            sending <- [p \in {} |-> Null], told <- [i \in 1 .. MaxRows |-> Null]

LoopTypeOK ==
  /\ TypeOK
  /\ E!TypeOK
  /\ anchor \in [Sessions -> Anchors]
  /\ verdict \in [Sessions -> {"none", "allowed", "blocked"}]
  /\ ran \subseteq Ids

\* The anchor file may be missing or malformed when a process imports the plugin.
LoopInit ==
  /\ Init
  /\ E!Init
  /\ anchor \in [Sessions -> Anchors]
  /\ verdict = [s \in Sessions |-> "none"]
  /\ ran = {}

-----------------------------------------------------------------------------
(* The queue's steps that leave the questions alone *)

Dispatch ==
  /\ \E r \in Roles, k \in Keys, p \in Priorities : WriteItem(r, k, p)
  /\ UNCHANGED <<task, table, anchor, verdict, ran>>

Poll(s) == Claim(s) /\ UNCHANGED <<table, anchor, verdict, ran>>

Sweep == Reclaim /\ UNCHANGED <<table, anchor, verdict, ran>>

Forget(s) == verdict' = [verdict EXCEPT ![s] = "none"]

\* A new process, in or out of a session's work, imports the plugin anew: what was
\* loaded is gone, and the file may by now be missing, malformed or in place.
Restart(s) ==
  /\ Crash(s) \/ (task[s] = Null /\ UNCHANGED <<items, nextId, task>>)
  /\ \E a \in Anchors : anchor' = [anchor EXCEPT ![s] = a]
  /\ Forget(s)
  /\ UNCHANGED <<table, ran>>

-----------------------------------------------------------------------------
(* pre_tool_call *)

CallFor(s) == CallOf[items[task[s]].work]

\* _write_escalation_row, inside "try: ... except Exception: pass": a write that the
\* store refuses leaves the call blocked and nobody asked.
Ask(s) ==
  \/ E!WriteRow(Urgency, task[s])
  \/ UNCHANGED table

\* The hook allows the call, and the dispatcher makes it.
Allowed(s) ==
  /\ task[s] # Null /\ verdict[s] = "none"
  /\ Trigger(CallFor(s), anchor[s]) = Allow
  /\ verdict' = [verdict EXCEPT ![s] = "allowed"]
  /\ ran' = ran \cup {task[s]}
  /\ UNCHANGED <<items, nextId, task, table, anchor>>

\* The hook blocks the call, whatever was answered to an earlier question.
Blocked(s) ==
  /\ task[s] # Null /\ verdict[s] = "none"
  /\ Trigger(CallFor(s), anchor[s]) # Allow
  /\ Ask(s)
  /\ verdict' = [verdict EXCEPT ![s] = "blocked"]
  /\ UNCHANGED <<items, nextId, task, anchor, ran>>

-----------------------------------------------------------------------------
(* The session ends *)

\* After the call: the work is done, or failed and counts as an attempt.
Finish(s) ==
  /\ verdict[s] = "allowed"
  /\ Complete(s) \/ Release(s, TRUE)
  /\ Forget(s)
  /\ UNCHANGED <<table, anchor, ran>>

\* Mutant: a block counts as an attempt.
GiveBackCounted(s) ==
  /\ verdict[s] = "blocked"
  /\ Release(s, TRUE)
  /\ Forget(s)
  /\ UNCHANGED <<table, anchor, ran>>

\* After a block the role prompt has the runtime give the item back.
GiveBack(s) ==
  /\ verdict[s] = "blocked"
  /\ Release(s, FALSE)
  /\ Forget(s)
  /\ UNCHANGED <<table, anchor, ran>>

-----------------------------------------------------------------------------
(* The Founder, the timers, and the anchor *)

Answer(i, v) == E!Resolve(i, v) /\ UNCHANGED <<items, nextId, task, anchor, verdict, ran>>

Expire == E!ExpireOld /\ UNCHANGED <<items, nextId, task, anchor, verdict, ran>>

Clock == Tick /\ E!Tick /\ UNCHANGED <<anchor, verdict, ran>>

\* Mutant: the handler stores what it could read of a malformed file.
ReloadHalf(s) ==
  /\ anchor' = [anchor EXCEPT ![s] = "malformed"]
  /\ UNCHANGED <<items, nextId, task, table, verdict, ran>>

\* SIGHUP: load_anchor; when it raises, the handler passes and the anchor stays.
Reload(s) ==
  /\ anchor' = [anchor EXCEPT ![s] = "loaded"]
  /\ UNCHANGED <<items, nextId, task, table, verdict, ran>>

LoopNext ==
  \/ Dispatch
  \/ \E s \in Sessions : Poll(s)
  \/ \E s \in Sessions : Allowed(s)
  \/ \E s \in Sessions : Blocked(s)
  \/ \E s \in Sessions : Finish(s)
  \/ \E s \in Sessions : GiveBack(s)
  \/ \E s \in Sessions : Restart(s)
  \/ Sweep
  \/ \E i \in 1 .. MaxRows, v \in E!Verdicts : Answer(i, v)
  \/ Expire
  \/ Clock
  \/ \E s \in Sessions : Reload(s)

LoopSpec == LoopInit /\ [][LoopNext]_loopvars

-----------------------------------------------------------------------------
(* Properties *)

\* The gate fails closed, whatever crashes, is swept, reloaded or refused: work is done
\* or failed only after its call was made, and no call is made that a deterministic rule
\* matches, that the rule engine or the classifier raises on, or that is a deviation.
SettledWorkPassedTheGate ==
  \A i \in Ids : items[i].status \in {"completed", "failed"} =>
    LET call == CallOf[items[i].work]
    IN /\ i \in ran
       /\ \/ call.readOnly
          \/ call.rule = "none" /\ (call.inCatalog \/ call.concept = "proceed")

\* While a question is open its work item is still in the queue, with no attempt
\* used up, unless a later anchor let the call through: the answer is never about
\* work that failed or went away because of the block itself.
AskedWorkWaits ==
  \A i \in 1 .. MaxRows : rows[i].status \in E!Open =>
    \/ rows[i].origin \in ran
    \/ /\ items[rows[i].origin].status \in {"pending", "claimed"}
       /\ items[rows[i].origin].attempts = 0

=============================================================================
