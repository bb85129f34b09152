----------------------------- MODULE WorkLedger -----------------------------
(***************************************************************************)
(* What the work queue promises to the runtimes, without rows, leases,     *)
(* priorities or keys: a unit of work is open until one session takes it,  *)
(* only the session that took it ends it, work whose session is gone is    *)
(* opened again, and work that is done or dead stays so.                   *)
(***************************************************************************)
CONSTANTS
  Units,     \* the units of work
  Sessions,  \* the sessions that do them
  Nobody     \* no unit, in a session's memory

VARIABLES
  stage,  \* absent, open, taken, done or dead
  task    \* the unit each session works on

lvars == <<stage, task>>

LInit ==
  /\ stage = [u \in Units |-> "absent"]
  /\ task = [s \in Sessions |-> Nobody]

Submit(u) ==
  /\ stage[u] = "absent"
  /\ stage' = [stage EXCEPT ![u] = "open"]
  /\ UNCHANGED task

Take(s, u) ==
  /\ task[s] = Nobody
  /\ stage[u] = "open"
  /\ stage' = [stage EXCEPT ![u] = "taken"]
  /\ task' = [task EXCEPT ![s] = u]

\* The session ends its work: done, given back, or given up for good.
End(s, outcome) ==
  /\ task[s] # Nobody
  /\ stage[task[s]] = "taken"
  /\ stage' = [stage EXCEPT ![task[s]] = outcome]
  /\ task' = [task EXCEPT ![s] = Nobody]

Lose(s) ==
  /\ task[s] # Nobody
  /\ task' = [task EXCEPT ![s] = Nobody]
  /\ UNCHANGED stage

\* Only work no session is at is opened again, any number of units at once.
Recover(lost) ==
  /\ \A u \in lost : stage[u] = "taken" /\ \A s \in Sessions : task[s] # u
  /\ stage' = [u \in Units |-> IF u \in lost THEN "open" ELSE stage[u]]
  /\ UNCHANGED task

LNext ==
  \/ \E u \in Units : Submit(u)
  \/ \E s \in Sessions, u \in Units : Take(s, u)
  \/ \E s \in Sessions, outcome \in {"done", "open", "dead"} : End(s, outcome)
  \/ \E s \in Sessions : Lose(s)
  \/ \E lost \in SUBSET Units : Recover(lost)

LSpec == LInit /\ [][LNext]_lvars

=============================================================================
