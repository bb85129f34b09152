------------------------------ MODULE WorkQueue ------------------------------
(***************************************************************************)
(* The inter-runtime work queue: the table work_items of the shared        *)
(* operational store, the helper functions of work_queue.py that change    *)
(* it, and the tools of the plugin dev_assist_work_queue through which the *)
(* sessions of the specialist runtimes and the orchestrator call them.     *)
(*                                                                         *)
(* Each helper is one committed SQL transaction on a WAL database, so each *)
(* is one atomic action.  A session is one poller iteration of a runtime:  *)
(* it remembers the id of the row it claimed, and nothing else ties it to  *)
(* the row: complete and release take an id and do not look at the owner.  *)
(*                                                                         *)
(* Time is relative.  The code only ever compares claim_lease_until with   *)
(* the present, so a row keeps the ticks left of its lease, and every      *)
(* moment after the lease's end is the single value -1.                    *)
(***************************************************************************)
EXTENDS Integers, FiniteSets

CONSTANTS
  Sessions,    \* poller iterations that may hold a row at the same time
  Roles,       \* target roles the schema's CHECK admits
  RoleOf,      \* the role of the runtime a session belongs to
  Injected,    \* the role the smoke endpoint writes rows for
  Keys,        \* dedup keys the orchestrator uses
  Priorities,  \* priorities it uses; the smallest number is claimed first
  Lease,       \* the ticks a lease lasts (lease_minutes)
  MaxAttempts, \* max_attempts of every row
  AttemptCap,  \* bound: no release counts an attempt beyond it
  MaxItems,    \* bound: rows the table holds
  Overrun,     \* may a session go on with a row after its lease has ended?
  Null         \* SQL NULL, and "no row" in a session's memory

ASSUME WorkQueueAssumption ==
  /\ RoleOf \in [Sessions -> Roles]
  /\ Injected \subseteq Roles
  /\ Priorities \subseteq Nat
  /\ Lease \in Nat
  /\ MaxAttempts \in Nat \ {0}
  /\ AttemptCap \in Nat /\ AttemptCap >= MaxAttempts
  /\ MaxItems \in Nat
  /\ Overrun \in BOOLEAN
  /\ Null \notin Keys /\ Null \notin Roles /\ Null \notin Int

VARIABLES
  items,   \* the table, a row for every id; the rows not inserted are "absent"
  nextId,  \* the id AUTOINCREMENT gives next
  task     \* the row each session believes it holds

vars == <<items, nextId, task>>

Ids == 1 .. MaxItems

Live == {"pending", "claimed", "failed"}
Statuses == Live \cup {"absent", "completed"}

\* payload_json keeps the dedup key a row was written with ("work"); the column
\* dedup_key ("key") is cleared when the row completes.
Row == [role     : Roles \cup {Null},
        work     : Keys \cup {Null},
        key      : Keys \cup {Null},
        priority : Nat,
        status   : Statuses,
        holder   : Roles \cup {Null},
        lease    : (-1 .. Lease) \cup {Null},
        attempts : 0 .. AttemptCap]

NoRow == [role |-> Null, work |-> Null, key |-> Null, priority |-> 0,
          status |-> "absent", holder |-> Null, lease |-> Null, attempts |-> 0]

TypeOK ==
  /\ items \in [Ids -> Row]
  /\ nextId \in 1 .. MaxItems + 1
  /\ task \in [Sessions -> Ids \cup {Null}]

Init ==
  /\ items = [i \in Ids |-> NoRow]
  /\ nextId = 1
  /\ task = [s \in Sessions |-> Null]

-----------------------------------------------------------------------------
(* write_work_item *)

NewRow(r, k, p) ==
  [role |-> r, work |-> k, key |-> k, priority |-> p, status |-> "pending",
   holder |-> Null, lease |-> Null, attempts |-> 0]

\* Mutant: the UPDATE takes the key of a row in any status.
KeyFreedFromAny(k) ==
  [i \in Ids |-> IF k # Null /\ items[i].key = k
                 THEN [items[i] EXCEPT !.key = Null]
                 ELSE items[i]]

\* The UPDATE before the INSERT: completed rows give their key up.
KeyFreed(k) ==
  [i \in Ids |-> IF k # Null /\ items[i].key = k /\ items[i].status = "completed"
                 THEN [items[i] EXCEPT !.key = Null]
                 ELSE items[i]]

\* ON CONFLICT(dedup_key) DO NOTHING: with a row of that key left, none is inserted.
WriteItem(r, k, p) ==
  IF k # Null /\ \E i \in Ids : KeyFreed(k)[i].key = k
  THEN /\ items' = KeyFreed(k)
       /\ UNCHANGED nextId
  ELSE /\ nextId <= MaxItems
       /\ items' = [KeyFreed(k) EXCEPT ![nextId] = NewRow(r, k, p)]
       /\ nextId' = nextId + 1

\* The tool; a role outside Roles is refused by the tool or by the schema's CHECK.
Write == \E r \in Roles, k \in Keys \cup {Null}, p \in Priorities :
           WriteItem(r, k, p) /\ UNCHANGED task

\* smoke_inject: in smoke mode a request to the endpoint beside the orchestrator writes a
\* row for the planner, without a dedup key.
Inject == \E r \in Injected, p \in Priorities : WriteItem(r, Null, p) /\ UNCHANGED task

-----------------------------------------------------------------------------
(* claim_work_item *)

\* Mutant: rows that are claimed are given out as well.
CandidatesWithClaimed(r) ==
  {i \in Ids : items[i].role = r /\ items[i].status \in {"pending", "claimed"}}

Candidates(r) == {i \in Ids : items[i].role = r /\ items[i].status = "pending"}

\* ORDER BY priority, id
Before(i, j) ==
  \/ items[i].priority < items[j].priority
  \/ items[i].priority = items[j].priority /\ i <= j

Claimed(row, r) ==
  [row EXCEPT !.status = "claimed", !.holder = r, !.lease = Lease]

ClaimItem(i, r) ==
  /\ i \in Candidates(r)
  /\ \A j \in Candidates(r) : Before(i, j)
  /\ items' = [items EXCEPT ![i] = Claimed(@, r)]

\* A poller iteration that has no row claims one for its own role.
Claim(s) == \E i \in Ids :
  /\ task[s] = Null
  /\ ClaimItem(i, RoleOf[s])
  /\ task' = [task EXCEPT ![s] = i]
  /\ UNCHANGED nextId

-----------------------------------------------------------------------------
(* complete_work_item *)

\* Mutants: the row keeps its dedup key, or its lease.
CompletedWithKey(row) ==
  IF row.status = "claimed" THEN [row EXCEPT !.status = "completed", !.lease = Null]
                            ELSE row
CompletedWithLease(row) ==
  IF row.status = "claimed" THEN [row EXCEPT !.status = "completed", !.key = Null]
                            ELSE row

Completed(row) ==
  IF row.status = "claimed"
  THEN [row EXCEPT !.status = "completed", !.lease = Null, !.key = Null]
  ELSE row

\* The session is done with the row, also when the tool answers "not claimed".
Complete(s) ==
  /\ task[s] # Null
  /\ items' = [items EXCEPT ![task[s]] = Completed(@)]
  /\ task' = [task EXCEPT ![s] = Null]
  /\ UNCHANGED nextId

-----------------------------------------------------------------------------
(* release_work_item: WHERE id = ?, whatever the row's status *)

\* Mutant: the attempts may reach max_attempts.
ReleasedPastMax(row, increment) ==
  LET n == IF increment THEN row.attempts + 1 ELSE row.attempts
  IN [row EXCEPT !.status = IF increment /\ n > MaxAttempts THEN "failed" ELSE "pending",
                 !.holder = Null, !.lease = Null, !.attempts = n]

Released(row, increment) ==
  LET n == IF increment THEN row.attempts + 1 ELSE row.attempts
  IN [row EXCEPT !.status = IF increment /\ n >= MaxAttempts THEN "failed"
                                                             ELSE "pending",
                 !.holder = Null, !.lease = Null, !.attempts = n]

Release(s, increment) ==
  /\ task[s] # Null
  /\ increment => items[task[s]].attempts < AttemptCap
  /\ items' = [items EXCEPT ![task[s]] = Released(@, increment)]
  /\ task' = [task EXCEPT ![s] = Null]
  /\ UNCHANGED nextId

-----------------------------------------------------------------------------
(* reclaim_expired_leases *)

\* Mutant: the lease's last moment counts as expired.
ExpiredTooSoon(row) == row.status = "claimed" /\ row.lease # Null /\ row.lease <= 0

Expired(row) == row.status = "claimed" /\ row.lease # Null /\ row.lease < 0

Reclaimed(row) ==
  IF Expired(row)
  THEN [row EXCEPT !.status = "pending", !.holder = Null, !.lease = Null]
  ELSE row

Reclaim ==
  /\ items' = [i \in Ids |-> Reclaimed(items[i])]
  /\ UNCHANGED <<nextId, task>>

-----------------------------------------------------------------------------
(* The environment: a runtime dies, and time passes *)

\* The runtime's process ends; systemd starts it again with nothing remembered.
Crash(s) ==
  /\ task[s] # Null
  /\ task' = [task EXCEPT ![s] = Null]
  /\ UNCHANGED <<items, nextId>>

Aged(row) == IF row.lease # Null /\ row.lease >= 0
             THEN [row EXCEPT !.lease = @ - 1]
             ELSE row

\* Without Overrun a session ends its work on a row within the row's lease.
Tick ==
  /\ ~Overrun => \A s \in Sessions : task[s] # Null => items[task[s]].lease > 0
  /\ items' = [i \in Ids |-> Aged(items[i])]
  /\ UNCHANGED <<nextId, task>>

Next ==
  \/ Write
  \/ Inject
  \/ \E s \in Sessions : Claim(s)
  \/ \E s \in Sessions : Complete(s)
  \/ \E s \in Sessions, increment \in BOOLEAN : Release(s, increment)
  \/ Reclaim
  \/ \E s \in Sessions : Crash(s)
  \/ Tick

Spec == Init /\ [][Next]_vars

-----------------------------------------------------------------------------
(* Properties that hold whatever the sessions do *)

\* A key in the column dedup_key belongs to a row that is pending, claimed or
\* failed: the SELECT of write_work_item after a conflict always finds its row,
\* so existing["id"] is never asked of None.
KeyedRowsAreLive ==
  \A i \in Ids : items[i].key # Null =>
    /\ items[i].status \in Live
    /\ items[i].key = items[i].work

\* A claimed row has a lease and the role it was written for as its holder, and
\* no other row has a lease: the sweep's comparison with claim_lease_until never
\* meets a NULL on a claimed row, so no claimed row is out of its sight.
SweepSeesEveryClaim ==
  \A i \in Ids :
    /\ items[i].status = "claimed" <=> items[i].lease # Null
    /\ items[i].status = "claimed" => items[i].holder = items[i].role
    /\ items[i].status \in {"pending", "failed"} => items[i].holder = Null

-----------------------------------------------------------------------------
(* Properties of sessions that end their work within the lease *)

\* The row a session works on is claimed for its role with the lease running, and
\* no other session works on it: the sweep never takes a row from under a session.
SoleHolder ==
  \A s \in Sessions : task[s] # Null =>
    /\ items[task[s]].status = "claimed"
    /\ items[task[s]].holder = RoleOf[s]
    /\ items[task[s]].lease >= 0
    /\ \A t \in Sessions : task[t] = task[s] => t = s

\* A row is failed exactly when its attempts are used up, and no attempt is
\* counted beyond max_attempts.
AttemptsBounded ==
  \A i \in Ids :
    /\ items[i].attempts <= MaxAttempts
    /\ items[i].status = "failed" <=> items[i].attempts = MaxAttempts

\* The key a row was written with is the key of at most one row that is pending,
\* claimed or failed: no unit of work is in the queue twice.
OneLiveRowPerKey ==
  \A i, j \in Ids :
    /\ items[i].work # Null
    /\ items[i].work = items[j].work
    /\ {items[i].status, items[j].status} \subseteq Live
    => i = j

-----------------------------------------------------------------------------
(* The ledger the queue implements for such sessions *)

StageOf == [absent |-> "absent", pending |-> "open", claimed |-> "taken",
            completed |-> "done", failed |-> "dead"]

Ledger == INSTANCE WorkLedger
  WITH Units <- Ids, Nobody <- Null,
       stage <- [i \in Ids |-> StageOf[items[i].status]]

\* Every step of the queue is a step of the ledger or leaves it alone.
ImplementsLedger == Ledger!LSpec

=============================================================================
