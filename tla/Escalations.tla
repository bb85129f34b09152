----------------------------- MODULE Escalations -----------------------------
(***************************************************************************)
(* The questions the runtimes put to the Founder: the table escalations,   *)
(* the helper functions of escalations.py that change it, and the skill    *)
(* dev_assist_escalation_surface of the Orchestrator, whose cron iteration *)
(* reads a batch of rows, sends each to Telegram and then marks it.        *)
(*                                                                         *)
(* The helpers are atomic; the iteration is not: rows are resolved, expire *)
(* and are written between the read, each send and each mark, the send     *)
(* may reach the Founder and still raise, and the process may end at any   *)
(* point.                                                                  *)
(*                                                                         *)
(* Time is relative: a row keeps the ticks since created_at and since      *)
(* surfaced_at, each capped one tick beyond the limit it is compared with. *)
(***************************************************************************)
EXTENDS Integers, FiniteSets

CONSTANTS
  Pollers,    \* iterations of the surface skill that may overlap
  Urgencies,  \* ranks of the urgencies used: high is 1, medium 2, low 3
  Origins,    \* work items a row may name as originating_work_item_id
  MaxRows,    \* bound: rows the table holds
  Limit,      \* rows a batch has at most
  Cooldown,   \* the ticks of the re-surface cooldown (5 minutes in the code)
  MaxAge,     \* the ticks an open row may be old (max_age_days)
  Null        \* SQL NULL, "no row", and "not yet"

ASSUME EscalationsAssumption ==
  /\ Urgencies \subseteq Nat
  /\ MaxRows \in Nat
  /\ Limit \in Nat \ {0}
  /\ Cooldown \in Nat
  /\ MaxAge \in Nat
  /\ Null \notin Int /\ Null \notin Origins

VARIABLES
  rows,     \* the table; the rows not inserted are "absent"
  next,     \* the id AUTOINCREMENT gives next
  batch,    \* what is left of the list each iteration read
  sending,  \* the row an iteration has sent and not yet marked
  told      \* Telegram: the ticks since the Founder last got a prompt for the row

vars == <<rows, next, batch, sending, told>>

Ids == 1 .. MaxRows

Open == {"pending", "surfaced"}
Verdicts == {"approved", "denied"}
Closed == Verdicts \cup {"expired"}

Row == [status   : Open \cup Closed \cup {"absent"},
        urgency  : Nat,
        origin   : Origins \cup {Null},
        age      : 0 .. MaxAge + 1,
        surfaced : (0 .. Cooldown + 1) \cup {Null}]

NoRow == [status |-> "absent", urgency |-> 0, origin |-> Null, age |-> 0,
          surfaced |-> Null]

TypeOK ==
  /\ rows \in [Ids -> Row]
  /\ next \in 1 .. MaxRows + 1
  /\ batch \in [Pollers -> SUBSET Ids]
  /\ sending \in [Pollers -> Ids \cup {Null}]
  /\ told \in [Ids -> (0 .. Cooldown + 1) \cup {Null}]

Init ==
  /\ rows = [i \in Ids |-> NoRow]
  /\ next = 1
  /\ batch = [p \in Pollers |-> {}]
  /\ sending = [p \in Pollers |-> Null]
  /\ told = [i \in Ids |-> Null]

poller == <<batch, sending>>

-----------------------------------------------------------------------------
(* write_escalation *)

\* Mutant: the INSERT names no created_at.
NewRowUndated(u, o) == [status |-> "pending", urgency |-> u, origin |-> o, age |-> Null,
                        surfaced |-> Null]

NewRow(u, o) == [status |-> "pending", urgency |-> u, origin |-> o, age |-> 0,
                 surfaced |-> Null]

WriteRow(u, o) ==
  /\ next <= MaxRows
  /\ rows' = [rows EXCEPT ![next] = NewRow(u, o)]
  /\ next' = next + 1

Write(u, o) == WriteRow(u, o) /\ UNCHANGED <<poller, told>>

-----------------------------------------------------------------------------
(* read_pending_escalations, at the start of surface_pending *)

Eligible ==
  {i \in Ids : /\ rows[i].status \in Open
               /\ rows[i].surfaced = Null \/ rows[i].surfaced > Cooldown}

\* ORDER BY urgency, id
Ahead(i, j) ==
  \/ rows[i].urgency < rows[j].urgency
  \/ rows[i].urgency = rows[j].urgency /\ i < j

\* LIMIT: the rows with fewer than Limit rows ahead of them.
Chosen(S) == {i \in S : Cardinality({j \in S : Ahead(j, i)}) < Limit}

Read(p) ==
  /\ batch[p] = {} /\ sending[p] = Null
  /\ Eligible # {}
  /\ batch' = [batch EXCEPT ![p] = Chosen(Eligible)]
  /\ UNCHANGED <<rows, next, sending, told>>

-----------------------------------------------------------------------------
(* surface_pending: the loop over the batch *)

\* The row the loop has come to; urgency and id of a row never change.
IsNext(p, i) ==
  /\ sending[p] = Null
  /\ i \in batch[p]
  /\ \A j \in batch[p] \ {i} : Ahead(i, j)

\* The router delivers the prompt and answers with the message's id.
Send(p) == \E i \in Ids :
  /\ IsNext(p, i)
  /\ told' = [told EXCEPT ![i] = 0]
  /\ sending' = [sending EXCEPT ![p] = i]
  /\ UNCHANGED <<rows, next, batch>>

\* Mutant: the warning is logged and the row is marked all the same.
SendFailsAndMarks(p, delivered) == \E i \in Ids :
  /\ IsNext(p, i)
  /\ told' = IF delivered THEN [told EXCEPT ![i] = 0] ELSE told
  /\ sending' = [sending EXCEPT ![p] = i]
  /\ UNCHANGED <<rows, next, batch>>

\* The router raises, before or after Telegram delivered the prompt: the loop
\* logs a warning and goes on with the next row.
SendFails(p, delivered) == \E i \in Ids :
  /\ IsNext(p, i)
  /\ told' = IF delivered THEN [told EXCEPT ![i] = 0] ELSE told
  /\ batch' = [batch EXCEPT ![p] = @ \ {i}]
  /\ UNCHANGED <<rows, next, sending>>

\* Mutant: UPDATE ... WHERE id = ?, without the row's status.
MarkedAnyway(row) == [row EXCEPT !.status = "surfaced", !.surfaced = 0]

\* mark_escalation_surfaced
Marked(row) == IF row.status = "pending"
               THEN [row EXCEPT !.status = "surfaced", !.surfaced = 0]
               ELSE row

\* The iteration is done with the row it sent.
Sent(p) ==
  /\ sending[p] # Null
  /\ batch' = [batch EXCEPT ![p] = @ \ {sending[p]}]
  /\ sending' = [sending EXCEPT ![p] = Null]
  /\ UNCHANGED <<next, told>>

Mark(p) ==
  /\ Sent(p)
  /\ rows' = [rows EXCEPT ![sending[p]] = Marked(@)]

\* The database refuses the UPDATE: the prompt is out, the row as it was.
MarkFails(p) == Sent(p) /\ UNCHANGED rows

\* The Orchestrator's process ends and systemd starts it again.
Crash(p) ==
  /\ batch[p] # {} \/ sending[p] # Null
  /\ batch' = [batch EXCEPT ![p] = {}]
  /\ sending' = [sending EXCEPT ![p] = Null]
  /\ UNCHANGED <<rows, next, told>>

-----------------------------------------------------------------------------
(* resolve_escalation *)

Resolve(i, verdict) ==
  /\ rows[i].status \in Open
  /\ rows' = [rows EXCEPT ![i].status = verdict]
  /\ UNCHANGED <<next, poller, told>>

-----------------------------------------------------------------------------
(* expire_old_escalations *)

\* Mutant: rows that were never surfaced do not expire.
OldIfSurfaced(row) == row.status = "surfaced" /\ row.age > MaxAge

Old(row) == row.status \in Open /\ row.age > MaxAge

ExpireOld ==
  /\ \E i \in Ids : Old(rows[i])
  /\ rows' = [i \in Ids |-> IF Old(rows[i]) THEN [rows[i] EXCEPT !.status = "expired"]
                                            ELSE rows[i]]
  /\ UNCHANGED <<next, poller, told>>

-----------------------------------------------------------------------------
(* Time passes *)

Later(n, limit) == IF n = Null \/ n > limit THEN n ELSE n + 1

Aged(row) == IF row.status \in Open
             THEN [row EXCEPT !.age = Later(@, MaxAge),
                              !.surfaced = Later(@, Cooldown)]
             ELSE row

Tick ==
  /\ rows' = [i \in Ids |-> Aged(rows[i])]
  /\ told' = [i \in Ids |-> Later(told[i], Cooldown)]
  /\ UNCHANGED <<next, poller>>

Next ==
  \/ \E u \in Urgencies, o \in Origins \cup {Null} : Write(u, o)
  \/ \E p \in Pollers : Read(p)
  \/ \E p \in Pollers : Send(p)
  \/ \E p \in Pollers, delivered \in BOOLEAN : SendFails(p, delivered)
  \/ \E p \in Pollers : Mark(p)
  \/ \E p \in Pollers : MarkFails(p)
  \/ \E p \in Pollers : Crash(p)
  \/ \E i \in Ids, verdict \in Verdicts : Resolve(i, verdict)
  \/ ExpireOld
  \/ Tick

Spec == Init /\ [][Next]_vars

\* Time goes on and the sweep runs on its timer; nothing is assumed of the
\* surface iterations and of the Founder.
SweepSpec == Spec /\ WF_vars(Tick) /\ WF_vars(ExpireOld)

-----------------------------------------------------------------------------
(* Properties *)

\* What is approved, denied or expired stays so: the mark that follows a send
\* never reopens a row that was closed while its prompt was on the way.
ClosedIsFinal ==
  [][\A i \in Ids : rows[i].status \in Closed =>
       rows'[i].status = rows[i].status]_vars

\* A row that says it was surfaced did reach the Founder, however the sends and
\* marks of the iterations fail and interleave; a pending row does not say so.
SurfacedWasTold ==
  \A i \in Ids :
    /\ rows[i].surfaced # Null => told[i] # Null
    /\ rows[i].status = "pending" => rows[i].surfaced = Null
    /\ rows[i].status = "surfaced" => rows[i].surfaced # Null

\* No question stays open for ever, also when none of them is ever surfaced.
QuestionsClose ==
  \A i \in Ids : rows[i].status \in Open ~> rows[i].status \in Closed

=============================================================================
