--------------------------- MODULE ProgressReports ---------------------------
(***************************************************************************)
(* The reports on the Founder's projects: the skill                        *)
(* dev_assist_progress_report of the Orchestrator, whose cron iteration    *)
(* goes through the projects, and the table scheduled_progress, where      *)
(* progress_scheduling.py keeps when each of them is due.                  *)
(*                                                                         *)
(* An iteration is given the present once, as now_iso, and uses it to the  *)
(* end: to decide what is due, and to write next_report_at.  It asks       *)
(* GitHub and sends a report between reading a row and writing it; another *)
(* iteration may go through the same projects meanwhile.                   *)
(*                                                                         *)
(* Time is relative: a row keeps the ticks until next_report_at, which are *)
(* negative when it has passed, and an iteration the ticks since its       *)
(* now_iso.                                                                *)
(***************************************************************************)
EXTENDS Integers

CONSTANTS
  Projects,     \* the projects of the Founder
  Rank,         \* the order of their chat keys
  Iterations,   \* iterations of the skill that may overlap
  Interval,     \* the ticks between two reports (60 minutes in the code)
  MaxRun,       \* bound: the ticks an iteration takes at most
  MaxFailures,  \* bound: passing failures of GitHub, Telegram, the store, a process
  Unreachable,  \* projects whose pull requests GitHub never answers with
  Refused,      \* projects whose report Telegram never takes
  Null          \* no row, and "never"

ASSUME ProgressReportsAssumption ==
  /\ Rank \in [Projects -> Nat]
  /\ \A p, q \in Projects : Rank[p] = Rank[q] => p = q
  /\ Interval \in Nat \ {0}
  /\ MaxRun \in Nat \ {0}
  /\ MaxFailures \in Nat
  /\ Unreachable \subseteq Projects /\ Refused \subseteq Projects
  /\ Null \notin Int

VARIABLES
  bound,     \* the projects that have a row in project_bindings
  left,      \* of each project, the ticks until its next_report_at
  stage,     \* where each iteration is
  todo,      \* the projects it still has to go through
  elapsed,   \* the ticks since its now_iso
  sent,      \* Telegram: the ticks since the Founder last got a report
  failures

vars == <<bound, left, stage, todo, elapsed, sent, failures>>

TypeOK ==
  /\ bound \subseteq Projects
  /\ left \in [Projects -> (-MaxRun .. Interval) \cup {Null}]
  /\ stage \in [Iterations -> {"idle", "looping", "sending", "marking"}]
  /\ todo \in [Iterations -> SUBSET Projects]
  /\ elapsed \in [Iterations -> 0 .. MaxRun]
  /\ sent \in [Projects -> (0 .. Interval + MaxRun) \cup {Null}]
  /\ failures \in 0 .. MaxFailures

Init ==
  /\ bound = {}
  /\ left = [p \in Projects |-> Null]
  /\ stage = [t \in Iterations |-> "idle"]
  /\ todo = [t \in Iterations |-> {}]
  /\ elapsed = [t \in Iterations |-> 0]
  /\ sent = [p \in Projects |-> Null]
  /\ failures = 0

-----------------------------------------------------------------------------
(* tick *)

\* upsert_project_binding: the Orchestrator takes on a project.
Bind(p) ==
  /\ p \notin bound
  /\ bound' = bound \cup {p}
  /\ UNCHANGED <<left, stage, todo, elapsed, sent, failures>>

\* list_project_bindings; with no project there is nothing to go through.
Begin(t) ==
  /\ stage[t] = "idle" /\ bound # {}
  /\ stage' = [stage EXCEPT ![t] = "looping"]
  /\ todo' = [todo EXCEPT ![t] = bound]
  /\ elapsed' = [elapsed EXCEPT ![t] = 0]
  /\ UNCHANGED <<bound, left, sent, failures>>

\* The project the loop has come to.
IsNext(t, p) == p \in todo[t] /\ \A q \in todo[t] : Rank[p] <= Rank[q]

\* is_report_due: no row, or now_iso has reached next_report_at.  The code compares the
\* two as strings: for stamps of one offset and one precision, as moments.
IsDue(t, p) == left[p] # Null => left[p] + elapsed[t] <= 0

\* The loop goes on with the next project; or the exception leaves tick, and with it
\* what was still to do.
GoOn(t, p) ==
  /\ stage' = [stage EXCEPT ![t] = "looping"]
  /\ todo' = [todo EXCEPT ![t] = @ \ {p}]
  /\ UNCHANGED <<bound, elapsed>>

End(t) ==
  /\ stage' = [stage EXCEPT ![t] = "idle"]
  /\ todo' = [todo EXCEPT ![t] = {}]
  /\ elapsed' = [elapsed EXCEPT ![t] = 0]
  /\ UNCHANGED bound

Fails == failures < MaxFailures /\ failures' = failures + 1

\* It fails for the projects of S every time, and now and then for any.
FailsFor(S, p) == (p \in S /\ UNCHANGED failures) \/ Fails

Skip(t) == \E p \in Projects :
  /\ stage[t] = "looping" /\ IsNext(t, p) /\ ~IsDue(t, p)
  /\ GoOn(t, p)
  /\ UNCHANGED <<left, sent, failures>>

\* Mutant: the handler of the GitHub client's exception does not continue.
FetchFailsAndEnds(t) == \E p \in Projects :
  /\ stage[t] = "looping" /\ IsNext(t, p) /\ IsDue(t, p)
  /\ FailsFor(Unreachable, p)
  /\ End(t)
  /\ UNCHANGED <<left, sent>>

\* The GitHub client raises: the project is skipped.
FetchFails(t) == \E p \in Projects :
  /\ stage[t] = "looping" /\ IsNext(t, p) /\ IsDue(t, p)
  /\ FailsFor(Unreachable, p)
  /\ GoOn(t, p)
  /\ UNCHANGED <<left, sent>>

\* The project is due, and its pull requests are there.
Fetch(t) == \E p \in Projects :
  /\ stage[t] = "looping" /\ IsNext(t, p) /\ IsDue(t, p)
  /\ p \notin Unreachable
  /\ stage' = [stage EXCEPT ![t] = "sending"]
  /\ UNCHANGED <<bound, left, todo, elapsed, sent, failures>>

\* The report is put together and the router called.
Send(t) == \E p \in Projects :
  /\ stage[t] = "sending" /\ IsNext(t, p)
  /\ p \notin Refused
  /\ sent' = [sent EXCEPT ![p] = 0]
  /\ stage' = [stage EXCEPT ![t] = "marking"]
  /\ UNCHANGED <<bound, left, todo, elapsed, failures>>

\* Mutant: an error is logged and the report recorded all the same.
SendFailsAndMarks(t, delivered) == \E p \in Projects :
  /\ stage[t] = "sending" /\ IsNext(t, p)
  /\ FailsFor(Refused, p)
  /\ delivered => p \notin Refused
  /\ sent' = IF delivered THEN [sent EXCEPT ![p] = 0] ELSE sent
  /\ stage' = [stage EXCEPT ![t] = "marking"]
  /\ UNCHANGED <<bound, left, todo, elapsed>>

\* Putting it together raises, or the router does, before or after Telegram delivered the
\* report; nothing in tick catches it.
SendFails(t, delivered) == \E p \in Projects :
  /\ stage[t] = "sending" /\ IsNext(t, p)
  /\ FailsFor(Refused, p)
  /\ delivered => p \notin Refused
  /\ sent' = IF delivered THEN [sent EXCEPT ![p] = 0] ELSE sent
  /\ End(t)
  /\ UNCHANGED left

\* Mutant: the next report is due an interval after the last one was.
MarkedFromRow(t, p) == IF left[p] = Null THEN Interval ELSE left[p] + Interval

\* mark_report_sent: now_iso plus the interval.
Marked(t, p) == Interval - elapsed[t]

\* upsert_scheduled_progress: the row is made, or its times are replaced, whatever they
\* were; COALESCE would keep those that are not given, and mark_report_sent gives them.
Upserted(p, next) == [left EXCEPT ![p] = next]

Mark(t) == \E p \in Projects :
  /\ stage[t] = "marking" /\ IsNext(t, p)
  /\ left' = Upserted(p, Marked(t, p))
  /\ GoOn(t, p)
  /\ UNCHANGED <<sent, failures>>

Finish(t) ==
  /\ stage[t] = "looping" /\ todo[t] = {}
  /\ End(t)
  /\ UNCHANGED <<left, sent, failures>>

\* The process ends, or the store raises where nothing catches it.
Crash(t) ==
  /\ stage[t] # "idle"
  /\ Fails
  /\ End(t)
  /\ UNCHANGED <<left, sent>>

-----------------------------------------------------------------------------
(* Time passes *)

Sooner(n) == IF n = Null \/ n = -MaxRun THEN n ELSE n - 1
Longer(n) == IF n = Null \/ n = Interval + MaxRun THEN n ELSE n + 1

Clock ==
  /\ \A t \in Iterations : stage[t] # "idle" => elapsed[t] < MaxRun
  /\ left' = [p \in Projects |-> Sooner(left[p])]
  /\ sent' = [p \in Projects |-> Longer(sent[p])]
  /\ elapsed' = [t \in Iterations |-> IF stage[t] = "idle" THEN 0 ELSE elapsed[t] + 1]
  /\ UNCHANGED <<bound, stage, todo, failures>>

Next ==
  \/ \E p \in Projects : Bind(p)
  \/ \E t \in Iterations : Begin(t)
  \/ \E t \in Iterations : Skip(t)
  \/ \E t \in Iterations : FetchFails(t)
  \/ \E t \in Iterations : Fetch(t)
  \/ \E t \in Iterations : Send(t)
  \/ \E t \in Iterations, delivered \in BOOLEAN : SendFails(t, delivered)
  \/ \E t \in Iterations : Mark(t)
  \/ \E t \in Iterations : Finish(t)
  \/ \E t \in Iterations : Crash(t)
  \/ Clock

Spec == Init /\ [][Next]_vars

\* An iteration that has begun goes on, whatever it meets.
Step(t) == \/ Skip(t) \/ FetchFails(t) \/ Fetch(t) \/ Send(t) \/ Mark(t) \/ Finish(t)
           \/ \E delivered \in BOOLEAN : SendFails(t, delivered)

\* Time goes on, and the cron timer begins an iteration again and again.
CronSpec ==
  /\ Spec
  /\ WF_vars(Clock)
  /\ \A t \in Iterations : WF_vars(Begin(t)) /\ WF_vars(Step(t))

-----------------------------------------------------------------------------
(* Properties *)

\* What the table says of the last report is true: the Founder got one, and not
\* before now_iso, an interval before next_report_at, however iterations overlap,
\* sends fail after delivery and processes end between the report and its record.
RowIsTruthful ==
  \A p \in Projects : left[p] # Null =>
    /\ sent[p] # Null
    /\ sent[p] <= Interval - left[p]

\* A project is reported on again and again when GitHub answers for it, Telegram takes
\* its report, and no project before it, in the order of the chat keys, has a router
\* that raises: neither a project GitHub never answers for, nor a refused one behind
\* it, is in its way.  Of the projects after a refused one nothing is promised.
ProjectsAheadAreReported ==
  \A p \in Projects \ (Unreachable \cup Refused) :
    (\A q \in Refused : Rank[p] < Rank[q]) => (p \in bound ~> sent[p] = 0)

=============================================================================
