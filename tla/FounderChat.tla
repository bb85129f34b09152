---------------------------- MODULE FounderChat ----------------------------
(***************************************************************************)
(* The Founder's chat: TelegramFounderAdapter behind HermesTelegramTransport*)
(*                                                                         *)
(* The adapter keeps, for each chat, a project, at most one open question  *)
(* of a specialist, a report interval and the time of the last report, all *)
(* in memory.  Only the decisions it hands to the artifact writer outlive  *)
(* it.  Writing and sending may raise half way through a handler.          *)
(***************************************************************************)
EXTENDS Naturals

CONSTANTS
  Chats, Users,
  AllowedChats, AllowedUsers,   \* the two allowlists of the configuration
  Pairing,          \* dm_pairing: the user a chat is paired with, or Null
  Questions,        \* what specialists ask
  Texts,            \* free-form messages, each as the patterns it matches
  Stamps,           \* the kinds of time stamp a caller may pass
  MinInterval, DefaultInterval, MaxInterval,  \* 30, 45 and 60 minutes
  MaxFailures,      \* bound: calls of the writer or the sender that raise
  MaxRestarts,      \* bound: ends of the process
  Null

Patterns == [approval : BOOLEAN, rejection : BOOLEAN, clarification : BOOLEAN,
             question : BOOLEAN, durable : BOOLEAN]

ASSUME FounderChatAssumption ==
  /\ AllowedChats \subseteq Chats /\ AllowedUsers \subseteq Users
  /\ Pairing \in [Chats -> Users \cup {Null}]
  /\ Texts \subseteq Patterns
  /\ Stamps \subseteq {"naive", "aware", "broken"}
  /\ MinInterval \in Nat /\ DefaultInterval \in Nat /\ MaxInterval \in Nat
  /\ 0 < MinInterval /\ MinInterval <= DefaultInterval /\ DefaultInterval <= MaxInterval
  /\ MaxFailures \in Nat /\ MaxRestarts \in Nat
  /\ Null \notin Questions /\ Null \notin Nat

VARIABLES
  projects,   \* _projects
  pending,    \* _pending_questions
  interval,   \* _report_intervals
  last,       \* _last_report_ts: the kind of the stamp, and the minutes since
  artifacts,  \* what the writer has written: messages, each with its chat
  fate,       \* of each question: new, open, closed, or lost with the process
  closed,     \* the questions that were closed, each with its chat and message
  since,      \* minutes since a report that was no milestone's last reached the chat
  raised,     \* whether its send raised all the same
  failures,
  restarts

vars == <<projects, pending, interval, last, artifacts, fate, closed, since, raised, failures, restarts>>

Minutes == 0 .. MaxInterval
ProjectState == [paused : BOOLEAN, intake : BOOLEAN]
Stamp == [kind : Stamps, ago : Minutes]

ASSUME NullAssumption == Null \notin ProjectState /\ Null \notin Stamp

TypeOK ==
  /\ projects \in [Chats -> ProjectState \cup {Null}]
  /\ pending \in [Chats -> Questions \cup {Null}]
  /\ interval \in [Chats -> (MinInterval .. MaxInterval) \cup {Null}]
  /\ last \in [Chats -> Stamp \cup {Null}]
  /\ artifacts \subseteq Chats \X Texts
  /\ fate \in [Questions -> {"new", "open", "closed", "lost"}]
  /\ closed \subseteq Questions \X Chats \X Texts
  /\ since \in [Chats -> Minutes \cup {Null}]
  /\ raised \in [Chats -> BOOLEAN]
  /\ failures \in 0 .. MaxFailures
  /\ restarts \in 0 .. MaxRestarts

Nothing == [c \in Chats |-> Null]

Init ==
  /\ projects = Nothing /\ pending = Nothing /\ interval = Nothing /\ last = Nothing
  /\ artifacts = {}
  /\ fate = [q \in Questions |-> "new"]
  /\ closed = {}
  /\ since = Nothing
  /\ raised = [c \in Chats |-> FALSE]
  /\ failures = 0
  /\ restarts = 0

Fails == failures < MaxFailures /\ failures' = failures + 1

-----------------------------------------------------------------------------
(* Who is heard, and what as *)

\* TransportConfig.is_authorized, before the adapter sees the message.
IsAuthorized(c, u) == c \in AllowedChats \/ u \in AllowedUsers \/ Pairing[c] = u

\* FounderAuthorizer.is_allowed, of the allowlists to_allowlist_config copies.
IsAllowed(c, u) == c \in AllowedChats \/ u \in AllowedUsers

\* handle_event answers anybody else "Unauthorized" and does nothing.
Heard(c, u) == IsAuthorized(c, u) /\ IsAllowed(c, u)

\* classify_message: the first family of patterns that matches.
Classify(t, hasPending) ==
  CASE t.approval -> "approval"
    [] ~t.approval /\ t.rejection -> "rejection"
    [] ~t.approval /\ ~t.rejection /\ t.clarification -> "clarification"
    [] OTHER -> IF hasPending THEN "answer"
                ELSE IF t.question THEN "general_question" ELSE "intake"

\* _ensure_project
Project(c) == IF projects[c] = Null THEN [paused |-> FALSE, intake |-> FALSE] ELSE projects[c]

-----------------------------------------------------------------------------
(* Commands *)

\* Mutant: a new project begins without the question of the old one.
NewProjectForgets(c) ==
  /\ projects' = [projects EXCEPT ![c] = [paused |-> FALSE, intake |-> TRUE]]
  /\ interval' = [interval EXCEPT ![c] = DefaultInterval]
  /\ pending' = [pending EXCEPT ![c] = Null]
  /\ UNCHANGED <<last, artifacts, fate, closed, since, raised, failures, restarts>>

\* Mutant: it begins without the time of the last report.
NewProjectReports(c) ==
  /\ projects' = [projects EXCEPT ![c] = [paused |-> FALSE, intake |-> TRUE]]
  /\ interval' = [interval EXCEPT ![c] = DefaultInterval]
  /\ last' = [last EXCEPT ![c] = Null]
  /\ UNCHANGED <<pending, artifacts, fate, closed, since, raised, failures, restarts>>

\* /new_project: the question that is open and the time of the last report stay.
NewProject(c) ==
  /\ projects' = [projects EXCEPT ![c] = [paused |-> FALSE, intake |-> TRUE]]
  /\ interval' = [interval EXCEPT ![c] = DefaultInterval]
  /\ UNCHANGED <<pending, last, artifacts, fate, closed, since, raised, failures, restarts>>

\* /pause and /resume set a flag that nothing else here reads.
SetPaused(c, paused) ==
  /\ projects' = [projects EXCEPT ![c] = [Project(c) EXCEPT !.paused = paused]]
  /\ UNCHANGED <<pending, interval, last, artifacts, fate, closed, since, raised, failures, restarts>>

\* /status and /decisions show what is kept, and make the project if there is none.
Show(c) ==
  /\ projects' = [projects EXCEPT ![c] = Project(c)]
  /\ UNCHANGED <<pending, interval, last, artifacts, fate, closed, since, raised, failures, restarts>>

\* update_project_state: the runtime writes what the project shows, and whether it is paused.
Update(c) == Show(c) \/ \E paused \in BOOLEAN : SetPaused(c, paused)

Command(c) == NewProject(c) \/ Show(c) \/ \E paused \in BOOLEAN : SetPaused(c, paused)

-----------------------------------------------------------------------------
(* Free-form messages and questions *)

Decision(c, t) ==
  t.durable /\ Classify(t, pending[c] # Null) \in {"approval", "rejection", "answer"}

Closes(c, t) ==
  pending[c] # Null
    /\ Classify(t, TRUE) \in {"approval", "rejection", "answer", "clarification"}

Close(c, t) ==
  IF Closes(c, t)
    THEN /\ pending' = [pending EXCEPT ![c] = Null]
         /\ fate' = [fate EXCEPT ![pending[c]] = "closed"]
         /\ closed' = closed \cup {<<pending[c], c, t>>}
    ELSE UNCHANGED <<pending, fate, closed>>

\* _handle_freeform: a decision is written down, then the question is closed.
Freeform(c, t) ==
  /\ artifacts' = IF Decision(c, t) THEN artifacts \cup {<<c, t>>} ELSE artifacts
  /\ Close(c, t)
  /\ UNCHANGED <<projects, interval, last, since, raised, failures, restarts>>

\* Mutant: the question is closed first.
WriteFailsAfterClosing(c, t) ==
  /\ Decision(c, t)
  /\ Fails
  /\ Close(c, t)
  /\ UNCHANGED <<projects, interval, last, artifacts, since, raised, restarts>>

\* The writer raises: the question stays open.
WriteFails(c, t) ==
  /\ Decision(c, t)
  /\ Fails
  /\ UNCHANGED <<projects, pending, interval, last, artifacts, fate, closed, since, raised, restarts>>

Receive(c, u) ==
  /\ Heard(c, u)
  /\ Command(c) \/ \E t \in Texts : Freeform(c, t) \/ WriteFails(c, t)

\* route_specialist_question stores the question, then sends it; if the sender raises, it is stored.
Route(c, q, sent) ==
  /\ fate[q] = "new"
  /\ pending[c] = Null
  /\ pending' = [pending EXCEPT ![c] = q]
  /\ fate' = [fate EXCEPT ![q] = "open"]
  /\ IF sent THEN UNCHANGED failures ELSE Fails
  /\ UNCHANGED <<projects, interval, last, artifacts, closed, since, raised, restarts>>

-----------------------------------------------------------------------------
(* Reports *)

\* set_report_interval refuses what is out of bounds.
IntervalAccepted(minutes) == minutes \in MinInterval .. MaxInterval

SetInterval(c, minutes) ==
  /\ IntervalAccepted(minutes)
  /\ interval' = [interval EXCEPT ![c] = minutes]
  /\ UNCHANGED <<projects, pending, last, artifacts, fate, closed, since, raised, failures, restarts>>

\* Subtracting a stamp with a zone from one without, or the reverse, raises.
Mixed(c, kind) == last[c] # Null /\ {last[c].kind, kind} = {"naive", "aware"}

\* is_report_due of a report that is no milestone's; a stamp that cannot be read makes it due.
IsReportDue(c, kind) ==
  last[c] # Null /\ "broken" \notin {last[c].kind, kind} =>
    last[c].ago >= (IF interval[c] \in MinInterval .. MaxInterval THEN interval[c] ELSE DefaultInterval)

\* send_progress_report: the report reaches the chat and its time is recorded, or the sender
\* raises, whether or not the report has reached the chat, and nothing is recorded.
Report(c, kind, milestone, delivered, raises) ==
  /\ delivered \/ raises
  /\ milestone \/ (~Mixed(c, kind) /\ IsReportDue(c, kind))
  /\ last' = IF raises THEN last ELSE [last EXCEPT ![c] = [kind |-> kind, ago |-> 0]]
  /\ IF delivered /\ ~milestone
       THEN since' = [since EXCEPT ![c] = 0] /\ raised' = [raised EXCEPT ![c] = raises]
       ELSE UNCHANGED <<since, raised>>
  /\ IF raises THEN Fails ELSE UNCHANGED failures
  /\ UNCHANGED <<projects, pending, interval, artifacts, fate, closed, restarts>>

\* A minute passes; those after MaxInterval are not counted.
Tick ==
  /\ \E c \in Chats : since[c] \in 0 .. MaxInterval - 1 \/ (last[c] # Null /\ last[c].ago < MaxInterval)
  /\ last' = [c \in Chats |->
       IF last[c] = Null \/ last[c].ago = MaxInterval THEN last[c] ELSE [last[c] EXCEPT !.ago = @ + 1]]
  /\ since' = [c \in Chats |-> IF since[c] \in {Null, MaxInterval} THEN since[c] ELSE since[c] + 1]
  /\ UNCHANGED <<projects, pending, interval, artifacts, fate, closed, raised, failures, restarts>>

-----------------------------------------------------------------------------

\* Nothing of the adapter is kept: a question that was open is lost, and so is the last report's time.
Restart ==
  /\ restarts < MaxRestarts
  /\ restarts' = restarts + 1
  /\ projects' = Nothing /\ pending' = Nothing /\ interval' = Nothing /\ last' = Nothing
  /\ fate' = [q \in Questions |-> IF fate[q] = "open" THEN "lost" ELSE fate[q]]
  /\ since' = Nothing /\ raised' = [c \in Chats |-> FALSE]
  /\ UNCHANGED <<artifacts, closed, failures>>

Next ==
  \/ \E c \in Chats, u \in Users : Receive(c, u)
  \/ \E c \in Chats : Update(c)
  \/ \E c \in Chats, q \in Questions, sent \in BOOLEAN : Route(c, q, sent)
  \/ \E c \in Chats, minutes \in 0 .. MaxInterval + 1 : SetInterval(c, minutes)
  \/ \E c \in Chats, kind \in Stamps, milestone, delivered, raises \in BOOLEAN :
       Report(c, kind, milestone, delivered, raises)
  \/ Tick
  \/ Restart

Spec == Init /\ [][Next]_vars

-----------------------------------------------------------------------------
(* Properties *)

\* A question that was closed by a decision that must last has that decision among the
\* artifacts, whether or not the writer raised on the way (_handle_freeform).
DecisionsAreWritten ==
  \A r \in closed :
    r[3].durable /\ Classify(r[3], TRUE) # "clarification" => <<r[2], r[3]>> \in artifacts

\* A specialist's question stays in its chat until it is closed there or the process ends; no
\* command, second question or failure of the sender makes it disappear.
NoQuestionDropped ==
  \A q \in Questions : fate[q] = "open" <=> \E c \in Chats : pending[c] = q

\* As long as stamps can be read, a report that is no milestone's reaches the Founder less than
\* the smallest interval after another one of the same process only if the send of that other
\* one raised, whatever commands, intervals and milestones come between (send_progress_report).
ReportsApart ==
  [][\A c \in Chats, kind \in Stamps, raises \in BOOLEAN :
       Report(c, kind, FALSE, TRUE, raises) =>
         since[c] = Null \/ raised[c] \/ since[c] >= MinInterval]_vars

=============================================================================
