-------------------------- MODULE FounderChatProofs --------------------------
(***************************************************************************)
(* Proofs about FounderChat for any chats, users, questions and messages,  *)
(* every interval and every number of failures and restarts.               *)
(***************************************************************************)
EXTENDS FounderChat, TLAPS

-----------------------------------------------------------------------------
(* The types *)

LEMMA TypeInit == Init => TypeOK
BY FounderChatAssumption DEF Init, Nothing, TypeOK, FounderChatAssumption

LEMMA ProjectType ==
  ASSUME TypeOK, NEW c \in Chats
  PROVE  /\ Project(c) \in ProjectState
         /\ \A paused \in BOOLEAN : [Project(c) EXCEPT !.paused = paused] \in ProjectState
BY DEF Project, ProjectState, TypeOK

LEMMA CloseType ==
  ASSUME TypeOK, NEW c \in Chats, NEW t \in Texts, Close(c, t)
  PROVE  /\ pending' \in [Chats -> Questions \cup {Null}]
         /\ fate' \in [Questions -> {"new", "open", "closed", "lost"}]
         /\ closed' \subseteq Questions \X Chats \X Texts
<1>1. CASE Closes(c, t)
  <2>1. pending[c] \in Questions
    BY <1>1 DEF Closes, TypeOK
  <2>. QED  BY <1>1, <2>1 DEF Close, TypeOK
<1>2. CASE ~Closes(c, t)
  BY <1>2 DEF Close, TypeOK
<1>. QED  BY <1>1, <1>2

LEMMA UpdateType ==
  ASSUME TypeOK, NEW c \in Chats, Update(c)
  PROVE  TypeOK'
<1>1. CASE Show(c)
  BY <1>1, ProjectType DEF Show, TypeOK
<1>2. ASSUME NEW paused \in BOOLEAN, SetPaused(c, paused) PROVE TypeOK'
  BY <1>2, ProjectType DEF SetPaused, TypeOK
<1>. QED  BY <1>1, <1>2 DEF Update

LEMMA ReceiveType ==
  ASSUME TypeOK, NEW c \in Chats, NEW u \in Users, Receive(c, u)
  PROVE  TypeOK'
<1>. USE FounderChatAssumption DEF FounderChatAssumption
<1>1. CASE NewProject(c)
  <2>1. [paused |-> FALSE, intake |-> TRUE] \in ProjectState
    BY DEF ProjectState
  <2>. QED  BY <1>1, <2>1 DEF NewProject, TypeOK
<1>2. CASE Show(c)
  BY <1>2, ProjectType DEF Show, TypeOK
<1>3. ASSUME NEW paused \in BOOLEAN, SetPaused(c, paused) PROVE TypeOK'
  BY <1>3, ProjectType DEF SetPaused, TypeOK
<1>4. ASSUME NEW t \in Texts, Freeform(c, t) PROVE TypeOK'
  <2>1. artifacts' \subseteq Chats \X Texts
    BY <1>4 DEF Freeform, TypeOK
  <2>2. /\ pending' \in [Chats -> Questions \cup {Null}]
        /\ fate' \in [Questions -> {"new", "open", "closed", "lost"}]
        /\ closed' \subseteq Questions \X Chats \X Texts
    BY <1>4, CloseType DEF Freeform
  <2>. QED  BY <1>4, <2>1, <2>2 DEF Freeform, TypeOK
<1>5. ASSUME NEW t \in Texts, WriteFails(c, t) PROVE TypeOK'
  BY <1>5 DEF WriteFails, Fails, TypeOK
<1>. QED  BY <1>1, <1>2, <1>3, <1>4, <1>5 DEF Receive, Command

LEMMA TickType ==
  ASSUME TypeOK, Tick
  PROVE  /\ last' \in [Chats -> Stamp \cup {Null}]
         /\ since' \in [Chats -> Minutes \cup {Null}]
         /\ \A c \in Chats :
              /\ last'[c] = Null <=> last[c] = Null
              /\ since'[c] = Null <=> since[c] = Null
              /\ last[c] # Null => last'[c].ago = IF last[c].ago = MaxInterval THEN MaxInterval
                                                  ELSE last[c].ago + 1
              /\ since[c] # Null => since'[c] = IF since[c] = MaxInterval THEN MaxInterval
                                                ELSE since[c] + 1
<1>. USE FounderChatAssumption DEF FounderChatAssumption
<1>1. ASSUME NEW s \in Stamp, s.ago # MaxInterval
      PROVE  [s EXCEPT !.ago = @ + 1] \in Stamp /\ [s EXCEPT !.ago = @ + 1].ago = s.ago + 1
  BY <1>1 DEF Stamp, Minutes
<1>2. \A c \in Chats : since[c] \in Minutes \cup {Null} /\ last[c] \in Stamp \cup {Null}
  BY DEF TypeOK
<1>3. \A c \in Chats :
        /\ last'[c] = IF last[c] = Null \/ last[c].ago = MaxInterval THEN last[c]
                      ELSE [last[c] EXCEPT !.ago = @ + 1]
        /\ since'[c] = IF since[c] \in {Null, MaxInterval} THEN since[c] ELSE since[c] + 1
  BY DEF Tick
<1>4. \A c \in Chats :
        /\ last'[c] \in Stamp \cup {Null}
        /\ last'[c] = Null <=> last[c] = Null
        /\ last[c] # Null => last'[c].ago = IF last[c].ago = MaxInterval THEN MaxInterval
                                            ELSE last[c].ago + 1
  <2>. SUFFICES ASSUME NEW c \in Chats
                PROVE  /\ last'[c] \in Stamp \cup {Null}
                       /\ last'[c] = Null <=> last[c] = Null
                       /\ last[c] # Null =>
                            last'[c].ago = IF last[c].ago = MaxInterval THEN MaxInterval
                                           ELSE last[c].ago + 1
    OBVIOUS
  <2>1. CASE last[c] = Null
    BY <2>1, <1>3
  <2>2. CASE last[c] # Null /\ last[c].ago = MaxInterval
    BY <2>2, <1>2, <1>3
  <2>3. CASE last[c] # Null /\ last[c].ago # MaxInterval
    BY <2>3, <1>1, <1>2, <1>3, NullAssumption
  <2>. QED  BY <2>1, <2>2, <2>3
<1>5. \A c \in Chats :
        /\ since'[c] \in Minutes \cup {Null}
        /\ since'[c] = Null <=> since[c] = Null
        /\ since[c] # Null => since'[c] = IF since[c] = MaxInterval THEN MaxInterval
                                          ELSE since[c] + 1
  <2>. SUFFICES ASSUME NEW c \in Chats
                PROVE  /\ since'[c] \in Minutes \cup {Null}
                       /\ since'[c] = Null <=> since[c] = Null
                       /\ since[c] # Null => since'[c] = IF since[c] = MaxInterval THEN MaxInterval
                                                         ELSE since[c] + 1
    OBVIOUS
  <2>1. CASE since[c] = Null
    BY <2>1, <1>3
  <2>2. CASE since[c] = MaxInterval
    <3>1. MaxInterval \in Minutes /\ MaxInterval # Null
      BY DEF Minutes
    <3>. QED  BY <2>2, <3>1, <1>3
  <2>3. CASE since[c] \in Nat /\ since[c] < MaxInterval
    <3>1. since[c] # Null /\ since[c] + 1 # Null /\ since[c] # MaxInterval
      BY <2>3
    <3>2. since[c] + 1 \in Minutes
      BY <2>3 DEF Minutes
    <3>3. since'[c] = since[c] + 1
      BY <3>1, <1>3
    <3>. QED  BY <3>1, <3>2, <3>3
  <2>. QED  BY <1>2, <2>1, <2>2, <2>3 DEF Minutes
<1>6. /\ last' = [c \in Chats |-> last'[c]]
      /\ since' = [c \in Chats |-> since'[c]]
  BY DEF Tick
<1>. QED  BY <1>4, <1>5, <1>6

LEMMA TypeStep ==
  ASSUME TypeOK, [Next]_vars
  PROVE  TypeOK'
<1>. USE FounderChatAssumption DEF FounderChatAssumption
<1>1. ASSUME NEW c \in Chats, NEW u \in Users, Receive(c, u) PROVE TypeOK'
  BY <1>1, ReceiveType
<1>2. ASSUME NEW c \in Chats, NEW q \in Questions, NEW sent \in BOOLEAN, Route(c, q, sent)
      PROVE  TypeOK'
  BY <1>2 DEF Route, Fails, TypeOK
<1>3. ASSUME NEW c \in Chats, NEW minutes \in 0 .. MaxInterval + 1, SetInterval(c, minutes)
      PROVE  TypeOK'
  BY <1>3 DEF SetInterval, IntervalAccepted, TypeOK
<1>4. ASSUME NEW c \in Chats, NEW kind \in Stamps,
             NEW milestone \in BOOLEAN, NEW delivered \in BOOLEAN, NEW raises \in BOOLEAN,
             Report(c, kind, milestone, delivered, raises)
      PROVE  TypeOK'
  <2>1. [kind |-> kind, ago |-> 0] \in Stamp /\ 0 \in Minutes
    BY DEF Stamp, Minutes
  <2>2. last' \in [Chats -> Stamp \cup {Null}] /\ failures' \in 0 .. MaxFailures
    BY <1>4, <2>1 DEF Report, Fails, TypeOK
  <2>3. since' \in [Chats -> Minutes \cup {Null}] /\ raised' \in [Chats -> BOOLEAN]
    BY <1>4, <2>1 DEF Report, TypeOK
  <2>. QED  BY <1>4, <2>2, <2>3 DEF Report, TypeOK
<1>5. CASE Tick
  BY <1>5, TickType DEF Tick, TypeOK
<1>6. CASE Restart
  <2>1. fate' \in [Questions -> {"new", "open", "closed", "lost"}]
    BY <1>6 DEF Restart, TypeOK
  <2>. QED  BY <1>6, <2>1 DEF Restart, Nothing, TypeOK
<1>7. CASE UNCHANGED vars
  BY <1>7 DEF vars, TypeOK
<1>. QED  BY <1>1, <1>2, <1>3, <1>4, <1>5, <1>6, <1>7, UpdateType DEF Next

\* What the adapter keeps and what it has written is always of its type.
THEOREM TypeCorrect == Spec => []TypeOK
<1>. QED  BY TypeInit, TypeStep, PTL DEF Spec

-----------------------------------------------------------------------------
(* Decisions *)

LEMMA WrittenStep ==
  ASSUME TypeOK, DecisionsAreWritten, [Next]_vars
  PROVE  DecisionsAreWritten'
<1>1. ASSUME UNCHANGED closed, artifacts \subseteq artifacts'
      PROVE  DecisionsAreWritten'
  BY <1>1 DEF DecisionsAreWritten
<1>2. ASSUME NEW c \in Chats, NEW t \in Texts, Freeform(c, t)
      PROVE  DecisionsAreWritten'
  <2>1. CASE ~Closes(c, t)
    BY <1>2, <2>1, <1>1 DEF Freeform, Close
  <2>2. CASE Closes(c, t)
    <3>1. closed' = closed \cup {<<pending[c], c, t>>} /\ artifacts \subseteq artifacts'
      BY <1>2, <2>2 DEF Freeform, Close
    <3>2. t.durable /\ Classify(t, TRUE) # "clarification" => Decision(c, t)
      BY <2>2 DEF Closes, Decision
    <3>3. t.durable /\ Classify(t, TRUE) # "clarification" => <<c, t>> \in artifacts'
      BY <1>2, <3>2 DEF Freeform
    <3>4. ASSUME NEW r \in closed', r[3].durable, Classify(r[3], TRUE) # "clarification"
          PROVE  <<r[2], r[3]>> \in artifacts'
      <4>1. CASE r \in closed
        BY <4>1, <3>1, <3>4 DEF DecisionsAreWritten
      <4>2. CASE r = <<pending[c], c, t>>
        <5>1. r[2] = c /\ r[3] = t
          BY <4>2
        <5>. QED  BY <5>1, <3>3, <3>4
      <4>. QED  BY <3>1, <4>1, <4>2
    <3>. QED  BY <3>4 DEF DecisionsAreWritten
  <2>. QED  BY <2>1, <2>2
<1>3. ASSUME NEW c \in Chats, NEW u \in Users, Receive(c, u) PROVE DecisionsAreWritten'
  BY <1>1, <1>2, <1>3 DEF Receive, Command, NewProject, Show, SetPaused, WriteFails
<1>. QED  BY <1>1, <1>3 DEF Next, Update, Show, SetPaused, Route, SetInterval, Report, Tick, Restart, vars

\* No question is ever closed by a decision that must last and was not written.
THEOREM DecisionsLast == Spec => []DecisionsAreWritten
<1>1. Init => DecisionsAreWritten
  BY DEF Init, DecisionsAreWritten
<1>. QED  BY <1>1, TypeInit, TypeStep, WrittenStep, PTL DEF Spec

-----------------------------------------------------------------------------
(* Questions *)

\* No question is pending in two chats.
OneChatEach == \A c, d \in Chats : pending[c] # Null /\ pending[c] = pending[d] => c = d

LEMMA QuestionStep ==
  ASSUME TypeOK, NoQuestionDropped, OneChatEach, [Next]_vars
  PROVE  NoQuestionDropped' /\ OneChatEach'
<1>. USE FounderChatAssumption DEF FounderChatAssumption
<1>1. ASSUME UNCHANGED <<pending, fate>> PROVE NoQuestionDropped' /\ OneChatEach'
  BY <1>1 DEF NoQuestionDropped, OneChatEach
<1>2. ASSUME NEW c \in Chats, NEW t \in Texts, Freeform(c, t)
      PROVE  NoQuestionDropped' /\ OneChatEach'
  <2>1. CASE ~Closes(c, t)
    BY <1>2, <2>1, <1>1 DEF Freeform, Close
  <2>2. CASE Closes(c, t)
    <3>1. /\ pending[c] \in Questions
          /\ pending'[c] = Null /\ \A d \in Chats \ {c} : pending'[d] = pending[d]
          /\ fate'[pending[c]] = "closed"
          /\ \A q \in Questions \ {pending[c]} : fate'[q] = fate[q]
      BY <1>2, <2>2 DEF Freeform, Close, Closes, TypeOK
    <3>2. \A d \in Chats : pending'[d] # pending[c]
      BY <3>1 DEF OneChatEach
    <3>3. ASSUME NEW q \in Questions
          PROVE  fate'[q] = "open" <=> \E d \in Chats : pending'[d] = q
      <4>1. CASE q = pending[c]
        BY <4>1, <3>1, <3>2
      <4>2. CASE q # pending[c]
        BY <4>2, <3>1 DEF NoQuestionDropped
      <4>. QED  BY <4>1, <4>2
    <3>. QED  BY <3>1, <3>3 DEF NoQuestionDropped, OneChatEach
  <2>. QED  BY <2>1, <2>2
<1>3. ASSUME NEW c \in Chats, NEW u \in Users, Receive(c, u)
      PROVE  NoQuestionDropped' /\ OneChatEach'
  BY <1>1, <1>2, <1>3 DEF Receive, Command, NewProject, Show, SetPaused, WriteFails
<1>4. ASSUME NEW c \in Chats, NEW q \in Questions, NEW sent \in BOOLEAN, Route(c, q, sent)
      PROVE  NoQuestionDropped' /\ OneChatEach'
  <2>1. /\ pending[c] = Null /\ pending'[c] = q
        /\ \A d \in Chats \ {c} : pending'[d] = pending[d]
        /\ fate[q] = "new" /\ fate'[q] = "open"
        /\ \A k \in Questions \ {q} : fate'[k] = fate[k]
    BY <1>4 DEF Route, TypeOK
  <2>2. \A d \in Chats : pending[d] # q
    BY <2>1 DEF NoQuestionDropped
  <2>3. ASSUME NEW k \in Questions
        PROVE  fate'[k] = "open" <=> \E d \in Chats : pending'[d] = k
    <3>1. CASE k = q
      BY <3>1, <2>1
    <3>2. CASE k # q
      BY <3>2, <2>1 DEF NoQuestionDropped
    <3>. QED  BY <3>1, <3>2
  <2>. QED  BY <2>1, <2>2, <2>3 DEF NoQuestionDropped, OneChatEach
<1>5. CASE Restart
  BY <1>5 DEF Restart, Nothing, NoQuestionDropped, OneChatEach, TypeOK
<1>. QED  BY <1>1, <1>3, <1>4, <1>5 DEF Next, Update, Show, SetPaused, SetInterval, Report, Tick, vars

\* Only an answer in its chat or the end of the process takes a question away.
THEOREM QuestionsStay == Spec => []NoQuestionDropped
<1>1. Init => NoQuestionDropped /\ OneChatEach
  BY FounderChatAssumption DEF Init, Nothing, NoQuestionDropped, OneChatEach, FounderChatAssumption
<1>. QED  BY <1>1, TypeInit, TypeStep, QuestionStep, PTL DEF Spec

-----------------------------------------------------------------------------
(* Reports *)

\* The last report's time is no older than the last report that was no milestone's, unless the
\* send of that one raised.
LastIsNoOlder ==
  \A c \in Chats : since[c] # Null /\ ~raised[c] => last[c] # Null /\ last[c].ago <= since[c]

LEMMA ReportStep ==
  ASSUME TypeOK, LastIsNoOlder, NEW c \in Chats, NEW kind \in Stamps,
         NEW milestone \in BOOLEAN, NEW delivered \in BOOLEAN, NEW raises \in BOOLEAN,
         Report(c, kind, milestone, delivered, raises)
  PROVE  LastIsNoOlder'
<1>. USE FounderChatAssumption DEF FounderChatAssumption
<1>1. \A d \in Chats : since[d] \in Minutes \cup {Null} /\ last[d] \in Stamp \cup {Null}
  BY DEF TypeOK
<1>2. \A d \in Chats \ {c} : last'[d] = last[d] /\ since'[d] = since[d] /\ raised'[d] = raised[d]
  BY DEF Report, TypeOK
<1>3. CASE raises
  <2>1. last' = last
    BY <1>3 DEF Report
  <2>2. \/ raised'[c]
        \/ since'[c] = since[c] /\ raised'[c] = raised[c]
    BY <1>3 DEF Report, TypeOK
  <2>. QED  BY <1>2, <2>1, <2>2 DEF LastIsNoOlder
<1>4. CASE ~raises
  <2>1. [kind |-> kind, ago |-> 0] \in Stamp /\ [kind |-> kind, ago |-> 0].ago = 0
    BY DEF Stamp, Minutes
  <2>2. last'[c] # Null /\ last'[c].ago = 0
    BY <1>4, <2>1, NullAssumption DEF Report, TypeOK
  <2>3. since'[c] = since[c] \/ since'[c] = 0
    BY DEF Report, TypeOK
  <2>4. since'[c] # Null => 0 <= since'[c]
    BY <1>1, <2>3 DEF Minutes
  <2>. QED  BY <1>2, <2>2, <2>4 DEF LastIsNoOlder
<1>. QED  BY <1>3, <1>4

LEMMA ReportIsApart ==
  ASSUME "broken" \notin Stamps, TypeOK, LastIsNoOlder,
         NEW c \in Chats, NEW kind \in Stamps, NEW raises \in BOOLEAN,
         Report(c, kind, FALSE, TRUE, raises)
  PROVE  since[c] = Null \/ raised[c] \/ since[c] >= MinInterval
<1>. USE FounderChatAssumption DEF FounderChatAssumption
<1>. SUFFICES ASSUME since[c] # Null, ~raised[c] PROVE since[c] >= MinInterval
  OBVIOUS
<1>1. since[c] \in Minutes /\ last[c] # Null /\ last[c] \in Stamp /\ last[c].ago <= since[c]
  BY DEF LastIsNoOlder, TypeOK
<1>2. "broken" \notin {last[c].kind, kind}
  BY <1>1 DEF Stamp
<1>3. last[c].ago >= (IF interval[c] \in MinInterval .. MaxInterval THEN interval[c] ELSE DefaultInterval)
  BY <1>1, <1>2 DEF Report, IsReportDue
<1>. QED  BY <1>1, <1>3 DEF Stamp, Minutes

LEMMA LastStep ==
  ASSUME TypeOK, LastIsNoOlder, [Next]_vars
  PROVE  LastIsNoOlder'
<1>. USE FounderChatAssumption DEF FounderChatAssumption
<1>1. ASSUME UNCHANGED <<last, since, raised>> PROVE LastIsNoOlder'
  BY <1>1 DEF LastIsNoOlder
<1>2. CASE Tick
  <2>1. \A c \in Chats : since[c] \in Minutes \cup {Null} /\ last[c] \in Stamp \cup {Null}
    BY DEF TypeOK
  <2>2. \A c \in Chats : last[c] # Null => last[c].ago \in Minutes
    BY <2>1 DEF Stamp
  <2>3. raised' = raised
    BY <1>2 DEF Tick
  <2>. QED  BY <1>2, <2>1, <2>2, <2>3, TickType DEF LastIsNoOlder, Minutes
<1>3. CASE Restart
  BY <1>3 DEF Restart, Nothing, LastIsNoOlder
<1>4. ASSUME NEW c \in Chats, NEW u \in Users, Receive(c, u)
      PROVE  UNCHANGED <<last, since, raised>>
  BY <1>4 DEF Receive, Command, NewProject, Show, SetPaused, Freeform, WriteFails
<1>. QED  BY <1>1, <1>2, <1>3, <1>4, ReportStep DEF Next, Update, Show, SetPaused, Route, SetInterval, vars

\* Where every stamp can be read, two reports that are no milestone's and closer than the smallest
\* interval need a send that raised after the first of them had reached the chat.
THEOREM ReportsStayApart == "broken" \notin Stamps => (Spec => ReportsApart)
<1>. SUFFICES ASSUME "broken" \notin Stamps PROVE Spec => ReportsApart
  OBVIOUS
<1>1. Init => LastIsNoOlder
  BY DEF Init, Nothing, LastIsNoOlder
<1>2. TypeOK /\ LastIsNoOlder =>
        [\A c \in Chats, kind \in Stamps, raises \in BOOLEAN :
           Report(c, kind, FALSE, TRUE, raises) =>
             since[c] = Null \/ raised[c] \/ since[c] >= MinInterval]_vars
  BY ReportIsApart
<1>. QED  BY <1>1, <1>2, TypeInit, TypeStep, LastStep, PTL DEF Spec, ReportsApart
=============================================================================
