------------------------ MODULE ProgressReportsProofs ------------------------
(***************************************************************************)
(* Proofs about ProgressReports for any projects, any number of            *)
(* overlapping iterations, every interval and every number of failures.    *)
(***************************************************************************)
EXTENDS ProgressReports, TLAPS

-----------------------------------------------------------------------------
(* What the clock does to a row and to the Founder's last report *)

LEMMA SoonerType ==
  ASSUME NEW n \in (-MaxRun .. Interval) \cup {Null}
  PROVE  /\ Sooner(n) \in (-MaxRun .. Interval) \cup {Null}
         /\ Sooner(n) = Null <=> n = Null
         /\ n # Null => Sooner(n) = -MaxRun \/ Sooner(n) = n - 1
BY ProgressReportsAssumption DEF Sooner, ProgressReportsAssumption

LEMMA LongerType ==
  ASSUME NEW n \in (0 .. Interval + MaxRun) \cup {Null}
  PROVE  /\ Longer(n) \in (0 .. Interval + MaxRun) \cup {Null}
         /\ Longer(n) = Null <=> n = Null
         /\ n # Null => Longer(n) <= n + 1
BY ProgressReportsAssumption DEF Longer, ProgressReportsAssumption

-----------------------------------------------------------------------------
(* The types *)

LEMMA TypeInit == Init => TypeOK
BY ProgressReportsAssumption DEF Init, TypeOK, ProgressReportsAssumption

LEMMA TypeStep ==
  ASSUME TypeOK, [Next]_vars
  PROVE  TypeOK'
<1>. USE ProgressReportsAssumption DEF TypeOK, ProgressReportsAssumption
<1>1. ASSUME NEW p \in Projects, Bind(p) PROVE TypeOK'
  BY <1>1 DEF Bind
<1>2. ASSUME NEW t \in Iterations, Begin(t) PROVE TypeOK'
  BY <1>2 DEF Begin
<1>3. ASSUME NEW t \in Iterations, Skip(t) PROVE TypeOK'
  BY <1>3 DEF Skip, GoOn
<1>4. ASSUME NEW t \in Iterations, FetchFails(t) PROVE TypeOK'
  BY <1>4 DEF FetchFails, FailsFor, Fails, GoOn
<1>5. ASSUME NEW t \in Iterations, Fetch(t) PROVE TypeOK'
  BY <1>5 DEF Fetch
<1>6. ASSUME NEW t \in Iterations, Send(t) PROVE TypeOK'
  BY <1>6 DEF Send
<1>7. ASSUME NEW t \in Iterations, NEW delivered \in BOOLEAN, SendFails(t, delivered)
      PROVE  TypeOK'
  <2>1. sent' \in [Projects -> (0 .. Interval + MaxRun) \cup {Null}]
    BY <1>7 DEF SendFails
  <2>2. failures' \in 0 .. MaxFailures
    BY <1>7 DEF SendFails, FailsFor, Fails
  <2>3. End(t) /\ UNCHANGED left
    BY <1>7 DEF SendFails
  <2>. QED  BY <2>1, <2>2, <2>3 DEF End
<1>8. ASSUME NEW t \in Iterations, Mark(t) PROVE TypeOK'
  <2>1. Interval - elapsed[t] \in -MaxRun .. Interval
    OBVIOUS
  <2>2. left' \in [Projects -> (-MaxRun .. Interval) \cup {Null}]
    BY <1>8, <2>1 DEF Mark, Marked, Upserted
  <2>. QED  BY <1>8, <2>2 DEF Mark, GoOn
<1>9. ASSUME NEW t \in Iterations, Finish(t) PROVE TypeOK'
  BY <1>9 DEF Finish, End
<1>10. ASSUME NEW t \in Iterations, Crash(t) PROVE TypeOK'
  BY <1>10 DEF Crash, Fails, End
<1>11. CASE Clock
  <2>1. left' \in [Projects -> (-MaxRun .. Interval) \cup {Null}]
    BY <1>11, SoonerType DEF Clock
  <2>2. sent' \in [Projects -> (0 .. Interval + MaxRun) \cup {Null}]
    BY <1>11, LongerType DEF Clock
  <2>3. elapsed' \in [Iterations -> 0 .. MaxRun]
    BY <1>11 DEF Clock
  <2>. QED  BY <1>11, <2>1, <2>2, <2>3 DEF Clock
<1>12. CASE UNCHANGED vars
  BY <1>12 DEF vars
<1>. QED
  BY <1>1, <1>2, <1>3, <1>4, <1>5, <1>6, <1>7, <1>8, <1>9, <1>10, <1>11, <1>12 DEF Next

\* The table, the iterations and the clock are always of their types.
THEOREM TypeCorrect == Spec => []TypeOK
<1>. QED  BY TypeInit, TypeStep, PTL DEF Spec

-----------------------------------------------------------------------------
(* The inductive invariant: an iteration that is about to record a report has sent *)
(* it since its now_iso.                                                           *)

MarksAreSent ==
  \A t \in Iterations, p \in Projects :
    stage[t] = "marking" /\ IsNext(t, p) => sent[p] # Null /\ sent[p] <= elapsed[t]

IInv == TypeOK /\ MarksAreSent /\ RowIsTruthful

\* A report that goes out keeps what was true true: it is newer than any record.
LEMMA Delivered ==
  ASSUME IInv, NEW p \in Projects, sent' = [sent EXCEPT ![p] = 0], UNCHANGED left
  PROVE  RowIsTruthful'
BY ProgressReportsAssumption DEF IInv, TypeOK, RowIsTruthful, ProgressReportsAssumption

\* Iteration t is no longer about to record, the others are where they were.
LEMMA OthersMark ==
  ASSUME IInv, NEW t \in Iterations, stage' = [stage EXCEPT ![t] = stage'[t]],
         stage'[t] # "marking",
         todo' = [todo EXCEPT ![t] = todo'[t]], elapsed' = [elapsed EXCEPT ![t] = elapsed'[t]],
         \A p \in Projects : sent'[p] = sent[p] \/ sent'[p] = 0
  PROVE  MarksAreSent'
<1>. SUFFICES ASSUME NEW u \in Iterations, NEW p \in Projects,
                     stage'[u] = "marking", IsNext(u, p)'
              PROVE  sent'[p] # Null /\ sent'[p] <= elapsed'[u]
  BY DEF MarksAreSent
<1>1. u # t
  OBVIOUS
<1>2. stage[u] = "marking" /\ todo'[u] = todo[u] /\ elapsed'[u] = elapsed[u]
  BY <1>1 DEF IInv, TypeOK
<1>3. IsNext(u, p)
  BY <1>2 DEF IsNext
<1>4. sent[p] # Null /\ sent[p] <= elapsed[u]
  BY <1>2, <1>3 DEF IInv, MarksAreSent
<1>5. elapsed[u] >= 0 /\ Null # 0
  BY ProgressReportsAssumption DEF IInv, TypeOK, ProgressReportsAssumption
<1>. QED  BY <1>2, <1>4, <1>5

LEMMA IInvInit == Init => IInv
BY TypeInit DEF IInv, Init, MarksAreSent, RowIsTruthful

LEMMA MarksStep ==
  ASSUME IInv, [Next]_vars
  PROVE  MarksAreSent'
<1>. USE DEF IInv, TypeOK
<1>1. ASSUME NEW p \in Projects, Bind(p) PROVE MarksAreSent'
  BY <1>1 DEF Bind, MarksAreSent, IsNext
<1>2. ASSUME NEW t \in Iterations, Begin(t) \/ Skip(t) \/ FetchFails(t) \/ Fetch(t)
                                   \/ Finish(t) \/ Crash(t) \/ Mark(t)
      PROVE  MarksAreSent'
  <2>1. /\ stage' = [stage EXCEPT ![t] = stage'[t]] /\ stage'[t] # "marking"
        /\ sent' = sent
    BY <1>2 DEF Begin, Skip, FetchFails, Fetch, Finish, Crash, Mark, GoOn, End
  <2>2. todo' = [todo EXCEPT ![t] = todo'[t]] /\ elapsed' = [elapsed EXCEPT ![t] = elapsed'[t]]
    BY <1>2 DEF Begin, Skip, FetchFails, Fetch, Finish, Crash, Mark, GoOn, End
  <2>. QED  BY <2>1, <2>2, OthersMark
<1>3. ASSUME NEW t \in Iterations, NEW delivered \in BOOLEAN, SendFails(t, delivered)
      PROVE  MarksAreSent'
  <2>1. /\ stage' = [stage EXCEPT ![t] = stage'[t]] /\ stage'[t] # "marking"
        /\ todo' = [todo EXCEPT ![t] = todo'[t]]
        /\ elapsed' = [elapsed EXCEPT ![t] = elapsed'[t]]
    BY <1>3 DEF SendFails, End
  <2>2. \A p \in Projects : sent'[p] = sent[p] \/ sent'[p] = 0
    BY <1>3 DEF SendFails
  <2>. QED  BY <2>1, <2>2, OthersMark
<1>4. ASSUME NEW t \in Iterations, Send(t) PROVE MarksAreSent'
  <2>. PICK p \in Projects : /\ IsNext(t, p)
                             /\ sent' = [sent EXCEPT ![p] = 0]
                             /\ stage' = [stage EXCEPT ![t] = "marking"]
                             /\ UNCHANGED <<todo, elapsed>>
    BY <1>4 DEF Send
  <2>. SUFFICES ASSUME NEW u \in Iterations, NEW q \in Projects,
                       stage'[u] = "marking", IsNext(u, q)
                PROVE  sent'[q] # Null /\ sent'[q] <= elapsed[u]
    BY DEF MarksAreSent, IsNext
  <2>1. Null # 0 /\ elapsed[u] >= 0
    BY ProgressReportsAssumption DEF ProgressReportsAssumption
  <2>2. CASE q = p
    BY <2>1, <2>2
  <2>3. CASE q # p
    <3>1. u # t
      <4>1. u = t => Rank[p] <= Rank[q] /\ Rank[q] <= Rank[p]
        BY DEF IsNext
      <4>2. Rank[p] \in Nat /\ Rank[q] \in Nat /\ Rank[p] # Rank[q]
        BY <2>3, ProgressReportsAssumption DEF ProgressReportsAssumption
      <4>. QED  BY <4>1, <4>2
    <3>2. stage[u] = "marking" /\ sent'[q] = sent[q]
      BY <2>3, <3>1
    <3>. QED  BY <3>2 DEF MarksAreSent
  <2>. QED  BY <2>2, <2>3
<1>5. CASE Clock
  <2>. SUFFICES ASSUME NEW u \in Iterations, NEW q \in Projects,
                       stage[u] = "marking", IsNext(u, q)
                PROVE  sent'[q] # Null /\ sent'[q] <= elapsed'[u]
    BY <1>5 DEF Clock, MarksAreSent, IsNext
  <2>1. sent[q] # Null /\ sent[q] <= elapsed[u] /\ sent[q] \in 0 .. Interval + MaxRun
    BY DEF MarksAreSent
  <2>2. sent'[q] = Longer(sent[q]) /\ elapsed'[u] = elapsed[u] + 1
    BY <1>5 DEF Clock
  <2>3. Longer(sent[q]) # Null /\ Longer(sent[q]) <= sent[q] + 1
    BY <2>1, LongerType
  <2>4. Longer(sent[q]) \in 0 .. Interval + MaxRun
    BY <2>1, <2>3, LongerType
  <2>. QED
    BY <2>1, <2>2, <2>3, <2>4, ProgressReportsAssumption DEF ProgressReportsAssumption
<1>6. CASE UNCHANGED vars
  BY <1>6 DEF vars, MarksAreSent, IsNext
<1>. QED  BY <1>1, <1>2, <1>3, <1>4, <1>5, <1>6 DEF Next

LEMMA RowStep ==
  ASSUME IInv, [Next]_vars
  PROVE  RowIsTruthful'
<1>1. CASE UNCHANGED <<left, sent>>
  BY <1>1 DEF IInv, RowIsTruthful
<1>2. ASSUME NEW t \in Iterations, Send(t) PROVE RowIsTruthful'
  BY <1>2, Delivered DEF Send
<1>3. ASSUME NEW t \in Iterations, NEW delivered \in BOOLEAN, SendFails(t, delivered)
      PROVE  RowIsTruthful'
  <2>1. UNCHANGED left
    BY <1>3 DEF SendFails
  <2>2. UNCHANGED sent \/ \E p \in Projects : sent' = [sent EXCEPT ![p] = 0]
    BY <1>3 DEF SendFails
  <2>. QED  BY <2>1, <2>2, <1>1, Delivered
<1>4. ASSUME NEW t \in Iterations, Mark(t) PROVE RowIsTruthful'
  <2>. PICK p \in Projects : /\ stage[t] = "marking" /\ IsNext(t, p)
                             /\ left' = [left EXCEPT ![p] = Interval - elapsed[t]]
                             /\ UNCHANGED sent
    BY <1>4 DEF Mark, Marked, Upserted
  <2>. SUFFICES ASSUME NEW q \in Projects, left'[q] # Null
                PROVE  sent[q] # Null /\ sent[q] <= Interval - left'[q]
    BY DEF RowIsTruthful
  <2>1. CASE q = p
    <3>1. sent[p] # Null /\ sent[p] <= elapsed[t] /\ sent[p] \in 0 .. Interval + MaxRun
      BY DEF IInv, TypeOK, MarksAreSent
    <3>2. left'[q] = Interval - elapsed[t] /\ elapsed[t] \in 0 .. MaxRun
      BY <2>1 DEF IInv, TypeOK
    <3>. QED
      BY <2>1, <3>1, <3>2, ProgressReportsAssumption DEF ProgressReportsAssumption
  <2>2. CASE q # p
    BY <2>2 DEF IInv, TypeOK, RowIsTruthful
  <2>. QED  BY <2>1, <2>2
<1>5. CASE Clock
  <2>. SUFFICES ASSUME NEW q \in Projects, left'[q] # Null
                PROVE  sent'[q] # Null /\ sent'[q] <= Interval - left'[q]
    BY DEF RowIsTruthful
  <2>1. left'[q] = Sooner(left[q]) /\ sent'[q] = Longer(sent[q])
    BY <1>5 DEF Clock
  <2>2. left[q] \in -MaxRun .. Interval
    BY <2>1, SoonerType DEF IInv, TypeOK
  <2>3. sent[q] \in 0 .. Interval + MaxRun /\ sent[q] <= Interval - left[q]
    BY <2>2, ProgressReportsAssumption
    DEF IInv, TypeOK, RowIsTruthful, ProgressReportsAssumption
  <2>4. /\ Sooner(left[q]) \in -MaxRun .. Interval
        /\ Sooner(left[q]) = -MaxRun \/ Sooner(left[q]) = left[q] - 1
    BY <2>1, <2>2, SoonerType, ProgressReportsAssumption DEF ProgressReportsAssumption
  <2>5. Longer(sent[q]) \in 0 .. Interval + MaxRun /\ Longer(sent[q]) <= sent[q] + 1
    BY <2>3, LongerType, ProgressReportsAssumption DEF ProgressReportsAssumption
  <2>. QED
    BY <2>1, <2>2, <2>3, <2>4, <2>5, ProgressReportsAssumption DEF ProgressReportsAssumption
<1>6. UNCHANGED <<left, sent>> \/ Clock
      \/ (\E t \in Iterations : Mark(t) \/ Send(t))
      \/ (\E t \in Iterations, delivered \in BOOLEAN : SendFails(t, delivered))
  BY DEF Next, vars, Bind, Begin, Skip, FetchFails, Fetch, Finish, Crash
<1>. QED  BY <1>1, <1>2, <1>3, <1>4, <1>5, <1>6

THEOREM Invariance == Spec => []IInv
<1>1. IInv /\ [Next]_vars => IInv'
  BY TypeStep, MarksStep, RowStep DEF IInv
<1>. QED  BY <1>1, IInvInit, PTL DEF Spec

\* A row of the table speaks of a report the Founder got, and not of an older one,
\* for any number of overlapping and failing iterations.
THEOREM RowIsTruthfulHolds == Spec => []RowIsTruthful
<1>1. IInv => RowIsTruthful
  BY DEF IInv
<1>. QED  BY <1>1, Invariance, PTL

=============================================================================
