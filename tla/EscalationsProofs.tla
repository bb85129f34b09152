-------------------------- MODULE EscalationsProofs ---------------------------
(***************************************************************************)
(* Proofs about Escalations for every number of overlapping iterations,    *)
(* every batch limit, cooldown and age, and every bound of the table.      *)
(***************************************************************************)
EXTENDS Escalations, TLAPS

-----------------------------------------------------------------------------
(* What the operators on one row and on one age return *)

LEMMA LaterType ==
  ASSUME NEW limit \in Nat, NEW n \in (0 .. limit + 1) \cup {Null}
  PROVE  /\ Later(n, limit) \in (0 .. limit + 1) \cup {Null}
         /\ Later(n, limit) = Null <=> n = Null
BY EscalationsAssumption DEF Later

LEMMA NoRowType == NoRow \in Row
BY EscalationsAssumption DEF NoRow, Row

LEMMA NewRowType ==
  ASSUME NEW u \in Urgencies, NEW o \in Origins \cup {Null}
  PROVE  NewRow(u, o) \in Row
BY EscalationsAssumption DEF NewRow, Row, Open

\* A mark changes a pending row only, and nothing but its status and surfaced_at.
LEMMA MarkedRow ==
  ASSUME NEW row \in Row
  PROVE  /\ Marked(row) \in Row
         /\ Marked(row).age = row.age
         /\ \/ Marked(row) = row
            \/ /\ row.status = "pending"
               /\ Marked(row).status = "surfaced" /\ Marked(row).surfaced = 0
<1>1. CASE row.status = "pending"
  <2>1. 0 \in 0 .. Cooldown + 1 /\ "surfaced" \in Open \cup Closed \cup {"absent"}
    BY EscalationsAssumption DEF Open
  <2> DEFINE new == [row EXCEPT !.status = "surfaced", !.surfaced = 0]
  <2>2. new \in Row /\ new.age = row.age /\ new.status = "surfaced" /\ new.surfaced = 0
    BY <2>1 DEF Row
  <2>3. QED
    BY <1>1, <2>2 DEF Marked
<1>2. CASE row.status # "pending"
  BY <1>2 DEF Marked
<1>3. QED
  BY <1>1, <1>2

\* Time changes no status, and no surfaced_at to or from NULL.
LEMMA AgedRow ==
  ASSUME NEW row \in Row
  PROVE  /\ Aged(row) \in Row
         /\ Aged(row).status = row.status
         /\ Aged(row).surfaced = Null <=> row.surfaced = Null
         /\ row.status \notin Open => Aged(row) = row
<1>1. Later(row.age, MaxAge) \in 0 .. MaxAge + 1
  BY LaterType, EscalationsAssumption DEF Row
<1>2. /\ Later(row.surfaced, Cooldown) \in (0 .. Cooldown + 1) \cup {Null}
      /\ Later(row.surfaced, Cooldown) = Null <=> row.surfaced = Null
  BY LaterType, EscalationsAssumption DEF Row
<1>3. QED
  BY <1>1, <1>2 DEF Aged, Row

-----------------------------------------------------------------------------
(* The inductive invariant *)

\* The ids given out are those of the rows there are; a row sent and not yet marked
\* has been sent.
SendsAreTold ==
  /\ \A i \in Ids : i >= next <=> rows[i].status = "absent"
  /\ \A i \in Ids : rows[i].status = "absent" => rows[i] = NoRow
  /\ \A p \in Pollers : sending[p] # Null => told[sending[p]] # Null

Inv ==
  /\ TypeOK
  /\ SendsAreTold
  /\ SurfacedWasTold

\* What a step may do to a row: insert it, mark it after it was told, close it, or
\* let it age.
RowStep(i) ==
  \/ rows'[i] = rows[i]
  \/ /\ rows[i].status = "absent"
     /\ rows'[i].status = "pending" /\ rows'[i].surfaced = Null
  \/ /\ rows[i].status = "pending" /\ told[i] # Null
     /\ rows'[i].status = "surfaced" /\ rows'[i].surfaced # Null
  \/ /\ rows[i].status \in Open
     /\ rows'[i].status \in Closed
     /\ rows'[i].surfaced = rows[i].surfaced
  \/ /\ rows[i].status \in Open
     /\ rows'[i].status = rows[i].status
     /\ rows'[i].surfaced = Null <=> rows[i].surfaced = Null

\* The rows of a step, each of which makes one of those moves, keep the invariant.
LEMMA RowsStep ==
  ASSUME Inv, TypeOK', SendsAreTold',
         \A i \in Ids : RowStep(i),
         \A i \in Ids : told[i] # Null => told'[i] # Null
  PROVE  Inv'
BY DEF Inv, SurfacedWasTold, RowStep, Open, Closed, Verdicts, SendsAreTold, NoRow

LEMMA InvInit == Init => Inv
BY NoRowType, EscalationsAssumption
   DEF Init, Inv, TypeOK, SendsAreTold, SurfacedWasTold, NoRow, Open, Ids

\* Every step keeps the invariant and makes one of the moves on every row.
LEMMA InvStep ==
  ASSUME Inv, [Next]_vars
  PROVE  Inv' /\ \A i \in Ids : RowStep(i)
<1> USE DEF Inv, poller
<1>0. ASSUME UNCHANGED rows
      PROVE  \A i \in Ids : RowStep(i)
  BY <1>0 DEF RowStep
<1>1. ASSUME NEW u \in Urgencies, NEW o \in Origins \cup {Null}, Write(u, o)
      PROVE  Inv' /\ \A i \in Ids : RowStep(i)
  <2>1. next \in Ids /\ rows[next].status = "absent"
    BY <1>1, EscalationsAssumption DEF Write, WriteRow, TypeOK, Ids, SendsAreTold
  <2>2. \A i \in Ids : rows'[i] = IF i = next THEN NewRow(u, o) ELSE rows[i]
    BY <1>1 DEF Write, WriteRow, TypeOK
  <2>3. NewRow(u, o).status = "pending" /\ NewRow(u, o).surfaced = Null
    BY DEF NewRow
  <2>4. TypeOK'
    <3>1. rows' \in [Ids -> Row]
      BY <1>1, <2>1, NewRowType DEF Write, WriteRow, TypeOK
    <3>2. next' \in 1 .. MaxRows + 1
      BY <1>1, EscalationsAssumption DEF Write, WriteRow, TypeOK
    <3>3. QED
      BY <1>1, <3>1, <3>2 DEF Write, TypeOK
  <2>5. SendsAreTold'
    <3>1. next' = next + 1 /\ UNCHANGED <<sending, told>> /\ next \in Int
      BY <1>1 DEF Write, WriteRow, TypeOK
    <3>2. \A i \in Ids : i \in Int
      BY DEF Ids
    <3>3. QED
      BY <2>2, <2>3, <3>1, <3>2 DEF SendsAreTold
  <2>6. \A i \in Ids : RowStep(i)
    BY <2>1, <2>2, <2>3 DEF RowStep
  <2>7. QED
    BY <1>1, <2>4, <2>5, <2>6, RowsStep DEF Write
<1>2. ASSUME NEW p \in Pollers, Read(p)
      PROVE  Inv' /\ \A i \in Ids : RowStep(i)
  <2>1. Chosen(Eligible) \in SUBSET Ids
    BY DEF Chosen, Eligible
  <2>2. TypeOK' /\ SendsAreTold'
    BY <1>2, <2>1 DEF Read, TypeOK, SendsAreTold
  <2>3. QED
    BY <1>0, <1>2, <2>2, RowsStep DEF Read
<1>3. ASSUME NEW p \in Pollers, Send(p)
      PROVE  Inv' /\ \A i \in Ids : RowStep(i)
  <2>1. PICK i \in Ids : /\ told' = [told EXCEPT ![i] = 0]
                         /\ sending' = [sending EXCEPT ![p] = i]
    BY <1>3 DEF Send
  <2>2. \A j \in Ids : told'[j] = IF j = i THEN 0 ELSE told[j]
    BY <2>1 DEF TypeOK
  <2>3. TypeOK'
    BY <1>3, <2>1, EscalationsAssumption DEF Send, TypeOK
  <2>4. SendsAreTold'
    BY <1>3, <2>1, <2>2, EscalationsAssumption DEF Send, TypeOK, SendsAreTold
  <2>5. QED
    BY <1>0, <1>3, <2>2, <2>3, <2>4, EscalationsAssumption, RowsStep DEF Send
<1>4. ASSUME NEW p \in Pollers, NEW delivered \in BOOLEAN, SendFails(p, delivered)
      PROVE  Inv' /\ \A i \in Ids : RowStep(i)
  <2>1. PICK i \in Ids : /\ told' = IF delivered THEN [told EXCEPT ![i] = 0] ELSE told
                         /\ batch' = [batch EXCEPT ![p] = @ \ {i}]
    BY <1>4 DEF SendFails
  <2>2. \A j \in Ids : told'[j] = told[j] \/ told'[j] = 0
    BY <2>1 DEF TypeOK
  <2>3. TypeOK'
    BY <1>4, <2>1, EscalationsAssumption DEF SendFails, TypeOK
  <2>4. SendsAreTold'
    BY <1>4, <2>2, EscalationsAssumption DEF SendFails, TypeOK, SendsAreTold
  <2>5. QED
    BY <1>0, <1>4, <2>2, <2>3, <2>4, EscalationsAssumption, RowsStep DEF SendFails
<1>5. ASSUME NEW p \in Pollers, Sent(p)
      PROVE  /\ sending[p] \in Ids /\ told[sending[p]] # Null
             /\ batch' \in [Pollers -> SUBSET Ids]
             /\ sending' \in [Pollers -> Ids \cup {Null}]
             /\ \A q \in Pollers : sending'[q] # Null => told'[sending'[q]] # Null
  BY <1>5 DEF Sent, TypeOK, SendsAreTold
<1>6. ASSUME NEW p \in Pollers, Mark(p)
      PROVE  Inv' /\ \A i \in Ids : RowStep(i)
  <2>1. Sent(p)
    BY <1>6 DEF Mark
  <2>2. \A i \in Ids : rows'[i] = IF i = sending[p] THEN Marked(rows[i]) ELSE rows[i]
    BY <1>6 DEF Mark, TypeOK
  <2>3. rows[sending[p]] \in Row
    BY <1>5, <2>1 DEF TypeOK
  <2>4. TypeOK'
    BY <1>5, <1>6, <2>1, <2>3, MarkedRow DEF Mark, Sent, TypeOK
  <2>5. \A i \in Ids : RowStep(i)
    BY <1>5, <2>1, <2>2, <2>3, MarkedRow, EscalationsAssumption DEF RowStep
  <2>6. SendsAreTold'
    BY <1>5, <2>1, <2>2, <2>3, MarkedRow DEF Sent, SendsAreTold
  <2>7. QED
    BY <2>1, <2>4, <2>5, <2>6, RowsStep DEF Sent
<1>7. ASSUME NEW p \in Pollers, MarkFails(p)
      PROVE  Inv' /\ \A i \in Ids : RowStep(i)
  <2>1. TypeOK' /\ SendsAreTold'
    BY <1>5, <1>7 DEF MarkFails, Sent, TypeOK, SendsAreTold
  <2>2. QED
    BY <1>0, <1>7, <2>1, RowsStep DEF MarkFails, Sent
<1>8. ASSUME NEW p \in Pollers, Crash(p)
      PROVE  Inv' /\ \A i \in Ids : RowStep(i)
  <2>1. TypeOK' /\ SendsAreTold'
    BY <1>8 DEF Crash, TypeOK, SendsAreTold
  <2>2. QED
    BY <1>0, <1>8, <2>1, RowsStep DEF Crash
<1>9. ASSUME NEW i \in Ids, NEW v \in Verdicts, Resolve(i, v)
      PROVE  Inv' /\ \A j \in Ids : RowStep(j)
  <2> DEFINE row == [rows[i] EXCEPT !.status = v]
  <2>1. rows[i] \in Row /\ rows[i].status \in Open
    BY <1>9 DEF Resolve, TypeOK
  <2>2. row \in Row /\ row.status \in Verdicts /\ row.surfaced = rows[i].surfaced
    BY <2>1 DEF Row, Closed
  <2>3. rows' = [rows EXCEPT ![i] = row] /\ UNCHANGED <<next, batch, sending, told>>
    BY <1>9 DEF Resolve
  <2> HIDE DEF row
  <2>4. TypeOK'
    BY <2>2, <2>3 DEF TypeOK
  <2>5. \A j \in Ids : rows'[j] = IF j = i THEN row ELSE rows[j]
    BY <2>3 DEF TypeOK
  <2>6. SendsAreTold'
    BY <2>1, <2>2, <2>3, <2>5 DEF SendsAreTold, Open, Verdicts
  <2>7. \A j \in Ids : RowStep(j)
    BY <2>1, <2>2, <2>5 DEF RowStep, Closed, Verdicts
  <2>8. QED
    BY <2>3, <2>4, <2>6, <2>7, RowsStep
<1>10. CASE ExpireOld
  <2> DEFINE new(row) == IF Old(row) THEN [row EXCEPT !.status = "expired"] ELSE row
  <2>1. ASSUME NEW row \in Row
        PROVE  /\ new(row) \in Row
               /\ \/ new(row) = row
                  \/ /\ row.status \in Open /\ new(row).status = "expired"
                     /\ new(row).age > MaxAge /\ new(row).surfaced = row.surfaced
    BY DEF Old, Row, Closed
  <2>2. rows' = [i \in Ids |-> new(rows[i])] /\ UNCHANGED <<next, batch, sending, told>>
    BY <1>10 DEF ExpireOld
  <2> HIDE DEF new
  <2>3. TypeOK'
    BY <2>1, <2>2 DEF TypeOK
  <2>4. \A i \in Ids : RowStep(i)
    BY <2>1, <2>2 DEF RowStep, TypeOK, Closed
  <2>5. SendsAreTold'
    BY <2>1, <2>2 DEF SendsAreTold, TypeOK, Open
  <2>6. QED
    BY <2>2, <2>3, <2>4, <2>5, RowsStep
<1>11. CASE Tick
  <2>1. /\ rows' = [i \in Ids |-> Aged(rows[i])]
        /\ told' = [i \in Ids |-> Later(told[i], Cooldown)]
        /\ UNCHANGED <<next, batch, sending>>
    BY <1>11 DEF Tick
  <2>2. \A i \in Ids : /\ Later(told[i], Cooldown) \in (0 .. Cooldown + 1) \cup {Null}
                       /\ Later(told[i], Cooldown) = Null <=> told[i] = Null
    BY LaterType, EscalationsAssumption DEF TypeOK
  <2>3. TypeOK'
    BY <2>1, <2>2, AgedRow DEF TypeOK
  <2>4. \A i \in Ids : RowStep(i)
    BY <2>1, AgedRow DEF RowStep, TypeOK
  <2>5. SendsAreTold'
    BY <2>1, <2>2, AgedRow DEF SendsAreTold, TypeOK, NoRow, Open
  <2>6. QED
    BY <2>1, <2>2, <2>3, <2>4, <2>5, RowsStep
<1>12. CASE UNCHANGED vars
  BY <1>0, <1>12 DEF vars, TypeOK, SendsAreTold, SurfacedWasTold
<1>13. QED
  BY <1>1, <1>2, <1>3, <1>4, <1>6, <1>7, <1>8, <1>9, <1>10, <1>11, <1>12 DEF Next

LEMMA InvCorrect == Spec => []Inv
<1>1. Inv /\ [Next]_vars => Inv'
  BY InvStep
<1>2. QED
  BY <1>1, InvInit, PTL DEF Spec

-----------------------------------------------------------------------------
(* The theorems *)

\* Every reachable table and every iteration's memory has its type.
THEOREM EscalationTypes == Spec => []TypeOK
BY InvCorrect, PTL DEF Inv

\* A row marked surfaced has reached the Founder, for any number of iterations
\* that overlap, fail and crash.
THEOREM SurfacedWasToldHolds == Spec => []SurfacedWasTold
BY InvCorrect, PTL DEF Inv

\* A late mark reopens nothing.
THEOREM ClosedIsFinalHolds == Spec => ClosedIsFinal
<1>1. ASSUME Inv, [Next]_vars
      PROVE  \A i \in Ids : rows[i].status \in Closed => rows'[i].status = rows[i].status
  <2>1. \A i \in Ids : RowStep(i)
    BY <1>1, InvStep
  <2>2. QED
    BY <2>1 DEF RowStep, Closed, Verdicts, Open
<1>2. QED
  BY <1>1, InvCorrect, PTL DEF Spec, ClosedIsFinal

=============================================================================
