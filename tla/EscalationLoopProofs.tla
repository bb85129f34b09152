------------------------- MODULE EscalationLoopProofs -------------------------
(***************************************************************************)
(* Proofs about WorkQueue for every set of sessions, roles, keys and       *)
(* priorities, every lease length and every bound; then about              *)
(* EscalationLoop, which runs that queue, for every assignment of tool     *)
(* calls to work.                                                          *)
(***************************************************************************)
EXTENDS EscalationLoop, TLAPS

-----------------------------------------------------------------------------
(* What the row operators return *)

LEMMA InjectWrites == Inject => Write
BY WorkQueueAssumption DEF Inject, Write

LEMMA NewRowType ==
  ASSUME NEW r \in Roles, NEW k \in Keys \cup {Null}, NEW p \in Priorities
  PROVE  NewRow(r, k, p) \in Row
BY WorkQueueAssumption DEF NewRow, Row, Statuses, Live

LEMMA NoRowType == NoRow \in Row
BY WorkQueueAssumption DEF NoRow, Row, Statuses, Live

LEMMA ClaimedType ==
  ASSUME NEW row \in Row, NEW r \in Roles
  PROVE  Claimed(row, r) \in Row
<1>1. Lease \in -1 .. Lease
  BY WorkQueueAssumption
<1>2. QED
  BY <1>1 DEF Claimed, Row, Statuses, Live

LEMMA ReclaimedType ==
  ASSUME NEW row \in Row
  PROVE  Reclaimed(row) \in Row
BY DEF Reclaimed, Row, Statuses, Live

LEMMA CompletedType ==
  ASSUME NEW row \in Row
  PROVE  Completed(row) \in Row
BY WorkQueueAssumption DEF Completed, Row, Statuses, Live

LEMMA ReleasedType ==
  ASSUME NEW row \in Row, NEW increment \in BOOLEAN,
         increment => row.attempts < AttemptCap
  PROVE  Released(row, increment) \in Row
<1> DEFINE n == IF increment THEN row.attempts + 1 ELSE row.attempts
           st == IF increment /\ n >= MaxAttempts THEN "failed" ELSE "pending"
<1>1. row.attempts \in 0 .. AttemptCap
  BY DEF Row
<1>2. n \in 0 .. AttemptCap
  BY <1>1, WorkQueueAssumption
<1>3. st \in Statuses
  BY DEF Statuses, Live
<1>4. Released(row, increment) =
        [row EXCEPT !.status = st, !.holder = Null, !.lease = Null, !.attempts = n]
  BY DEF Released
<1> HIDE DEF n, st
<1>5. QED
  BY <1>2, <1>3, <1>4 DEF Row

LEMMA AgedType ==
  ASSUME NEW row \in Row
  PROVE  Aged(row) \in Row
BY WorkQueueAssumption DEF Aged, Row, Statuses, Live

-----------------------------------------------------------------------------
(* Type correctness *)

\* Every reachable table, id counter and session memory has its type.
THEOREM TypeCorrect == Spec => []TypeOK
<1>1. Init => TypeOK
  BY NoRowType, WorkQueueAssumption DEF Init, TypeOK, Ids
<1>2. ASSUME TypeOK, [Next]_vars
      PROVE  TypeOK'
  <2> USE <1>2 DEF TypeOK
  <2>1. ASSUME NEW r \in Roles, NEW k \in Keys \cup {Null}, NEW p \in Priorities,
               WriteItem(r, k, p), UNCHANGED task
        PROVE  TypeOK'
    <3>1. KeyFreed(k) \in [Ids -> Row]
      BY WorkQueueAssumption DEF KeyFreed, Row
    <3>2. NewRow(r, k, p) \in Row
      BY NewRowType
    <3> HIDE DEF Row
    <3>3. CASE UNCHANGED nextId /\ items' = KeyFreed(k)
      BY <2>1, <3>1, <3>3
    <3>4. CASE /\ nextId <= MaxItems /\ nextId' = nextId + 1
               /\ items' = [KeyFreed(k) EXCEPT ![nextId] = NewRow(r, k, p)]
      BY <2>1, <3>1, <3>2, <3>4, WorkQueueAssumption DEF Ids
    <3>5. QED
      BY <2>1, <3>3, <3>4 DEF WriteItem
  <2>2. ASSUME NEW s \in Sessions, Claim(s)
        PROVE  TypeOK'
    <3>1. PICK i \in Ids : ClaimItem(i, RoleOf[s]) /\ task' = [task EXCEPT ![s] = i]
      BY <2>2 DEF Claim
    <3>2. Claimed(items[i], RoleOf[s]) \in Row
      BY ClaimedType, WorkQueueAssumption
    <3>3. QED
      BY <2>2, <3>1, <3>2 DEF Claim, ClaimItem
  <2>3. ASSUME NEW s \in Sessions, Complete(s)
        PROVE  TypeOK'
    <3>1. task[s] \in Ids /\ items[task[s]] \in Row
      BY <2>3 DEF Complete
    <3>2. Completed(items[task[s]]) \in Row
      BY <3>1, CompletedType
    <3>3. QED
      BY <2>3, <3>1, <3>2 DEF Complete
  <2>4. ASSUME NEW s \in Sessions, NEW increment \in BOOLEAN, Release(s, increment)
        PROVE  TypeOK'
    <3>1. task[s] \in Ids /\ items[task[s]] \in Row
      BY <2>4 DEF Release
    <3>2. Released(items[task[s]], increment) \in Row
      BY <2>4, <3>1, ReleasedType DEF Release
    <3>3. QED
      BY <2>4, <3>1, <3>2 DEF Release
  <2>5. CASE Reclaim
    BY <2>5, ReclaimedType DEF Reclaim
  <2>6. ASSUME NEW s \in Sessions, Crash(s)
        PROVE  TypeOK'
    BY <2>6 DEF Crash
  <2>7. CASE Tick
    BY <2>7, AgedType DEF Tick
  <2>8. CASE UNCHANGED vars
    BY <2>8 DEF vars
  <2>9. QED
    BY <1>2, <2>1, <2>2, <2>3, <2>4, <2>5, <2>6, <2>7, <2>8, InjectWrites DEF Next, Write
<1>3. QED
  BY <1>1, <1>2, PTL DEF Spec

-----------------------------------------------------------------------------
(* What holds whatever the sessions do *)

\* The ids given out are those of the rows there are, and a session remembers
\* only such an id: what the invariants need to survive an insertion.
FreshRows ==
  /\ \A i \in Ids : i >= nextId <=> items[i].status = "absent"
  /\ \A i \in Ids : items[i].status = "absent" => items[i] = NoRow
  /\ \A s \in Sessions : task[s] # Null => items[task[s]].status # "absent"

\* The UNIQUE constraint on dedup_key.
KeysUnique ==
  \A i, j \in Ids : items[i].key # Null /\ items[i].key = items[j].key => i = j

TableInv ==
  /\ TypeOK
  /\ FreshRows
  /\ KeyedRowsAreLive
  /\ KeysUnique
  /\ SweepSeesEveryClaim

\* The UPDATE that opens write_work_item changes no row: complete_work_item has
\* already taken the key of every completed row.
LEMMA KeyFreedIsIdentity ==
  ASSUME TypeOK, KeyedRowsAreLive, NEW k \in Keys \cup {Null}
  PROVE  KeyFreed(k) = items
BY DEF TypeOK, KeyedRowsAreLive, KeyFreed, Live

LEMMA TableInvInit == Init => TableInv
BY NoRowType, WorkQueueAssumption
   DEF Init, TableInv, TypeOK, FreshRows, KeyedRowsAreLive, KeysUnique,
       SweepSeesEveryClaim, NoRow, Ids

\* One row is replaced by another that is no longer absent and keeps or gives up
\* its key: what claim, complete and release have in common.
LEMMA RowReplaced ==
  ASSUME TableInv, TypeOK', NEW i \in Ids, NEW row \in Row,
         items[i].status # "absent",
         items' = [items EXCEPT ![i] = row], UNCHANGED nextId,
         \A s \in Sessions : task'[s] # Null => task'[s] = task[s] \/ task'[s] = i,
         row.status \in Live \cup {"completed"},
         row.work = items[i].work,
         row.key \in {items[i].key, Null},
         row.key # Null => row.status \in Live,
         row.role = items[i].role,
         row.status = "claimed" <=> row.lease # Null,
         row.status = "claimed" => row.holder = row.role,
         row.status \in {"pending", "failed"} => row.holder = Null
  PROVE  TableInv'
<1> USE DEF TableInv
<1>1. FreshRows'
  BY DEF FreshRows, TypeOK, Live
<1>2. KeyedRowsAreLive'
  BY DEF KeyedRowsAreLive, TypeOK
<1>3. KeysUnique'
  BY DEF KeysUnique, TypeOK
<1>4. SweepSeesEveryClaim'
  BY DEF SweepSeesEveryClaim, TypeOK
<1>5. QED
  BY <1>1, <1>2, <1>3, <1>4

LEMMA TableInvStep ==
  ASSUME TableInv, TypeOK', [Next]_vars
  PROVE  TableInv'
<1> USE DEF TableInv
<1>1. ASSUME NEW r \in Roles, NEW k \in Keys \cup {Null}, NEW p \in Priorities,
             WriteItem(r, k, p), UNCHANGED task
      PROVE  TableInv'
  <2>1. KeyFreed(k) = items
    BY KeyFreedIsIdentity
  <2>2. CASE UNCHANGED <<items, nextId>>
    BY <1>1, <2>2 DEF FreshRows, KeyedRowsAreLive, KeysUnique, SweepSeesEveryClaim, TypeOK
  <2>3. CASE /\ nextId <= MaxItems /\ nextId' = nextId + 1
             /\ k # Null => \A i \in Ids : items[i].key # k
             /\ items' = [items EXCEPT ![nextId] = NewRow(r, k, p)]
    <3>1. nextId \in Ids
      BY <2>3, WorkQueueAssumption DEF TypeOK, Ids
    <3>2. \A i \in Ids : items'[i] = IF i = nextId THEN NewRow(r, k, p) ELSE items[i]
      BY <2>3 DEF TypeOK
    <3>3. FreshRows'
      BY <1>1, <2>3, <3>1, <3>2 DEF FreshRows, TypeOK, NewRow, Ids
    <3>4. KeyedRowsAreLive'
      BY <3>2 DEF KeyedRowsAreLive, NewRow, Live
    <3>5. KeysUnique'
      BY <2>3, <3>2 DEF KeysUnique, NewRow
    <3>6. SweepSeesEveryClaim'
      BY <3>2 DEF SweepSeesEveryClaim, NewRow
    <3>7. QED
      BY <3>3, <3>4, <3>5, <3>6
  <2>4. QED
    BY <1>1, <2>1, <2>2, <2>3 DEF WriteItem
<1>2. ASSUME NEW s \in Sessions, Claim(s)
      PROVE  TableInv'
  <2>1. PICK i \in Ids : ClaimItem(i, RoleOf[s]) /\ task' = [task EXCEPT ![s] = i]
    BY <1>2 DEF Claim
  <2>2. items[i].role = RoleOf[s] /\ items[i].status = "pending" /\ items[i] \in Row
    BY <2>1 DEF ClaimItem, Candidates, TypeOK
  <2> DEFINE row == Claimed(items[i], RoleOf[s])
  <2>3. row \in Row
    BY <2>2, ClaimedType, WorkQueueAssumption
  <2>4. /\ row.status = "claimed" /\ row.work = items[i].work /\ row.key = items[i].key
        /\ row.role = items[i].role /\ row.lease = Lease /\ row.holder = RoleOf[s]
    BY <2>2 DEF Claimed, Row
  <2>5. items' = [items EXCEPT ![i] = row] /\ UNCHANGED nextId
    BY <1>2, <2>1 DEF Claim, ClaimItem
  <2>6. \A t \in Sessions : task'[t] # Null => task'[t] = task[t] \/ task'[t] = i
    BY <2>1 DEF TypeOK
  <2>7. row.lease # Null /\ row.holder = row.role
    BY <2>2, <2>4, WorkQueueAssumption
  <2>8. row.key # Null => row.status \in Live
    BY <2>4 DEF Live
  <2>9. row.status \in Live \cup {"completed"} /\ row.status \notin {"pending", "failed"}
    BY <2>4 DEF Live
  <2> HIDE DEF row
  <2>10. QED
    BY <2>2, <2>3, <2>4, <2>5, <2>6, <2>7, <2>8, <2>9, RowReplaced
<1>3. ASSUME NEW s \in Sessions, Complete(s)
      PROVE  TableInv'
  <2> DEFINE i == task[s]
             row == Completed(items[i])
  <2>1. i \in Ids /\ items[i] \in Row /\ items[i].status # "absent"
    BY <1>3 DEF Complete, TypeOK, FreshRows
  <2>2. row \in Row
    BY <2>1, CompletedType
  <2>3. items' = [items EXCEPT ![i] = row] /\ UNCHANGED nextId
    BY <1>3 DEF Complete
  <2>4. \A t \in Sessions : task'[t] # Null => task'[t] = task[t]
    BY <1>3 DEF Complete, TypeOK
  <2>5. /\ row.status \in Live \cup {"completed"} /\ row.work = items[i].work
        /\ row.key \in {items[i].key, Null} /\ (row.key # Null => row.status \in Live)
        /\ row.role = items[i].role
    BY <2>1 DEF Completed, Row, Statuses, KeyedRowsAreLive
  <2>6. /\ row.status = "claimed" <=> row.lease # Null
        /\ row.status = "claimed" => row.holder = row.role
        /\ row.status \in {"pending", "failed"} => row.holder = Null
    BY <2>1 DEF Completed, Row, SweepSeesEveryClaim
  <2> HIDE DEF i, row
  <2>7. QED
    BY <2>1, <2>2, <2>3, <2>4, <2>5, <2>6, RowReplaced
<1>4. ASSUME NEW s \in Sessions, NEW increment \in BOOLEAN, Release(s, increment)
      PROVE  TableInv'
  <2> DEFINE i == task[s]
             row == Released(items[i], increment)
  <2>1. i \in Ids /\ items[i] \in Row /\ items[i].status # "absent"
    BY <1>4 DEF Release, TypeOK, FreshRows
  <2>2. row \in Row
    BY <1>4, <2>1, ReleasedType DEF Release
  <2>3. items' = [items EXCEPT ![i] = row] /\ UNCHANGED nextId
    BY <1>4 DEF Release
  <2>4. \A t \in Sessions : task'[t] # Null => task'[t] = task[t]
    BY <1>4 DEF Release, TypeOK
  <2>5. /\ row.status \in {"pending", "failed"} /\ row.work = items[i].work
        /\ row.key = items[i].key /\ row.role = items[i].role
        /\ row.lease = Null /\ row.holder = Null
    BY <2>1 DEF Released, Row
  <2> HIDE DEF i, row
  <2>6. QED
    BY <2>1, <2>2, <2>3, <2>4, <2>5, RowReplaced DEF Live
<1>5. CASE Reclaim
  <2>1. \A i \in Ids : /\ items'[i].role = items[i].role /\ items'[i].work = items[i].work
                       /\ items'[i].key = items[i].key
                       /\ \/ items'[i] = items[i]
                          \/ /\ items[i].status = "claimed" /\ items'[i].status = "pending"
                             /\ items'[i].holder = Null /\ items'[i].lease = Null
    <3>1. ASSUME NEW row \in Row
          PROVE  LET new == Reclaimed(row)
                 IN  /\ new.role = row.role /\ new.work = row.work /\ new.key = row.key
                     /\ \/ new = row
                        \/ /\ row.status = "claimed" /\ new.status = "pending"
                           /\ new.holder = Null /\ new.lease = Null
      BY DEF Reclaimed, Expired, Row
    <3>2. \A i \in Ids : items[i] \in Row /\ items'[i] = Reclaimed(items[i])
      BY <1>5 DEF Reclaim, TypeOK
    <3>3. QED
      BY <3>1, <3>2
  <2>2. UNCHANGED <<nextId, task>>
    BY <1>5 DEF Reclaim
  <2>3. FreshRows'
    BY <2>1, <2>2 DEF FreshRows, TypeOK
  <2>4. KeyedRowsAreLive' /\ KeysUnique'
    BY <2>1 DEF KeyedRowsAreLive, KeysUnique, Live
  <2>5. SweepSeesEveryClaim'
    BY <2>1 DEF SweepSeesEveryClaim
  <2>6. QED
    BY <2>3, <2>4, <2>5
<1>6. ASSUME NEW s \in Sessions, Crash(s)
      PROVE  TableInv'
  <2>1. UNCHANGED <<items, nextId>> /\ \A t \in Sessions : task'[t] \in {task[t], Null}
    BY <1>6 DEF Crash, TypeOK
  <2>2. QED
    BY <2>1 DEF FreshRows, KeyedRowsAreLive, KeysUnique, SweepSeesEveryClaim
<1>7. CASE Tick
  <2>1. \A i \in Ids : /\ items'[i].role = items[i].role /\ items'[i].work = items[i].work
                       /\ items'[i].key = items[i].key /\ items'[i].status = items[i].status
                       /\ items'[i].holder = items[i].holder
                       /\ items[i].lease # Null => items'[i].lease # Null
                       /\ items[i].lease = Null => items'[i] = items[i]
    <3>1. ASSUME NEW row \in Row
          PROVE  LET new == Aged(row)
                 IN  /\ new.role = row.role /\ new.work = row.work /\ new.key = row.key
                     /\ new.status = row.status /\ new.holder = row.holder
                     /\ row.lease # Null => new.lease # Null
                     /\ row.lease = Null => new = row
      BY WorkQueueAssumption DEF Aged, Row
    <3>2. \A i \in Ids : items[i] \in Row /\ items'[i] = Aged(items[i])
      BY <1>7 DEF Tick, TypeOK
    <3>3. QED
      BY <3>1, <3>2
  <2>2. UNCHANGED <<nextId, task>>
    BY <1>7 DEF Tick
  <2>3. FreshRows'
    <3>1. \A i \in Ids : items[i].status = "absent" => items[i].lease = Null
      BY DEF SweepSeesEveryClaim
    <3>2. QED
      BY <2>1, <2>2, <3>1 DEF FreshRows, TypeOK
  <2>4. KeyedRowsAreLive' /\ KeysUnique'
    BY <2>1 DEF KeyedRowsAreLive, KeysUnique
  <2>5. SweepSeesEveryClaim'
    BY <2>1 DEF SweepSeesEveryClaim
  <2>6. QED
    BY <2>3, <2>4, <2>5
<1>8. CASE UNCHANGED vars
  BY <1>8 DEF vars, FreshRows, KeyedRowsAreLive, KeysUnique, SweepSeesEveryClaim, TypeOK
<1>9. QED
  BY <1>1, <1>2, <1>3, <1>4, <1>5, <1>6, <1>7, <1>8, InjectWrites DEF Next, Write

LEMMA TableCorrect == Spec => []TableInv
<1>1. Spec => []TypeOK
  BY TypeCorrect
<1>2. TableInv /\ TypeOK' /\ [Next]_vars => TableInv'
  BY TableInvStep
<1>3. QED
  BY <1>1, <1>2, TableInvInit, PTL DEF Spec

\* With any number of sessions that overrun their leases, the key of a row is
\* always that of a live row: the lookup after a conflict finds it.
THEOREM KeyedRowsAreLiveHolds == Spec => []KeyedRowsAreLive
BY TableCorrect, PTL DEF TableInv

\* Every claimed row has a lease the sweep can see run out.
THEOREM SweepSeesEveryClaimHolds == Spec => []SweepSeesEveryClaim
BY TableCorrect, PTL DEF TableInv

-----------------------------------------------------------------------------
(* What holds of sessions that end their work within the lease *)

\* A live row has not lost its key.
LiveKeysKept == \A i \in Ids : items[i].status \in Live => items[i].key = items[i].work

LeaseInv ==
  /\ TableInv
  /\ SoleHolder
  /\ AttemptsBounded
  /\ LiveKeysKept

LEMMA LeaseInvInit == Init => LeaseInv
<1>1. Init => SoleHolder /\ AttemptsBounded /\ LiveKeysKept
  BY WorkQueueAssumption DEF Init, SoleHolder, AttemptsBounded, LiveKeysKept, NoRow, Live
<1>2. QED
  BY <1>1, TableInvInit DEF LeaseInv

\* The session that ends its work leaves a row behind that is not claimed; the rows
\* of the other sessions are other rows.
LEMMA SessionEnds ==
  ASSUME LeaseInv, TableInv', NEW s \in Sessions, task[s] # Null, NEW row \in Row,
         items' = [items EXCEPT ![task[s]] = row],
         task' = [task EXCEPT ![s] = Null],
         row.attempts <= MaxAttempts,
         row.status = "failed" <=> row.attempts = MaxAttempts,
         row.status \in Live => row.key = row.work
  PROVE  LeaseInv'
<1> USE DEF LeaseInv, TableInv, TypeOK
<1>1. SoleHolder'
  BY DEF SoleHolder
<1>2. AttemptsBounded'
  BY DEF AttemptsBounded
<1>3. LiveKeysKept'
  BY DEF LiveKeysKept
<1>4. QED
  BY <1>1, <1>2, <1>3

LEMMA LeaseInvStep ==
  ASSUME Overrun = FALSE, LeaseInv, TableInv', [Next]_vars
  PROVE  LeaseInv'
<1> USE DEF LeaseInv, TableInv
<1>1. ASSUME NEW r \in Roles, NEW k \in Keys \cup {Null}, NEW p \in Priorities,
             WriteItem(r, k, p), UNCHANGED task
      PROVE  LeaseInv'
  <2>1. KeyFreed(k) = items
    BY KeyFreedIsIdentity
  <2>2. CASE UNCHANGED <<items, nextId>>
    BY <1>1, <2>2 DEF SoleHolder, AttemptsBounded, LiveKeysKept
  <2>3. CASE nextId <= MaxItems /\ items' = [items EXCEPT ![nextId] = NewRow(r, k, p)]
    <3>1. nextId \in Ids /\ items[nextId].status = "absent"
      BY <2>3, WorkQueueAssumption DEF TypeOK, Ids, FreshRows
    <3>2. \A i \in Ids : items'[i] = IF i = nextId THEN NewRow(r, k, p) ELSE items[i]
      BY <2>3 DEF TypeOK
    <3>3. SoleHolder'
      BY <1>1, <3>1, <3>2 DEF SoleHolder, TypeOK
    <3>4. AttemptsBounded'
      BY <3>2, WorkQueueAssumption DEF AttemptsBounded, NewRow
    <3>5. LiveKeysKept'
      BY <3>2 DEF LiveKeysKept, NewRow
    <3>6. QED
      BY <3>3, <3>4, <3>5
  <2>4. QED
    BY <1>1, <2>1, <2>2, <2>3 DEF WriteItem
<1>2. ASSUME NEW s \in Sessions, Claim(s)
      PROVE  LeaseInv'
  <2>1. PICK i \in Ids : ClaimItem(i, RoleOf[s]) /\ task' = [task EXCEPT ![s] = i]
    BY <1>2 DEF Claim
  <2>2. items[i].status = "pending" /\ items[i] \in Row /\ task[s] = Null
    BY <1>2, <2>1 DEF Claim, ClaimItem, Candidates, TypeOK
  <2>3. \A t \in Sessions : task[t] # i
    BY <2>2, WorkQueueAssumption DEF SoleHolder, Ids
  <2> DEFINE row == Claimed(items[i], RoleOf[s])
  <2>4. /\ row.status = "claimed" /\ row.work = items[i].work /\ row.key = items[i].key
        /\ row.attempts = items[i].attempts /\ row.lease >= 0 /\ row.holder = RoleOf[s]
    BY <2>2, WorkQueueAssumption DEF Claimed, Row
  <2>5. \A j \in Ids : items'[j] = IF j = i THEN row ELSE items[j]
    BY <2>1 DEF ClaimItem, TypeOK
  <2> HIDE DEF row
  <2>6. SoleHolder'
    BY <2>1, <2>3, <2>4, <2>5 DEF SoleHolder, TypeOK
  <2>7. AttemptsBounded' /\ LiveKeysKept'
    BY <2>2, <2>4, <2>5 DEF AttemptsBounded, LiveKeysKept, Live
  <2>8. QED
    BY <2>6, <2>7
<1>3. ASSUME NEW s \in Sessions, Complete(s)
      PROVE  LeaseInv'
  <2> DEFINE row == Completed(items[task[s]])
  <2>1. task[s] \in Ids /\ items[task[s]] \in Row /\ items[task[s]].status = "claimed"
    BY <1>3 DEF Complete, SoleHolder, TypeOK
  <2>2. row \in Row
    BY <2>1, CompletedType
  <2>3. row.status = "completed" /\ row.attempts = items[task[s]].attempts
    BY <2>1 DEF Completed, Row
  <2>4. row.attempts <= MaxAttempts /\ row.attempts # MaxAttempts
    BY <2>1, <2>3 DEF AttemptsBounded
  <2>5. task[s] # Null /\ items' = [items EXCEPT ![task[s]] = row]
        /\ task' = [task EXCEPT ![s] = Null]
    BY <1>3 DEF Complete
  <2> HIDE DEF row
  <2>6. QED
    BY <2>2, <2>3, <2>4, <2>5, SessionEnds DEF Live
<1>4. ASSUME NEW s \in Sessions, NEW increment \in BOOLEAN, Release(s, increment)
      PROVE  LeaseInv'
  <2> DEFINE old == items[task[s]]
             row == Released(old, increment)
  <2>1. task[s] \in Ids /\ old \in Row /\ old.status = "claimed"
    BY <1>4 DEF Release, SoleHolder, TypeOK
  <2>2. row \in Row
    BY <1>4, <2>1, ReleasedType DEF Release
  <2>3. old.attempts \in Nat /\ old.attempts < MaxAttempts
    BY <2>1, WorkQueueAssumption DEF AttemptsBounded, Row
  <2>4. /\ row.status = IF increment /\ old.attempts + 1 >= MaxAttempts THEN "failed"
                                                                       ELSE "pending"
        /\ row.attempts = IF increment THEN old.attempts + 1 ELSE old.attempts
        /\ row.key = old.key /\ row.work = old.work
    BY <2>1 DEF Released, Row
  <2>5. row.attempts <= MaxAttempts /\ (row.status = "failed" <=> row.attempts = MaxAttempts)
    BY <2>3, <2>4, WorkQueueAssumption
  <2>6. row.key = row.work
    BY <2>1, <2>4 DEF LiveKeysKept, Live
  <2>7. task[s] # Null /\ items' = [items EXCEPT ![task[s]] = row]
        /\ task' = [task EXCEPT ![s] = Null]
    BY <1>4 DEF Release
  <2> HIDE DEF old, row
  <2>8. QED
    BY <2>2, <2>5, <2>6, <2>7, SessionEnds
<1>5. CASE Reclaim
  <2>1. ASSUME NEW row \in Row
        PROVE  LET new == Reclaimed(row)
               IN  /\ new.work = row.work /\ new.key = row.key
                   /\ new.attempts = row.attempts
                   /\ \/ new = row
                      \/ row.status = "claimed" /\ new.status = "pending" /\ row.lease < 0
    BY DEF Reclaimed, Expired, Row
  <2>2. \A i \in Ids : items[i] \in Row /\ items'[i] = Reclaimed(items[i])
    BY <1>5 DEF Reclaim, TypeOK
  <2>3. UNCHANGED task
    BY <1>5 DEF Reclaim
  <2>4. \A s \in Sessions : task[s] # Null => items'[task[s]] = items[task[s]]
    <3>1. SUFFICES ASSUME NEW s \in Sessions, task[s] # Null
                   PROVE  items'[task[s]] = items[task[s]]
      OBVIOUS
    <3>2. task[s] \in Ids /\ items[task[s]].lease >= 0
          /\ items[task[s]].lease \in (-1 .. Lease) \cup {Null}
          /\ items[task[s]].lease # Null
      BY <3>1, <2>2 DEF SoleHolder, TypeOK, Row, SweepSeesEveryClaim
    <3>3. ~(items[task[s]].lease < 0)
      BY <3>2, WorkQueueAssumption
    <3>4. QED
      BY <2>1, <2>2, <3>2, <3>3
  <2>5. SoleHolder'
    BY <2>3, <2>4 DEF SoleHolder
  <2>6. AttemptsBounded' /\ LiveKeysKept'
    BY <2>1, <2>2 DEF AttemptsBounded, LiveKeysKept, Live
  <2>7. QED
    BY <2>5, <2>6
<1>6. ASSUME NEW s \in Sessions, Crash(s)
      PROVE  LeaseInv'
  <2>1. UNCHANGED items /\ \A t \in Sessions : task'[t] \in {task[t], Null}
    BY <1>6 DEF Crash, TypeOK
  <2>2. QED
    BY <2>1 DEF SoleHolder, AttemptsBounded, LiveKeysKept
<1>7. CASE Tick
  <2>1. ASSUME NEW row \in Row
        PROVE  LET new == Aged(row)
               IN  /\ new.work = row.work /\ new.key = row.key
                   /\ new.attempts = row.attempts /\ new.status = row.status
                   /\ new.holder = row.holder
                   /\ row.lease # Null /\ row.lease > 0 => new.lease >= 0
    BY WorkQueueAssumption DEF Aged, Row
  <2>2. \A i \in Ids : items[i] \in Row /\ items'[i] = Aged(items[i])
    BY <1>7 DEF Tick, TypeOK
  <2>3. UNCHANGED task /\ \A s \in Sessions : task[s] # Null => items[task[s]].lease > 0
    BY <1>7, Overrun = FALSE DEF Tick
  <2>4. \A s \in Sessions : task[s] # Null =>
          task[s] \in Ids /\ items[task[s]].lease # Null
    BY DEF SoleHolder, SweepSeesEveryClaim, TypeOK
  <2>5. SoleHolder'
    BY <2>1, <2>2, <2>3, <2>4 DEF SoleHolder
  <2>6. AttemptsBounded' /\ LiveKeysKept'
    BY <2>1, <2>2 DEF AttemptsBounded, LiveKeysKept
  <2>7. QED
    BY <2>5, <2>6
<1>8. CASE UNCHANGED vars
  BY <1>8 DEF vars, SoleHolder, AttemptsBounded, LiveKeysKept
<1>9. QED
  BY <1>1, <1>2, <1>3, <1>4, <1>5, <1>6, <1>7, <1>8, InjectWrites DEF Next, Write

LEMMA LeaseCorrect ==
  ASSUME Overrun = FALSE
  PROVE  Spec => []LeaseInv
<1>1. Spec => []TableInv
  BY TableCorrect
<1>2. LeaseInv /\ TableInv' /\ [Next]_vars => LeaseInv'
  BY LeaseInvStep, Overrun = FALSE
<1>3. QED
  BY <1>1, <1>2, LeaseInvInit, PTL DEF Spec

\* The sweep never takes a row from a session that keeps to its lease, and no two
\* sessions work on one row.
THEOREM SoleHolderHolds ==
  ASSUME Overrun = FALSE
  PROVE  Spec => []SoleHolder
<1>1. LeaseInv => SoleHolder
  BY DEF LeaseInv
<1>2. QED
  BY <1>1, LeaseCorrect, PTL

\* A row fails exactly at max_attempts.
THEOREM AttemptsBoundedHolds ==
  ASSUME Overrun = FALSE
  PROVE  Spec => []AttemptsBounded
<1>1. LeaseInv => AttemptsBounded
  BY DEF LeaseInv
<1>2. QED
  BY <1>1, LeaseCorrect, PTL

\* No unit of work is in the queue twice.
THEOREM OneLiveRowPerKeyHolds ==
  ASSUME Overrun = FALSE
  PROVE  Spec => []OneLiveRowPerKey
<1>1. LeaseInv => OneLiveRowPerKey
  BY DEF LeaseInv, TableInv, LiveKeysKept, KeysUnique, OneLiveRowPerKey
<1>2. QED
  BY <1>1, LeaseCorrect, PTL


-----------------------------------------------------------------------------
(* The queue implements the ledger *)

LEMMA StageValues ==
  /\ StageOf["absent"] = "absent" /\ StageOf["pending"] = "open"
  /\ StageOf["claimed"] = "taken" /\ StageOf["completed"] = "done"
  /\ StageOf["failed"] = "dead"
BY DEF StageOf

LEMMA LedgerStep ==
  ASSUME LeaseInv, LeaseInv', [Next]_vars
  PROVE  [Ledger!LNext]_(Ledger!lvars)
<1> USE StageValues DEF LeaseInv, TableInv
<1>1. ASSUME NEW r \in Roles, NEW k \in Keys \cup {Null}, NEW p \in Priorities,
             WriteItem(r, k, p), UNCHANGED task
      PROVE  (\E u \in Ids : Ledger!Submit(u)) \/ UNCHANGED Ledger!lvars
  <2>1. KeyFreed(k) = items
    BY KeyFreedIsIdentity
  <2>2. CASE UNCHANGED items
    BY <1>1, <2>2 DEF Ledger!lvars
  <2>3. CASE nextId <= MaxItems /\ items' = [items EXCEPT ![nextId] = NewRow(r, k, p)]
    <3>1. nextId \in Ids /\ items[nextId].status = "absent"
      BY <2>3, WorkQueueAssumption DEF TypeOK, Ids, FreshRows
    <3>2. PICK new \in Ids : new = nextId
      BY <3>1
    <3>3. \A i \in Ids : items'[i].status = IF i = new THEN "pending" ELSE items[i].status
      BY <2>3, <3>2 DEF TypeOK, NewRow
    <3>4. Ledger!Submit(new)
      BY <1>1, <3>1, <3>2, <3>3 DEF Ledger!Submit
    <3>5. QED
      BY <3>4
  <2>4. QED
    BY <1>1, <2>1, <2>2, <2>3 DEF WriteItem
<1>2. ASSUME NEW s \in Sessions, Claim(s)
      PROVE  \E u \in Ids : Ledger!Take(s, u)
  <2>1. PICK i \in Ids : ClaimItem(i, RoleOf[s]) /\ task' = [task EXCEPT ![s] = i]
    BY <1>2 DEF Claim
  <2>2. items[i].status = "pending" /\ items[i] \in Row /\ task[s] = Null
    BY <1>2, <2>1 DEF Claim, ClaimItem, Candidates, TypeOK
  <2>3. Claimed(items[i], RoleOf[s]).status = "claimed"
    BY <2>2 DEF Claimed, Row
  <2>4. \A j \in Ids : items'[j].status = IF j = i THEN "claimed" ELSE items[j].status
    BY <2>1, <2>3 DEF ClaimItem, TypeOK
  <2>5. Ledger!Take(s, i)
    BY <2>1, <2>2, <2>4 DEF Ledger!Take
  <2>6. QED
    BY <2>5
<1>3. ASSUME NEW s \in Sessions, task[s] # Null, NEW row \in Row,
             row.status \in {"completed", "pending", "failed"},
             items' = [items EXCEPT ![task[s]] = row],
             task' = [task EXCEPT ![s] = Null]
      PROVE  \E outcome \in {"done", "open", "dead"} : Ledger!End(s, outcome)
  <2>1. task[s] \in Ids /\ items[task[s]].status = "claimed"
    BY <1>3 DEF SoleHolder, TypeOK
  <2>2. \A j \in Ids : items'[j].status = IF j = task[s] THEN row.status ELSE items[j].status
    BY <1>3 DEF TypeOK
  <2>3. Ledger!End(s, StageOf[row.status])
    BY <1>3, <2>1, <2>2 DEF Ledger!End
  <2>4. StageOf[row.status] \in {"done", "open", "dead"}
    BY <1>3
  <2>5. QED
    BY <2>3, <2>4
<1>4. ASSUME NEW s \in Sessions, Complete(s)
      PROVE  \E outcome \in {"done", "open", "dead"} : Ledger!End(s, outcome)
  <2> DEFINE row == Completed(items[task[s]])
  <2>1. task[s] # Null /\ task[s] \in Ids /\ items[task[s]] \in Row
        /\ items[task[s]].status = "claimed"
    BY <1>4 DEF Complete, SoleHolder, TypeOK
  <2>2. row \in Row /\ row.status = "completed"
    BY <2>1, CompletedType DEF Completed, Row
  <2>3. items' = [items EXCEPT ![task[s]] = row] /\ task' = [task EXCEPT ![s] = Null]
    BY <1>4 DEF Complete
  <2> HIDE DEF row
  <2>4. QED
    BY <1>3, <2>1, <2>2, <2>3
<1>5. ASSUME NEW s \in Sessions, NEW increment \in BOOLEAN, Release(s, increment)
      PROVE  \E outcome \in {"done", "open", "dead"} : Ledger!End(s, outcome)
  <2> DEFINE row == Released(items[task[s]], increment)
  <2>1. task[s] # Null /\ task[s] \in Ids /\ items[task[s]] \in Row
    BY <1>5 DEF Release, TypeOK
  <2>2. row \in Row
    BY <1>5, <2>1, ReleasedType DEF Release
  <2>3. row.status \in {"pending", "failed"}
    BY <2>1 DEF Released, Row
  <2>4. items' = [items EXCEPT ![task[s]] = row] /\ task' = [task EXCEPT ![s] = Null]
    BY <1>5 DEF Release
  <2> HIDE DEF row
  <2>5. QED
    BY <1>3, <2>1, <2>2, <2>3, <2>4
<1>6. CASE Reclaim
  <2>0. PICK lost \in SUBSET Ids : lost = {i \in Ids : Expired(items[i])}
    OBVIOUS
  <2>1. \A i \in Ids : items[i] \in Row /\ items'[i] = Reclaimed(items[i])
    BY <1>6 DEF Reclaim, TypeOK
  <2>2. \A i \in Ids : items'[i].status = IF i \in lost THEN "pending" ELSE items[i].status
    BY <2>0, <2>1 DEF Reclaimed, Row
  <2>3. ASSUME NEW i \in lost, NEW s \in Sessions, task[s] = i
        PROVE  FALSE
    <3>1. i # Null /\ items[i].lease >= 0 /\ items[i].lease < 0 /\ items[i].lease # Null
          /\ items[i].lease \in (-1 .. Lease) \cup {Null}
      BY <2>0, <2>1, <2>3, WorkQueueAssumption DEF SoleHolder, Expired, Ids, Row
    <3>2. QED
      BY <3>1, WorkQueueAssumption
  <2>4. UNCHANGED task /\ \A i \in lost : items[i].status = "claimed"
    BY <1>6, <2>0 DEF Reclaim, Expired
  <2>5. Ledger!Recover(lost)
    BY <2>2, <2>3, <2>4 DEF Ledger!Recover
  <2>6. QED
    BY <2>5 DEF Ledger!LNext
<1>7. ASSUME NEW s \in Sessions, Crash(s)
      PROVE  Ledger!Lose(s)
  BY <1>7 DEF Crash, Ledger!Lose
<1>8. CASE Tick
  <2>1. \A i \in Ids : items[i] \in Row /\ items'[i] = Aged(items[i])
    BY <1>8 DEF Tick, TypeOK
  <2>2. \A i \in Ids : items'[i].status = items[i].status
    BY <2>1 DEF Aged, Row
  <2>3. QED
    BY <1>8, <2>2 DEF Tick, Ledger!lvars
<1>9. CASE UNCHANGED vars
  BY <1>9 DEF vars, Ledger!lvars
<1>10. QED
  BY <1>1, <1>2, <1>4, <1>5, <1>6, <1>7, <1>8, <1>9, InjectWrites DEF Next, Write, Ledger!LNext

\* The queue implements the ledger: for sessions that keep to their leases, every
\* helper's transaction is one step of the ledger or leaves it alone.
THEOREM ImplementsLedgerHolds ==
  ASSUME Overrun = FALSE
  PROVE  Spec => ImplementsLedger
<1>1. Init => Ledger!LInit
  BY StageValues DEF Init, Ledger!LInit, NoRow
<1>2. Spec => []LeaseInv
  BY LeaseCorrect, Overrun = FALSE
<1>3. LeaseInv /\ LeaseInv' /\ [Next]_vars => [Ledger!LNext]_(Ledger!lvars)
  BY LedgerStep
<1>4. QED
  BY <1>1, <1>2, <1>3, PTL DEF Spec, ImplementsLedger, Ledger!LSpec

-----------------------------------------------------------------------------
(* From here on: the loop *)

RowIds == 1 .. MaxRows

-----------------------------------------------------------------------------
(* The loop runs the queue *)

\* Every step of the loop is a step of the queue or leaves the queue alone.
LEMMA QueueStep ==
  ASSUME [LoopNext]_loopvars
  PROVE  [Next]_vars
<1>1. CASE Dispatch
  BY <1>1 DEF Dispatch, Next, Write
<1>2. ASSUME NEW s \in Sessions, Poll(s) \/ Restart(s) \/ Finish(s) \/ GiveBack(s)
      PROVE  [Next]_vars
  BY <1>2 DEF Poll, Restart, Finish, GiveBack, Next, vars
<1>3. ASSUME NEW s \in Sessions, Allowed(s) \/ Blocked(s)
      PROVE  UNCHANGED vars
  BY <1>3 DEF Allowed, Blocked, vars
<1>4. CASE Sweep \/ Clock
  BY <1>4 DEF Sweep, Clock, Next
<1>5. ASSUME NEW i \in RowIds, NEW v \in E!Verdicts, Answer(i, v)
      PROVE  UNCHANGED vars
  BY <1>5 DEF Answer, vars
<1>6. ASSUME NEW s \in Sessions, Reload(s)
      PROVE  UNCHANGED vars
  BY <1>6 DEF Reload, vars
<1>7. CASE Expire \/ UNCHANGED loopvars
  BY <1>7 DEF Expire, loopvars, vars
<1>8. QED
  BY <1>1, <1>2, <1>3, <1>4, <1>5, <1>6, <1>7 DEF LoopNext, RowIds

LEMMA LoopLease ==
  ASSUME Overrun = FALSE
  PROVE  LoopSpec => []LeaseInv
<1>1. LoopInit => Init
  BY DEF LoopInit
<1>2. [LoopNext]_loopvars => [Next]_vars
  BY QueueStep
<1>3. Spec => []LeaseInv
  BY LeaseCorrect, Overrun = FALSE
<1>4. QED
  BY <1>1, <1>2, <1>3, PTL DEF LoopSpec, Spec

-----------------------------------------------------------------------------
(* The inductive invariant *)

\* A session has an answer of the hook only while it holds a row; an allowed call
\* was made.
SessionsOK ==
  /\ verdict \in [Sessions -> {"none", "allowed", "blocked"}]
  /\ \A s \in Sessions : verdict[s] # "none" => task[s] # Null
  /\ \A s \in Sessions : verdict[s] = "allowed" => task[s] \in ran

\* Work whose call was never made is waiting, with all its attempts.
WorkOK ==
  /\ ran \subseteq Ids
  /\ \A i \in Ids : items[i].status # "absent" => items[i].work \in Keys
  /\ \A i \in ran : items[i].status # "absent"
  /\ \A i \in Ids \ ran : /\ items[i].status \in {"absent", "pending", "claimed"}
                          /\ items[i].attempts = 0

\* The questions in the table are about items in the queue.
QuestionsOK ==
  /\ rows \in [RowIds -> E!Row]
  /\ nextRow \in 1 .. MaxRows + 1
  /\ \A i \in RowIds : i >= nextRow <=> rows[i].status = "absent"
  /\ \A i \in RowIds : rows[i].status # "absent" =>
       /\ rows[i].origin \in Ids
       /\ items[rows[i].origin].status # "absent"

LoopInv == SessionsOK /\ WorkOK /\ QuestionsOK

-----------------------------------------------------------------------------
(* The queue's side of a step *)

\* What a step of the loop may do to a work item: insert it, move it between pending
\* and claimed, or end it when its call was made.
ItemStep(i) ==
  \/ items'[i] = items[i]
  \/ /\ items[i].status = "absent"
     /\ items'[i].status = "pending" /\ items'[i].attempts = 0
     /\ items'[i].work \in Keys
  \/ /\ items[i].status # "absent" /\ items'[i].status # "absent"
     /\ items'[i].work = items[i].work
     /\ \/ i \in ran
        \/ /\ items'[i].status \in {"pending", "claimed"}
           /\ items'[i].attempts = items[i].attempts

\* Only a step that makes a call changes what was made.
LEMMA WorkKept ==
  ASSUME WorkOK, \A i \in Ids : ItemStep(i), ran' = ran
  PROVE  WorkOK'
<1>1. \A i \in Ids : items'[i].status # "absent" => items'[i].work \in Keys
  BY DEF WorkOK, ItemStep
<1>2. \A i \in Ids \ ran : /\ items'[i].status \in {"absent", "pending", "claimed"}
                           /\ items'[i].attempts = 0
  BY DEF WorkOK, ItemStep
<1>3. QED
  BY <1>1, <1>2 DEF WorkOK, ItemStep

LEMMA QuestionsKept ==
  ASSUME QuestionsOK, \A i \in Ids : ItemStep(i), UNCHANGED table
  PROVE  QuestionsOK'
<1>1. \A i \in Ids : items[i].status # "absent" => items'[i].status # "absent"
  BY DEF ItemStep
<1>2. QED
  BY <1>1 DEF QuestionsOK, table

-----------------------------------------------------------------------------
(* The steps *)

LEMMA LoopInvInit == LoopInit => LoopInv
<1>1. E!NoRow \in E!Row
  BY EscalationLoopAssumption DEF E!NoRow, E!Row
<1>2. ASSUME LoopInit
      PROVE  QuestionsOK
  BY <1>1, <1>2, EscalationLoopAssumption
     DEF LoopInit, E!Init, E!Ids, QuestionsOK, RowIds, E!NoRow
<1>3. LoopInit => SessionsOK /\ WorkOK
  BY WorkQueueAssumption DEF LoopInit, Init, SessionsOK, WorkOK, NoRow
<1>4. QED
  BY <1>2, <1>3 DEF LoopInv

LEMMA LoopInvStep ==
  ASSUME LeaseInv, LeaseInv', LoopInv, [LoopNext]_loopvars
  PROVE  LoopInv'
<1> USE DEF LeaseInv, TableInv, LoopInv
<1>0. ASSUME UNCHANGED items
      PROVE  \A i \in Ids : ItemStep(i)
  BY <1>0 DEF ItemStep
<1>1. CASE Dispatch
  <2>1. PICK r \in Roles, k \in Keys, p \in Priorities : WriteItem(r, k, p)
    BY <1>1 DEF Dispatch
  <2>2. \A i \in Ids : ItemStep(i)
    <3>1. KeyFreed(k) = items
      BY KeyFreedIsIdentity
    <3>2. CASE UNCHANGED items
      BY <1>0, <3>2
    <3>3. CASE nextId <= MaxItems /\ items' = [items EXCEPT ![nextId] = NewRow(r, k, p)]
      <4>1. nextId \in Ids /\ items[nextId].status = "absent"
        BY <3>3, WorkQueueAssumption DEF TypeOK, Ids, FreshRows
      <4>2. \A i \in Ids : items'[i] = IF i = nextId THEN NewRow(r, k, p) ELSE items[i]
        BY <3>3 DEF TypeOK
      <4>3. QED
        BY <4>1, <4>2 DEF ItemStep, NewRow
    <3>4. QED
      BY <2>1, <3>1, <3>2, <3>3 DEF WriteItem
  <2>3. QED
    BY <1>1, <2>2, WorkKept, QuestionsKept DEF Dispatch, SessionsOK, WorkOK
<1>2. ASSUME NEW s \in Sessions, Poll(s)
      PROVE  LoopInv'
  <2>1. PICK i \in Ids : ClaimItem(i, RoleOf[s]) /\ task' = [task EXCEPT ![s] = i]
    BY <1>2 DEF Poll, Claim
  <2>2. items[i].status = "pending" /\ items[i] \in Row /\ task[s] = Null
    BY <1>2, <2>1 DEF Poll, Claim, ClaimItem, Candidates, TypeOK
  <2>3. \A j \in Ids : items'[j] = IF j = i THEN Claimed(items[i], RoleOf[s]) ELSE items[j]
    BY <2>1 DEF ClaimItem, TypeOK
  <2>4. /\ Claimed(items[i], RoleOf[s]).status = "claimed"
        /\ Claimed(items[i], RoleOf[s]).work = items[i].work
        /\ Claimed(items[i], RoleOf[s]).attempts = items[i].attempts
    BY <2>2 DEF Claimed, Row
  <2>5. \A j \in Ids : ItemStep(j)
    BY <2>2, <2>3, <2>4 DEF ItemStep
  <2>6. SessionsOK'
    BY <1>2, <2>1, <2>2 DEF Poll, SessionsOK, TypeOK
  <2>7. QED
    BY <1>2, <2>5, <2>6, WorkKept, QuestionsKept DEF Poll, WorkOK
<1>3. ASSUME NEW s \in Sessions, Allowed(s)
      PROVE  LoopInv'
  <2>1. task[s] \in Ids /\ items[task[s]].status = "claimed" /\ items[task[s]].work \in Keys
    BY <1>3 DEF Allowed, TypeOK, SoleHolder, WorkOK
  <2>2. WorkOK'
    BY <1>3, <2>1 DEF Allowed, WorkOK
  <2>3. SessionsOK'
    BY <1>3 DEF Allowed, SessionsOK
  <2>4. QED
    BY <1>0, <1>3, <2>2, <2>3, QuestionsKept DEF Allowed
<1>4. ASSUME NEW s \in Sessions, Blocked(s)
      PROVE  LoopInv'
  <2>1. task[s] \in Ids /\ items[task[s]].status = "claimed"
    BY <1>4 DEF Blocked, TypeOK, SoleHolder
  <2>2. QuestionsOK'
    <3>1. CASE UNCHANGED table
      BY <1>0, <1>4, <3>1, QuestionsKept DEF Blocked
    <3>2. CASE E!WriteRow(Urgency, task[s])
      <4>1. nextRow \in RowIds /\ rows' = [rows EXCEPT ![nextRow] = E!NewRow(Urgency, task[s])]
            /\ nextRow' = nextRow + 1
        BY <3>2, EscalationLoopAssumption DEF E!WriteRow, QuestionsOK, RowIds
      <4>2. E!NewRow(Urgency, task[s]) \in E!Row
        BY <2>1, EscalationLoopAssumption DEF E!NewRow, E!Row, E!Open
      <4>3. /\ E!NewRow(Urgency, task[s]).status = "pending"
            /\ E!NewRow(Urgency, task[s]).origin = task[s]
        BY DEF E!NewRow
      <4>4. /\ rows' \in [RowIds -> E!Row]
            /\ \A i \in RowIds : rows'[i] = IF i = nextRow THEN E!NewRow(Urgency, task[s])
                                                           ELSE rows[i]
        BY <4>1, <4>2 DEF QuestionsOK
      <4>5. nextRow' \in 1 .. MaxRows + 1
        BY <4>1, EscalationLoopAssumption DEF RowIds
      <4>6. \A i \in RowIds : i >= nextRow' <=> rows'[i].status = "absent"
        <5>1. nextRow \in Int /\ \A i \in RowIds : i \in Int
          BY DEF QuestionsOK, RowIds
        <5>2. QED
          BY <4>1, <4>3, <4>4, <5>1 DEF QuestionsOK
      <4>7. UNCHANGED items
        BY <1>4 DEF Blocked
      <4>8. QED
        BY <2>1, <4>3, <4>4, <4>5, <4>6, <4>7 DEF QuestionsOK
    <3>3. QED
      BY <1>4, <3>1, <3>2 DEF Blocked, Ask
  <2>3. SessionsOK'
    BY <1>4 DEF Blocked, SessionsOK
  <2>4. WorkOK'
    BY <1>0, <1>4, WorkKept DEF Blocked, WorkOK
  <2>5. QED
    BY <2>2, <2>3, <2>4
<1>5. ASSUME NEW s \in Sessions, Forget(s), task' = [task EXCEPT ![s] = Null], ran' = ran
      PROVE  SessionsOK'
  BY <1>5 DEF Forget, SessionsOK, TypeOK
<1>6. ASSUME NEW s \in Sessions, Finish(s)
      PROVE  LoopInv'
  <2>1. task[s] \in Ids /\ task[s] \in ran /\ items[task[s]] \in Row
    BY <1>6 DEF Finish, SessionsOK, WorkOK, TypeOK
  <2>2. PICK row \in Row : /\ items' = [items EXCEPT ![task[s]] = row]
                           /\ row.work = items[task[s]].work /\ row.status # "absent"
    <3>1. CASE Complete(s)
      <4>1. Completed(items[task[s]]) \in Row
        BY <2>1, CompletedType
      <4>2. /\ Completed(items[task[s]]).work = items[task[s]].work
            /\ Completed(items[task[s]]).status # "absent"
        BY <2>1 DEF Completed, Row, WorkOK
      <4>3. QED
        BY <3>1, <4>1, <4>2 DEF Complete
    <3>2. CASE Release(s, TRUE)
      <4>1. Released(items[task[s]], TRUE) \in Row
        BY <2>1, <3>2, ReleasedType DEF Release
      <4>2. /\ Released(items[task[s]], TRUE).work = items[task[s]].work
            /\ Released(items[task[s]], TRUE).status # "absent"
        BY <2>1 DEF Released, Row
      <4>3. QED
        BY <3>2, <4>1, <4>2 DEF Release
    <3>3. QED
      BY <1>6, <3>1, <3>2 DEF Finish
  <2>3. \A i \in Ids : items'[i] = IF i = task[s] THEN row ELSE items[i]
    BY <2>2 DEF TypeOK
  <2>4. \A i \in Ids : ItemStep(i)
    BY <2>1, <2>2, <2>3 DEF ItemStep, WorkOK
  <2>5. QED
    BY <1>5, <1>6, <2>4, WorkKept, QuestionsKept DEF Finish, Complete, Release, WorkOK
<1>7. ASSUME NEW s \in Sessions, GiveBack(s)
      PROVE  LoopInv'
  <2>1. /\ task[s] \in Ids /\ items[task[s]] \in Row
        /\ items[task[s]].status = "claimed"
        /\ items' = [items EXCEPT ![task[s]] = Released(@, FALSE)]
    BY <1>7 DEF GiveBack, Release, SoleHolder, TypeOK
  <2>2. /\ Released(items[task[s]], FALSE).status = "pending"
        /\ Released(items[task[s]], FALSE).work = items[task[s]].work
        /\ Released(items[task[s]], FALSE).attempts = items[task[s]].attempts
    BY <2>1 DEF Released, Row
  <2>3. \A i \in Ids : ItemStep(i)
    BY <2>1, <2>2 DEF ItemStep, TypeOK
  <2>4. QED
    BY <1>5, <1>7, <2>3, WorkKept, QuestionsKept DEF GiveBack, Release, WorkOK
<1>8. ASSUME NEW s \in Sessions, Restart(s)
      PROVE  LoopInv'
  <2>1. UNCHANGED <<items, table, ran>>
    BY <1>8 DEF Restart, Crash
  <2>2. WorkOK' /\ QuestionsOK'
    BY <1>0, <2>1, WorkKept, QuestionsKept
  <2>3. task' = [task EXCEPT ![s] = Null]
    BY <1>8 DEF Restart, Crash, TypeOK
  <2>4. QED
    BY <1>5, <1>8, <2>2, <2>3 DEF Restart
<1>9. CASE Sweep
  <2>1. \A i \in Ids : items[i] \in Row /\ items'[i] = Reclaimed(items[i])
    BY <1>9 DEF Sweep, Reclaim, TypeOK
  <2>2. \A i \in Ids : ItemStep(i)
    BY <2>1 DEF ItemStep, Reclaimed, Expired, Row
  <2>3. QED
    BY <1>9, <2>2, WorkKept, QuestionsKept DEF Sweep, Reclaim, SessionsOK, WorkOK
<1>10. ASSUME QuestionsOK, UNCHANGED nextRow, rows' \in [RowIds -> E!Row],
              \A i \in Ids : ItemStep(i),
              \A i \in RowIds : /\ rows'[i].origin = rows[i].origin
                                /\ rows'[i].status = "absent" <=> rows[i].status = "absent"
       PROVE  QuestionsOK'
  BY <1>10 DEF QuestionsOK, ItemStep
<1>11. ASSUME NEW i \in RowIds, NEW v \in E!Verdicts, Answer(i, v)
       PROVE  LoopInv'
  <2>1. rows[i] \in E!Row /\ rows[i].status \in E!Open
    BY <1>11 DEF Answer, E!Resolve, QuestionsOK
  <2>2. rows' = [rows EXCEPT ![i] = [rows[i] EXCEPT !.status = v]] /\ UNCHANGED nextRow
    BY <1>11 DEF Answer, E!Resolve
  <2>3. /\ [rows[i] EXCEPT !.status = v] \in E!Row
        /\ [rows[i] EXCEPT !.status = v].origin = rows[i].origin
        /\ [rows[i] EXCEPT !.status = v].status # "absent"
        /\ rows[i].status # "absent"
    BY <2>1 DEF E!Row, E!Closed, E!Verdicts, E!Open
  <2>4. /\ rows' \in [RowIds -> E!Row]
        /\ \A j \in RowIds : /\ rows'[j].origin = rows[j].origin
                             /\ rows'[j].status = "absent" <=> rows[j].status = "absent"
    BY <2>2, <2>3 DEF QuestionsOK
  <2>5. QuestionsOK'
    BY <1>0, <1>10, <1>11, <2>2, <2>4 DEF Answer
  <2>6. QED
    BY <1>0, <1>11, <2>5, WorkKept DEF Answer, SessionsOK, WorkOK
<1>12. CASE Expire
  <2>1. ASSUME NEW row \in E!Row
        PROVE  LET new == IF E!Old(row) THEN [row EXCEPT !.status = "expired"] ELSE row
               IN  /\ new \in E!Row /\ new.origin = row.origin
                   /\ new.status = "absent" <=> row.status = "absent"
    BY DEF E!Old, E!Row, E!Closed, E!Open
  <2>2. /\ rows' = [i \in RowIds |-> IF E!Old(rows[i]) THEN [rows[i] EXCEPT !.status = "expired"]
                                                       ELSE rows[i]]
        /\ UNCHANGED nextRow
    BY <1>12 DEF Expire, E!ExpireOld, E!Ids, RowIds
  <2>3. QuestionsOK'
    BY <1>0, <1>10, <1>12, <2>1, <2>2 DEF Expire, QuestionsOK
  <2>4. QED
    BY <1>0, <1>12, <2>3, WorkKept DEF Expire, SessionsOK, WorkOK
<1>13. CASE Clock
  <2>1. ASSUME NEW row \in E!Row
        PROVE  /\ E!Aged(row) \in E!Row
               /\ E!Aged(row).origin = row.origin /\ E!Aged(row).status = row.status
    <3>1. E!Later(row.age, MaxAge) \in 0 .. MaxAge + 1
      BY WorkQueueAssumption, EscalationLoopAssumption DEF E!Later, E!Row
    <3>2. E!Later(row.surfaced, 0) \in (0 .. 0 + 1) \cup {Null}
      BY WorkQueueAssumption DEF E!Later, E!Row
    <3>3. QED
      BY <3>1, <3>2 DEF E!Aged, E!Row
  <2>2. rows' = [i \in RowIds |-> E!Aged(rows[i])] /\ UNCHANGED nextRow
    BY <1>13 DEF Clock, E!Tick, E!Ids, RowIds
  <2>3. \A i \in Ids : items[i] \in Row /\ items'[i] = Aged(items[i])
    BY <1>13 DEF Clock, Tick, TypeOK
  <2>4. \A i \in Ids : ItemStep(i)
    <3>1. ASSUME NEW row \in Row
          PROVE  \/ Aged(row) = row
                 \/ /\ row.lease # Null /\ Aged(row).status = row.status
                    /\ Aged(row).work = row.work /\ Aged(row).attempts = row.attempts
      BY DEF Aged, Row
    <3>2. QED
      BY <2>3, <3>1 DEF ItemStep, SweepSeesEveryClaim
  <2>5. QuestionsOK'
    BY <1>10, <2>1, <2>2, <2>4 DEF QuestionsOK
  <2>6. QED
    BY <1>13, <2>4, <2>5, WorkKept DEF Clock, Tick, SessionsOK, WorkOK
<1>14. ASSUME NEW s \in Sessions, Reload(s)
       PROVE  LoopInv'
  <2>1. UNCHANGED <<items, task, table, verdict, ran>>
    BY <1>14 DEF Reload
  <2>2. QED
    BY <1>0, <2>1, WorkKept, QuestionsKept DEF SessionsOK
<1>15. CASE UNCHANGED loopvars
  BY <1>0, <1>15, WorkKept, QuestionsKept DEF loopvars, table, SessionsOK, WorkOK
<1>16. QED
  BY <1>1, <1>2, <1>3, <1>4, <1>6, <1>7, <1>8, <1>9, <1>11, <1>12, <1>13, <1>14, <1>15
     DEF LoopNext, RowIds

LEMMA LoopCorrect ==
  ASSUME Overrun = FALSE
  PROVE  LoopSpec => []LoopInv
<1>1. LoopSpec => []LeaseInv
  BY LoopLease, Overrun = FALSE
<1>2. LeaseInv /\ LeaseInv' /\ LoopInv /\ [LoopNext]_loopvars => LoopInv'
  BY LoopInvStep
<1>3. QED
  BY <1>1, <1>2, LoopInvInit, PTL DEF LoopSpec

-----------------------------------------------------------------------------
(* The theorems *)

\* The Founder's open questions are about work that still waits.
THEOREM AskedWorkWaitsHolds ==
  ASSUME Overrun = FALSE
  PROVE  LoopSpec => []AskedWorkWaits
<1>1. ASSUME LoopInv
      PROVE  AskedWorkWaits
  <2>1. ASSUME NEW i \in RowIds, rows[i].status \in E!Open
        PROVE  rows[i].origin \in Ids /\ items[rows[i].origin].status # "absent"
    BY <1>1, <2>1 DEF LoopInv, QuestionsOK, E!Open
  <2>2. QED
    BY <1>1, <2>1 DEF LoopInv, WorkOK, AskedWorkWaits, RowIds
<1>2. QED
  BY <1>1, LoopCorrect, PTL

-----------------------------------------------------------------------------
(* What is done passed the gate, also when sessions overrun their leases *)

Passes(call) == \/ call.readOnly
                \/ call.rule = "none" /\ (call.inCatalog \/ call.concept = "proceed")

Settled == {"completed", "failed"}

\* A call that was made passed; what was never called for is not settled.
GateInv ==
  /\ anchor \in [Sessions -> Anchors]
  /\ ran \subseteq Ids
  /\ \A s \in Sessions : verdict[s] = "allowed" => task[s] \in ran
  /\ \A i \in Ids : items[i].status # "absent" => items[i].work \in Keys
  /\ \A i \in ran : items[i].status # "absent" /\ Passes(CallOf[items[i].work])
  /\ \A i \in Ids \ ran : items[i].status \notin Settled

\* What a step may do to a work item: insert it, or change an item that was there and
\* keep the work it is for; only an item whose call was made is settled.
GateStep(i) ==
  \/ items'[i] = items[i]
  \/ /\ items[i].status = "absent"
     /\ items'[i].status = "pending" /\ items'[i].work \in Keys
  \/ /\ items[i].status # "absent" /\ items'[i].status # "absent"
     /\ items'[i].work = items[i].work
     /\ i \in ran \/ items'[i].status \notin Settled

\* The decision fails closed: what it allows, with whatever anchor, passes.
LEMMA AllowPassesGate ==
  ASSUME NEW call \in Call, NEW a \in Anchors, Trigger(call, a) = Allow
  PROVE  Passes(call)
BY DEF Trigger, ConceptTrigger, Allow, Call, RuleOutcomes, ConceptOutcomes, Anchors, Passes

LEMMA GateKept ==
  ASSUME GateInv, \A i \in Ids : GateStep(i), ran' = ran,
         anchor' \in [Sessions -> Anchors],
         \A s \in Sessions : verdict'[s] = "allowed" =>
           verdict[s] = "allowed" /\ task'[s] = task[s]
  PROVE  GateInv'
<1>1. ASSUME NEW i \in ran
      PROVE  items'[i].status # "absent" /\ Passes(CallOf[items'[i].work])
  BY <1>1 DEF GateInv, GateStep
<1>2. \A i \in Ids : items'[i].status # "absent" => items'[i].work \in Keys
  BY DEF GateInv, GateStep
<1>3. \A i \in Ids \ ran : items'[i].status \notin Settled
  BY DEF GateInv, GateStep, Settled
<1>4. QED
  BY <1>1, <1>2, <1>3 DEF GateInv

LEMMA GateInvInit == LoopInit => GateInv
BY WorkQueueAssumption DEF LoopInit, Init, GateInv, NoRow, Settled

LEMMA GateInvStep ==
  ASSUME TableInv, GateInv, [LoopNext]_loopvars,
         verdict \in [Sessions -> {"none", "allowed", "blocked"}]
  PROVE  GateInv'
<1> USE DEF TableInv
<1>0. ASSUME UNCHANGED items
      PROVE  \A i \in Ids : GateStep(i)
  BY <1>0 DEF GateStep
<1>1. CASE Dispatch
  <2>1. PICK r \in Roles, k \in Keys, p \in Priorities : WriteItem(r, k, p)
    BY <1>1 DEF Dispatch
  <2>2. KeyFreed(k) = items
    BY KeyFreedIsIdentity
  <2>3. CASE UNCHANGED items
    BY <1>0, <1>1, <2>3, GateKept DEF Dispatch, GateInv
  <2>4. CASE nextId <= MaxItems /\ items' = [items EXCEPT ![nextId] = NewRow(r, k, p)]
    <3>1. nextId \in Ids /\ items[nextId].status = "absent"
      BY <2>4, WorkQueueAssumption DEF TypeOK, Ids, FreshRows
    <3>2. \A i \in Ids : items'[i] = IF i = nextId THEN NewRow(r, k, p) ELSE items[i]
      BY <2>4 DEF TypeOK
    <3>3. \A i \in Ids : GateStep(i)
      BY <3>1, <3>2 DEF GateStep, NewRow
    <3>4. QED
      BY <1>1, <3>3, GateKept DEF Dispatch, GateInv
  <2>5. QED
    BY <2>1, <2>2, <2>3, <2>4 DEF WriteItem
<1>2. ASSUME NEW s \in Sessions, Poll(s)
      PROVE  GateInv'
  <2>1. PICK i \in Ids : ClaimItem(i, RoleOf[s]) /\ task' = [task EXCEPT ![s] = i]
    BY <1>2 DEF Poll, Claim
  <2>2. items[i].status = "pending" /\ items[i] \in Row /\ task[s] = Null
    BY <1>2, <2>1 DEF Poll, Claim, ClaimItem, Candidates, TypeOK
  <2>3. \A j \in Ids : items'[j] = IF j = i THEN Claimed(items[i], RoleOf[s]) ELSE items[j]
    BY <2>1 DEF ClaimItem, TypeOK
  <2>4. /\ Claimed(items[i], RoleOf[s]).status = "claimed"
        /\ Claimed(items[i], RoleOf[s]).work = items[i].work
    BY <2>2 DEF Claimed, Row
  <2>5. \A j \in Ids : GateStep(j)
    BY <2>2, <2>3, <2>4 DEF GateStep, Settled
  <2>6. verdict[s] # "allowed"
    <3>1. Null \notin Ids
      BY WorkQueueAssumption DEF Ids
    <3>2. task[s] \notin ran
      BY <2>2, <3>1 DEF GateInv
    <3>3. QED
      BY <3>2 DEF GateInv
  <2>7. \A t \in Sessions : verdict[t] = "allowed" => task'[t] = task[t]
    BY <2>1, <2>6 DEF TypeOK
  <2>8. UNCHANGED <<anchor, verdict, ran>> /\ anchor \in [Sessions -> Anchors]
    BY <1>2 DEF Poll, GateInv
  <2>9. QED
    BY <2>5, <2>7, <2>8, GateKept
<1>3. ASSUME NEW s \in Sessions, Allowed(s)
      PROVE  GateInv'
  <2>1. task[s] \in Ids /\ items[task[s]].status # "absent" /\ items[task[s]].work \in Keys
    BY <1>3 DEF Allowed, TypeOK, FreshRows, GateInv
  <2>2. CallFor(s) \in Call
    BY <2>1, EscalationLoopAssumption DEF CallFor
  <2>3. Passes(CallOf[items[task[s]].work])
    BY <1>3, <2>2, AllowPassesGate DEF Allowed, CallFor, GateInv
  <2>4. QED
    BY <1>3, <2>1, <2>3 DEF Allowed, GateInv
<1>4. ASSUME NEW s \in Sessions, Blocked(s)
      PROVE  GateInv'
  BY <1>0, <1>4, GateKept DEF Blocked, GateInv
<1>5. ASSUME NEW s \in Sessions, Forget(s), task' = [task EXCEPT ![s] = Null],
             UNCHANGED <<anchor, ran>>, \A i \in Ids : GateStep(i)
      PROVE  GateInv'
  BY <1>5, GateKept DEF Forget, GateInv, TypeOK
<1>6. ASSUME NEW s \in Sessions, Finish(s)
      PROVE  GateInv'
  <2>1. task[s] \in Ids /\ task[s] \in ran /\ items[task[s]] \in Row
        /\ items[task[s]].status # "absent"
    BY <1>6 DEF Finish, GateInv, TypeOK
  <2>2. PICK row : /\ items' = [items EXCEPT ![task[s]] = row]
                   /\ row.work = items[task[s]].work /\ row.status # "absent"
    <3>1. /\ Completed(items[task[s]]).work = items[task[s]].work
          /\ Completed(items[task[s]]).status # "absent"
      BY <2>1 DEF Completed, Row
    <3>2. /\ Released(items[task[s]], TRUE).work = items[task[s]].work
          /\ Released(items[task[s]], TRUE).status # "absent"
      BY <2>1 DEF Released, Row
    <3>3. CASE Complete(s)
      BY <3>1, <3>3 DEF Complete
    <3>4. CASE Release(s, TRUE)
      BY <3>2, <3>4 DEF Release
    <3>5. QED
      BY <1>6, <3>3, <3>4 DEF Finish
  <2>3. \A i \in Ids : items'[i] = IF i = task[s] THEN row ELSE items[i]
    BY <2>2 DEF TypeOK
  <2>4. \A i \in Ids : GateStep(i)
    BY <2>1, <2>2, <2>3 DEF GateStep
  <2>5. QED
    BY <1>5, <1>6, <2>4 DEF Finish, Complete, Release
<1>7. ASSUME NEW s \in Sessions, GiveBack(s)
      PROVE  GateInv'
  <2>1. /\ task[s] \in Ids /\ items[task[s]] \in Row
        /\ items[task[s]].status # "absent"
        /\ items' = [items EXCEPT ![task[s]] = Released(@, FALSE)]
    BY <1>7 DEF GiveBack, Release, FreshRows, TypeOK
  <2>2. /\ Released(items[task[s]], FALSE).status = "pending"
        /\ Released(items[task[s]], FALSE).work = items[task[s]].work
    BY <2>1 DEF Released, Row
  <2>3. \A i \in Ids : GateStep(i)
    BY <2>1, <2>2 DEF GateStep, TypeOK, Settled
  <2>4. QED
    BY <1>5, <1>7, <2>3 DEF GiveBack, Release
<1>8. ASSUME NEW s \in Sessions, Restart(s)
      PROVE  GateInv'
  BY <1>0, <1>8, GateKept DEF Restart, Crash, Forget, GateInv, TypeOK
<1>9. CASE Sweep
  <2>1. \A i \in Ids : items[i] \in Row /\ items'[i] = Reclaimed(items[i])
    BY <1>9 DEF Sweep, Reclaim, TypeOK
  <2>2. \A i \in Ids : GateStep(i)
    BY <2>1 DEF GateStep, Reclaimed, Expired, Row, Settled
  <2>3. QED
    BY <1>9, <2>2, GateKept DEF Sweep, Reclaim, GateInv
<1>10. CASE Clock
  <2>1. \A i \in Ids : items[i] \in Row /\ items'[i] = Aged(items[i])
    BY <1>10 DEF Clock, Tick, TypeOK
  <2>2. ASSUME NEW row \in Row
        PROVE  Aged(row).status = row.status /\ Aged(row).work = row.work
    BY DEF Aged, Row
  <2>3. \A i \in Ids : Aged(items[i]) = items[i] \/ items[i].lease # Null
    BY DEF Aged
  <2>4. \A i \in Ids : GateStep(i)
    BY <2>1, <2>2, <2>3 DEF GateStep, SweepSeesEveryClaim, Settled
  <2>5. QED
    BY <1>10, <2>4, GateKept DEF Clock, Tick, GateInv
<1>11. ASSUME NEW s \in Sessions, Reload(s)
       PROVE  GateInv'
  BY <1>0, <1>11, GateKept DEF Reload, GateInv, Anchors
<1>12. CASE UNCHANGED <<items, task, anchor, verdict, ran>>
  BY <1>0, <1>12, GateKept DEF GateInv
<1>13. QED
  BY <1>1, <1>2, <1>3, <1>4, <1>6, <1>7, <1>8, <1>9, <1>10, <1>11, <1>12
     DEF LoopNext, Answer, Expire, loopvars

-----------------------------------------------------------------------------
(* The loop keeps to the table of questions *)

\* What a question keeps of its type when it is asked, closed, expires or ages.
LEMMA QuestionTypes ==
  /\ E!NoRow \in E!Row
  /\ \A i \in Ids : E!NewRow(Urgency, i) \in E!Row
  /\ \A row \in E!Row : /\ \A v \in E!Verdicts : [row EXCEPT !.status = v] \in E!Row
                        /\ [row EXCEPT !.status = "expired"] \in E!Row
                        /\ E!Aged(row) \in E!Row
<1>. USE WorkQueueAssumption, EscalationLoopAssumption
<1>1. E!NoRow \in E!Row /\ \A i \in Ids : E!NewRow(Urgency, i) \in E!Row
  BY DEF E!NoRow, E!NewRow, E!Row, E!Open
<1>2. ASSUME NEW row \in E!Row
      PROVE  /\ \A v \in E!Verdicts : [row EXCEPT !.status = v] \in E!Row
             /\ [row EXCEPT !.status = "expired"] \in E!Row
  BY DEF E!Row, E!Closed, E!Verdicts
<1>3. ASSUME NEW row \in E!Row
      PROVE  E!Aged(row) \in E!Row
  <2>1. E!Later(row.age, MaxAge) \in 0 .. MaxAge + 1
    BY DEF E!Later, E!Row
  <2>2. E!Later(row.surfaced, 0) \in (0 .. 0 + 1) \cup {Null}
    BY DEF E!Later, E!Row
  <2>. QED  BY <2>1, <2>2 DEF E!Aged, E!Row
<1>. QED  BY <1>1, <1>2, <1>3

\* A blocked session writes a row of the table, as the helper does.
LEMMA AskWrites ==
  ASSUME TypeOK, NEW s \in Sessions, Blocked(s)
  PROVE  UNCHANGED table \/ (E!WriteRow(Urgency, task[s]) /\ task[s] \in Ids)
BY DEF Blocked, Ask, TypeOK

LEMMA TableTypeStep ==
  ASSUME TypeOK, E!TypeOK, [LoopNext]_loopvars
  PROVE  E!TypeOK'
<1>. USE EscalationLoopAssumption
<1>1. CASE UNCHANGED table
  BY <1>1 DEF table, E!TypeOK
<1>2. ASSUME NEW i \in Ids, E!WriteRow(Urgency, i)
      PROVE  E!TypeOK'
  BY <1>2, QuestionTypes DEF E!WriteRow, E!TypeOK, E!Ids
<1>3. ASSUME NEW i \in RowIds, NEW v \in E!Verdicts, Answer(i, v)
      PROVE  E!TypeOK'
  <2>1. rows' = [rows EXCEPT ![i] = [rows[i] EXCEPT !.status = v]] /\ nextRow' = nextRow
    BY <1>3 DEF Answer, E!Resolve
  <2>. QED  BY <2>1, QuestionTypes DEF E!TypeOK, E!Ids, RowIds
<1>4. CASE Expire
  BY <1>4, QuestionTypes DEF Expire, E!ExpireOld, E!TypeOK
<1>5. CASE Clock
  BY <1>5, QuestionTypes DEF Clock, E!Tick, E!TypeOK
<1>. QED
  BY <1>1, <1>2, <1>3, <1>4, <1>5, AskWrites
  DEF LoopNext, RowIds, Dispatch, Poll, Allowed, Finish, GiveBack, Restart, Sweep, Reload,
      loopvars, table

LEMMA LoopInitTypes == LoopInit => E!TypeOK
BY QuestionTypes, EscalationLoopAssumption DEF LoopInit, E!Init, E!TypeOK, E!Ids

LEMMA TableTypes == LoopSpec => []E!TypeOK
<1>1. LoopInit => Init /\ E!TypeOK
  BY LoopInitTypes DEF LoopInit
<1>2. [LoopNext]_loopvars => [Next]_vars
  BY QueueStep
<1>3. E!TypeOK /\ TypeOK /\ [LoopNext]_loopvars => E!TypeOK'
  BY TableTypeStep
<1>4. Spec => []TypeOK
  BY TypeCorrect
<1>. QED  BY <1>1, <1>2, <1>3, <1>4, PTL DEF LoopSpec, Spec

\* The queue, the questions, the anchor and the verdicts keep their types, also when
\* sessions overrun their leases.
THEOREM LoopTypes == LoopSpec => []LoopTypeOK
<1>. DEFINE Rest == /\ anchor \in [Sessions -> Anchors]
                   /\ verdict \in [Sessions -> {"none", "allowed", "blocked"}]
                   /\ ran \subseteq Ids
<1>1. LoopInit => Init /\ Rest
  BY DEF LoopInit
<1>2. ASSUME TypeOK, Rest, [LoopNext]_loopvars
      PROVE  Rest'
  <2>1. ASSUME NEW s \in Sessions, Poll(s) \/ Finish(s) \/ GiveBack(s) \/ Restart(s)
        PROVE  Rest'
    BY <1>2, <2>1 DEF Poll, Finish, GiveBack, Restart, Forget
  <2>2. ASSUME NEW s \in Sessions, Allowed(s) \/ Blocked(s)
        PROVE  Rest'
    BY <1>2, <2>2 DEF Allowed, Blocked, TypeOK
  <2>3. ASSUME NEW s \in Sessions, Reload(s)
        PROVE  Rest'
    BY <1>2, <2>3 DEF Reload, Anchors
  <2>4. CASE UNCHANGED <<anchor, verdict, ran>>
    BY <1>2, <2>4
  <2>. QED
    BY <1>2, <2>1, <2>2, <2>3, <2>4 DEF LoopNext, Dispatch, Sweep, Answer, Expire, Clock, loopvars
<1>3. TypeOK /\ E!TypeOK /\ Rest => LoopTypeOK
  BY DEF LoopTypeOK
<1>4. [LoopNext]_loopvars => [Next]_vars
  BY QueueStep
<1>5. Spec => []TypeOK
  BY TypeCorrect
<1>. HIDE DEF Rest
<1>. QED  BY <1>1, <1>2, <1>3, <1>4, <1>5, TableTypes, PTL DEF LoopSpec, Spec

\* Work that is done or failed passed the gate, whatever the rule engine, the classifier,
\* the anchors of the processes, the store, late sessions, the sweep and the Founder do.
THEOREM SettledWorkPassedTheGateHolds == LoopSpec => []SettledWorkPassedTheGate
<1>1. LoopSpec => []LoopTypeOK
  BY LoopTypes
<1>2. LoopTypeOK => verdict \in [Sessions -> {"none", "allowed", "blocked"}]
  BY DEF LoopTypeOK
<1>3. LoopInit => Init
  BY DEF LoopInit
<1>4. [LoopNext]_loopvars => [Next]_vars
  BY QueueStep
<1>5. Spec => []TableInv
  BY TableCorrect
<1>6. TableInv /\ GateInv /\ [LoopNext]_loopvars
      /\ verdict \in [Sessions -> {"none", "allowed", "blocked"}] => GateInv'
  BY GateInvStep
<1>7. GateInv => SettledWorkPassedTheGate
  BY DEF GateInv, Settled, Passes, SettledWorkPassedTheGate
<1>8. QED
  BY <1>1, <1>2, <1>3, <1>4, <1>5, <1>6, <1>7, GateInvInit, PTL DEF LoopSpec, Spec

-----------------------------------------------------------------------------
(* The loop implements its parts *)

\* A session's tool call, its block and its question are nothing to the queue: all that
\* holds of the queue alone holds of it in the loop, whatever the hook and the Founder do.
THEOREM LoopImplementsQueue == LoopSpec => Spec
<1>1. LoopInit => Init
  BY DEF LoopInit
<1>2. [LoopNext]_loopvars => [Next]_vars
  BY QueueStep
<1>. QED  BY <1>1, <1>2, PTL DEF LoopSpec, Spec

\* So the loop, too, implements the ledger for sessions that keep to their leases.
THEOREM LoopImplementsLedger ==
  ASSUME Overrun = FALSE
  PROVE  LoopSpec => ImplementsLedger
<1>1. LoopSpec => Spec
  BY LoopImplementsQueue
<1>2. Spec => ImplementsLedger
  BY ImplementsLedgerHolds, Overrun = FALSE
<1>. QED  BY <1>1, <1>2, PTL

LEMMA QuestionStep ==
  ASSUME TypeOK, [LoopNext]_loopvars
  PROVE  [E!Next]_(E!vars)
<1>1. CASE UNCHANGED table
  BY <1>1 DEF table, E!vars
<1>2. ASSUME NEW i \in Ids, E!WriteRow(Urgency, i)
      PROVE  E!Next
  BY <1>2 DEF E!Next, E!Write, E!poller
<1>3. ASSUME NEW i \in RowIds, NEW v \in E!Verdicts, Answer(i, v)
      PROVE  E!Next
  BY <1>3 DEF Answer, E!Next, E!Ids, RowIds
<1>4. CASE Expire \/ Clock
  BY <1>4 DEF Expire, Clock, E!Next
<1>. QED
  BY <1>1, <1>2, <1>3, <1>4, AskWrites
  DEF LoopNext, RowIds, Dispatch, Poll, Allowed, Finish, GiveBack, Restart, Sweep, Reload,
      loopvars, table

\* The hook, the Founder's answers and the timers change the table of questions only as
\* the helpers of escalations.py do, each in one step.
THEOREM LoopImplementsQuestions == LoopSpec => E!Spec
<1>1. LoopInit => Init /\ E!Init
  BY DEF LoopInit
<1>2. [LoopNext]_loopvars => [Next]_vars
  BY QueueStep
<1>3. TypeOK /\ [LoopNext]_loopvars => [E!Next]_(E!vars)
  BY QuestionStep
<1>4. Spec => []TypeOK
  BY TypeCorrect
<1>. QED  BY <1>1, <1>2, <1>3, <1>4, PTL DEF LoopSpec, Spec, E!Spec

=============================================================================
