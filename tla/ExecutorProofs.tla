---------------------------- MODULE ExecutorProofs ----------------------------
(***************************************************************************)
(* Proofs about what runs beside the work of an Executor: Observability,   *)
(* which every runtime has, and Sandbox.  The two share no state; each has *)
(* its own specification and its own theorems.                             *)
(***************************************************************************)
EXTENDS Observability, Sandbox, TLAPS

-----------------------------------------------------------------------------
(* Observability: the types *)

\* A manager that is there was started: what a client keeps is the number of one.
Counted == manager # "none" => starts \in Managers

TypeInv == TypeOK /\ Counted

LEMMA TypeInit == Init => TypeInv
BY ObservabilityAssumption DEF Init, TypeInv, TypeOK, Counted, Idle, Task

LEMMA ContextType ==
  ASSUME TypeOK, NEW m, NEW v \in Items \cup {Null}
  PROVE  [context EXCEPT ![m] = v] \in [Managers -> Items \cup {Null}]
BY DEF TypeOK

LEMMA InHandType == TypeOK => InHand \subseteq Items
BY DEF TypeOK, InHand, Task

LEMMA InsertType ==
  ASSUME TypeOK, NEW m, NEW among \in SUBSET Items, Insert(m, among)
  PROVE  m \in Managers /\ last' \in Row /\ rows' \in 0 .. MaxRows
<1>1. m \in Managers
  BY ObservabilityAssumption DEF Insert, TypeOK, Managers
<1>2. context[m] \in Items \cup {Null}
  BY <1>1 DEF TypeOK
<1>3. rows' \in 0 .. MaxRows
  BY ObservabilityAssumption DEF Insert, TypeOK
<1>. QED  BY <1>1, <1>2, <1>3 DEF Insert, Row

LEMMA CountedStep == TypeInv /\ [Next]_vars => Counted'
<1>. SUFFICES ASSUME TypeInv, [Next]_vars PROVE Counted'
  OBVIOUS
<1>. USE ObservabilityAssumption DEF TypeInv, Counted
<1>1. ASSUME NEW opens \in BOOLEAN, NEW binds \in BOOLEAN, Startup(opens, binds)
      PROVE  Counted'
  BY <1>1 DEF Startup, Managers, TypeOK
<1>2. CASE Shutdown \/ Stopped
  BY <1>2 DEF Shutdown, Stopped
<1>3. CASE UNCHANGED <<manager, starts>>
  BY <1>3
<1>. QED
  BY <1>1, <1>2, <1>3 DEF Next, Dequeue, Finish, Call, Answer, Error, plugin, vars

LEMMA TypeStep == TypeInv /\ [Next]_vars => TypeOK'
<1>. SUFFICES ASSUME TypeOK, Counted, [Next]_vars PROVE TypeOK'
  BY DEF TypeInv
<1>. USE ObservabilityAssumption
<1>1. ASSUME NEW opens \in BOOLEAN, NEW binds \in BOOLEAN, Startup(opens, binds)
      PROVE  TypeOK'
  <2>1. starts' \in 0 .. MaxStarts /\ open' \subseteq 1 .. starts'
    BY <1>1 DEF Startup, Start, TypeOK
  <2>2. manager' \in {"started", "broken"} /\ shown' = "none"
    BY <1>1 DEF Startup, Start
  <2>. QED  BY <1>1, <2>1, <2>2 DEF Startup, record, TypeOK
<1>2. CASE Shutdown
  BY <1>2 DEF Shutdown, record, TypeOK
<1>3. CASE Stopped
  BY <1>3 DEF Stopped, record, TypeOK
<1>4. ASSUME NEW t \in Tasks, NEW i \in Items, Dequeue(t, i) PROVE TypeOK'
  <2>1. task' \in [Tasks -> Task]
    <3>1. [task[t] EXCEPT !.item = i] \in Task
      BY DEF TypeOK, Task
    <3>2. task' = [task EXCEPT ![t] = [task[t] EXCEPT !.item = i]]
      BY <1>4 DEF Dequeue, TypeOK, Task
    <3>. QED  BY <3>1, <3>2 DEF TypeOK
  <2>2. context' \in [Managers -> Items \cup {Null}]
    BY <1>4, ContextType DEF Dequeue, TypeOK
  <2>3. seen' \in [Tasks -> SUBSET Items]
    BY <1>4 DEF Dequeue, TypeOK
  <2>. QED  BY <1>4, <2>1, <2>2, <2>3 DEF Dequeue, record, TypeOK
<1>5. ASSUME NEW t \in Tasks, Finish(t) PROVE TypeOK'
  <2>1. Idle \in Task
    BY DEF Idle, Task
  <2>2. /\ context' \in [Managers -> Items \cup {Null}]
        /\ shown' \in Items \cup {Null, "none"}
    BY <1>5, ContextType DEF Finish, Clears, TypeOK
  <2>. QED  BY <1>5, <2>1, <2>2 DEF Finish, record, TypeOK
<1>6. ASSUME NEW t \in Tasks, Call(t) PROVE TypeOK'
  <2>1. [task[t] EXCEPT !.client = starts] \in Task
    BY <1>6 DEF Call, Counted, TypeOK, Task
  <2>2. seen' \in [Tasks -> SUBSET Items]
    BY <1>6, InHandType DEF Call, TypeOK
  <2>. QED  BY <1>6, <2>1, <2>2 DEF Call, plugin, record, TypeOK
<1>7. ASSUME NEW t \in Tasks, Answer(t) PROVE TypeOK'
  <2>1. [task[t] EXCEPT !.client = Null] \in Task
    BY DEF TypeOK, Task
  <2>2. task' \in [Tasks -> Task]
    <3>1. task' = [task EXCEPT ![t] = [task[t] EXCEPT !.client = Null]]
      BY <1>7 DEF Answer, TypeOK, Task
    <3>. QED  BY <2>1, <3>1 DEF TypeOK
  <2>3. /\ last' \in Row \cup {Null}
        /\ rows' \in 0 .. MaxRows
        /\ shown' \in Items \cup {Null, "none"}
    <3>1. CASE UNCHANGED <<record, shown>>
      BY <3>1 DEF record, TypeOK
    <3>2. CASE /\ Insert(task[t].client, seen[t])
               /\ shown' = IF task[t].client = starts /\ manager # "none"
                           THEN context[starts] ELSE shown
      <4>1. seen[t] \in SUBSET Items
        BY DEF TypeOK
      <4>2. task[t].client \in Managers /\ last' \in Row /\ rows' \in 0 .. MaxRows
        BY <3>2, <4>1, InsertType
      <4>. QED  BY <3>2, <4>2 DEF TypeOK
    <3>. QED  BY <1>7, <3>1, <3>2 DEF Answer
  <2>4. seen' \in [Tasks -> SUBSET Items]
    BY <1>7 DEF Answer, TypeOK
  <2>. QED  BY <1>7, <2>2, <2>3, <2>4 DEF Answer, TypeOK
<1>8. CASE Error
  <2>1. last' \in Row /\ rows' \in 0 .. MaxRows
    BY <1>8, InHandType, InsertType DEF Error
  <2>. QED  BY <1>8, <2>1 DEF Error, plugin, TypeOK
<1>9. CASE UNCHANGED vars
  BY <1>9 DEF vars, plugin, record, TypeOK
<1>. QED
  BY <1>1, <1>2, <1>3, <1>4, <1>5, <1>6, <1>7, <1>8, <1>9 DEF Next

\* Every variable keeps its type: in particular no manager is started beyond the last,
\* and no database is open that was not opened.
THEOREM TypeCorrect == Spec => []TypeOK
BY TypeInit, CountedStep, TypeStep, PTL DEF Spec, TypeInv

LEMMA TypesKept == Spec => []TypeInv
BY TypeInit, CountedStep, TypeStep, PTL DEF Spec, TypeInv

-----------------------------------------------------------------------------
(* Observability: what is charged and shown *)

\* The manager that is there holds an item in hand.
HeldIsInHand == manager # "none" => context[starts] \in InHand \cup {Null}

\* A manager holds nothing before its start.
FutureIsClear == \A m \in Managers : m > starts => context[m] = Null

\* The manager of a client whose call is out holds an item that was in hand since the call
\* began.  It may have been stopped since, so this does not follow from HeldIsInHand, and
\* the charge of a late answer needs it; so does what the call saw until then.
ClientsSaw ==
  \A t \in Tasks : task[t].client # Null =>
    /\ context[task[t].client] \in seen[t] \cup {Null}
    /\ InHand \subseteq seen[t]

\* The model of an item is shown only while the item is in hand, from the start of a
\* manager until it is gone.
ShownIsInHand == manager # "none" => shown \in InHand \cup {Null, "none"}

WorkInv == HeldIsInHand /\ FutureIsClear /\ ClientsSaw /\ ShownIsInHand

LEMMA WorkInit == Init => WorkInv
<1>. SUFFICES ASSUME Init PROVE WorkInv
  OBVIOUS
<1>1. \A t \in Tasks : task[t].client = Null
  BY DEF Init, Idle
<1>. QED
  BY <1>1 DEF Init, WorkInv, HeldIsInHand, FutureIsClear, ClientsSaw, ShownIsInHand

\* What is in hand after a dequeue is what was, and the item.
LEMMA DequeueHand ==
  ASSUME TypeOK, NEW t \in Tasks, NEW i \in Items, Dequeue(t, i)
  PROVE  /\ InHand' = InHand \cup {i}
         /\ task'[t].client = Null
         /\ \A u \in Tasks : task'[u].client = task[u].client
<1>. USE ObservabilityAssumption
<1>1. task[t].item = Null /\ task[t].client = Null
  BY DEF Dequeue, Idle
<1>2. /\ task'[t].item = i
      /\ \A u \in Tasks : task'[u].client = task[u].client
      /\ \A u \in Tasks : u # t => task'[u].item = task[u].item
  BY DEF Dequeue, TypeOK, Task
<1>3. InHand' \subseteq InHand \cup {i}
  BY <1>2 DEF InHand
<1>4. ASSUME NEW j \in InHand PROVE j \in InHand'
  <2>1. PICK u \in Tasks : j = task[u].item /\ j # Null
    BY <1>4 DEF InHand
  <2>2. u # t
    BY <1>1, <2>1
  <2>. QED  BY <1>2, <2>1, <2>2 DEF InHand
<1>5. i \in InHand'
  BY <1>2 DEF InHand
<1>. QED  BY <1>1, <1>2, <1>3, <1>4, <1>5

\* The calls and answers of a task leave what is in hand as it is.
LEMMA SameHand ==
  ASSUME \A u \in Tasks : task'[u].item = task[u].item
  PROVE  InHand' = InHand
<1>1. {task'[u].item : u \in Tasks} = {task[u].item : u \in Tasks}
  OBVIOUS
<1>. QED  BY <1>1 DEF InHand

LEMMA WorkStep ==
  ASSUME TypeInv, WorkInv, [Next]_vars
  PROVE  WorkInv'
<1>. USE ObservabilityAssumption
     DEF TypeInv, WorkInv, HeldIsInHand, FutureIsClear, ClientsSaw, ShownIsInHand
<1>1. ASSUME NEW opens \in BOOLEAN, NEW binds \in BOOLEAN, Startup(opens, binds)
      PROVE  WorkInv'
  <2>1. starts' = starts + 1 /\ starts' \in Managers /\ starts' > starts
    BY <1>1 DEF Startup, TypeOK, Managers
  <2>2. UNCHANGED <<context, task, seen>> /\ shown' = "none"
    BY <1>1 DEF Startup
  <2>3. InHand' = InHand
    BY <2>2, SameHand
  <2>4. context'[starts'] = Null
    BY <2>1, <2>2
  <2>5. \A m \in Managers : m > starts' => m > starts
    BY <2>1 DEF TypeOK, Managers
  <2>. QED  BY <2>2, <2>3, <2>4, <2>5
<1>2. CASE Shutdown \/ Stopped
  <2>1. /\ UNCHANGED <<starts, context, shown, task, seen>>
        /\ manager' # "none" => manager # "none"
    BY <1>2 DEF Shutdown, Stopped
  <2>2. InHand' = InHand
    BY <2>1, SameHand
  <2>. QED  BY <2>1, <2>2
<1>3. ASSUME NEW t \in Tasks, NEW i \in Items, Dequeue(t, i) PROVE WorkInv'
  <2>1. UNCHANGED <<manager, starts, shown>>
    BY <1>3 DEF Dequeue
  <2>2. /\ InHand' = InHand \cup {i}
        /\ \A u \in Tasks : task'[u].client = task[u].client
    BY <1>3, DequeueHand
  <2>3. \A u \in Tasks : task[u].client # Null => seen'[u] = seen[u] \cup {i}
    BY <1>3 DEF Dequeue
  <2>4. \A m \in Managers :
          \/ context'[m] = context[m]
          \/ m = starts /\ context'[m] = i
    BY <1>3 DEF Dequeue, TypeOK
  <2>5. manager # "none" => context'[starts] = i
    BY <1>3 DEF Dequeue, TypeOK, Counted
  <2>6. HeldIsInHand' /\ ShownIsInHand'
    BY <2>1, <2>2, <2>5
  <2>7. FutureIsClear'
    <3>1. starts \in Int
      BY DEF TypeOK
    <3>. QED  BY <2>1, <2>4, <3>1
  <2>8. ClientsSaw'
    <3>1. ASSUME NEW u \in Tasks, task'[u].client # Null
          PROVE  context'[task'[u].client] \in seen'[u] \cup {Null} /\ InHand' \subseteq seen'[u]
      <4>1. task[u].client \in Managers
        BY <2>2, <3>1 DEF TypeOK, Task
      <4>. QED  BY <2>2, <2>3, <2>4, <3>1, <4>1
    <3>. QED  BY <3>1
  <2>. QED  BY <2>6, <2>7, <2>8
<1>4. ASSUME NEW t \in Tasks, Finish(t) PROVE WorkInv'
  <2>1. UNCHANGED <<manager, starts, seen>> /\ task[t].client = Null
    BY <1>4 DEF Finish
  <2>2. /\ task'[t].item = Null
        /\ \A u \in Tasks : task'[u].client = task[u].client
        /\ \A u \in Tasks : u # t => task'[u].item = task[u].item
    BY <1>4 DEF Finish, Idle, TypeOK
  <2>3. InHand' \subseteq InHand
    BY <2>2 DEF InHand
  <2>4. \A m \in Managers : context'[m] = context[m] \/ context'[m] = Null
    BY <1>4 DEF Finish, Clears, TypeOK
  <2>5. manager # "none" => context'[starts] = Null /\ shown' = "none"
    BY <1>4 DEF Finish, Clears, TypeOK, Counted
  <2>6. ClientsSaw'
    <3>1. ASSUME NEW u \in Tasks, task'[u].client # Null
          PROVE  context'[task'[u].client] \in seen'[u] \cup {Null} /\ InHand' \subseteq seen'[u]
      <4>1. task[u].client \in Managers
        BY <2>2, <3>1 DEF TypeOK, Task
      <4>. QED  BY <2>1, <2>2, <2>3, <2>4, <3>1, <4>1
    <3>. QED  BY <3>1
  <2>7. FutureIsClear'
    BY <2>1, <2>4
  <2>. QED  BY <2>1, <2>5, <2>6, <2>7
<1>5. ASSUME NEW t \in Tasks, Call(t) PROVE WorkInv'
  <2>1. manager # "none" /\ UNCHANGED <<manager, starts, context, shown>>
    BY <1>5 DEF Call, plugin
  <2>2. /\ task'[t].client = starts /\ seen'[t] = InHand
        /\ \A u \in Tasks : u # t => task'[u] = task[u] /\ seen'[u] = seen[u]
        /\ \A u \in Tasks : task'[u].item = task[u].item
    BY <1>5 DEF Call, TypeOK, Task
  <2>3. InHand' = InHand
    BY <2>2, SameHand
  <2>4. ClientsSaw'
    BY <2>1, <2>2, <2>3
  <2>. QED  BY <2>1, <2>3, <2>4
<1>6. ASSUME NEW t \in Tasks, Answer(t) PROVE WorkInv'
  <2>1. /\ UNCHANGED <<manager, starts, context>>
        /\ shown' = shown \/ (manager # "none" /\ shown' = context[starts])
    BY <1>6 DEF Answer
  <2>2. /\ task'[t].client = Null
        /\ \A u \in Tasks : u # t => task'[u] = task[u] /\ seen'[u] = seen[u]
        /\ \A u \in Tasks : task'[u].item = task[u].item
    BY <1>6 DEF Answer, TypeOK, Task
  <2>3. InHand' = InHand
    BY <2>2, SameHand
  <2>4. ClientsSaw'
    BY <2>1, <2>2, <2>3
  <2>. QED  BY <2>1, <2>3, <2>4
<1>7. CASE UNCHANGED <<manager, starts, context, shown, task, seen>>
  <2>1. InHand' = InHand
    BY <1>7, SameHand
  <2>. QED  BY <1>7, <2>1
<1>. QED
  BY <1>1, <1>2, <1>3, <1>4, <1>5, <1>6, <1>7 DEF Next, Error, plugin, vars

LEMMA WorkKept == Spec => []WorkInv
<1>1. WorkInv /\ TypeInv /\ [Next]_vars => WorkInv'
  BY WorkStep
<1>. QED  BY <1>1, WorkInit, TypesKept, PTL DEF Spec

\* The row an insertion adds is charged to one of the items it may be charged to, when its
\* manager holds one.
LEMMA InsertCharges ==
  ASSUME NEW m, NEW among, Insert(m, among), context[m] \in among \cup {Null}
  PROVE  ChargedToWorkInHand'
<1>1. last' = [item |-> context[m], among |-> among]
  BY DEF Insert
<1>2. last'.item = context[m] /\ last'.among = among
  BY <1>1
<1>. QED  BY <1>2 DEF ChargedToWorkInHand

LEMMA ChargedStep ==
  ASSUME TypeInv, WorkInv, ChargedToWorkInHand, [Next]_vars
  PROVE  ChargedToWorkInHand'
<1>1. ASSUME NEW t \in Tasks, Answer(t) PROVE ChargedToWorkInHand'
  <2>1. CASE Insert(task[t].client, seen[t])
    <3>1. context[task[t].client] \in seen[t] \cup {Null}
      BY <1>1 DEF Answer, WorkInv, ClientsSaw
    <3>. QED  BY <2>1, <3>1, InsertCharges
  <2>2. CASE last' = last
    BY <2>2 DEF ChargedToWorkInHand
  <2>. QED  BY <1>1, <2>1, <2>2 DEF Answer, record
<1>2. CASE Error
  <2>1. Insert(starts, InHand) /\ context[starts] \in InHand \cup {Null}
    BY <1>2 DEF Error, WorkInv, HeldIsInHand
  <2>. QED  BY <2>1, InsertCharges
<1>3. CASE last' = last
  BY <1>3 DEF ChargedToWorkInHand
<1>. QED
  BY <1>1, <1>2, <1>3
  DEF Next, Startup, Shutdown, Stopped, Dequeue, Finish, Call, record, vars

\* However many tasks of a runtime overlap, and whenever the plugin is stopped and started,
\* a call is charged to an item that was in work during that call, or to none, and an error
\* to an item in work, or to none.
THEOREM ChargedToWorkInHandHolds == Spec => []ChargedToWorkInHand
<1>1. Init => ChargedToWorkInHand
  BY DEF Init, ChargedToWorkInHand
<1>2. ChargedToWorkInHand /\ WorkInv /\ TypeInv /\ [Next]_vars => ChargedToWorkInHand'
  BY ChargedStep
<1>. QED  BY <1>1, <1>2, WorkKept, TypesKept, PTL DEF Spec

\* However many tasks of a runtime overlap, its health page shows no item and no item's
\* model that no task has in work.
THEOREM HealthShowsWorkInHandHolds == Spec => []HealthShowsWorkInHand
<1>1. WorkInv => HealthShowsWorkInHand
  BY DEF WorkInv, HeldIsInHand, ShownIsInHand, HealthShowsWorkInHand, Page
<1>. QED  BY <1>1, WorkKept, PTL

-----------------------------------------------------------------------------
(* Sandbox: the types *)

LEMMA SandboxTypeInit == SandboxInit => SandboxTypeOK
BY DEF SandboxInit, SandboxTypeOK

LEMMA SessionParts ==
  ASSUME SandboxTypeOK, NEW s \in Sessions, session[s] # None
  PROVE  /\ session[s] \in Session
         /\ session[s].container \in Containers
         /\ session[s].closed \in BOOLEAN
BY DEF SandboxTypeOK, Session

LEMMA AttachedType ==
  ASSUME SandboxTypeOK, NEW s \in Sessions, NEW c \in Containers, Attached(s, c)
  PROVE  session' \in [Sessions -> Session \cup {None}]
<1>1. [container |-> c, closed |-> FALSE] \in Session
  BY DEF Session
<1>. QED  BY <1>1 DEF Attached, SandboxTypeOK

LEMMA AttachedSession ==
  ASSUME SandboxTypeOK, NEW s \in Sessions, NEW c \in Containers,
         Attached(s, c)
  PROVE  /\ session'[s] # None /\ session'[s].container = c /\ ~session'[s].closed
         /\ \A u \in Sessions : u # s => session'[u] = session[u]
<1>1. [container |-> c, closed |-> FALSE] \in Session
  BY DEF Session
<1>2. session'[s] = [container |-> c, closed |-> FALSE]
  BY DEF Attached, SandboxTypeOK
<1>3. session'[s] # None
  BY <1>1, <1>2, NoneAssumption
<1>. QED  BY <1>2, <1>3 DEF Attached, SandboxTypeOK

LEMMA StopsType ==
  ASSUME SandboxTypeOK, NEW k \in Callers, NEW c \in Containers, NEW fails \in BOOLEAN,
         Stops(k, c, fails)
  PROVE  /\ state' \in [Containers -> {"absent", "running", "stopped", "gone"}]
         /\ removing' \subseteq Callers \X Containers
<1>1. state' = state \/ state' = [state EXCEPT ![c] = "stopped"]
  BY DEF Stops
<1>2. removing' = removing \cup {<<k, c>>}
  BY DEF Stops
<1>. QED  BY <1>1, <1>2 DEF SandboxTypeOK

LEMMA SandboxTypeStep ==
  ASSUME SandboxTypeOK, [SandboxNext]_sandboxVars
  PROVE  SandboxTypeOK'
<1>1. ASSUME NEW i \in WorkItems, NEW s \in Sessions, NEW c \in Containers, Create(i, s, c)
      PROVE  SandboxTypeOK'
  BY <1>1, AttachedType DEF Create, Made, SandboxTypeOK
<1>10. ASSUME NEW i \in WorkItems, NEW c \in Containers, CreateRaises(i, c)
      PROVE  SandboxTypeOK'
  BY <1>10 DEF CreateRaises, Made, SandboxTypeOK
<1>2. ASSUME NEW s \in Sessions, NEW c \in Containers, Resume(s, c)
      PROVE  SandboxTypeOK'
  BY <1>2, AttachedType DEF Resume, SandboxTypeOK
<1>3. ASSUME NEW s \in Sessions, Drop(s) PROVE SandboxTypeOK'
  BY <1>3 DEF Drop, SandboxTypeOK
<1>4. ASSUME NEW s \in Sessions, NEW states, Change(s, states) PROVE SandboxTypeOK'
  <2>1. session[s].container \in Containers
    BY <1>4, SessionParts DEF Change
  <2>. QED  BY <1>4, <2>1 DEF Change, SandboxTypeOK
<1>5. ASSUME NEW s \in Sessions, NEW fails \in BOOLEAN, SessionShutdown(s, fails)
      PROVE  SandboxTypeOK'
  <2>1. session[s].container \in Containers /\ s \in Callers
    BY <1>5, SessionParts DEF SessionShutdown, Callers
  <2>2. [session[s] EXCEPT !.closed = TRUE] \in Session
    BY <1>5, SessionParts DEF SessionShutdown, Session
  <2>3. session' \in [Sessions -> Session \cup {None}]
    BY <1>5, <2>2 DEF SessionShutdown, SandboxTypeOK
  <2>. QED  BY <1>5, <2>1, <2>3, StopsType DEF SessionShutdown, SandboxTypeOK
<1>6. ASSUME NEW c \in Containers, NEW fails \in BOOLEAN, Destroy(c, fails)
      PROVE  SandboxTypeOK'
  <2>1. Operator \in Callers
    BY DEF Callers
  <2>. QED  BY <1>6, <2>1, StopsType DEF Destroy, SandboxTypeOK
<1>7. ASSUME NEW k \in Callers, NEW c \in Containers, NEW fails \in BOOLEAN,
             Remove(k, c, fails)
      PROVE  SandboxTypeOK'
  BY <1>7 DEF Remove, SandboxTypeOK
<1>8. CASE Restart
  BY <1>8 DEF Restart, SandboxTypeOK
<1>9. CASE UNCHANGED sandboxVars
  BY <1>9 DEF sandboxVars, SandboxTypeOK
<1>. QED
  BY <1>1, <1>2, <1>3, <1>4, <1>5, <1>6, <1>7, <1>8, <1>9, <1>10
  DEF SandboxNext, Write, Exec

\* Every variable of the sandbox keeps its type, for any sessions and containers.
THEOREM SandboxTypes == SandboxSpec => []SandboxTypeOK
<1>1. SandboxTypeOK /\ [SandboxNext]_sandboxVars => SandboxTypeOK'
  BY SandboxTypeStep
<1>. QED  BY <1>1, SandboxTypeInit, PTL DEF SandboxSpec

-----------------------------------------------------------------------------
(* Sandbox: closed sessions and containers that are left *)

\* The container of a session was started.
Attachments ==
  \A s \in Sessions : session[s] # None => state[session[s].container] # "absent"

\* A container that is gone, on its way out, or was refused to be removed.
Settled(c) == ~There(c) \/ Ending(c) \/ c \in left

ClosedIsSettled ==
  \A s \in Sessions :
    session[s] # None /\ session[s].closed => Settled(session[s].container)

SandboxInv == Attachments /\ ClosedIsSettled /\ ClosedIsSilent /\ ContainersAreAccounted

LEMMA SandboxInvInit == SandboxInit => SandboxInv
BY DEF SandboxInit, SandboxInv, Attachments, ClosedIsSettled, ClosedIsSilent,
   ContainersAreAccounted, There

LEMMA SandboxStep ==
  ASSUME SandboxTypeOK, SandboxInv, [SandboxNext]_sandboxVars
  PROVE  SandboxInv'
<1>. USE DEF SandboxInv
<1>1. ASSUME NEW i \in WorkItems, NEW s \in Sessions, NEW c \in Containers, Create(i, s, c)
      PROVE  SandboxInv'
  <2>. USE <1>1 DEF Create, Made
  <2>1. /\ session'[s] # None /\ session'[s].container = c /\ ~session'[s].closed
        /\ \A u \in Sessions : u # s => session'[u] = session[u]
    BY AttachedSession
  <2>2. /\ \A d \in Containers : d # c => state'[d] = state[d]
        /\ state[c] = "absent" /\ state'[c] = "running"
        /\ UNCHANGED <<removing, left, forgotten, late>>
    BY DEF SandboxTypeOK
  <2>3. \A u \in Sessions : u # s /\ session[u] # None =>
          session[u].container \in Containers /\ session[u].container # c
    BY <2>2, SessionParts DEF Attachments
  <2>4. Attachments'
    BY <2>1, <2>2, <2>3 DEF Attachments
  <2>5. \A d \in Containers : d # c /\ Settled(d) => Settled(d)'
    BY <2>2 DEF Settled, There, Ending
  <2>6. ClosedIsSettled'
    BY <2>1, <2>3, <2>5 DEF ClosedIsSettled
  <2>7. ContainersAreAccounted'
    BY <2>1, <2>2, <2>3 DEF ContainersAreAccounted, There, Ending, Uses
  <2>. QED  BY <2>2, <2>4, <2>6, <2>7 DEF ClosedIsSilent
<1>11. ASSUME NEW i \in WorkItems, NEW c \in Containers, CreateRaises(i, c)
       PROVE  SandboxInv'
  <2>1. /\ \A d \in Containers : d # c => state'[d] = state[d]
        /\ state[c] = "absent" /\ state'[c] # "absent"
        /\ forgotten' = forgotten \cup {c}
        /\ UNCHANGED <<session, removing, left, late>>
    BY <1>11 DEF CreateRaises, Made, SandboxTypeOK
  <2>2. \A u \in Sessions : session[u] # None =>
          session[u].container \in Containers /\ session[u].container # c
    BY <2>1, SessionParts DEF Attachments
  <2>3. Attachments'
    BY <2>1, <2>2 DEF Attachments
  <2>4. \A d \in Containers : d # c /\ Settled(d) => Settled(d)'
    BY <2>1 DEF Settled, There, Ending
  <2>5. ClosedIsSettled'
    BY <2>1, <2>2, <2>4 DEF ClosedIsSettled
  <2>6. ContainersAreAccounted'
    BY <2>1 DEF ContainersAreAccounted, There, Ending, Uses
  <2>. QED  BY <2>1, <2>3, <2>5, <2>6 DEF ClosedIsSilent
<1>2. ASSUME NEW s \in Sessions, NEW c \in Containers, Resume(s, c)
      PROVE  SandboxInv'
  <2>1. /\ session'[s] # None /\ session'[s].container = c /\ ~session'[s].closed
        /\ \A u \in Sessions : u # s => session'[u] = session[u]
    BY <1>2, AttachedSession DEF Resume
  <2>2. /\ session[s] = None /\ There(c)
        /\ UNCHANGED <<state, removing, left, forgotten, late>>
    BY <1>2 DEF Resume
  <2>3. Attachments'
    BY <2>1, <2>2 DEF Attachments, There
  <2>4. ClosedIsSettled'
    BY <2>1, <2>2 DEF ClosedIsSettled, Settled, There, Ending
  <2>5. ContainersAreAccounted'
    BY <2>1, <2>2 DEF ContainersAreAccounted, There, Ending, Uses
  <2>. QED  BY <2>2, <2>3, <2>4, <2>5 DEF ClosedIsSilent
<1>3. ASSUME NEW s \in Sessions, Drop(s) PROVE SandboxInv'
  <2>1. /\ session'[s] = None
        /\ \A u \in Sessions : u # s => session'[u] = session[u]
        /\ forgotten' = forgotten \cup {c \in Containers : Uses(s, c)}
        /\ UNCHANGED <<state, removing, left, late>>
    BY <1>3 DEF Drop, SandboxTypeOK
  <2>2. Attachments'
    BY <2>1 DEF Attachments
  <2>3. ClosedIsSettled'
    BY <2>1 DEF ClosedIsSettled, Settled, There, Ending
  <2>4. ContainersAreAccounted'
    BY <2>1 DEF ContainersAreAccounted, There, Ending, Uses
  <2>. QED  BY <2>1, <2>2, <2>3, <2>4 DEF ClosedIsSilent
<1>4. ASSUME NEW s \in Sessions, NEW states \in SUBSET {"running", "stopped"},
             Change(s, states)
      PROVE  SandboxInv'
  <2>. DEFINE c == session[s].container
  <2>1. /\ session[s] # None /\ state[c] \in states
        /\ late' = IF session[s].closed /\ ~Ending(c) THEN late \cup {c} ELSE late
        /\ UNCHANGED <<state, session, removing, left, forgotten>>
    BY <1>4 DEF Change
  <2>2. There(c)
    BY <2>1 DEF There
  <2>3. session[s].closed /\ ~Ending(c) => c \in left
    BY <2>1, <2>2 DEF ClosedIsSettled, Settled
  <2>4. ClosedIsSilent'
    BY <2>1, <2>3 DEF ClosedIsSilent
  <2>. QED
    BY <2>1, <2>4
    DEF Attachments, ClosedIsSettled, Settled, ContainersAreAccounted, There, Ending, Uses
<1>5. ASSUME NEW k \in Callers, NEW c \in Containers, NEW fails \in BOOLEAN,
             Stops(k, c, fails), UNCHANGED <<left, forgotten, late>>,
             \A s \in Sessions :
               \/ session'[s] = session[s]
               \/ /\ session[s] # None /\ session'[s] # None
                  /\ session[s].container = c /\ session'[s].container = c
      PROVE  SandboxInv'
  <2>1. removing' = removing \cup {<<k, c>>}
    BY <1>5 DEF Stops
  <2>2. \A d \in Containers :
          /\ There(d)' => There(d)
          /\ state[d] # "absent" => state'[d] # "absent"
    BY <1>5 DEF Stops, There, SandboxTypeOK
  <2>3. Ending(c)' /\ \A d \in Containers : Ending(d) => Ending(d)'
    BY <2>1 DEF Ending
  <2>4. \A s \in Sessions : session'[s] # None =>
          /\ session[s] # None /\ session'[s].container = session[s].container
          /\ session[s].container \in Containers
    BY <1>5, SessionParts
  <2>5. Attachments'
    <3>1. ASSUME NEW s \in Sessions, session'[s] # None
          PROVE  state'[session'[s].container] # "absent"
      <4>1. state[session[s].container] # "absent"
        BY <2>4, <3>1 DEF Attachments
      <4>. QED  BY <2>2, <2>4, <3>1, <4>1
    <3>. QED  BY <3>1 DEF Attachments
  <2>6. Settled(c)' /\ \A d \in Containers : Settled(d) => Settled(d)'
    <3>1. Settled(c)'
      BY <2>3 DEF Settled
    <3>2. ASSUME NEW d \in Containers, Settled(d) PROVE Settled(d)'
      BY <1>5, <2>2, <2>3, <3>2 DEF Settled
    <3>. QED  BY <3>1, <3>2
  <2>7. \A s \in Sessions : session'[s] # None /\ session'[s].container # c =>
          session'[s] = session[s]
    BY <1>5
  <2>8. ClosedIsSettled'
    BY <2>4, <2>6, <2>7 DEF ClosedIsSettled
  <2>9. ContainersAreAccounted'
    <3>1. ASSUME NEW d \in Containers, d # c, NEW s \in Sessions, Uses(s, d)
          PROVE  Uses(s, d)'
      BY <1>5, <3>1 DEF Uses
    <3>2. ASSUME NEW d \in Containers, There(d)'
          PROVE  \/ \E s \in Sessions : Uses(s, d)'
                 \/ Ending(d)'
                 \/ d \in left' \cup forgotten'
      <4>1. \/ \E s \in Sessions : Uses(s, d)
            \/ Ending(d)
            \/ d \in left \cup forgotten
        BY <2>2, <3>2 DEF ContainersAreAccounted
      <4>2. CASE d = c
        BY <2>3, <4>2
      <4>3. CASE d # c
        BY <1>5, <2>3, <3>1, <4>1, <4>3
      <4>. QED  BY <4>2, <4>3
    <3>. QED  BY <3>2 DEF ContainersAreAccounted
  <2>. QED  BY <1>5, <2>5, <2>8, <2>9 DEF ClosedIsSilent
<1>6. ASSUME NEW s \in Sessions, NEW fails \in BOOLEAN, SessionShutdown(s, fails)
      PROVE  SandboxInv'
  <2>1. session[s].container \in Containers /\ s \in Callers
    BY <1>6, SessionParts DEF SessionShutdown, Callers
  <2>2. session[s] # None /\ session[s] \in Session
    BY <1>6, SessionParts DEF SessionShutdown
  <2>3. /\ session'[s] = [session[s] EXCEPT !.closed = TRUE]
        /\ \A u \in Sessions : u # s => session'[u] = session[u]
    BY <1>6 DEF SessionShutdown, SandboxTypeOK
  <2>4. session'[s] \in Session /\ session'[s].container = session[s].container
    BY <2>2, <2>3 DEF Session
  <2>5. session'[s] # None
    BY <2>4, NoneAssumption
  <2>. QED  BY <1>5, <1>6, <2>1, <2>2, <2>3, <2>4, <2>5 DEF SessionShutdown
<1>7. ASSUME NEW c \in Containers, NEW fails \in BOOLEAN, Destroy(c, fails)
      PROVE  SandboxInv'
  <2>1. Operator \in Callers
    BY DEF Callers
  <2>. QED  BY <1>5, <1>7, <2>1 DEF Destroy
<1>8. ASSUME NEW k \in Callers, NEW c \in Containers, NEW fails \in BOOLEAN,
             Remove(k, c, fails)
      PROVE  SandboxInv'
  <2>1. /\ UNCHANGED <<session, forgotten, late>>
        /\ left \subseteq left'
        /\ c \in left' \/ ~There(c)'
        /\ state'[c] # "absent" \/ state'[c] = state[c]
    BY <1>8 DEF Remove, There, SandboxTypeOK
  <2>2. \A d \in Containers \ {c} : state'[d] = state[d] /\ (Ending(d)' <=> Ending(d))
    BY <1>8 DEF Remove, Ending, SandboxTypeOK
  <2>3. Attachments'
    BY <2>1, <2>2, SessionParts DEF Attachments
  <2>4. ClosedIsSettled'
    BY <2>1, <2>2, SessionParts DEF ClosedIsSettled, Settled, There
  <2>5. ContainersAreAccounted'
    BY <2>1, <2>2 DEF ContainersAreAccounted, There, Uses
  <2>. QED  BY <2>1, <2>3, <2>4, <2>5 DEF ClosedIsSilent
<1>9. CASE Restart
  <2>1. \A s \in Sessions : session'[s] = None
    BY <1>9 DEF Restart
  <2>2. UNCHANGED <<state, left, late>> /\ forgotten' = {c \in Containers : There(c)}
    BY <1>9 DEF Restart
  <2>. QED
    BY <2>1, <2>2 DEF Attachments, ClosedIsSettled, ClosedIsSilent,
       ContainersAreAccounted, There
<1>10. CASE UNCHANGED sandboxVars
  BY <1>10 DEF sandboxVars, Attachments, ClosedIsSettled, Settled, ClosedIsSilent,
     ContainersAreAccounted, There, Ending, Uses
<1>. QED
  BY <1>1, <1>2, <1>3, <1>4, <1>6, <1>7, <1>8, <1>9, <1>10, <1>11
  DEF SandboxNext, Write, Exec

LEMMA SandboxInvKept == SandboxSpec => []SandboxInv
<1>1. SandboxInv /\ SandboxTypeOK /\ [SandboxNext]_sandboxVars => SandboxInv'
  BY SandboxStep
<1>. QED  BY <1>1, SandboxInvInit, SandboxTypes, PTL DEF SandboxSpec

\* Whatever Docker refuses and however many sessions share a container: a session that
\* was shut down changes only what is being ended or could not be removed.
THEOREM ClosedStaysSilent == SandboxSpec => []ClosedIsSilent
<1>1. SandboxInv => ClosedIsSilent
  BY DEF SandboxInv
<1>. QED  BY <1>1, SandboxInvKept, PTL

\* No container is left behind but those that Docker refused to remove, those whose creation
\* raised and those whose sessions were lost, over any sequence of calls, failures and restarts.
THEOREM ContainersStayAccounted == SandboxSpec => []ContainersAreAccounted
<1>1. SandboxInv => ContainersAreAccounted
  BY DEF SandboxInv
<1>. QED  BY <1>1, SandboxInvKept, PTL
=============================================================================
