---------------------------- MODULE Observability ----------------------------
(***************************************************************************)
(* What a runtime records about its work: the ObservabilityManager that    *)
(* the plugin starts and stops, the work item it charges each call of a    *)
(* model and each error to, and the health page that shows both.           *)
(*                                                                         *)
(* A call is charged when its answer comes, to the item the manager holds  *)
(* then.  The manager holds one item for the whole runtime, whose tasks    *)
(* may overlap, and the plugin may be stopped and started while a call is  *)
(* out.                                                                    *)
(***************************************************************************)
EXTENDS Integers, FiniteSets

CONSTANTS
  Tasks,      \* coroutines of the runtime that may work at the same time
  Items,      \* work items
  MaxRows,    \* bound: rows of llm_calls and errors
  MaxStarts,  \* bound: starts of the manager
  Null

ASSUME ObservabilityAssumption ==
  /\ MaxRows \in Nat /\ MaxStarts \in Nat
  /\ Null \notin Items \cup Int
  /\ "none" \notin Items \cup {Null}

VARIABLES
  manager,   \* the plugin's _manager: none, started, stopping, or broken
  starts,    \* how many managers there have been; the last of them is _manager
  open,      \* the managers whose database is open
  context,   \* the _work_item_id of each
  shown,     \* the item that the call was charged to whose model the health page of
             \* _manager shows; "none" when it shows none
  task,      \* of each task: its item, and the manager of the client whose call is out
  seen,      \* of each task: the items any task had in work since that call began
  last,      \* the row added last: the item it was charged to, and the items it could
             \* be charged to
  rows       \* how many rows there are

plugin == <<manager, starts, open, context, shown>>
record == <<last, rows>>
vars == <<plugin, task, seen, record>>

Managers == 1 .. MaxStarts
Task == [item : Items \cup {Null}, client : Managers \cup {Null}]
Row == [item : Items \cup {Null}, among : SUBSET Items]

TypeOK ==
  /\ manager \in {"none", "started", "stopping", "broken"}
  /\ starts \in 0 .. MaxStarts
  /\ open \subseteq 1 .. starts
  /\ context \in [Managers -> Items \cup {Null}]
  /\ shown \in Items \cup {Null, "none"}
  /\ task \in [Tasks -> Task]
  /\ seen \in [Tasks -> SUBSET Items]
  /\ last \in Row \cup {Null}
  /\ rows \in 0 .. MaxRows

Idle == [item |-> Null, client |-> Null]

Init ==
  /\ manager = "none" /\ starts = 0 /\ open = {} /\ shown = "none"
  /\ context = [m \in Managers |-> Null]
  /\ task = [t \in Tasks |-> Idle]
  /\ seen = [t \in Tasks |-> {}]
  /\ last = Null /\ rows = 0

\* The items the runtime works on.
InHand == {task[t].item : t \in Tasks} \ {Null}

-----------------------------------------------------------------------------
(* startup and shutdown of the plugin; ObservabilityManager.start and stop *)

\* start opens the database of manager m, then binds the port of the health endpoint.
Start(m, opens, binds) ==
  /\ open' = IF opens THEN open \cup {m} ELSE open
  /\ manager' = IF opens /\ binds THEN "started" ELSE "broken"

\* _manager is set before start, also when that raises, and later startups return it.
Startup(opens, binds) ==
  /\ manager = "none" /\ starts < MaxStarts
  /\ starts' = starts + 1
  /\ Start(starts', opens, binds)
  /\ shown' = "none"
  /\ UNCHANGED <<context, task, seen, record>>

\* stop awaits the health endpoint with the database open; it returns at once from a
\* manager that is not started, and leaves that one's database open.
Shutdown ==
  /\ manager \in {"started", "broken"}
  /\ manager' = IF manager = "started" THEN "stopping" ELSE "none"
  /\ UNCHANGED <<starts, open, context, shown, task, seen, record>>

Stopped ==
  /\ manager = "stopping"
  /\ manager' = "none"
  /\ open' = open \ {starts}
  /\ UNCHANGED <<starts, context, shown, task, seen, record>>

-----------------------------------------------------------------------------
(* dequeue_wrapper, async_dequeue_wrapper *)

\* The contextvar of the log lines is set with it, for this task alone.
\* set_work_item_context leaves the model on the health page alone.
Dequeue(t, i) ==
  /\ task[t] = Idle
  /\ task' = [task EXCEPT ![t].item = i]
  /\ seen' = [u \in Tasks |-> IF task[u].client = Null THEN seen[u] ELSE seen[u] \cup {i}]
  /\ context' = IF manager = "none" THEN context ELSE [context EXCEPT ![starts] = i]
  /\ UNCHANGED <<manager, starts, open, shown, record>>

\* Mutants: the context is set and never cleared; the health page keeps the model.
ClearsNothing == UNCHANGED <<context, shown>>
ClearsItemOnly ==
  /\ context' = IF manager = "none" THEN context ELSE [context EXCEPT ![starts] = Null]
  /\ UNCHANGED shown

\* clear_work_item_context, whichever task set it.
Clears ==
  IF manager = "none"
  THEN UNCHANGED <<context, shown>>
  ELSE context' = [context EXCEPT ![starts] = Null] /\ shown' = "none"

\* The finally clause, whether the work returned or raised.
Finish(t) ==
  /\ task[t].item # Null /\ task[t].client = Null
  /\ task' = [task EXCEPT ![t] = Idle]
  /\ Clears
  /\ UNCHANGED <<manager, starts, open, seen, record>>

-----------------------------------------------------------------------------
(* record_llm_call and record_error *)

\* Manager m adds a row with the item it holds; that should be one of some items.
Insert(m, among) ==
  /\ m \in open /\ rows < MaxRows
  /\ last' = [item |-> context[m], among |-> among]
  /\ rows' = rows + 1

\* chat_completion, with a client that was made since the last startup: it keeps the
\* manager of that time.
Call(t) ==
  /\ manager # "none" /\ task[t].client = Null
  /\ task' = [task EXCEPT ![t].client = starts]
  /\ seen' = [seen EXCEPT ![t] = InHand]
  /\ UNCHANGED <<plugin, record>>

\* The answer, an error of the provider, or a timeout: it is recorded, and the health
\* page shows its model, unless the manager was stopped, the rate lookup raised or the
\* store refused.
Answer(t) ==
  /\ task[t].client # Null
  /\ task' = [task EXCEPT ![t].client = Null]
  /\ seen' = [seen EXCEPT ![t] = {}]
  /\ \/ /\ Insert(task[t].client, seen[t])
        /\ shown' = IF task[t].client = starts /\ manager # "none"
                    THEN context[starts] ELSE shown
     \/ UNCHANGED <<record, shown>>
  /\ UNCHANGED <<manager, starts, open, context>>

\* Raised in a task's own code or outside of any; an error that is not recorded
\* changes nothing.
Error ==
  /\ manager # "none"
  /\ Insert(starts, InHand)
  /\ UNCHANGED <<plugin, task, seen>>

-----------------------------------------------------------------------------

\* What GET /health answers of the work in hand, while the endpoint serves.
Page == [current_work_item_id |-> context[starts], current_model |-> shown]

-----------------------------------------------------------------------------

Next ==
  \/ \E opens, binds \in BOOLEAN : Startup(opens, binds)
  \/ Shutdown
  \/ Stopped
  \/ \E t \in Tasks, i \in Items : Dequeue(t, i)
  \/ \E t \in Tasks : Finish(t)
  \/ \E t \in Tasks : Call(t)
  \/ \E t \in Tasks : Answer(t)
  \/ Error

Spec == Init /\ [][Next]_vars

-----------------------------------------------------------------------------
(* Properties *)

\* A call is charged to an item that the runtime had in work at some moment of that call,
\* and an error to one it has in work, or to no item: never to work that was over before,
\* although the charge is made when the answer comes, with whatever item its manager then
\* holds, and tasks, stops and starts of the plugin may fall in between.
ChargedToWorkInHand == last # Null => last.item \in last.among \cup {Null}

\* The health page shows no item and no item's model that the runtime is done with: when
\* overlapping tasks overwrite and clear each other's context, it shows too little, and
\* never work that is over.
HealthShowsWorkInHand ==
  manager = "started" =>
    /\ Page.current_work_item_id \in InHand \cup {Null}
    /\ Page.current_model \in InHand \cup {Null, "none"}

=============================================================================
