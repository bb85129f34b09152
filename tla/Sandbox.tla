------------------------------- MODULE Sandbox -------------------------------
(***************************************************************************)
(* The sandbox of the Executor: the capabilities a work item asks for, the *)
(* containers DockerSandbox starts, and the DockerSession objects that use *)
(* and end them.  Several sessions may share a container (resume); each    *)
(* call to Docker may fail, and ending a container takes two of them.      *)
(***************************************************************************)
CONSTANTS
  WorkItems, Requires,  \* work items, and the capabilities each one asks for
  Containers,           \* ids Docker gives, each once
  Sessions,             \* DockerSession objects the process holds
  Contents,             \* what a file of the container may hold
  Operator,             \* who calls destroy
  None

Capability == {"FILE_RW", "EXEC", "NETWORK", "GPU", "SNAPSHOT", "PERSISTENT_VOLUMES"}

\* DOCKER_CAPABILITIES
Declared == {"FILE_RW", "EXEC", "NETWORK"}

ASSUME SandboxAssumption ==
  /\ Requires \in [WorkItems -> SUBSET Capability]
  /\ None \notin WorkItems \cup Contents /\ Operator \notin Sessions

VARIABLES
  state,     \* of each container: absent, running, stopped or gone
  label,     \* the work item its label names
  file,      \* what a file in it holds
  session,   \* of each session: its container, and _closed
  removing,  \* who has asked Docker to stop a container and not yet to remove it
  left,      \* the containers that Docker once refused to remove
  forgotten, \* the containers whose creation raised, or a session of which was lost
  late       \* the containers a closed session changed when nobody was ending them

sandboxVars == <<state, label, file, session, removing, left, forgotten, late>>

Session == [container : Containers, closed : BOOLEAN]

ASSUME NoneAssumption == None \notin Session

Callers == Sessions \cup {Operator}

SandboxTypeOK ==
  /\ state \in [Containers -> {"absent", "running", "stopped", "gone"}]
  /\ label \in [Containers -> WorkItems \cup {None}]
  /\ file \in [Containers -> Contents \cup {None}]
  /\ session \in [Sessions -> Session \cup {None}]
  /\ removing \subseteq Callers \X Containers
  /\ left \subseteq Containers
  /\ forgotten \subseteq Containers
  /\ late \subseteq Containers

SandboxInit ==
  /\ state = [c \in Containers |-> "absent"]
  /\ label = [c \in Containers |-> None]
  /\ file = [c \in Containers |-> None]
  /\ session = [s \in Sessions |-> None]
  /\ removing = {} /\ left = {} /\ forgotten = {} /\ late = {}

There(c) == state[c] \in {"running", "stopped"}

\* A session that was not shut down.
Uses(s, c) == session[s] # None /\ session[s].container = c /\ ~session[s].closed

Ending(c) == \E k \in Callers : <<k, c>> \in removing

-----------------------------------------------------------------------------
(* negotiate_capabilities *)

\* What Err names one of.
Missing(required) == required \ Declared

\* Ok
Negotiate(required) == Missing(required) = {}

-----------------------------------------------------------------------------
(* DockerSandbox.create and resume *)

\* Mutant: __init__ does not set _closed.
AttachedUnset(s, c) == session' = [session EXCEPT ![s] = [container |-> c, closed |-> None]]

Attached(s, c) == session' = [session EXCEPT ![s] = [container |-> c, closed |-> FALSE]]

\* The dispatcher only sends out what Negotiate lets through.  containers.run creates the
\* container and then starts it.
Made(i, c, made) ==
  /\ Negotiate(Requires[i])
  /\ state[c] = "absent"
  /\ state' = [state EXCEPT ![c] = made]
  /\ label' = [label EXCEPT ![c] = i]
  /\ UNCHANGED <<file, removing, left, late>>

Create(i, s, c) ==
  /\ Made(i, c, "running")
  /\ session[s] = None
  /\ Attached(s, c)
  /\ UNCHANGED forgotten

\* run raises with the container made, and perhaps running: nobody gets a session for it.
CreateRaises(i, c) ==
  /\ \E made \in {"stopped", "running"} : Made(i, c, made)
  /\ forgotten' = forgotten \cup {c}
  /\ UNCHANGED session

\* containers.get raises when there is none; a stopped container is handed out too.
Resume(s, c) ==
  /\ There(c) /\ session[s] = None
  /\ Attached(s, c)
  /\ UNCHANGED <<state, label, file, removing, left, forgotten, late>>

\* The holder of the session forgets it.
Drop(s) ==
  /\ session[s] # None
  /\ \A c \in Containers : <<s, c>> \notin removing
  /\ session' = [session EXCEPT ![s] = None]
  /\ forgotten' = forgotten \cup {c \in Containers : Uses(s, c)}
  /\ UNCHANGED <<state, label, file, removing, left, late>>

-----------------------------------------------------------------------------
(* DockerSession.write and exec; read and ls change nothing.  A call that   *)
(* Docker refuses raises.  None of them looks at _closed.                   *)

Change(s, states) == \E v \in Contents :
  /\ session[s] # None
  /\ LET c == session[s].container
     IN /\ state[c] \in states
        /\ file' = [file EXCEPT ![c] = v]
        /\ late' = IF session[s].closed /\ ~Ending(c)
                   THEN late \cup {c} ELSE late
  /\ UNCHANGED <<state, label, session, removing, left, forgotten>>

\* put_archive takes a container that is stopped.
Write(s) == Change(s, {"running", "stopped"})

\* exec_run does not; what the command changed stays when it fails or times out.
Exec(s) == Change(s, {"running"})

-----------------------------------------------------------------------------
(* DockerSession.shutdown and DockerSandbox.destroy *)

\* Mutant: what stop raises ends the teardown.
StopsOrGivesUp(k, c, fails) ==
  IF fails THEN UNCHANGED <<state, removing>>
  ELSE /\ state' = IF state[c] = "running" THEN [state EXCEPT ![c] = "stopped"] ELSE state
       /\ removing' = removing \cup {<<k, c>>}

\* container.stop; what it raises is swallowed.
Stops(k, c, fails) ==
  /\ state' = IF fails \/ state[c] # "running" THEN state
              ELSE [state EXCEPT ![c] = "stopped"]
  /\ removing' = removing \cup {<<k, c>>}

\* _closed is set first, so a second shutdown returns at once.
SessionShutdown(s, fails) ==
  /\ session[s] # None /\ ~session[s].closed
  /\ session' = [session EXCEPT ![s].closed = TRUE]
  /\ Stops(s, session[s].container, fails)
  /\ UNCHANGED <<label, file, left, forgotten, late>>

\* destroy knows the container by its id, and tells none of its sessions.
Destroy(c, fails) ==
  /\ There(c) /\ <<Operator, c>> \notin removing
  /\ Stops(Operator, c, fails)
  /\ UNCHANGED <<label, file, session, left, forgotten, late>>

\* Mutant: without force, a container whose stop failed stays and nothing is raised.
RemoveUnforced(k, c, fails) ==
  /\ <<k, c>> \in removing
  /\ removing' = removing \ {<<k, c>>}
  /\ state' = IF fails \/ state[c] = "running" THEN state ELSE [state EXCEPT ![c] = "gone"]
  /\ left' = IF fails THEN left \cup {c} ELSE left
  /\ UNCHANGED <<label, file, session, forgotten, late>>

\* container.remove(force=True); what it raises is swallowed too.
Remove(k, c, fails) ==
  /\ <<k, c>> \in removing
  /\ removing' = removing \ {<<k, c>>}
  /\ state' = IF fails THEN state ELSE [state EXCEPT ![c] = "gone"]
  /\ left' = IF fails THEN left \cup {c} ELSE left
  /\ UNCHANGED <<label, file, session, forgotten, late>>

\* The process ends: the sessions are gone and the containers stay.
Restart ==
  /\ session' = [s \in Sessions |-> None]
  /\ removing' = {}
  /\ forgotten' = {c \in Containers : There(c)}
  /\ UNCHANGED <<state, label, file, left, late>>

SandboxNext ==
  \/ \E i \in WorkItems, s \in Sessions, c \in Containers : Create(i, s, c)
  \/ \E i \in WorkItems, c \in Containers : CreateRaises(i, c)
  \/ \E s \in Sessions, c \in Containers : Resume(s, c)
  \/ \E s \in Sessions : Drop(s)
  \/ \E s \in Sessions : Write(s)
  \/ \E s \in Sessions : Exec(s)
  \/ \E s \in Sessions, fails \in BOOLEAN : SessionShutdown(s, fails)
  \/ \E c \in Containers, fails \in BOOLEAN : Destroy(c, fails)
  \/ \E k \in Callers, c \in Containers, fails \in BOOLEAN : Remove(k, c, fails)
  \/ Restart

SandboxSpec == SandboxInit /\ [][SandboxNext]_sandboxVars

-----------------------------------------------------------------------------
(* Properties *)

\* A session that was shut down changes nothing any more, although no call looks at
\* _closed: its container is gone whatever stop answered, unless Docker refused to
\* remove it.  So it is for all the sessions that share the container.
ClosedIsSilent == late \subseteq left

\* Every container there is has a session that is not shut down, or is being ended, or Docker
\* refused to remove it, or it was left without a session when its creation raised or its
\* holder or the process was lost: the errors of stop that shutdown and destroy swallow, and
\* sessions that share a container, leave no other behind.
ContainersAreAccounted ==
  \A c \in Containers : There(c) =>
    \/ \E s \in Sessions : Uses(s, c)
    \/ Ending(c)
    \/ c \in left \cup forgotten

=============================================================================
