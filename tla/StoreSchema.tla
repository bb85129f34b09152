----------------------------- MODULE StoreSchema -----------------------------
(***************************************************************************)
(* How operational.db gets its tables.  Every runtime opens the store for  *)
(* each tool call that needs it, and open_store brings the schema up to    *)
(* date: the base tables, then each migration above the version it read.   *)
(* Every statement of those scripts commits on its own, so runtimes that   *)
(* open the store together interleave statement by statement, and one that *)
(* dies, or finds the database locked, leaves a script half done.          *)
(*                                                                         *)
(* On a server the file is not made by a runtime but by install-self.sh,   *)
(* which has statements of its own, before the runtimes are started.       *)
(***************************************************************************)
EXTENDS Integers, Sequences

CONSTANTS
  Openers,     \* processes that open the store
  MaxFailures  \* bound: openings and installations that stop half way

ASSUME StoreSchemaAssumption == MaxFailures \in Nat

\* What the scripts create: the n-th ends by recording version n.
Script ==
  << <<"project_bindings", "scheduled_progress", "hermes_runs">>,
     <<"work_items", "escalations", "founder_identity_bindings", "upstream_sessions">>,
     <<"errors", "llm_calls", "llm_calls_daily">> >>

\* What install-self.sh creates, after it recorded version 3.
InstallScript ==
  <<"project_bindings", "scheduled_progress", "hermes_runs", "work_items",
    "escalations", "errors", "llm_calls", "llm_calls_daily">>

Versions == 1 .. 3
Tables == {"project_bindings", "scheduled_progress", "hermes_runs", "work_items",
           "escalations", "founder_identity_bindings", "upstream_sessions",
           "errors", "llm_calls", "llm_calls_daily"}

VARIABLES
  maker,       \* who made the file: "nobody", "runtime" or "installer"
  version,     \* schema_version in _schema_meta; 0 when the row is not there
  tables,      \* of each table, whether it has all the columns the code names
  installing,  \* the statement the installer is at; 0 when it does not run
  phase,       \* where each opener is
  script,      \* the script it runs
  line,        \* the statement it is at
  seen,        \* the version it has read
  failures

vars == <<maker, version, tables, installing, phase, script, line, seen, failures>>
opener == <<phase, script, line, seen>>

TypeOK ==
  /\ maker \in {"nobody", "runtime", "installer"}
  /\ version \in {0} \cup Versions
  /\ tables \in [Tables -> {"none", "lacking", "whole"}]
  /\ installing \in 0 .. Len(InstallScript) + 2
  /\ phase \in [Openers -> {"closed", "running", "reading", "open"}]
  /\ script \in [Openers -> Versions]
  /\ line \in [Openers -> 1 .. 5]
  /\ seen \in [Openers -> {0} \cup Versions]
  /\ failures \in 0 .. MaxFailures

Init ==
  /\ maker = "nobody"
  /\ version = 0
  /\ tables = [t \in Tables |-> "none"]
  /\ installing = 0
  /\ phase = [p \in Openers |-> "closed"]
  /\ script = [p \in Openers |-> 1]
  /\ line = [p \in Openers |-> 1]
  /\ seen = [p \in Openers |-> 0]
  /\ failures = 0

-----------------------------------------------------------------------------
(* install-self.sh: init_operational_db *)

\* The file is not there: the first statement makes it.
Install ==
  /\ maker = "nobody"
  /\ maker' = "installer"
  /\ installing' = 1
  /\ UNCHANGED <<version, tables, opener, failures>>

InstallVersion ==
  /\ installing = 1
  /\ version' = 3
  /\ installing' = 2
  /\ UNCHANGED <<maker, tables, opener, failures>>

\* Its work_items has no column dedup_key.
Installed(t) == IF t = "work_items" THEN "lacking" ELSE "whole"

InstallTable ==
  /\ installing \in 2 .. Len(InstallScript) + 1
  /\ LET t == InstallScript[installing - 1]
     IN tables' = [tables EXCEPT ![t] = Installed(t)]
  /\ installing' = installing + 1
  /\ UNCHANGED <<maker, version, opener, failures>>

InstallEnds ==
  /\ installing = Len(InstallScript) + 2
  /\ installing' = 0
  /\ UNCHANGED <<maker, version, tables, opener, failures>>

\* A run after this finds the file and leaves it alone.
InstallFails ==
  /\ installing # 0
  /\ failures < MaxFailures
  /\ failures' = failures + 1
  /\ installing' = 0
  /\ UNCHANGED <<maker, version, tables, opener>>

-----------------------------------------------------------------------------
(* open_store *)

Start(p, n) ==
  /\ script' = [script EXCEPT ![p] = n]
  /\ line' = [line EXCEPT ![p] = 1]

\* sqlite3.connect makes the file.  The runtimes are started after the installer.
Open(p) ==
  /\ phase[p] = "closed" /\ installing = 0
  /\ maker' = IF maker = "nobody" THEN "runtime" ELSE maker
  /\ phase' = [phase EXCEPT ![p] = "running"]
  /\ UNCHANGED <<version, tables, installing, script, line, seen, failures>>

\* CREATE TABLE IF NOT EXISTS
Create(p) ==
  /\ phase[p] = "running"
  /\ line[p] <= Len(Script[script[p]])
  /\ LET t == Script[script[p]][line[p]]
     IN tables' = [tables EXCEPT ![t] = IF @ = "none" THEN "whole" ELSE @]
  /\ line' = [line EXCEPT ![p] = @ + 1]
  /\ UNCHANGED <<maker, version, installing, phase, script, seen, failures>>

\* Mutants: a script records the version after its own; a new store gets the newest.
RecordedNext(n) == IF n = 1 /\ version # 0 THEN version ELSE n + 1
RecordedNewest(n) == IF n = 1 /\ version = 0 THEN 3 ELSE IF n = 1 THEN version ELSE n

\* The last statement of script n: INSERT OR IGNORE of version 1, INSERT OR REPLACE
\* of the version of a migration, whatever version the store has by now.
Recorded(n) == IF n = 1 /\ version # 0 THEN version ELSE n

\* Mutants: every migration is due; the one after the version read is not.
DueAlways(v, n) == {m \in 2 .. 3 : m > n}
DueLater(v, n) == {m \in 2 .. 3 : m > n /\ m > v + 1}

\* The migrations to which the loop of _apply_migrations, which read version v, still
\* comes after script n.
Due(v, n) == {m \in 2 .. 3 : m > n /\ m > v}

\* It goes on with the lowest of them, or the store is open.
GoOn(p, v, n) ==
  \/ \E m \in Due(v, n) :
       /\ \A k \in Due(v, n) : m <= k
       /\ phase' = [phase EXCEPT ![p] = "running"]
       /\ Start(p, m)
  \/ /\ Due(v, n) = {}
     /\ phase' = [phase EXCEPT ![p] = "open"]
     /\ UNCHANGED <<script, line>>

AtEnd(p) == phase[p] = "running" /\ line[p] = Len(Script[script[p]]) + 1

EndBase(p) ==
  /\ AtEnd(p) /\ script[p] = 1
  /\ version' = Recorded(1)
  /\ phase' = [phase EXCEPT ![p] = "reading"]
  /\ UNCHANGED <<maker, tables, installing, script, line, seen, failures>>

\* _apply_migrations reads the version once.
ReadVersion(p) ==
  /\ phase[p] = "reading"
  /\ seen' = [seen EXCEPT ![p] = version]
  /\ GoOn(p, version, 1)
  /\ UNCHANGED <<maker, version, tables, installing, failures>>

EndMigration(p) ==
  /\ AtEnd(p) /\ script[p] # 1
  /\ version' = Recorded(script[p])
  /\ GoOn(p, seen[p], script[p])
  /\ UNCHANGED <<maker, tables, installing, seen, failures>>

\* The connection and the locals of open_store are gone.
Leave(p) ==
  /\ phase' = [phase EXCEPT ![p] = "closed"]
  /\ Start(p, 1)
  /\ seen' = [seen EXCEPT ![p] = 0]
  /\ UNCHANGED <<maker, version, tables, installing>>

\* The tool call is done with the store.
Close(p) == phase[p] = "open" /\ Leave(p) /\ UNCHANGED failures

\* The process ends, or the database is locked for longer than the busy timeout.
OpenFails(p) ==
  /\ phase[p] \in {"running", "reading"}
  /\ failures < MaxFailures
  /\ failures' = failures + 1
  /\ Leave(p)

Next ==
  \/ Install
  \/ InstallVersion
  \/ InstallTable
  \/ InstallEnds
  \/ InstallFails
  \/ \E p \in Openers : Open(p)
  \/ \E p \in Openers : Create(p)
  \/ \E p \in Openers : EndBase(p)
  \/ \E p \in Openers : ReadVersion(p)
  \/ \E p \in Openers : EndMigration(p)
  \/ \E p \in Openers : Close(p)
  \/ \E p \in Openers : OpenFails(p)

Spec == Init /\ [][Next]_vars

Opening(p) == \/ Open(p) \/ Create(p) \/ EndBase(p) \/ ReadVersion(p)
              \/ EndMigration(p) \/ Close(p)

\* The store is opened for every tool call of the cron polls, systemd starts a
\* runtime again that died, and an operator ends what he began to install.
FairSpec ==
  /\ Spec
  /\ \A p \in Openers : WF_vars(Opening(p))
  /\ WF_vars(InstallVersion \/ InstallTable \/ InstallEnds)

-----------------------------------------------------------------------------
(* Properties *)

HasScript(n) == \A i \in 1 .. Len(Script[n]) : tables[Script[n][i]] = "whole"

\* A store the runtimes made has the tables of its version at every moment, however
\* their openings interleave and fail half way, and also while one of them that read
\* an older version sets the version back.
VersionTellsTables ==
  maker = "runtime" => \A n \in Versions : n <= version => HasScript(n)

\* A store that is open has all the tables.  One that the installer made has not: it
\* records version 3, and no migration is due to any runtime after that.
OpenedIsWhole ==
  \A p \in Openers : phase[p] = "open" => \A n \in Versions : HasScript(n)

\* A store the runtimes made is whole for every one that has opened it, whatever the
\* others left half done before it and do meanwhile.
MigratedIsWhole == maker = "runtime" => OpenedIsWhole

\* The version comes to rest at the newest one, although a migration that another
\* runtime has already gone past sets it back, and may fail right after it did.
StoreSettles == <>[](version = 3)

=============================================================================
