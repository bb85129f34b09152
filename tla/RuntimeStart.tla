---------------------------- MODULE RuntimeStart ----------------------------
(***************************************************************************)
(* How the runtimes come up over the store of StoreSchema: systemd runs    *)
(* check_runtime as the ExecStartPre of each unit, and only a unit whose   *)
(* check passed opens the store, which is the one thing that migrates it.  *)
(* A check that fails exits with 78, which is in RestartPreventExitStatus: *)
(* the unit has failed until an operator starts it again.                  *)
(*                                                                         *)
(* What check_runtime reads besides the store is laid down before any unit *)
(* is started and stays as it is.                                          *)
(***************************************************************************)
EXTENDS StoreSchema

CONSTANTS
  Orchestrator,  \* the one of Openers with the Telegram gateway
  Prompts,       \* contents of prompt files
  None,          \* no such file, or no entry in it
  FilesOf        \* of each runtime, what its check finds

\* The readers of a runtime's home and config.yaml, parsed: whether the built-in skills
\* are those of its role; where operational.db points; whether a state.db is beside it;
\* whether the token is set; whether the tools of Hermes can be imported; which of the
\* two toolsets are disabled; the prompt's digest in the manifest, and of the file.
Files == [skills : BOOLEAN, link : {"store", "elsewhere", "file"}, state_db : BOOLEAN,
          token : BOOLEAN, hermes : BOOLEAN, disabled : SUBSET {"delegation", "skills"},
          manifest : Prompts \cup {None}, prompt : Prompts \cup {None}]

VARIABLE unit  \* the unit of each runtime

startVars == <<vars, unit>>

StartTypeOK ==
  /\ TypeOK
  /\ unit \in [Openers -> {"down", "checking", "running", "failed"}]

\* No store yet, or one of an earlier release, which rollback-self.sh may put back.
StartInit ==
  /\ FilesOf \in [Openers -> Files]
  /\ \/ Init
     \/ /\ version \in 1 .. 2
        /\ maker = "runtime"
        /\ tables = [t \in Tables |->
             IF \E n \in 1 .. version : \E i \in 1 .. Len(Script[n]) : Script[n][i] = t
             THEN "whole" ELSE "none"]
        /\ installing = 0 /\ failures = 0
        /\ phase = [p \in Openers |-> "closed"]
        /\ script = [p \in Openers |-> 1]
        /\ line = [p \in Openers |-> 1]
        /\ seen = [p \in Openers |-> 0]
  /\ unit = [p \in Openers |-> "down"]

-----------------------------------------------------------------------------
(* check_runtime, one operator per group of its invariants *)

\* loaded_skills_mismatch, non_orchestrator_telegram_skill_loaded
SkillsFit(f) == f.skills

\* operational_db_path_mismatch
LinkFits(f) == f.link = "store" /\ ~f.state_db

\* schema_version_mismatch: there is no store, or it is at the newest version.
VersionFits == maker = "nobody" \/ version = 3

\* Hermes leaves the tools of a disabled toolset out; what cannot be imported passes.
Gated(f, toolset) == ~f.hermes \/ toolset \in f.disabled

\* orchestrator_telegram_token_missing, delegate_task_callable, and
\* skill_manage_callable, which is looked at only when its toolset is disabled.
GatesHold(p, f) ==
  /\ p = Orchestrator => f.token
  /\ p # Orchestrator => Gated(f, "delegation")
  /\ "skills" \in f.disabled => Gated(f, "skills")

\* prompt_manifest_missing, prompt_sha_mismatch
PromptFits(f) == f.manifest # None /\ f.prompt = f.manifest

FilesFit(p) ==
  LET f == FilesOf[p] IN SkillsFit(f) /\ LinkFits(f) /\ GatesHold(p, f) /\ PromptFits(f)

-----------------------------------------------------------------------------
(* The units *)

\* The operator starts the units, after what he began to install has ended.
StartUnit(p) ==
  /\ unit[p] \in {"down", "failed"} /\ installing = 0
  /\ unit' = [unit EXCEPT ![p] = "checking"]
  /\ UNCHANGED vars

Passes(p) ==
  /\ unit[p] = "checking" /\ FilesFit(p) /\ VersionFits
  /\ unit' = [unit EXCEPT ![p] = "running"]
  /\ UNCHANGED vars

\* _main_cli returns 78.
Aborts(p) ==
  /\ unit[p] = "checking" /\ ~(FilesFit(p) /\ VersionFits)
  /\ unit' = [unit EXCEPT ![p] = "failed"]
  /\ UNCHANGED vars

\* The process ends, in the middle of an opening or not: Restart=always checks again,
\* until the start limit of the unit is reached.
Dies(p) ==
  /\ unit[p] = "running" /\ failures < MaxFailures
  /\ failures' = failures + 1
  /\ \E u \in {"checking", "failed"} : unit' = [unit EXCEPT ![p] = u]
  /\ Leave(p)

\* An opening that fails because the database is locked leaves the unit running.
Opens(p) ==
  /\ unit[p] = "running"
  /\ Opening(p) \/ OpenFails(p)
  /\ UNCHANGED unit

Installs ==
  /\ \A p \in Openers : unit[p] \in {"down", "failed"}
  /\ \/ Install \/ InstallVersion \/ InstallTable \/ InstallEnds \/ InstallFails
  /\ UNCHANGED unit

StartNext ==
  \/ Installs
  \/ \E p \in Openers : StartUnit(p)
  \/ \E p \in Openers : Passes(p)
  \/ \E p \in Openers : Aborts(p)
  \/ \E p \in Openers : Dies(p)
  \/ \E p \in Openers : Opens(p)

\* The operator starts every unit that is not up, and starts it again whenever it has
\* failed; systemd checks; a unit that is up opens the store for its tool calls.
StartSpec ==
  /\ StartInit
  /\ [][StartNext]_startVars
  /\ WF_startVars(Installs /\ installing # 0)
  /\ \A p \in Openers :
       /\ WF_startVars(StartUnit(p))
       /\ WF_startVars(Passes(p) \/ Aborts(p))
       /\ WF_startVars(unit[p] = "running" /\ Opening(p) /\ UNCHANGED unit)

-----------------------------------------------------------------------------
(* Properties *)

\* "Schema additions ... land via the existing ... migration mechanism ... applied
\* idempotently by the install script during preflight" (MULTI-HERMES-CONTRACT.md 6.4);
\* "final schema version equals expected" (SELF-DEPLOYMENT-CONTRACT.md 8): the store
\* comes to the newest version.  Only a runtime that is up migrates, and none comes up
\* over an older store: each start waits for the migration that waits for a start.
StoreIsMigrated == <>[](version = 3)

=============================================================================
