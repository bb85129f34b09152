# developer-assistant: a TLA+ verification

`developer-assistant` is a software developer's back office in which five
runtimes (the Orchestrator, which talks to the Founder, and the Planner,
Architect, Executor and Reviewer) hand work to each other through one SQLite
file. None of them holds state of its own across an iteration: a cron timer
starts a session, the session claims a row of a table, an LLM does what the row
asks for through tools, a hook stands before every tool call, and the session
ends. What is hard about the program is therefore not in any one function. It is
in what several sessions do to one table, in what is left when one of them dies
half way, and in what the documents promise about the tables together.

The modules below are written from the source at this commit. Paths are relative
to the repository; `…/` stands for `src/developer_assistant/`.

## 1. The system

| Component | Where | State it keeps | Operations that change it | Module |
|---|---|---|---|---|
| Work queue | `…/work_queue.py`, `…/hermes_plugins/dev_assist_work_queue/tools.py`, `…/smoke_inject.py`, `db/migrations/004*.sql` | table `work_items` | write, claim, complete, release, reclaim; the smoke endpoint's own insert | `WorkQueue`, `WorkLedger` |
| Escalations and their surfacing | `…/escalations.py`, `…/hermes_skills/dev_assist_escalation_surface/skill.py` | table `escalations`; the batch an iteration has read | write, mark surfaced, resolve, expire, `surface_pending` | `Escalations` |
| Escalation policy | `…/hermes_plugins/dev_assist_escalation_policy/` | the concept anchor of the process | `pre_tool_call`, `load_anchor`, the SIGHUP handler | `EscalationPolicy`, `EscalationLoop` |
| Operational store | `…/state_store.py`, `db/migrations/`, `init_operational_db` of `scripts/install-self.sh` | the schema and its version | `open_store`, `init_schema`, `_apply_migrations` | `StoreSchema` |
| Runtime check and units | `…/runtime_check.py`, `scripts/templates/*.service.j2` | the state of each systemd unit | start, check, run, fail | `RuntimeStart` |
| Progress reports | `…/progress_scheduling.py`, `…/hermes_skills/dev_assist_progress_report/skill.py` | table `scheduled_progress`; how far an iteration has come | `tick` | `ProgressReports` |
| Founder identities and sessions | `…/founder_identity.py`, `…/upstream_sessions.py` | `founder_identity_bindings`, `upstream_sessions` | bind, revoke, create with or without a message, touch, pause, resume, set the project | `FounderChannel` |
| Upstream adapters and router | `…/upstream_adapters/` | registry of adapters | register, inbound, outbound | `FounderChannel` |
| Telegram founder adapter | `…/telegram_adapter.py`, `…/hermes_telegram_transport.py` | project, pending question, report interval and time of each chat | commands, free text, questions, reports | `FounderChat` |
| GitHub pull requests | `…/github_pr_integration.py`, `…/github_workflow.py`, `…/runtime_executors.py`, `GitHubSmokeLane` of `…/smoke_readiness.py` | the state of a project's branch and pull request | register, open, read checks and pull request, attach a review, the merge gate; the smoke lane's own opening | `PullRequests` |
| Sandbox | `src/sandbox/` | containers and their sessions | negotiate, create, resume, write, run, shut down, destroy | `Sandbox` |
| Observability | `…/observability/`, `…/plugins/structured_logging_plugin.py`, `…/state/observability_store.py` | the manager and the work item it holds; `llm_calls`, `errors`; the health page | start, stop, dequeue, call, record | `Observability` |
| Message classifier, self-deployment, the other smoke tests, model catalog, runtime layout, command line, digest and roll-up, repository validation | `…/hermes_skills/dev_assist_classifier/`, `scripts/`, `…/smoke_*.py`, `…/model_catalog.py`, `…/runtime_layout.py`, `…/cli/`, `…/observability/daily_digest.py` | releases and links; or none, or files that are read once | | not modelled (section 6) |

**How they interact.** The queue, the questions, the identities and the
observability tables share one SQLite file; each helper is one committed
transaction, so the tables are the only shared memory and the transaction is the
unit of interleaving. The hook of the escalation policy is called by the runtime
in the middle of a work item; when it blocks the call it inserts a row into
`escalations` that names the item. The surface skill of the Orchestrator sends
these rows through the router to a chat of the Founder; his answer becomes a
`resolve_escalation`. Every tool call opens the store, and
opening it migrates its schema; before that, systemd lets a runtime start only if
`check_runtime` accepts the schema it finds. The installer makes the same file by
a script of its own.

**What is hard, and what would make each part correct.**

- *Work queue.* Rows are settled by id: neither `complete_work_item` nor
  `release_work_item` looks at the owner, and `release_work_item` does not look
  at the status. Leases end while the work goes on; runtimes die after a claim; a
  dedup key travels from a completed row to a new one. Correct is: one holder for
  each claimed row, one live row for each key, a bounded number of counted
  attempts. That settled work stays settled would be correct too, and does not hold
  once a release is late (finding 1).
- *Escalations.* The iteration reads a batch, then sends and marks row by row,
  while rows are answered, expire and are read by another iteration. A send may
  arrive and still raise. Correct is: no row says it was surfaced when the Founder
  was not told, a closed question stays closed, and none stays open for ever.
- *Escalation policy.* Rule engine and classifier may raise, the anchor may be
  missing in a process that starts again, writing the question may fail without a word.
  Correct is: nothing gets done past the gate by a failure, and the work a question is
  about is still there when the answer comes. Whoever is blocked has a question in the
  table only if the store took it.
- *Operational store.* Five runtimes open one file, statement by statement, each
  having read the version at another moment; a migration that dies is half
  applied. Correct is: a version that tells the tables, and a store that is whole
  for everyone who has opened it.
- *Runtime start.* The check before a start asks for the result of something that only
  happens after it. Correct would be: the store comes to the newest version. It does not.
- *Progress reports.* The present is fixed when the iteration begins, and GitHub and
  Telegram are called between reading a row and writing it; a send that raises ends
  the loop over the projects, a request to GitHub that raises does not. Correct is:
  the table never claims a report the Founder did not get, and one project's trouble
  does not keep the others waiting.
- *Founder channel.* A revoked identity that is bound again, a session that keeps its first
  founder and takes whatever chat it is opened with next, a router that falls back to a
  paused session. Correct is: what is meant for a Founder goes to a chat in which he has
  written.
- *Founder chat.* The pending question is stored before it is sent; writing a decision
  or sending may raise half way through a handler; commands, a new project and a restart
  come in between. Correct is: a decision is written before its question is closed, no
  question is pushed out, and reports keep their distance, which they do until a send
  raises that has arrived (finding 34).
- *Pull requests.* Opening one is two calls, to git and to GitHub, of which either may
  fail and the second may succeed and still raise, or answer without a number; the state
  of the previous one, perhaps of another repository, lies below, and the smoke lane works
  in the same tree. Correct is: what is kept is of one pull request that exists, and no
  branch gets two.
- *Sandbox.* Sessions share containers, no call looks at `_closed`, the call that makes a
  container may raise after it has made one, and both calls that end it swallow what Docker
  answers. Correct is: a session that was shut
  down changes nothing any more, and no container is left without a reason.
- *Observability.* A call is charged when its answer comes, to the one item its manager then
  holds, whichever task set it; the manager is stopped and started in between. Correct
  would be: a charge goes to its task's item, which overlapping tasks break (finding 36).
  What is left is that it never goes to work that was over before, and that the health
  page shows no such work.

`PROJECT.json` lists these at their lines, with the property that would catch
each one going wrong, or the reason why none does.

## 2. The modules

```
WorkLedger  <= refined by =  WorkQueue         EscalationPolicy (decision)
                                 |                    |
                                 +--- EscalationLoop -+--- INSTANCE Escalations
StoreSchema <-- extended by -- RuntimeStart
ProgressReports   FounderChannel   FounderChat   PullRequests   Sandbox   Observability
```

`XProofs` holds the theorems about module `X`, and `MCX` its instances for TLC. Three
proof modules hold more than one part: `EscalationLoopProofs` the queue's theorems and then
the loop's, `StoreSchemaProofs` the schema's and then those of the units of `RuntimeStart`,
and `ExecutorProofs` those of `Observability` and of `Sandbox`: two parts of the
executor's runtime, which share no state and no name.

### WorkQueue and WorkLedger

`items` is the table, one record for every id AUTOINCREMENT can give within the
bound `MaxItems`; a row not yet inserted is `absent`. `task[s]` is the id a session
remembers, which is all that ties it to a row. A session is one iteration of a
poller, so two sessions of one runtime may overlap; the table cannot tell them
apart, since `claimed_by_runtime` is the runtime's name.

| Action | Code |
|---|---|
| `Write` | `work_queue_write` and `write_work_item`: free the key of completed rows, then `INSERT … ON CONFLICT DO NOTHING` |
| `Inject` | `smoke_inject.py`: in smoke mode, an `INSERT` of its own, for one role and without a dedup key |
| `Claim` | `claim_work_item`: the pending row of the role that comes first in `ORDER BY priority, id` |
| `Complete` | `complete_work_item`: only a claimed row changes, and loses its key; the session forgets the row either way |
| `Release` | `release_work_item`: any row; counts an attempt if asked, and the row is failed at `max_attempts` |
| `Reclaim` | `reclaim_expired_leases` |
| `Crash`, `Tick` | the process, and the clock |

The payload is left out but for one thing: a row keeps, as `work`, the key it was
written with. The code keeps it in `payload_json` only and clears the column, and
"the same work is queued twice" can be said only of the former. Time is relative:
the code compares `claim_lease_until` with the present and with nothing else, so a
row keeps the ticks that are left, `-1` being every moment after the end. This
makes the clock finite without bounding it.

`Overrun` is the model's one assumption about sessions. With `Overrun = FALSE` a
session ends its work while its lease runs (the clock waits for it), which is what
the lease of thirty minutes is chosen for: what is then checked is the lease's boundary,
the sweep and the crash, and slow work is assumed away. With `Overrun = TRUE` it may go
on for ever. Both are checked, for what each should keep up.

`WorkLedger` is what the queue promises, without rows, leases, priorities or keys:
open work is taken by one session, only that session ends it, only work whose
session is gone is opened again. `WorkQueue` refines it with the mapping
`StageOf[status]` (`ImplementsLedger`), under `Overrun = FALSE`.

### Escalations

`rows` is the table. The surface skill's iteration is not atomic in the code and
not in the model: `Read` (the `SELECT … LIMIT`), then for each row `Send` and
`Mark`, with `SendFails` (before or after Telegram took the message), `MarkFails`
and `Crash` at each point. `told` is external: when the Founder last had a prompt for
the row, which is what the column `surfaced_at` claims to know. `Resolve` and
`ExpireOld` are the other two helpers. Ages run to one tick beyond the limit
they are compared with, and stop.

### EscalationPolicy and EscalationLoop

`EscalationPolicy` is the decision of `pre_tool_call` as an operator: a call is
what the plugin's predicates answer of it (does it only read, does a rule match or
raise, is the model in the catalog, what do the anchor's rules say), and `Trigger`
follows the function's order of tests, early returns and exception handlers. The
text patterns of the rules are left out: each is a pure function of the
arguments.

`EscalationLoop` composes: a session of `WorkQueue` claims a row and makes the
call its work needs (`CallOf`); the hook allows it (`Allowed`) or writes the
question and blocks (`Blocked`, `Ask`); the session completes or releases the row
(`Finish`), or gives a blocked row back (`GiveBack`, by the role prompt); the Founder
answers, questions expire, runtimes die. The question may be lost, since the plugin
swallows what the store raises. Each session's process has an anchor of its own: a new
process (`Restart`) imports the plugin anew and finds a file, a malformed one, or none;
a SIGHUP (`Reload`) changes the anchor only if the file can be loaded. No key is
`NULL` here and the smoke endpoint is off, because a call is found by the row's key. The
table of questions is an instance of `Escalations` with no surface iteration: how
questions reach the Founder is checked there.

### StoreSchema and RuntimeStart

`open_store` statement by statement: the base DDL, the `INSERT OR IGNORE` of version
1, the one read of the version, then each migration the version read leaves due,
whose last statement records its own number with `INSERT OR REPLACE`. A table is
`none`, `whole`, or `lacking` a column the code names. Any number of `Openers` do
this together and may fail at any statement; `maker` says whether the file was made
by a runtime or by `init_operational_db`, which is modelled line by line too.

The modules of the queue and of the questions take the tables as migration 004
makes them. A store the installer made has another `work_items` (finding 6).

`RuntimeStart` puts the units around it: `StartUnit` by the operator, then
`Passes` or `Aborts` as `check_runtime` finds the files of the runtime (`FilesFit`, by
group of its eleven invariants) and the version of the store (`VersionFits`), `Opens` the
actions of `StoreSchema` for a unit that runs, and `Dies`. An abort exits with 78,
which the unit's `RestartPreventExitStatus` lists, so it stays down until the
operator starts it again. It begins with no store, or with one of an earlier release.

### ProgressReports

`tick`, step by step. `Begin` reads the bindings; then the project that comes first in
`chat_key` order (`IsNext`) is skipped (`Skip`), fails at GitHub and is skipped
(`FetchFails`), or is fetched, sent and recorded (`Fetch`, `Send`, `Mark`). A send that
raises (`SendFails`), before or after Telegram took the message, ends the iteration,
as does the store or the process (`Crash`). `Unreachable` and `Refused` are the
projects for which GitHub and the router raise always; passing failures are bounded
by `MaxFailures`. Time is relative again: `left` are the ticks until
`next_report_at`, `elapsed` the ticks since the `now_iso` an iteration was given,
which it compares and records with to its end. `MaxRun` bounds the ticks an iteration
takes, as the model's assumption about the LLM session that runs it. `sent` is external:
when the Founder last got a report. Neither `interval_minutes` nor `next_report_at` is ever
written as `NULL`, since `mark_report_sent` is the table's only writer; the
interval is a constant.

### FounderChannel

The two tables and the registry.

| Action | Code |
|---|---|
| `Register` | `AdapterRegistry.register` |
| `Bind`, `Revoke` | `bind_founder_identity` (`INSERT OR IGNORE`, which a revoked row also stops) and `revoke_founder_binding` |
| `GetOrCreate` | `TelegramAdapter.get_or_create_session`: the caller names session, Founder and chat; a row that exists keeps its Founder and gets the chat |
| `Touch`, `SetPaused`, `SetProject` | the other helpers of `upstream_sessions.py` |
| `Inbound` | `TelegramAdapter.inbound_message`: the identity is looked up, the session made or touched |
| `SendOutbound` | `Router.send_outbound_to_founder`: the adapter of the identity bound last, the session written to last, an unpaused one before a paused one, and the chat its row holds |
| `Restart` | the registry is empty |

Time stamps are only compared, so each table keeps an order (`boundAfter`, `newer`)
instead of times. `wrote`, `opened` and `sent` are what has happened, for the property.
Nothing in the code relates the chat of `GetOrCreate` to its Founder, so the property is
about the sessions that messages have opened, and `opened` are the others.

### FounderChat

The adapter's four dictionaries by chat (`projects`, `pending`, `interval`, `last`),
all in memory, and the artifacts that outlive it. A message is heard only if the
transport's `is_authorized` and the adapter's `is_allowed` both let it through
(`Heard`). `Command` are the five commands, `Update` is `update_project_state`; `Freeform` writes the decision and then
closes the question, `WriteFails` is the writer that raises between; `Route` asks a
specialist's question, with a sender that may raise after the question was stored;
`SetInterval` and `Report` are the reports, whose sender may raise before the chat has the
report or after, and then no time is recorded. A text is the set of pattern families it
matches; a time stamp is its kind (with a zone, without, unreadable) and the minutes
since, because mixing the first two raises and the third makes a report due. A stamp its caller gives is taken for the
present. `fate`, `closed`, `since` and `raised` are kept for the properties.

### PullRequests

`state` is the integration's own memory; `branches` the working tree, `repos` and `pulls`
GitHub, which numbers the pull requests of each repository from 1. `OpenPull` is
`create_branch_and_open_pr` when both calls succeed, also when GitHub's answer has no number
and 0 is kept; `OpenFails` when the second fails, `OpenLost` when it succeeds and its answer
is lost (every error of `HttpRESTExecutor` is one exception). `Register` and
`RegisterLost`, `ReadChecks`, `ReadPull`, `AttachReview` and `MergeGate` are the other calls.
`Register` with another repository keeps what was known of the pull request in the one
before. `SmokeOpens` and `SmokeStops` are the live check's own branch and pull request. `Rotate`
changes whether a credential is accepted, `Decide` is GitHub, `Restart` empties the
memory. Branch names come in three kinds: fine, refused when the command is built, and
refused when it is run.

Two things are assumed of what is outside. All calls leave `cwd` at its default, so that there is
one working tree, and `git checkout -b` refuses a name that is there: `NoSecondPull` rests on
both, and a caller who names another directory is outside the model. And GitHub has the branch when it is asked for the pull request,
which nobody pushes in between; where it has not, the call is an `OpenFails`.

### Sandbox

`state` of a container is Docker's; `session` is the `DockerSession` object with its
`_closed`. `Create` needs `Negotiate` to have found nothing `Missing`; `containers.run` makes the
container before it starts it, so in `CreateRaises` one is left for which nobody gets a
session; `Resume` attaches a
second session to the same container; `Write` and `Exec` look at the container only.
`SessionShutdown` and `Destroy` are two calls each (`Stops`, then `Remove`), each of which may fail
and is swallowed. `left`, `forgotten` and `late` record, for the properties, the
containers Docker once refused to remove, those whose session was lost or never given,
and those changed by a closed session that nobody was ending.

### Observability

`manager` is the plugin's `_manager`, `starts` its number; `context` is the one field
`_work_item_id` of each manager, and `task` the items the runtime's tasks have in work. Tasks
overlap: `async_dequeue_wrapper` has no lock, so each overwrites what the other has set
(`Dequeue`) and clears it when it ends (`Finish`). A client keeps the manager it was made
with, so a `Call` may be answered (`Answer`) after a `Shutdown` and a `Startup`; the row it
adds holds what that manager then holds. `Startup` leaves a `broken` manager behind when
the database or the port refuses, as the code does. `Error` is the other record, and
`Page` what the health page shows. A row is what it is charged to; `seen` and `last` record
to which items it could be, for the property. One assumption: a client is made anew
after each start of the plugin.

The readers of the rows (the roll-up, the digest, `costs`) are left out: section 6.

## 3. What the runs check

| Run | Kind | Question, and answer |
|---|---|---|
| `queue_lease` | pass | Three sessions of two runtimes that end within their leases, and the smoke endpoint: `SoleHolder`, `AttemptsBounded`, `OneLiveRowPerKey`, and the refinement `ImplementsLedger` hold. |
| `queue_overrun` | pass | What the table keeps up when sessions overrun leases and settle rows that are no longer theirs: `KeyedRowsAreLive` (the `SELECT` after a conflict always finds a row), `SweepSeesEveryClaim`. |
| `escalations` | pass | Two overlapping iterations with every failure: `SurfacedWasTold`, `ClosedIsFinal`, and the liveness `QuestionsClose`. |
| `escalation_loop` | pass | Queue, hook and questions together, with processes that load the anchor anew: `SettledWorkPassedTheGate`, `AskedWorkWaits`. |
| `store_schema` | pass | Three openers, two failures: `VersionTellsTables`, `MigratedIsWhole`, and the liveness `StoreSettles`. |
| `progress` | pass | Four projects, one that GitHub never answers for and one the router always raises for, overlapping iterations, a failure anywhere: `RowIsTruthful`, and the liveness `ProjectsAheadAreReported`. |
| `founder_channel` | pass | Identities and chats that are bound, revoked, opened, paused and restarted in any order: `OutboundReachesWriters`. |
| `founder_chat` | pass | A chat whose writer and sender raise, with commands, reports and a restart in between: `DecisionsAreWritten`, `NoQuestionDropped`, `ReportsApart`. |
| `pull_requests` | pass | Calls that fail, are repeated, lose their answers or their numbers, and the smoke lane beside them: `StateIsOfOnePull`, `NoSecondPull`. |
| `sandbox` | pass | Sessions that share containers while Docker refuses calls: `ClosedIsSilent`, `ContainersAreAccounted`. |
| `observability` | pass | Overlapping tasks, and a manager stopped and started in the middle of their calls: `ChargedToWorkInHand`, `HealthShowsWorkInHand`. |
| `runtime_start` | violation | `StoreIsMigrated`: over a store of an earlier release, or one whose first migration was cut off, every unit is refused for ever. |

Every passing property has a mutant, an operator written beside the one it
mutates (a dropped status test, an off-by-one at a limit, a missing reset, a
swallowed failure), that breaks it within the same bounds.

**Bounds, and why they are enough.** Two rows are what every property of the
queue needs to be broken: a key that moves from one row to the next, two
candidates to order, a swept row beside a fresh one. Two sessions of one runtime
are two indistinguishable owners, and the third, of another role, would expose a
claim that ignores the role. `Lease = 2` separates a lease that runs from its last
moment and from its end; `MaxAttempts = 2` separates the first attempt from the
last. `AttemptCap` stops late releases from counting on for ever. The smoke endpoint writes for one
of the roles, so its rows stand beside keyed ones and among themselves. Two questions
with `Limit = 1` make a batch that leaves one out; `Cooldown = 1` and `MaxAge = 1`
distinguish before, at and after their limits. The loop has two sessions, one work
item of every kind of call, and two rows of each table; its sessions are alike, which
the run uses (`Symmetric`), as do those of the lease, the channel, the chat, the pull requests,
the sandbox and the tasks. None of these checks liveness: `ImplementsLedger` and `ReportsApart`
are about single steps. Three openers of a store
are one ahead, one behind and one that comes after both; two failures leave a
migration half done twice. Of four projects GitHub never answers for the first, the second is between the two
that make trouble, the router always raises for the third, and the fourth waits behind
it for ever; two iterations are enough for a record that is older
than the one it overwrites; `Interval = 2` and `MaxRun = 1` let a project be due between an
iteration's beginning and its end.

Two Founders with an identity and a chat each are what a message needs to go astray. The chat
has two questions, one to be pushed out by the other; intervals of 2, 3 and 4 have the default
between the limits and one value outside on either side; four texts cover every
branch of `_handle_freeform`. Two tickets and two good branch names, over at most two pull
requests in each repository, are a repeated call and the next ticket; two repositories let a
project be registered anew in between, with a pull request of the same number in each; two
failures and one restart come before, between and after. Three
sessions on two containers are two that share one, and a third that would be hit
by a wrong id. Three starts of the manager have a call out across one stop or two; two tasks overwrite each
other's item, and a third item comes after both; two rows are one in time and one late. Two
units are one that
waits and one that would have migrated. Deadlock is checked in every run. The theorems below
hold for all values of these constants, so where a property is proved the bounds
are a matter of finding mistakes early; for the others they are the claim's limit.

**Fairness.** `Escalations!SweepSpec` assumes that time passes and that
`expire_old` runs while a row is due: `manifest.yaml` of the surface skill
schedules it every 60 seconds. Nothing is assumed of the surface iterations, of
Telegram or of the Founder, so a question closes although nobody ever sees it.
`StoreSchema!FairSpec` assumes
that an opening that has begun goes on, that the store is opened again and again
(every tool call does), and that an operator who began an installation ends it. An opening
may still fail; there are finitely many failures. `ProgressReports!CronSpec` assumes
that time passes, that the Orchestrator's cron job begins an iteration again and again
(`docs/architecture/ARCH-001.md:94` has it every 30 to 60 minutes and
`docs/architecture/SELF-DEPLOYMENT-CONTRACT.md:346` names the job; the repository holds no cron
entry for it, so this is the documents' promise and not the code's), and that an iteration
that has begun goes on, succeeding or not. `RuntimeStart!StartSpec` assumes as much as there is to ask for, so that
its counterexample does not lie in anyone's idleness: the operator starts every unit
that is down, again after each failure; systemd finishes every check; a unit that runs
opens the store.

## 4. What is proved

TLAPS checks the following for every value of the constants that satisfies the
named assumptions of each module (`WorkQueueAssumption`, `EscalationsAssumption`, and so
on), which TLC evaluates in the runs.

- **EscalationsProofs.** `EscalationTypes`, `SurfacedWasToldHolds` and `ClosedIsFinalHolds`, for
  any number of iterations. `Inv` adds `SendsAreTold`: a row between its send and its mark has
  been told. Without it the mark, which looks at the status only, could not be shown to be
  truthful.
- **EscalationLoopProofs**, the queue. `TypeCorrect`. Then, whatever sessions do,
  `KeyedRowsAreLiveHolds` and `SweepSeesEveryClaimHolds` from `TableInv`, which also says
  that ids from `nextId` on are unused and that keys are unique (`KeysUnique`, SQLite's
  constraint, of use to the steps below). The smoke endpoint's row is a `Write` with
  another role (`InjectWrites`). Under `Overrun = FALSE`, `SoleHolderHolds`,
  `AttemptsBoundedHolds`, `OneLiveRowPerKeyHolds` and `ImplementsLedgerHolds` from `LeaseInv`,
  which adds that a row which is live still has its key (`LiveKeysKept`): that is what a
  late release of a completed row breaks, and what `SoleHolder` excludes.
- **EscalationLoopProofs**, the loop. `LoopTypes` and `SettledWorkPassedTheGateHolds`, for
  every assignment of calls to work, whatever anchor each process finds, and also with
  sessions that overrun their leases; `GateInv` says for that which rows have had their call
  made, and that only those are settled. `AskedWorkWaitsHolds` under `Overrun = FALSE`, from
  `LoopInv`, which ties the three tables: what a session may be at with the row it holds, and
  what rows with an open question have been through. The parts' own invariants are not
  proved again: a step of the loop is a step of the queue or leaves it alone
  (`LoopImplementsQueue`), and likewise of the questions (`LoopImplementsQuestions`), so what
  holds of each part alone holds in the loop; in particular the loop implements the ledger
  (`LoopImplementsLedger`, under `Overrun = FALSE`).
- **StoreSchemaProofs**, the schema. `TypeCorrect`, `VersionTold` and `OpenedWhole`, for any
  number of openers and failures. `IInv` adds `Progress`: an opener at a line of a script
  has found or made every table before it, so the version it is about to record is true,
  also when it sets the version back.
- **StoreSchemaProofs**, the units. `StartsKeepTheStore`: the same over stores of every
  earlier release, and with runtimes that die with the store open (`LeaveInv`; every other
  step of the units is one of the schema). `OldStoreIsNeverMigrated` is the reverse of
  a property: over such a store `StoreIsMigrated` is false in every behaviour, for any
  runtimes and files, so that the counterexample of `runtime_start` is the rule and not
  an unlucky schedule. Its invariant `Stuck` needs no fairness: nobody is up, the store is
  not the newest, and no step changes either.
- **ProgressReportsProofs.** `TypeCorrect` and `RowIsTruthfulHolds`, for any projects,
  interval and number of iterations. `IInv` adds `MarksAreSent`: an iteration about to
  record a project has sent its report since its `now_iso`. That is what makes a record
  true that overwrites a newer one.
- **PullRequestsProofs.** `TypeCorrect`; `OnePullKept` and `NeverASecond` from `IInv`, which
  adds `HeadsAreBranches`: the head of every pull request, of any repository and also of the
  smoke lane, is a branch of the working tree. That is why `git checkout -b`, which refuses
  a name that exists, keeps every repeated call away from a second pull request, after a
  lost answer, in another repository and after a restart.
- **FounderChatProofs.** `TypeCorrect`, `DecisionsLast`, `QuestionsStay` (with `OneChatEach`:
  no question is pending in two chats, or closing it in one would leave it open in the other) and
  `ReportsStayApart`, for stamps that can be read, from `LastIsNoOlder`: the time of the last
  report is no older than the last one that was no milestone's, unless the send of that
  one raised.
- **FounderChannelProofs.** `TypeCorrect`; `OutboundFindsItsFounder` from `SessionsAreWriters`: the
  row of a session that only messages have opened holds the chat it is named after, and its
  Founder has written there; and bindings keep their Founder (`BindingsKept`), also after
  they were revoked, or what was sent before would lose its writer.
- **ExecutorProofs**, `Observability`. `TypeCorrect`. `ChargedToWorkInHandHolds` and
  `HealthShowsWorkInHandHolds` for any number of tasks, from `WorkInv`: the manager that is
  there holds an item in hand or none (`HeldIsInHand`), because whoever ends clears
  it, whoever set it; and the manager of a client whose call is out holds an item that was in
  hand since the call began (`ClientsSaw`). The second does not follow from the first: that
  manager may have been stopped since, and nobody clears a stopped one.
- **ExecutorProofs**, `Sandbox`. `SandboxTypes`; `ClosedStaysSilent` and
  `ContainersStayAccounted` from `ClosedIsSettled` (the container of a closed session is
  gone, on its way out, or was refused to be removed) and `Attachments`. That is why it does not matter that
  no call looks at `_closed`.

Every safety property of the runs is proved. Only model-checked are the liveness
properties `QuestionsClose`, `StoreSettles` and `ProjectsAheadAreReported`: they hold under
fairness only, which TLAPS cannot reason about.


## 5. What the checks found

Where the code and its own documentation disagree. Number 12 has a run whose
counterexample shows it; the others were met while the code was translated, and the
models have the code's behaviour, not the documentation's. Lines are under
`src/developer_assistant/` unless a path says otherwise.

1. `work_queue.py:186`: `release_work_item` updates by id whatever the row's status and
   holder, so a late release turns a completed row back to pending, also when its key
   has been used again. This is what `Overrun` switches on.
2. `work_queue.py:227`: nothing calls `reclaim_expired_leases`.
3. `work_queue.py:234`: neither the claim nor the sweep counts an attempt.
4. `escalations.py:106`: a question keeps its first `surfaced_at`, so after the first five
   minutes every iteration sends it again.
5. `dev_assist_escalation_policy/plugin.py:83`: the hook never reads the answer, so an approved
   call is blocked again, with a new question.
6. `scripts/install-self.sh:141`: the installer records schema version 3 over tables that
   lack `dedup_key`, the bindings and the sessions; no migration adds them later.
7. `scripts/install-self.sh:151`: a rerun with a store present changes nothing in it.
8. `scripts/upgrade-self.sh:103`: the upgrade calls the installer without
   `--force-reinstall`, and it refuses on every server that has something to upgrade.
9. `founder_identity.py:41`: after an ignored INSERT, `bind` returns an id of another row.
10. `dev_assist_progress_report/skill.py:97`: a router that raises for one project keeps the
    later ones from their reports. `ProjectsAheadAreReported` is what is left: those before
    it get theirs.
11. `dev_assist_progress_report/skill.py:78`: reports go out while the Founder has paused.
12. `runtime_check.py:552`: the start check refuses a store that only a started runtime would
    migrate (`runtime_start`).
13. `observability/status_query.py:38`: a WAL store cannot be read with `nolock=1`, so the
    status query, the digest and `costs` fail on every store this code makes.
14. `dev_assist_classifier/skill.py:119`: the prompt asks for Russian kinds, the parser takes
    English ones; the model's answer as asked for is free-form chat.
15. `dev_assist_classifier/skill.py:184`: a reply without an id is given the most recent question.
16. `upstream_adapters/router.py:104`: no fallback to `default_adapter_id`; a paused session
    is used when there is no other.
17. `founder_identity.py:35`: binding again after a revocation leaves it revoked.
18. `hermes_telegram_transport.py:102`: `dm_pairing` is dropped on the way to the adapter.
19. `telegram_adapter.py:193`: «не согласен» is read as approval.
20. `telegram_adapter.py:444`: a stamp with a zone and one without raise `TypeError` outside the
    handler for it.
21. `github_pr_integration.py:331`: after a failed opening every retry fails at `checkout -b`.
22. `github_pr_integration.py:360`: a new pull request keeps the checks and the review of the last.
23. `src/sandbox/docker.py:161`: a container whose removal failed once is never removed.
24. `observability/daily_digest.py:70`: the digest asks for a column that does not exist, and
    reports that nothing was completed.
25. `observability/daily_digest.py:353`: delivery imports a name that no module defines.
26. `state/observability_store.py:95`: nothing calls `aggregate_llm_calls_daily`.
27. `observability/llm_client_instrumentation.py:114`: an unknown rate leaves a call without a row.
28. `scripts/install-self.sh:204`: the rendered configs name other skills and prompt files
    than the start check expects.
29. `runtime_check.py:589`: the check of `skill_manage` can never fail.
30. `dev_assist_escalation_policy/concept_classifier.py:77`: a reload that finds no anchor, or a
    malformed one, keeps the old one; TKT-023 has it fail closed.
31. `github_pr_integration.py:361`: an answer without a number is kept as pull request 0.
32. `github_pr_integration.py:287`: after another repository is registered, the project still has
    the branch, number and acknowledgement of the former one's pull request.
33. `github_workflow.py:353`: the smoke lane's pull request is no draft.
34. `telegram_adapter.py:453`: a sender that raises after it delivered leaves no time, and the
    next report follows within the interval (`raised` in `ReportsApart`).
35. `upstream_sessions.py:41`: a session opened with another chat keeps its Founder and is
    redirected (`opened` in `OutboundReachesWriters`).
36. `observability/observability_manager.py:121`: one work item for the whole runtime, where the
    contract has it for the current async task; of two overlapping tasks one is charged for both.
37. `cli/dev_assist_cli.py:288`: stamps of `isoformat()` are compared as strings with bounds that
    end in `.000Z`, so a day's first millisecond is on the wrong side; the roll-up leaves out its
    last microsecond.
38. `state/observability_store.py:80`: `ts` is when a call is recorded; the contract has the
    request's start.

## 6. What is not modelled, and what remains

**Not modelled.**

- Text: prompts, log lines, the digest's and the status pages' layout, translations beyond
  the failures they can raise, redaction, the escalation rules' patterns (`EscalationPolicy`
  takes which calls they match as a constant). No property is about the wording.
- Model catalog and runtime layout: constants and pure look-ups.
- Self-deployment scripts: apart from what `install-self.sh` writes into the store
  (`StoreSchema`) and what leaves an old one behind (`RuntimeStart`). Upgrade and rollback
  move links and directories that nothing else reads, and an upgrade cannot complete (finding 8).
- Message classifier: which kind a text is is the model's answer or a pattern's, and the
  question an answer is for comes from a lookup that is injected and implemented nowhere.
  A model of it would have to invent that lookup, and the contract forbids its use (findings
  14 and 15). Answers enter as `Resolve` of any open question, which is what the code
  allows.
- Command line: its commands print, or wrap calls that are modelled where they are defined.
- The readers of `llm_calls`: `costs`, the digest and the roll-up. The first two cannot open
  a store in WAL mode, which every store is (finding 13), the third is called by nothing
  (finding 26), and all three compare stamps with bounds of another form, as strings, which
  puts some rows on the wrong side of a day (finding 37). A model of days would promise
  what no part of this code keeps.
- GitHub: the commands for status pages, pushes and merges that nothing runs, and
  `update_project_state`, which only tests call.
- Operator tests but for the smoke endpoint's row (`WorkQueue`) and the GitHub lane
  (`PullRequests`): the Telegram lane looks at a configuration and
  hands labels to a callback, the others look at files. The start
  check's order of tests is in `RuntimeStart`, its comparisons of file contents are not.
- `hermes_runs`, whose writer `upsert_hermes_run` only a test calls.
- Repository validation scripts: they read the repository's documents and keep no state.

**What remains.** An abstract channel (a question is asked, seen by its Founder, answered)
which `FounderChannel` implements, and the composition of its `SendOutbound` with the send of
`Escalations`.
