---------------------------- MODULE PullRequests ----------------------------
(***************************************************************************)
(* The pull requests of a project: GitHubPRIntegration, over the requests  *)
(* and commands of github_workflow.py and the executors that run them.     *)
(*                                                                         *)
(* The integration keeps what it knows of each project in its own memory.  *)
(* The branches of the working tree and the pull requests on GitHub stay   *)
(* when that memory is gone.  Opening a pull request changes all three, in *)
(* two calls of which either may fail, and the second may succeed and      *)
(* still raise.  A call that fails raises; nothing is retried here, but a  *)
(* caller may call again, with the same names.  The live check of an       *)
(* installation opens pull requests beside it.                             *)
(***************************************************************************)
EXTENDS Naturals

CONSTANTS
  Projects,
  Repos,        \* repositories on GitHub
  Tickets,
  Branches,     \* names for branches
  Refused,      \* those with a blocked phrase or a shell metacharacter
  Flags,        \* those that are a blocked git flag
  MaxPulls,     \* bound: the pull requests ever opened in a repository
  MaxFailures,  \* bound: calls to GitHub or git that fail
  MaxRestarts,  \* bound: ends of the process that holds the integration
  Null          \* nothing yet

ASSUME PullRequestsAssumption ==
  /\ Refused \subseteq Branches /\ Flags \subseteq Branches
  /\ MaxPulls \in Nat /\ MaxFailures \in Nat /\ MaxRestarts \in Nat
  /\ Null \notin Nat /\ Null \notin Repos \cup Tickets \cup Branches

VARIABLES
  state,     \* _project_states of the integration
  token,     \* whether load_credential finds a token it accepts
  repos,     \* GitHub: the repositories that exist
  branches,  \* the branches of the working tree
  pulls,     \* GitHub: the pull requests of each repository, by number
  failures,
  restarts

vars == <<state, token, repos, branches, pulls, failures, restarts>>

Numbers == 1 .. MaxPulls
States == {"open", "closed"}

Pull == [head : Branches, ticket : Tickets, state : States]

ASSUME NullAssumption == Null \notin Pull

\* The number kept of a pull request whose number GitHub's answer did not hold.
Unnumbered == 0

\* Of the check run and of the review, what they are about stands for what they say.
ProjectGitHubState ==
  [ repo : Repos \cup {Null}, branch : Branches \cup {Null}, pr : Numbers \cup {Unnumbered, Null},
    prState : States \cup {Null}, ticket : Tickets \cup {Null},
    check : Branches \cup {Null}, review : Tickets \cup {Null}, acknowledged : BOOLEAN ]

TypeOK ==
  /\ state \in [Projects -> ProjectGitHubState]
  /\ token \in BOOLEAN
  /\ repos \subseteq Repos
  /\ branches \subseteq Branches
  /\ pulls \in [Repos -> [Numbers -> Pull \cup {Null}]]
  /\ failures \in 0 .. MaxFailures
  /\ restarts \in 0 .. MaxRestarts

\* A project nobody has said anything of (_ensure_project_state).
Fresh == [ repo |-> Null, branch |-> Null, pr |-> Null, prState |-> Null, ticket |-> Null,
           check |-> Null, review |-> Null, acknowledged |-> FALSE ]

Init ==
  /\ state = [p \in Projects |-> Fresh]
  /\ token \in BOOLEAN
  /\ repos \in SUBSET Repos
  /\ branches = {}
  /\ pulls = [r \in Repos |-> [n \in Numbers |-> Null]]
  /\ failures = 0
  /\ restarts = 0

-----------------------------------------------------------------------------
(* Names, credentials and requests *)

\* load_credential: the project's own variable is set, and there is no
\* ~/.git-credentials; a GITHUB_TOKEN alone is refused.
LoadCredential(own, file) == own /\ ~file

\* The secret is set or removed, a credentials file appears or goes.
Rotate == \E own, file \in BOOLEAN :
  /\ token' = LoadCredential(own, file)
  /\ token' # token
  /\ UNCHANGED <<state, repos, branches, pulls, failures, restarts>>

\* _validate_branch_name, when a command is built.
ValidName(b) == b \notin Refused

\* validate_git_args, when it is run.
ValidArgs(b) == b \notin Refused \cup Flags

\* git checkout -b; SubprocessGitExecutor raises when git refuses a name that is there.
CheckedOut(b) == b \notin branches /\ branches' = branches \cup {b}

GitRuns(b) == ValidArgs(b) /\ CheckedOut(b)

\* Mutant: git checkout -B, which takes a name that is there.
BranchReset(b) == ValidName(b) /\ ValidArgs(b) /\ branches' = branches \cup {b}

BranchCreated(b) == ValidName(b) /\ GitRuns(b)

\* POST to the owner's repositories makes one; GET of one that is there.
RepoCreated(r) == r \notin repos /\ repos' = repos \cup {r}
RepoFound(r) == r \in repos /\ UNCHANGED repos

\* GET of a pull request of a repository: there is one of that number.
PullFound(r, n) == pulls[r][n] # Null

\* The next number the repository gives.  It has one open pull request for each head.
Opened(r, t, b, n) ==
  /\ \A m \in Numbers : pulls[r][m] = Null <=> m >= n
  /\ \A m \in Numbers : pulls[r][m] # Null /\ pulls[r][m].head = b => pulls[r][m].state = "closed"
  /\ pulls' = [pulls EXCEPT ![r][n] = [head |-> b, ticket |-> t, state |-> "open"]]

\* A call that raises: HttpRESTExecutor makes every error one exception.
Fails == failures < MaxFailures /\ failures' = failures + 1

-----------------------------------------------------------------------------
(* The integration *)

\* register_repository: what is known of pull requests stays.
Register(p, r) ==
  /\ token
  /\ RepoCreated(r) \/ RepoFound(r)
  /\ state' = [state EXCEPT ![p].repo = r]
  /\ UNCHANGED <<token, branches, pulls, failures, restarts>>

\* GitHub has made the repository, and its answer is lost.
RegisterLost(r) ==
  /\ token
  /\ RepoCreated(r)
  /\ Fails
  /\ UNCHANGED <<state, token, branches, pulls, restarts>>

\* What create_branch_and_open_pr writes once both calls have succeeded.
PullKnown(s, t, b, number) ==
  [s EXCEPT !.branch = b, !.pr = number, !.prState = "open", !.ticket = t,
            !.acknowledged = FALSE]

\* result.get("number", 0): HttpRESTExecutor makes an empty answer an empty result.
OpenPull(p, t, b, n) == \E number \in {n, Unnumbered} :
  /\ state[p].repo # Null /\ token
  /\ BranchCreated(b)
  /\ Opened(state[p].repo, t, b, n)
  /\ state' = [state EXCEPT ![p] = PullKnown(@, t, b, number)]
  /\ UNCHANGED <<token, repos, failures, restarts>>

\* Mutant: the branch is written down as soon as it is there.
OpenFailsLate(p, t, b) ==
  /\ state[p].repo # Null /\ token
  /\ BranchCreated(b)
  /\ Fails
  /\ state' = [state EXCEPT ![p].branch = b, ![p].ticket = t]
  /\ UNCHANGED <<token, repos, pulls, restarts>>

\* The branch is there, the pull request is not.
OpenFails(p, t, b) ==
  /\ state[p].repo # Null /\ token
  /\ BranchCreated(b)
  /\ Fails
  /\ UNCHANGED <<state, token, repos, pulls, restarts>>

\* GitHub has opened the pull request, and its answer is lost.
OpenLost(p, t, b, n) ==
  /\ state[p].repo # Null /\ token
  /\ BranchCreated(b)
  /\ Opened(state[p].repo, t, b, n)
  /\ Fails
  /\ UNCHANGED <<state, token, repos, restarts>>

\* read_check_status: the first check run of whatever reference it is asked for.
ReadChecks(p, b) ==
  /\ state[p].repo # Null /\ token
  /\ state' = [state EXCEPT ![p].check = b]
  /\ UNCHANGED <<token, repos, branches, pulls, failures, restarts>>

\* read_pr_metadata: whatever pull request it is asked for, of the repository that is
\* registered by now.
ReadPull(p, n) ==
  /\ state[p].repo # Null /\ token
  /\ PullFound(state[p].repo, n)
  /\ state' = [state EXCEPT ![p].prState = pulls[state[p].repo][n].state]
  /\ UNCHANGED <<token, repos, branches, pulls, failures, restarts>>

\* attach_review_artifact, with a path under docs/reviews/; any other is refused.
AttachReview(p, t) ==
  /\ state' = [state EXCEPT ![p].review = t]
  /\ UNCHANGED <<token, repos, branches, pulls, failures, restarts>>

\* check_merge_gate with the Founder's acknowledgement, which names no pull request;
\* without it the gate raises.
MergeGate(p) ==
  /\ state[p].branch # Null
  /\ ValidName(state[p].branch)
  /\ state' = [state EXCEPT ![p].acknowledged = TRUE]
  /\ UNCHANGED <<token, repos, branches, pulls, failures, restarts>>

-----------------------------------------------------------------------------
(* The live check of an installation, GitHubSmokeLane, in the same working tree with the  *)
(* same credential.  It opens a pull request of its own and keeps nothing but its report. *)

\* Whether GitHub's answer arrives, and what the reads after it say, only changes the report.
SmokeOpens(r, t, b, n) ==
  /\ token
  /\ RepoFound(r)
  /\ BranchCreated(b)
  /\ Opened(r, t, b, n)
  /\ UNCHANGED <<state, token, failures, restarts>>

\* GitHub does not open it: the lane returns, and its branch stays.
SmokeStops(r, b) ==
  /\ token
  /\ RepoFound(r)
  /\ BranchCreated(b)
  /\ Fails
  /\ UNCHANGED <<state, token, pulls, restarts>>

-----------------------------------------------------------------------------
(* The rest of the world *)

\* On GitHub someone merges or closes it, or opens it again.
Decide(r, n, s) ==
  /\ pulls[r][n] # Null /\ pulls[r][n].state # s
  /\ s = "open" => \A m \in Numbers \ {n} :
       pulls[r][m] # Null /\ pulls[r][m].head = pulls[r][n].head => pulls[r][m].state = "closed"
  /\ pulls' = [pulls EXCEPT ![r][n].state = s]
  /\ UNCHANGED <<state, token, repos, branches, failures, restarts>>

\* The process ends, and another begins with an empty memory.
Restart ==
  /\ restarts < MaxRestarts
  /\ restarts' = restarts + 1
  /\ state' = [p \in Projects |-> Fresh]
  /\ UNCHANGED <<token, repos, branches, pulls, failures>>

Next ==
  \/ Rotate
  \/ \E p \in Projects, r \in Repos : Register(p, r)
  \/ \E r \in Repos : RegisterLost(r)
  \/ \E p \in Projects, t \in Tickets, b \in Branches, n \in Numbers : OpenPull(p, t, b, n)
  \/ \E p \in Projects, t \in Tickets, b \in Branches : OpenFails(p, t, b)
  \/ \E p \in Projects, t \in Tickets, b \in Branches, n \in Numbers : OpenLost(p, t, b, n)
  \/ \E p \in Projects, b \in Branches : ReadChecks(p, b)
  \/ \E p \in Projects, n \in Numbers : ReadPull(p, n)
  \/ \E p \in Projects, t \in Tickets : AttachReview(p, t)
  \/ \E p \in Projects : MergeGate(p)
  \/ \E r \in Repos, t \in Tickets, b \in Branches, n \in Numbers : SmokeOpens(r, t, b, n)
  \/ \E r \in Repos, b \in Branches : SmokeStops(r, b)
  \/ \E r \in Repos, n \in Numbers, s \in States : Decide(r, n, s)
  \/ Restart

Spec == Init /\ [][Next]_vars

-----------------------------------------------------------------------------
(* Properties *)

\* Branch and ticket in the state of a project are those of one pull request GitHub has,
\* and its number is kept unless GitHub's answer did not hold it, whatever calls failed
\* half way, were repeated or lost their answer.  It is a pull request of the repository
\* it was opened in, which need not be the one that is registered by now.
StateIsOfOnePull ==
  \A p \in Projects :
    IF state[p].branch = Null
      THEN state[p].pr = Null /\ state[p].ticket = Null
      ELSE \E r \in Repos, n \in Numbers :
             /\ pulls[r][n] # Null
             /\ pulls[r][n].head = state[p].branch
             /\ pulls[r][n].ticket = state[p].ticket
             /\ state[p].pr \in {n, Unnumbered}

\* A branch never gets a second pull request, in this repository or another, by calls
\* that are repeated after a failure, a lost answer, a restart, or the end of the first.
NoSecondPull ==
  \A q, r \in Repos : \A m, n \in Numbers :
    <<q, m>> # <<r, n>> /\ pulls[q][m] # Null /\ pulls[r][n] # Null
      => pulls[q][m].head # pulls[r][n].head

=============================================================================
