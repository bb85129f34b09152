------------------------- MODULE PullRequestsProofs -------------------------
(***************************************************************************)
(* Proofs about PullRequests, for every value of its constants.            *)
(*                                                                         *)
(* What the state of a project says stays the description of one pull      *)
(* request because it is written in one step, after GitHub has answered,   *)
(* and because the head and the ticket of a pull request never change.     *)
(* No branch gets a second pull request because every pull request's head  *)
(* is a branch of the working tree, and git makes a branch only once.      *)
(***************************************************************************)
EXTENDS PullRequests, TLAPS

-----------------------------------------------------------------------------
(* The types *)

LEMMA TypeInit == Init => TypeOK
BY PullRequestsAssumption DEF Init, TypeOK, PullRequestsAssumption, ProjectGitHubState, Fresh

\* A pull request GitHub has opened in a repository, and nothing else of what it keeps.
LEMMA OpenedAdds ==
  ASSUME TypeOK, NEW r \in Repos, NEW t \in Tickets, NEW b \in Branches, NEW n \in Numbers,
         Opened(r, t, b, n)
  PROVE  /\ pulls' \in [Repos -> [Numbers -> Pull \cup {Null}]]
         /\ pulls[r][n] = Null
         /\ pulls'[r][n] # Null /\ pulls'[r][n].head = b /\ pulls'[r][n].ticket = t
         /\ \A q \in Repos, m \in Numbers :
              <<q, m>> # <<r, n>> => pulls'[q][m] = pulls[q][m]
<1>. DEFINE new == [head |-> b, ticket |-> t, state |-> "open"]
<1>1. new \in Pull /\ new.head = b /\ new.ticket = t
  BY DEF Pull, States
<1>2. pulls[r][n] = Null
  BY DEF Opened, Numbers
<1>3. pulls[r] \in [Numbers -> Pull \cup {Null}]
  BY DEF TypeOK
<1>4. pulls' = [pulls EXCEPT ![r] = [pulls[r] EXCEPT ![n] = new]]
  BY DEF Opened
<1>. HIDE DEF new
<1>5. /\ pulls'[r] = [pulls[r] EXCEPT ![n] = new]
      /\ \A q \in Repos \ {r} : pulls'[q] = pulls[q]
      /\ pulls' \in [Repos -> [Numbers -> Pull \cup {Null}]]
  BY <1>1, <1>3, <1>4 DEF TypeOK
<1>6. pulls'[r][n] = new /\ \A m \in Numbers \ {n} : pulls'[r][m] = pulls[r][m]
  BY <1>3, <1>5
<1>. QED  BY <1>1, <1>2, <1>5, <1>6, NullAssumption

LEMMA RepoKnown ==
  ASSUME TypeOK, NEW p \in Projects, state[p].repo # Null
  PROVE  state[p].repo \in Repos
BY DEF TypeOK, ProjectGitHubState

LEMMA BranchCreatedAdds ==
  ASSUME TypeOK, NEW b \in Branches, BranchCreated(b)
  PROVE  b \notin branches /\ branches' = branches \cup {b} /\ branches' \subseteq Branches
BY DEF BranchCreated, GitRuns, CheckedOut, TypeOK

\* What no step changes of a pull request: that it is there, its head and its ticket.
Kept(r, n) == /\ pulls'[r][n] # Null
              /\ pulls'[r][n].head = pulls[r][n].head
              /\ pulls'[r][n].ticket = pulls[r][n].ticket

LEMMA DecideKeeps ==
  ASSUME TypeOK, NEW r \in Repos, NEW n \in Numbers, NEW s \in States, Decide(r, n, s)
  PROVE  /\ pulls' \in [Repos -> [Numbers -> Pull \cup {Null}]]
         /\ \A q \in Repos, m \in Numbers :
              /\ pulls'[q][m] = Null <=> pulls[q][m] = Null
              /\ pulls[q][m] # Null => Kept(q, m)
<1>. DEFINE new == [pulls[r][n] EXCEPT !.state = s]
<1>1. pulls[r] \in [Numbers -> Pull \cup {Null}] /\ pulls[r][n] \in Pull
  BY DEF Decide, TypeOK
<1>2. new \in Pull /\ new.head = pulls[r][n].head /\ new.ticket = pulls[r][n].ticket
  BY <1>1 DEF Pull
<1>3. pulls' = [pulls EXCEPT ![r] = [pulls[r] EXCEPT ![n] = new]]
  BY DEF Decide
<1>. HIDE DEF new
<1>4. /\ pulls'[r] = [pulls[r] EXCEPT ![n] = new]
      /\ \A q \in Repos \ {r} : pulls'[q] = pulls[q]
      /\ pulls' \in [Repos -> [Numbers -> Pull \cup {Null}]]
  BY <1>1, <1>2, <1>3 DEF TypeOK
<1>5. pulls'[r][n] = new /\ \A m \in Numbers \ {n} : pulls'[r][m] = pulls[r][m]
  BY <1>1, <1>4
<1>6. new # Null /\ pulls[r][n] # Null
  BY <1>1, <1>2, NullAssumption
<1>7. ASSUME NEW q \in Repos, NEW m \in Numbers
      PROVE  /\ pulls'[q][m] = Null <=> pulls[q][m] = Null
             /\ pulls[q][m] # Null => Kept(q, m)
  <2>1. CASE q = r /\ m = n
    BY <1>2, <1>5, <1>6, <2>1 DEF Kept
  <2>2. CASE q # r \/ m # n
    BY <1>4, <1>5, <2>2 DEF Kept
  <2>. QED  BY <2>1, <2>2
<1>. QED  BY <1>4, <1>7

\* One field of what is known of one project, with a value of its kind.
LEMMA FieldTypes ==
  ASSUME NEW s \in ProjectGitHubState
  PROVE  /\ \A r \in Repos : [s EXCEPT !.repo = r] \in ProjectGitHubState
         /\ \A b \in Branches : [s EXCEPT !.check = b] \in ProjectGitHubState
         /\ \A v \in States : [s EXCEPT !.prState = v] \in ProjectGitHubState
         /\ \A t \in Tickets : [s EXCEPT !.review = t] \in ProjectGitHubState
         /\ [s EXCEPT !.acknowledged = TRUE] \in ProjectGitHubState
         /\ \A t \in Tickets, b \in Branches, n \in Numbers \cup {Unnumbered} :
              PullKnown(s, t, b, n) \in ProjectGitHubState
<1>1. ASSUME NEW t \in Tickets, NEW b \in Branches, NEW n \in Numbers \cup {Unnumbered}
      PROVE  PullKnown(s, t, b, n) \in ProjectGitHubState
  <2>1. n \in Numbers \cup {Unnumbered, Null}
    OBVIOUS
  <2>. QED  BY <2>1 DEF ProjectGitHubState, PullKnown, States
<1>2. /\ \A r \in Repos : [s EXCEPT !.repo = r] \in ProjectGitHubState
      /\ \A b \in Branches : [s EXCEPT !.check = b] \in ProjectGitHubState
      /\ \A v \in States : [s EXCEPT !.prState = v] \in ProjectGitHubState
      /\ \A t \in Tickets : [s EXCEPT !.review = t] \in ProjectGitHubState
      /\ [s EXCEPT !.acknowledged = TRUE] \in ProjectGitHubState
  BY DEF ProjectGitHubState
<1>. QED  BY <1>1, <1>2

LEMMA TypeStep ==
  ASSUME TypeOK, [Next]_vars
  PROVE  TypeOK'
<1>. USE PullRequestsAssumption DEF PullRequestsAssumption
<1>1. CASE Rotate
  BY <1>1 DEF Rotate, TypeOK, LoadCredential
<1>2. ASSUME NEW p \in Projects, NEW r \in Repos, Register(p, r) PROVE TypeOK'
  <2>1. state' \in [Projects -> ProjectGitHubState]
    <3>1. state' = [state EXCEPT ![p] = [state[p] EXCEPT !.repo = r]]
      BY <1>2 DEF Register
    <3>2. state[p] \in ProjectGitHubState
      BY DEF TypeOK
    <3>3. [state[p] EXCEPT !.repo = r] \in ProjectGitHubState
      BY <3>2, FieldTypes
    <3>. QED  BY <3>1, <3>3 DEF TypeOK
  <2>. QED  BY <1>2, <2>1 DEF Register, RepoCreated, RepoFound, TypeOK
<1>3. ASSUME NEW r \in Repos, RegisterLost(r) PROVE TypeOK'
  BY <1>3 DEF RegisterLost, RepoCreated, Fails, TypeOK
<1>4. ASSUME NEW p \in Projects, NEW t \in Tickets, NEW b \in Branches, NEW n \in Numbers,
             OpenPull(p, t, b, n)
      PROVE  TypeOK'
  <2>. PICK number \in {n, Unnumbered} :
         /\ state[p].repo # Null /\ BranchCreated(b)
         /\ Opened(state[p].repo, t, b, n)
         /\ state' = [state EXCEPT ![p] = PullKnown(state[p], t, b, number)]
         /\ UNCHANGED <<token, repos, failures, restarts>>
    BY <1>4 DEF OpenPull
  <2>1. state' \in [Projects -> ProjectGitHubState]
    BY FieldTypes DEF TypeOK
  <2>2. pulls' \in [Repos -> [Numbers -> Pull \cup {Null}]]
    BY OpenedAdds, RepoKnown
  <2>3. branches' \subseteq Branches
    BY BranchCreatedAdds
  <2>. QED  BY <2>1, <2>2, <2>3 DEF TypeOK
<1>5. ASSUME NEW p \in Projects, NEW t \in Tickets, NEW b \in Branches, OpenFails(p, t, b)
      PROVE  TypeOK'
  <2>1. failures' \in 0 .. MaxFailures
    BY <1>5 DEF OpenFails, Fails, TypeOK
  <2>2. branches' \subseteq Branches
    BY <1>5, BranchCreatedAdds DEF OpenFails
  <2>. QED  BY <1>5, <2>1, <2>2 DEF OpenFails, TypeOK
<1>6. ASSUME NEW p \in Projects, NEW t \in Tickets, NEW b \in Branches, NEW n \in Numbers,
             OpenLost(p, t, b, n)
      PROVE  TypeOK'
  <2>1. failures' \in 0 .. MaxFailures
    BY <1>6 DEF OpenLost, Fails, TypeOK
  <2>2. branches' \subseteq Branches
    BY <1>6, BranchCreatedAdds DEF OpenLost
  <2>3. pulls' \in [Repos -> [Numbers -> Pull \cup {Null}]]
    BY <1>6, OpenedAdds, RepoKnown DEF OpenLost
  <2>. QED  BY <1>6, <2>1, <2>2, <2>3 DEF OpenLost, TypeOK
<1>7. ASSUME NEW p \in Projects, NEW b \in Branches, ReadChecks(p, b) PROVE TypeOK'
  <2>1. state' \in [Projects -> ProjectGitHubState]
    <3>1. state' = [state EXCEPT ![p] = [state[p] EXCEPT !.check = b]]
      BY <1>7 DEF ReadChecks
    <3>2. state[p] \in ProjectGitHubState
      BY DEF TypeOK
    <3>3. [state[p] EXCEPT !.check = b] \in ProjectGitHubState
      BY <3>2, FieldTypes
    <3>. QED  BY <3>1, <3>3 DEF TypeOK
  <2>. QED  BY <1>7, <2>1 DEF ReadChecks, TypeOK
<1>8. ASSUME NEW p \in Projects, NEW n \in Numbers, ReadPull(p, n) PROVE TypeOK'
  <2>. DEFINE read == pulls[state[p].repo][n]
  <2>1. read.state \in States
    BY <1>8, RepoKnown DEF ReadPull, PullFound, TypeOK, Pull
  <2>2. state' \in [Projects -> ProjectGitHubState]
    <3>1. state' = [state EXCEPT ![p] = [state[p] EXCEPT !.prState = read.state]]
      BY <1>8 DEF ReadPull
    <3>2. state[p] \in ProjectGitHubState
      BY DEF TypeOK
    <3>3. [state[p] EXCEPT !.prState = read.state] \in ProjectGitHubState
      BY <3>2, FieldTypes, <2>1
    <3>. QED  BY <3>1, <3>3 DEF TypeOK
  <2>. QED  BY <1>8, <2>2 DEF ReadPull, TypeOK
<1>9. ASSUME NEW p \in Projects, NEW t \in Tickets, AttachReview(p, t) PROVE TypeOK'
  <2>1. state' \in [Projects -> ProjectGitHubState]
    <3>1. state' = [state EXCEPT ![p] = [state[p] EXCEPT !.review = t]]
      BY <1>9 DEF AttachReview
    <3>2. state[p] \in ProjectGitHubState
      BY DEF TypeOK
    <3>3. [state[p] EXCEPT !.review = t] \in ProjectGitHubState
      BY <3>2, FieldTypes
    <3>. QED  BY <3>1, <3>3 DEF TypeOK
  <2>. QED  BY <1>9, <2>1 DEF AttachReview, TypeOK
<1>10. ASSUME NEW p \in Projects, MergeGate(p) PROVE TypeOK'
  <2>1. state' \in [Projects -> ProjectGitHubState]
    <3>1. state' = [state EXCEPT ![p] = [state[p] EXCEPT !.acknowledged = TRUE]]
      BY <1>10 DEF MergeGate
    <3>2. state[p] \in ProjectGitHubState
      BY DEF TypeOK
    <3>3. [state[p] EXCEPT !.acknowledged = TRUE] \in ProjectGitHubState
      BY <3>2, FieldTypes
    <3>. QED  BY <3>1, <3>3 DEF TypeOK
  <2>. QED  BY <1>10, <2>1 DEF MergeGate, TypeOK
<1>11. ASSUME NEW r \in Repos, NEW n \in Numbers, NEW s \in States, Decide(r, n, s)
       PROVE  TypeOK'
  BY <1>11, DecideKeeps DEF Decide, TypeOK
<1>12. CASE Restart
  <2>1. Fresh \in ProjectGitHubState
    BY DEF Fresh, ProjectGitHubState
  <2>. QED  BY <1>12, <2>1 DEF Restart, TypeOK
<1>13. CASE UNCHANGED vars
  BY <1>13 DEF vars, TypeOK
<1>14. ASSUME NEW r \in Repos, NEW t \in Tickets, NEW b \in Branches, NEW n \in Numbers,
              SmokeOpens(r, t, b, n)
       PROVE  TypeOK'
  <2>1. branches' \subseteq Branches
    BY <1>14, BranchCreatedAdds DEF SmokeOpens
  <2>2. pulls' \in [Repos -> [Numbers -> Pull \cup {Null}]]
    BY <1>14, OpenedAdds DEF SmokeOpens
  <2>. QED  BY <1>14, <2>1, <2>2 DEF SmokeOpens, RepoFound, TypeOK
<1>15. ASSUME NEW r \in Repos, NEW b \in Branches, SmokeStops(r, b) PROVE TypeOK'
  <2>1. failures' \in 0 .. MaxFailures
    BY <1>15 DEF SmokeStops, Fails, TypeOK
  <2>2. branches' \subseteq Branches
    BY <1>15, BranchCreatedAdds DEF SmokeStops
  <2>. QED  BY <1>15, <2>1, <2>2 DEF SmokeStops, RepoFound, TypeOK
<1>. QED
  BY <1>1, <1>2, <1>3, <1>4, <1>5, <1>6, <1>7, <1>8, <1>9, <1>10, <1>11, <1>12, <1>13,
     <1>14, <1>15
     DEF Next

\* What the integration, the working tree and GitHub keep is always of its type.
THEOREM TypeCorrect == Spec => []TypeOK
<1>. QED  BY TypeInit, TypeStep, PTL DEF Spec

-----------------------------------------------------------------------------
(* One pull request *)

\* Every pull request was opened from a branch of the working tree.
HeadsAreBranches ==
  \A r \in Repos, n \in Numbers : pulls[r][n] # Null => pulls[r][n].head \in branches

IInv == TypeOK /\ StateIsOfOnePull /\ HeadsAreBranches /\ NoSecondPull

LEMMA OpenedInv ==
  ASSUME IInv, NEW r \in Repos, NEW t \in Tickets, NEW b \in Branches, NEW n \in Numbers,
         BranchCreated(b), Opened(r, t, b, n)
  PROVE  /\ HeadsAreBranches' /\ NoSecondPull'
         /\ \A q \in Repos, m \in Numbers : pulls[q][m] # Null => Kept(q, m)
<1>. USE DEF IInv
<1>1. b \notin branches /\ branches' = branches \cup {b}
  BY BranchCreatedAdds
<1>2. /\ pulls[r][n] = Null
      /\ pulls'[r][n].head = b
      /\ \A q \in Repos, m \in Numbers : <<q, m>> # <<r, n>> => pulls'[q][m] = pulls[q][m]
  BY OpenedAdds
<1>3. HeadsAreBranches'
  <2>. SUFFICES ASSUME NEW q \in Repos, NEW m \in Numbers, pulls'[q][m] # Null
                PROVE  pulls'[q][m].head \in branches'
    BY DEF HeadsAreBranches
  <2>1. CASE q = r /\ m = n
    BY <1>1, <1>2, <2>1
  <2>2. CASE <<q, m>> # <<r, n>>
    BY <1>1, <1>2, <2>2 DEF HeadsAreBranches
  <2>. QED  BY <2>1, <2>2
<1>4. ASSUME NEW q \in Repos, NEW o \in Repos, NEW k \in Numbers, NEW m \in Numbers,
             <<q, k>> # <<o, m>>, pulls'[q][k] # Null, pulls'[o][m] # Null
      PROVE  pulls'[q][k].head # pulls'[o][m].head
  <2>1. CASE q = r /\ k = n
    <3>1. pulls'[o][m] = pulls[o][m]
      BY <1>2, <1>4, <2>1
    <3>. QED  BY <1>1, <1>2, <1>4, <2>1, <3>1 DEF HeadsAreBranches
  <2>2. CASE o = r /\ m = n
    <3>1. pulls'[q][k] = pulls[q][k]
      BY <1>2, <1>4, <2>2
    <3>. QED  BY <1>1, <1>2, <1>4, <2>2, <3>1 DEF HeadsAreBranches
  <2>3. CASE <<q, k>> # <<r, n>> /\ <<o, m>> # <<r, n>>
    BY <1>2, <1>4, <2>3 DEF NoSecondPull
  <2>. QED  BY <2>1, <2>2, <2>3
<1>5. \A q \in Repos, m \in Numbers : pulls[q][m] # Null => <<q, m>> # <<r, n>>
  BY <1>2
<1>. QED  BY <1>2, <1>3, <1>4, <1>5 DEF NoSecondPull, Kept

\* A project's state that is as it was, or forgotten, is still of one pull request.
LEMMA StillOfOnePull ==
  ASSUME StateIsOfOnePull,
         \A r \in Repos, n \in Numbers : pulls[r][n] # Null => Kept(r, n),
         NEW p \in Projects,
         \/ /\ state'[p].pr = state[p].pr
            /\ state'[p].branch = state[p].branch
            /\ state'[p].ticket = state[p].ticket
         \/ state'[p] = Fresh
  PROVE  IF state'[p].branch = Null
           THEN state'[p].pr = Null /\ state'[p].ticket = Null
           ELSE \E r \in Repos, n \in Numbers :
                  /\ pulls'[r][n] # Null
                  /\ pulls'[r][n].head = state'[p].branch
                  /\ pulls'[r][n].ticket = state'[p].ticket
                  /\ state'[p].pr \in {n, Unnumbered}
<1>1. CASE state'[p] = Fresh
  BY <1>1 DEF Fresh
<1>2. CASE state'[p].branch = state[p].branch /\ state[p].branch = Null
  BY <1>2 DEF StateIsOfOnePull, Fresh
<1>3. CASE state'[p].branch = state[p].branch /\ state[p].branch # Null /\ state'[p] # Fresh
  <2>1. PICK r \in Repos, n \in Numbers :
          /\ pulls[r][n] # Null
          /\ pulls[r][n].head = state[p].branch
          /\ pulls[r][n].ticket = state[p].ticket
          /\ state[p].pr \in {n, Unnumbered}
    BY <1>3 DEF StateIsOfOnePull
  <2>2. Kept(r, n)
    BY <2>1
  <2>. QED  BY <1>3, <2>1, <2>2 DEF Kept
<1>. QED  BY <1>1, <1>2, <1>3

LEMMA SameStates ==
  ASSUME StateIsOfOnePull,
         \A r \in Repos, n \in Numbers : pulls[r][n] # Null => Kept(r, n),
         \A p \in Projects :
           \/ /\ state'[p].pr = state[p].pr
              /\ state'[p].branch = state[p].branch
              /\ state'[p].ticket = state[p].ticket
           \/ state'[p] = Fresh
  PROVE  StateIsOfOnePull'
BY StillOfOnePull DEF StateIsOfOnePull

\* A step that leaves GitHub and the working tree as they are.
LEMMA SameWorld ==
  ASSUME IInv, UNCHANGED <<branches, pulls>>
  PROVE  /\ HeadsAreBranches' /\ NoSecondPull'
         /\ \A r \in Repos, n \in Numbers : pulls[r][n] # Null => Kept(r, n)
BY DEF IInv, HeadsAreBranches, NoSecondPull, Kept

LEMMA OnePullInit == Init => IInv
<1>1. Init => TypeOK
  BY TypeInit
<1>2. Fresh.pr = Null /\ Fresh.branch = Null /\ Fresh.ticket = Null
  BY DEF Fresh
<1>3. Init => StateIsOfOnePull
  BY <1>2 DEF Init, StateIsOfOnePull
<1>. QED  BY <1>1, <1>3 DEF Init, IInv, HeadsAreBranches, NoSecondPull

LEMMA OnePullStep ==
  ASSUME IInv, [Next]_vars
  PROVE  IInv'
<1>. SUFFICES StateIsOfOnePull' /\ HeadsAreBranches' /\ NoSecondPull'
  BY TypeStep DEF IInv
<1>. USE DEF IInv
<1>1. ASSUME NEW p \in Projects,
             \/ \E r \in Repos : Register(p, r)
             \/ \E b \in Branches : ReadChecks(p, b)
             \/ \E n \in Numbers : ReadPull(p, n)
             \/ \E t \in Tickets : AttachReview(p, t)
             \/ MergeGate(p)
      PROVE  IInv'
  <2>1. \A q \in Projects : /\ state'[q].pr = state[q].pr
                            /\ state'[q].branch = state[q].branch
                            /\ state'[q].ticket = state[q].ticket
    <3>. DEFINE Same == \A q \in Projects : /\ state'[q].pr = state[q].pr
                                            /\ state'[q].branch = state[q].branch
                                            /\ state'[q].ticket = state[q].ticket
    <3>. USE DEF TypeOK, ProjectGitHubState
    <3>1. ASSUME NEW r \in Repos, Register(p, r) PROVE Same
      BY <3>1 DEF Register
    <3>2. ASSUME NEW b \in Branches, ReadChecks(p, b) PROVE Same
      BY <3>2 DEF ReadChecks
    <3>3. ASSUME NEW n \in Numbers, ReadPull(p, n) PROVE Same
      BY <3>3 DEF ReadPull
    <3>4. ASSUME NEW t \in Tickets, AttachReview(p, t) PROVE Same
      BY <3>4 DEF AttachReview
    <3>5. ASSUME MergeGate(p) PROVE Same
      BY <3>5 DEF MergeGate
    <3>. QED  BY <1>1, <3>1, <3>2, <3>3, <3>4, <3>5
  <2>2. UNCHANGED <<branches, pulls>>
    BY <1>1 DEF Register, ReadChecks, ReadPull, AttachReview, MergeGate
  <2>. QED  BY <2>1, <2>2, SameWorld, SameStates, TypeStep
<1>2. CASE UNCHANGED <<state, branches, pulls>>
  BY <1>2, SameWorld, SameStates
<1>3. ASSUME NEW p \in Projects, NEW t \in Tickets, NEW b \in Branches, NEW n \in Numbers,
             OpenPull(p, t, b, n)
      PROVE  IInv'
  <2>. PICK number \in {n, Unnumbered} :
         /\ state[p].repo # Null /\ BranchCreated(b)
         /\ Opened(state[p].repo, t, b, n)
         /\ state' = [state EXCEPT ![p] = PullKnown(state[p], t, b, number)]
    BY <1>3 DEF OpenPull
  <2>1. state[p].repo \in Repos
    BY RepoKnown
  <2>2. /\ HeadsAreBranches' /\ NoSecondPull'
        /\ \A r \in Repos, m \in Numbers : pulls[r][m] # Null => Kept(r, m)
    BY <2>1, OpenedInv
  <2>3. /\ state'[p].pr = number /\ state'[p].branch = b /\ state'[p].ticket = t
        /\ \A q \in Projects \ {p} : state'[q] = state[q]
    BY DEF PullKnown, TypeOK, ProjectGitHubState
  <2>4. LET r == state[p].repo
        IN  pulls'[r][n] # Null /\ pulls'[r][n].head = b /\ pulls'[r][n].ticket = t
    BY <2>1, OpenedAdds
  <2>5. b # Null
    BY PullRequestsAssumption DEF PullRequestsAssumption
  <2>6. StateIsOfOnePull'
    <3>. SUFFICES ASSUME NEW q \in Projects
                  PROVE  IF state'[q].branch = Null
                           THEN state'[q].pr = Null /\ state'[q].ticket = Null
                           ELSE \E r \in Repos, m \in Numbers :
                                  /\ pulls'[r][m] # Null
                                  /\ pulls'[r][m].head = state'[q].branch
                                  /\ pulls'[r][m].ticket = state'[q].ticket
                                  /\ state'[q].pr \in {m, Unnumbered}
      BY DEF StateIsOfOnePull
    <3>1. CASE q = p
      BY <2>1, <2>3, <2>4, <2>5, <3>1
    <3>2. CASE q # p
      BY <2>2, <2>3, <3>2, StillOfOnePull
    <3>. QED  BY <3>1, <3>2
  <2>. QED  BY <2>2, <2>6, TypeStep
<1>4. ASSUME NEW p \in Projects, NEW t \in Tickets, NEW b \in Branches, OpenFails(p, t, b)
      PROVE  IInv'
  <2>1. branches \subseteq branches' /\ UNCHANGED <<state, pulls>>
    BY <1>4, BranchCreatedAdds DEF OpenFails
  <2>. QED  BY <2>1, TypeStep DEF StateIsOfOnePull, HeadsAreBranches, NoSecondPull
<1>5. ASSUME NEW p \in Projects, NEW t \in Tickets, NEW b \in Branches, NEW n \in Numbers,
             OpenLost(p, t, b, n)
      PROVE  IInv'
  <2>1. state[p].repo \in Repos /\ BranchCreated(b) /\ Opened(state[p].repo, t, b, n)
        /\ UNCHANGED state
    BY <1>5, RepoKnown DEF OpenLost
  <2>2. /\ HeadsAreBranches' /\ NoSecondPull'
        /\ \A r \in Repos, m \in Numbers : pulls[r][m] # Null => Kept(r, m)
    BY <2>1, OpenedInv
  <2>. QED  BY <2>1, <2>2, SameStates, TypeStep
<1>6. ASSUME NEW r \in Repos, NEW n \in Numbers, NEW s \in States, Decide(r, n, s)
      PROVE  IInv'
  <2>1. UNCHANGED <<state, branches>>
    BY <1>6 DEF Decide
  <2>2. /\ \A q \in Repos, m \in Numbers : pulls[q][m] # Null => Kept(q, m)
        /\ \A q \in Repos, m \in Numbers : pulls'[q][m] = Null <=> pulls[q][m] = Null
    BY <1>6, DecideKeeps
  <2>3. HeadsAreBranches' /\ NoSecondPull'
    BY <2>1, <2>2 DEF HeadsAreBranches, NoSecondPull, Kept
  <2>. QED  BY <2>1, <2>2, <2>3, SameStates, TypeStep
<1>7. CASE Restart
  <2>1. UNCHANGED <<branches, pulls>> /\ \A p \in Projects : state'[p] = Fresh
    BY <1>7 DEF Restart
  <2>. QED  BY <2>1, SameWorld, SameStates
<1>8. ASSUME NEW r \in Repos, NEW t \in Tickets, NEW b \in Branches, NEW n \in Numbers,
             SmokeOpens(r, t, b, n)
      PROVE  IInv'
  <2>1. BranchCreated(b) /\ Opened(r, t, b, n) /\ UNCHANGED state
    BY <1>8 DEF SmokeOpens
  <2>2. /\ HeadsAreBranches' /\ NoSecondPull'
        /\ \A q \in Repos, m \in Numbers : pulls[q][m] # Null => Kept(q, m)
    BY <2>1, OpenedInv
  <2>. QED  BY <2>1, <2>2, SameStates, TypeStep
<1>9. ASSUME NEW r \in Repos, NEW b \in Branches, SmokeStops(r, b) PROVE IInv'
  <2>1. branches \subseteq branches' /\ UNCHANGED <<state, pulls>>
    BY <1>9, BranchCreatedAdds DEF SmokeStops
  <2>. QED  BY <2>1, TypeStep DEF StateIsOfOnePull, HeadsAreBranches, NoSecondPull
<1>. QED
  BY <1>1, <1>2, <1>3, <1>4, <1>5, <1>6, <1>7, <1>8, <1>9
     DEF Next, Rotate, RegisterLost, vars

\* Branch, number and ticket that the integration keeps are always those of one pull request
\* of GitHub, for any number of failures, lost answers and restarts.
THEOREM OnePullKept == Spec => []StateIsOfOnePull
<1>1. IInv => StateIsOfOnePull
  BY DEF IInv
<1>. QED  BY <1>1, OnePullInit, OnePullStep, PTL DEF Spec

\* No branch ever gets a second pull request, in whatever repository and however often a
\* call is repeated.
THEOREM NeverASecond == Spec => []NoSecondPull
<1>1. IInv => NoSecondPull
  BY DEF IInv
<1>. QED  BY <1>1, OnePullInit, OnePullStep, PTL DEF Spec

=============================================================================
