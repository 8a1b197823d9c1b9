----------------------------- MODULE FixWorkspace ----------------------------
(***************************************************************************)
(* Approving a fix and locking its source baselines                        *)
(* (workflow_fix_workspace.go, ApproveFix): the repositories and branches  *)
(* an approval settles on, the standalone clones Studio prepares from them *)
(* with one Git command after another, what the agent may report from      *)
(* there, and the removal of the clones.                                   *)
(*                                                                         *)
(* The commits of a source branch are numbered.  The checkout belongs to   *)
(* the user: attempts and the user fetch into the same tracking refs,      *)
(* others push, and a deployment rewrites the branch map of the bot.       *)
(***************************************************************************)
EXTENDS Naturals, FiniteSets

CONSTANTS
  Repos,       \* repositories
  None,
  FixRequests, \* what is asked for, of AllRequests
  Verdicts,    \* what comes out of the histories that an agent reports
  Dirs,        \* safeFixWorkspaceName: the directory of each repository, as its
               \* name may come out
  Attempts,    \* fix attempts, each of a Case of its own
  MaxTip,      \* bound: commits on a source branch
  MaxChanges,  \* bound: deployments that rewrite env-branch-map.yaml
  MaxCrashes   \* bound: deaths of Studio

-----------------------------------------------------------------------------
(* Which repositories and branches an approval settles on
   (workflow_orchestrator.go), and which histories of commits are a fix of a
   locked base. *)
(* remediationFixRepositories: the structured list, else the hops of the call
   chain the target names, else the whole chain. *)
FixRepositories(plan) ==
  IF plan.repositories # {} THEN plan.repositories
  ELSE IF plan.chain \cap plan.target # {} THEN plan.chain \cap plan.target
  ELSE plan.chain

RemediationPlans == [repositories : SUBSET Repos, chain : SUBSET Repos, target : SUBSET Repos]

(* parseFixSourceBaselines: the repositories of a remediation, and the branches
   that the user asks for; "" stands for a branch that is left blank. *)
AllRequests ==
  [repos : {FixRepositories(plan) : plan \in RemediationPlans},
   asked : UNION {[R -> {"", "release"}] : R \in SUBSET Repos}]

(* Mutant of ResolveSourceBaselines: what was left blank stays blank only for
   repositories the map knows. *)
ResolveKnown(asked, map) ==
  IF DOMAIN asked = {} THEN map
  ELSE [r \in {q \in DOMAIN asked : asked[q] # "" \/ q \in DOMAIN map} |->
          IF asked[r] # "" THEN asked[r] ELSE map[r]]

(* resolveFixSourceBaselines ("env" is the environment's branch): a blank branch is the environment's, nothing at
   all is everything the environment maps; None is an error. *)
ResolveSourceBaselines(asked, map) ==
  IF DOMAIN asked = {} THEN map
  ELSE IF \E r \in DOMAIN asked : asked[r] = "" /\ r \notin DOMAIN map THEN None
  ELSE [r \in DOMAIN asked |-> IF asked[r] # "" THEN asked[r] ELSE map[r]]

(* resolveRemediationFixSourceBaselines: the user may choose branches, never
   repositories. *)
ResolveRemediation(req, map) ==
  LET repos == req.repos
      asked == IF DOMAIN req.asked = {} THEN [r \in repos |-> ""] ELSE req.asked
  IN  IF repos = {} THEN ResolveSourceBaselines(req.asked, map)
      ELSE IF DOMAIN asked # repos \/ ~(repos \subseteq DOMAIN map) THEN None
      ELSE ResolveSourceBaselines(asked, map)

(* Histories: the parents of commits 1..4; commit 2 is the locked base. *)
Base == 2
Histories == {h \in [1..4 -> SUBSET (1..3)] : \A n \in 1..4 : \A p \in h[n] : p < n}
Ancestors(h) ==
  LET anc[n \in 1..4] == {n} \cup UNION {anc[p] : p \in h[n]} IN anc

(* Mutant of LinearAncestry: the merge base is not looked at. *)
LinearRange(h, fix) ==
  LET anc == Ancestors(h)
      range == anc[fix] \ anc[Base]
  IN  range # {} /\ \A n \in range : Cardinality(h[n]) = 1

(* validateLinearFixAncestry: merge-base, and one parent for every commit of
   base..fix, of which there is at least one. *)
LinearAncestry(h, fix) ==
  LET anc == Ancestors(h)
      range == anc[fix] \ anc[Base]
  IN  Base \in anc[fix] /\ range # {} /\ \A n \in range : Cardinality(h[n]) = 1

(* What it is to mean: from the fix, one parent after the other, down to the
   base. *)
IsChain(h, fix) ==
  LET below[n \in 0..4] ==
        IF n = 0 THEN {fix} ELSE {p \in 1..4 : \E q \in below[n - 1] : q # Base /\ h[q] = {p}}
  IN  fix # Base /\ Base \in UNION {below[n] : n \in 1..4}

AllVerdicts == {[accepted |-> LinearAncestry(h, fix), chain |-> IsChain(h, fix)]
                  : h \in Histories, fix \in 1..4}

-----------------------------------------------------------------------------
(* The branch maps of a bot ("env" is the branch of the environment).      *)
BranchMaps == UNION {[R -> {"env"}] : R \in SUBSET Repos}
Approvals == [req : FixRequests, map : BranchMaps, refused : BOOLEAN]

ASSUME FixWorkspaceAssumption ==
  /\ MaxTip \in Nat \ {0} /\ MaxChanges \in Nat /\ MaxCrashes \in Nat
  /\ FixRequests \subseteq AllRequests /\ Verdicts = AllVerdicts
  /\ None \notin Approvals

VARIABLES
  Dir,        \* one of Dirs
  branch,     \* env-branch-map.yaml: the environment's branch of a repository
  tip,        \* the newest commit of each source branch on the remote
  tracking,   \* refs/remotes/origin/<source> of the user's checkout
  request,    \* the approval: what the user asked for and the remediation named
  approved,   \* the source baselines it was given, as stored with the attempt
  prep,       \* progress of Prepare, and the state of the lease
  disk,       \* the directories below the attempt's root
  judged,     \* what ValidateResult said of the reported histories
  since,      \* history: the tips when Prepare began
  changes, crashes

workspaceVars == <<Dir, branch, tip, tracking, request, approved, prep, disk, judged, since, changes, crashes>>

-----------------------------------------------------------------------------
NoPrep == [pc |-> "none", left |-> {}, targets |-> {}, repo |-> None, base |-> 0, bound |-> {}]

WorkspaceInit ==
  /\ Dir \in Dirs
  /\ branch = [r \in Repos |-> "env"]
  /\ tip = [r \in Repos |-> 1]
  /\ tracking = [r \in Repos |-> 1]
  /\ request = [a \in Attempts |-> None]
  /\ approved = [a \in Attempts |-> None]
  /\ prep = [a \in Attempts |-> NoPrep]
  /\ disk = [a \in Attempts |-> {}]
  /\ judged = [a \in Attempts |-> None]
  /\ since = [a \in Attempts |-> [r \in Repos |-> 0]]
  /\ changes = 0 /\ crashes = 0

gitVars == <<tip, tracking>>
boundVars == <<Dir, changes, crashes>>

(* ApproveFix: the baselines are resolved once and stored with the attempt. *)
ApproveBaselines(a, req) ==
  /\ request[a] = None
  /\ LET map == ResolveRemediation(req, branch) IN
       /\ map # None
       /\ request' = [request EXCEPT ![a] = [req |-> req, map |-> branch, refused |-> FALSE]]
       /\ approved' = [approved EXCEPT ![a] = map]
  /\ UNCHANGED <<branch, gitVars, prep, disk, judged, since, boundVars>>

(* Mutant of ReplayFixApproval: the request itself is compared. *)
ReplayRaw(a) ==
  /\ approved[a] # None
  /\ request' = [request EXCEPT ![a].refused = request[a].req.asked # approved[a]]
  /\ UNCHANGED <<branch, gitVars, approved, prep, disk, judged, since, boundVars>>

(* replayFixApproval: the answer was lost.  The baselines are resolved again,
   and have to come out the same. *)
ReplayFixApproval(a) ==
  /\ approved[a] # None
  /\ request' = [request EXCEPT ![a].refused =
                   ResolveRemediation(request[a].req, branch) # approved[a]]
  /\ UNCHANGED <<branch, gitVars, approved, prep, disk, judged, since, boundVars>>

(* Prepare: the branch map is read once (targetBranches), the root directory,
   and the repositories in order. *)
Prepare(a) ==
  /\ approved[a] # None /\ prep[a].pc = "none"
  /\ LET bases == ResolveSourceBaselines(approved[a], branch)
         fine == DOMAIN branch # {} /\ bases # None /\ DOMAIN bases # {}
     IN  prep' = [prep EXCEPT ![a] =
                    IF fine
                    THEN [NoPrep EXCEPT !.pc = "next", !.left = DOMAIN bases, !.targets = DOMAIN branch]
                    ELSE [NoPrep EXCEPT !.pc = "failed"]]
  /\ since' = [since EXCEPT ![a] = tip]
  /\ UNCHANGED <<branch, gitVars, request, approved, disk, judged, boundVars>>

(* A failure removes the clone it was making, closes the lease and removes the
   root with everything in it. *)
Fail(a) ==
  /\ prep' = [prep EXCEPT ![a] = [NoPrep EXCEPT !.pc = "failed"]]
  /\ disk' = [disk EXCEPT ![a] = {}]
  /\ UNCHANGED tracking

(* Mutant of Fetch: a fetch that failed is not noticed. *)
FetchUnchecked(a) ==
  /\ prep[a].pc = "next"
  /\ \E r \in prep[a].left \cap prep[a].targets :
       prep' = [prep EXCEPT ![a].pc = "fetched", ![a].repo = r, ![a].left = @ \ {r}]
  /\ UNCHANGED <<branch, gitVars, request, approved, disk, judged, since, boundVars>>

(* The next repository has to have a target branch in the map as Prepare read
   it, and an origin that can be fetched. *)
Fetch(a) ==
  /\ prep[a].pc = "next" /\ prep[a].left # {}
  /\ \/ \E r \in prep[a].left :
          /\ r \in prep[a].targets
          /\ tracking' = [tracking EXCEPT ![r] = tip[r]]
          /\ prep' = [prep EXCEPT ![a].pc = "fetched", ![a].repo = r, ![a].left = @ \ {r}]
          /\ UNCHANGED disk
     \/ Fail(a)
  /\ UNCHANGED <<branch, tip, request, approved, judged, since, boundVars>>

(* Mutant of Occupied: the directory is taken to be free. *)
NeverOccupied(a, r) == FALSE

(* rev-parse, a directory that must not exist yet, and the clone. *)
Occupied(a, r) == \E d \in disk[a] : d.dir = Dir[r]

Clone(a) ==
  /\ prep[a].pc = "fetched"
  /\ LET r == prep[a].repo IN
       \/ /\ ~Occupied(a, r)
          /\ prep' = [prep EXCEPT ![a].pc = "cloned", ![a].base = tracking[r]]
          /\ disk' = [disk EXCEPT ![a] = @ \cup {[dir |-> Dir[r], repo |-> r, head |-> 0]}]
          /\ UNCHANGED tracking
       \/ Fail(a)
  /\ UNCHANGED <<branch, tip, request, approved, judged, since, boundVars>>

(* The locked ref is imported from the tracking ref as it is by now, has to be
   the commit that was resolved, and is checked out. *)
ImportLocked(a) ==
  /\ prep[a].pc = "cloned"
  /\ LET r == prep[a].repo IN
       \/ /\ tracking[r] = prep[a].base
          /\ prep' = [prep EXCEPT ![a].pc = "next", ![a].repo = None, ![a].base = 0,
                        ![a].bound = @ \cup {[repo |-> r, base |-> prep[a].base]}]
          /\ disk' = [disk EXCEPT ![a] =
                        {d \in @ : d.repo # r} \cup {[dir |-> Dir[r], repo |-> r, head |-> tracking[r]]}]
          /\ UNCHANGED tracking
       \/ Fail(a)
  /\ UNCHANGED <<branch, tip, request, approved, judged, since, boundVars>>

Prepared(a) ==
  /\ prep[a].pc = "next" /\ prep[a].left = {}
  /\ prep' = [prep EXCEPT ![a].pc = "ready", ![a].targets = {}]
  /\ UNCHANGED <<branch, gitVars, request, approved, disk, judged, since, boundVars>>

(* ValidateResult: one change for every binding, on its branches and remote,
   whose commit descends from the base. *)
ValidateResult(a, changed, sameScope, verdict) ==
  /\ changed = {b.repo : b \in prep[a].bound} /\ sameScope /\ verdict.accepted

Report(a) ==
  /\ prep[a].pc = "ready" /\ judged[a] = None
  /\ \E changed \in SUBSET Repos, sameScope \in BOOLEAN, verdict \in Verdicts :
       judged' = [judged EXCEPT ![a] =
                    [accepted |-> ValidateResult(a, changed, sameScope, verdict), chain |-> verdict.chain,
                     all |-> DOMAIN approved[a] # {} => changed = DOMAIN approved[a]]]
  /\ UNCHANGED <<branch, gitVars, request, approved, prep, disk, since, boundVars>>

(* Mutant of Close: only the root is removed, which fails while it has clones. *)
CloseRoot(a) ==
  /\ prep[a].pc = "ready"
  /\ prep' = [prep EXCEPT ![a].pc = "closed"]
  /\ UNCHANGED <<branch, gitVars, request, approved, disk, judged, since, boundVars>>

(* Close, deferred by the run: every clone, and the root. *)
Close(a) ==
  /\ prep[a].pc = "ready"
  /\ prep' = [prep EXCEPT ![a].pc = "closed"]
  /\ disk' = [disk EXCEPT ![a] = {d \in @ : \A b \in prep[a].bound : d.repo # b.repo}]
  /\ UNCHANGED <<branch, gitVars, request, approved, judged, since, boundVars>>

-----------------------------------------------------------------------------
(* What happens to the remote matters while a preparation may still look. *)
Preparing == \E a \in Attempts : prep[a].pc \in {"none", "next", "fetched", "cloned"}

Push(r) ==
  /\ Preparing /\ tip[r] < MaxTip
  /\ tip' = [tip EXCEPT ![r] = @ + 1]
  /\ UNCHANGED <<branch, tracking, request, approved, prep, disk, judged, since, boundVars>>

(* The user, or an attempt of another Case. *)
FetchElsewhere(r) ==
  /\ Preparing
  /\ tracking' = [tracking EXCEPT ![r] = tip[r]]
  /\ UNCHANGED <<branch, tip, request, approved, prep, disk, judged, since, boundVars>>

Deploy ==
  /\ changes < MaxChanges
  /\ \E R \in SUBSET Repos : branch' = [r \in R |-> "env"]
  /\ changes' = changes + 1
  /\ UNCHANGED <<gitVars, request, approved, prep, disk, judged, since, Dir, crashes>>

(* Nothing prepares the workspace of a dead attempt again: recovery inspects
   what its agent pushed. *)
Crash ==
  /\ crashes < MaxCrashes
  /\ crashes' = crashes + 1
  /\ prep' = [a \in Attempts |-> IF prep[a].pc \in {"next", "fetched", "cloned", "ready"}
                                 THEN [NoPrep EXCEPT !.pc = "dead"] ELSE prep[a]]
  /\ UNCHANGED <<branch, gitVars, request, approved, disk, judged, since, Dir, changes>>

WorkspaceNext ==
  \/ \E a \in Attempts :
       \/ \E req \in FixRequests : ApproveBaselines(a, req)
       \/ ReplayFixApproval(a) \/ Prepare(a) \/ Fetch(a) \/ Clone(a) \/ ImportLocked(a)
       \/ Prepared(a) \/ Report(a) \/ Close(a)
  \/ \E r \in Repos : Push(r) \/ FetchElsewhere(r)
  \/ Deploy \/ Crash

WorkspaceSpec == WorkspaceInit /\ [][WorkspaceNext]_workspaceVars

-----------------------------------------------------------------------------
WorkspaceTypeOK ==
  /\ Dir \in Dirs /\ DOMAIN branch \subseteq Repos /\ tip \in [Repos -> 1..MaxTip] /\ tracking \in [Repos -> 1..MaxTip]
  /\ \A a \in Attempts :
       /\ request[a] = None <=> approved[a] = None
       /\ approved[a] # None => DOMAIN approved[a] \subseteq Repos
       /\ prep[a].pc \in {"none", "next", "fetched", "cloned", "ready", "closed", "failed", "dead"}
       /\ prep[a].bound \subseteq [repo : Repos, base : 1..MaxTip]
       /\ \A d \in disk[a] : d.repo \in Repos /\ d.head \in 0..MaxTip
  /\ changes \in 0..MaxChanges /\ crashes \in 0..MaxCrashes

(* A fix never starts from a stale baseline: the commit locked for a repository
   is one its branch reached no earlier than the preparation began, whatever
   the checkout of the user had and whoever fetches into it meanwhile; and it is
   what the clone has checked out. *)
LockedBaseIsFresh ==
  \A a \in Attempts : \A b \in prep[a].bound :
    /\ since[a][b.repo] <= b.base /\ b.base <= tip[b.repo]
    /\ prep[a].pc \notin {"closed", "dead"} =>
         \E d \in disk[a] : d.repo = b.repo /\ d.head = b.base

(* No two repositories share a directory, also when their names come out the
   same. *)
DirectoriesApart == \A a \in Attempts : \A d, e \in disk[a] : d.dir = e.dir => d = e

(* A lease that is ready covers exactly what the user approved, and what the
   user approved is the remediation: its repositories, each on the branch asked
   for or the environment's.  A deployment in between changes nothing of it,
   except for an approval over an environment that mapped nothing. *)
LeaseIsApproved ==
  \A a \in Attempts : approved[a] # None =>
    LET req == request[a].req IN
        /\ prep[a].pc = "ready" /\ DOMAIN approved[a] # {} =>
             {b.repo : b \in prep[a].bound} = DOMAIN approved[a]
        /\ req.repos # {} => DOMAIN approved[a] = req.repos
        /\ DOMAIN req.asked # {} => DOMAIN req.asked = DOMAIN approved[a]
        /\ \A r \in DOMAIN approved[a] :
             approved[a][r] = IF r \in DOMAIN req.asked /\ req.asked[r] # "" THEN req.asked[r]
                              ELSE request[a].map[r]

(* A preparation that failed and a lease that was closed leave nothing behind;
   only the death of Studio does. *)
NothingLeft == \A a \in Attempts : prep[a].pc \in {"none", "failed", "closed"} => disk[a] = {}

(* The repetition of an approval whose answer was lost is refused only if the
   map was rewritten since. *)
ReplayAgrees == \A a \in Attempts :
  request[a] # None => (request[a].refused => changes > 0)

(* An accepted result leaves no approved repository out. *)
AcceptedIsWhole ==
  \A a \in Attempts : judged[a] # None => (judged[a].accepted => judged[a].all)

(* The workspace of a fix is prepared from the baselines that were approved, at
   commits that are fresh, each repository in a directory of its own; a replay
   agrees with the approval, nothing stays on disk, and what is accepted is
   whole. *)
FixStartsWhereApproved ==
  /\ WorkspaceTypeOK
  /\ LockedBaseIsFresh
  /\ DirectoriesApart
  /\ LeaseIsApproved
  /\ NothingLeft
  /\ ReplayAgrees
  /\ AcceptedIsWhole

(* An accepted result is a chain of ordinary commits on top of each base. *)
AcceptedIsLinear ==
  \A a \in Attempts : judged[a] # None => (judged[a].accepted => judged[a].chain)
=============================================================================
