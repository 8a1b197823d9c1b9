------------------------ MODULE MergeWorkflowProofs ------------------------
(***************************************************************************)
(* Proofs about MergeWorkflow, for every set of repositories, baselines    *)
(* and commands.  MergeInv ties a run to the approval that it works for,   *)
(* to what it has merged so far and to how old the heads are that it       *)
(* knows.                                                                  *)
(***************************************************************************)
EXTENDS MergeWorkflow, WellFoundedInduction, TLAPS

(* Steps of a call after the approval was recorded. *)
Working == {"merge", "push", "reinspect", "resume", "resume_push", "record"}

BaselinesMerged == \A d \in Dual : fixed[Baseline(d)]
TargetsMerged(R) == \A r \in R : fixed[Target(r)]

(* Some approval is the newest, and none is newer than the Case. *)
ApprovalsFit ==
    /\ \A a \in approvals : a.key <= version
    /\ approvals # {} => \E a \in approvals : \A o \in approvals : o.key <= a.key
    /\ status = "merging" => approvals # {}
    /\ \A a \in approvals, b \in Branches : a.heads[b] <= head[b]

(* Where Studio merged, the fix is. *)
StudioMerged == \A b \in Branches : studio[b] # None => fixed[b]

(* A local merge was made where the fix was not; getting the fix moves a     *)
(* branch on.                                                                *)
Unmerged(b, h) == head[b] = h => ~fixed[b]
WorktreeIsUnmerged ==
    \A b \in Branches :
        worktree[b] # None => worktree[b] <= head[b] /\ Unmerged(b, worktree[b])

(* A merge of a target was recorded or begun after the baselines. *)
TargetsAfterBaselines ==
    \A r \in Repos : commit[r] # None \/ worktree[Target(r)] # None => BaselinesMerged

StoreInv ==
    /\ ApprovalsFit /\ StudioMerged /\ WorktreeIsUnmerged /\ TargetsAfterBaselines
    /\ SubmittedIsMerged

(* A call works for an approval, whose heads it has; branches only move on. *)
WorksForApproval(t) ==
    /\ \A b \in Branches : run[t].heads[b] <= head[b]
    /\ run[t].at \in Working => \E a \in approvals : a.heads = run[t].heads

(* A call that saw the newest version knows the status. *)
SeenFits(t) ==
    /\ run[t].seen <= version
    /\ run[t].at = "approving" =>
          /\ run[t].key = run[t].seen
          /\ run[t].seen = version => status = "waiting_merge_approval"
    /\ run[t].at \in Working /\ run[t].seen = version => status = "merging"

(* There is something left to do, and it is of the stage. *)
TodoFits(t) ==
    /\ run[t].at \in {"merge", "push", "resume_push"} => run[t].todo # {}
    /\ run[t].at \in {"merge", "push"} /\ run[t].stage = "baseline" => run[t].todo \subseteq Dual
    /\ run[t].at = "resume_push" => \A r \in run[t].todo : run[t].found[r] # None

(* What is about to be pushed is not in the branch. *)
PushIsNew(t) ==
    /\ run[t].at = "push" =>
          LET b == BranchOf(run[t].stage, NextRepo(t)) IN Unmerged(b, run[t].heads[b])
    /\ run[t].at = "resume_push" =>
          \A r \in run[t].todo : Unmerged(Target(r), run[t].heads[Target(r)])

(* What a call leaves behind is merged, and it says "completed" after all. *)
Failures == {"stale", "conflict", "ambiguous"}
DoneIsMerged(t) ==
    /\ run[t].at \in {"merge", "push"} /\ run[t].stage = "target" =>
          TargetsMerged(Repos \ run[t].todo)
    /\ run[t].at \in {"merge", "push"} /\ run[t].stage = "baseline" =>
          \A d \in Dual \ run[t].todo : fixed[Baseline(d)]
    /\ run[t].at = "resume_push" =>
          /\ run[t].kind \in Failures
          /\ ~run[t].partial => TargetsMerged(Repos \ run[t].todo)
    /\ run[t].at = "reinspect" => run[t].kind \in Failures
    /\ run[t].at = "record" =>
          \/ run[t].kind \in Failures
          \/ run[t].kind = "completed" /\ TargetsMerged(Repos)

(* It gets to the targets, and to commits of them, after the baselines. *)
BaselinesBefore(t) ==
    /\ run[t].at \in {"merge", "push"} /\ run[t].stage = "target" => BaselinesMerged
    /\ \A r \in Repos : run[t].found[r] # None => BaselinesMerged

CallInv(t) ==
    /\ WorksForApproval(t) /\ SeenFits(t) /\ TodoFits(t) /\ PushIsNew(t) /\ DoneIsMerged(t)
    /\ BaselinesBefore(t)

MergeInv == MergeTypeOK /\ StoreInv /\ \A t \in Threads : CallInv(t)

(* What every step leaves in place: branches only move on and keep the fix, *)
(* getting it moves them, approvals stay, a status changes with a version.  *)
Forward ==
    /\ \A b \in Branches :
          /\ head[b] <= head'[b]
          /\ fixed[b] => fixed'[b]
          /\ head'[b] = head[b] => fixed'[b] = fixed[b]
    /\ approvals \subseteq approvals'
    /\ version <= version'
    /\ version' = version => status' = status

-----------------------------------------------------------------------------

(* The branches of the repositories are branches. *)
LEMMA BranchFacts ==
    /\ \A r \in Repos : Target(r) \in Branches
    /\ \A d \in Dual : Baseline(d) \in Branches
    /\ \A r \in Repos, d \in Dual : Target(r) # Baseline(d)
    /\ \A r, q \in Repos : Target(r) = Target(q) => r = q
    /\ \A r, q \in Dual : Baseline(r) = Baseline(q) => r = q
  BY MergeAssumption DEF Target, Baseline, Branches

(* The next repository of a call is one that is left. *)
LEMMA NextRepoIsLeft ==
    ASSUME MergeTypeOK, NEW t \in Threads, run[t].todo # {}
    PROVE  NextRepo(t) \in run[t].todo
<1> DEFINE Less == { ss \in Nat \X Nat : ss[1] < ss[2] }
<1>1. run[t].todo \subseteq Nat
  BY MergeAssumption DEF MergeTypeOK, Run
<1>2. IsWellFoundedOn(Less, Nat)
  BY NatLessThanWellFounded DEF OpToRel
<1>3. \A x, y \in Nat : y < x => <<y, x>> \in Less
  OBVIOUS
<1> HIDE DEF Less
<1>4. PICK x \in run[t].todo : \A y \in run[t].todo : ~(<<y, x>> \in Less)
  BY <1>1, <1>2, WFMin
<1>5. ASSUME NEW y \in run[t].todo  PROVE x <= y
  <2>1. x \in Nat /\ y \in Nat
    BY <1>1
  <2>2. ~(y < x)
    BY <2>1, <1>3, <1>4
  <2> QED
    BY <2>1, <2>2
<1> QED
  BY <1>5 DEF NextRepo

(* A step forward keeps what is true of a call that it does not touch. *)
LEMMA OtherCalls ==
    ASSUME MergeTypeOK, MergeTypeOK', Forward, NEW t \in Threads, CallInv(t),
           run'[t] = run[t]
    PROVE  CallInv(t)'
<1> USE BranchFacts DEF CallInv, Forward
<1>0. run[t] \in Run /\ version \in Nat /\ version' \in Nat
  BY DEF MergeTypeOK
<1>a. \A b \in Branches : head[b] \in Nat /\ head'[b] \in Nat
  BY DEF MergeTypeOK, Heads
<1>b. \A b \in Branches : run[t].heads[b] \in Nat
  BY <1>0 DEF Run, Heads
<1>1. WorksForApproval(t)'
  BY <1>a, <1>b DEF WorksForApproval
<1>2. SeenFits(t)'
  BY <1>0 DEF SeenFits, Run, Working
<1>3. TodoFits(t)'
  BY DEF TodoFits
<1>4. PushIsNew(t)'
  <2>1. ASSUME NEW b \in Branches, Unmerged(b, run[t].heads[b])
        PROVE  Unmerged(b, run[t].heads[b])'
    BY <2>1, <1>a, <1>b DEF Unmerged, WorksForApproval
  <2>2. CASE run[t].at = "push"
    <3>1. NextRepo(t) \in run[t].todo
      BY <2>2, NextRepoIsLeft DEF TodoFits
    <3>2. BranchOf(run[t].stage, NextRepo(t)) \in Branches
      BY <3>1, <2>2, <1>0 DEF BranchOf, TodoFits, Run
    <3>3. NextRepo(t)' = NextRepo(t)
      BY DEF NextRepo
    <3> QED
      BY <2>1, <2>2, <3>2, <3>3 DEF PushIsNew, BranchOf
  <2>3. CASE run[t].at = "resume_push"
    BY <2>1, <2>3, <1>0 DEF PushIsNew, Run
  <2> QED
    BY <2>2, <2>3 DEF PushIsNew
<1>5. DoneIsMerged(t)'
  BY <1>0 DEF DoneIsMerged, TargetsMerged, Run
<1>6. BaselinesBefore(t)'
  BY DEF BaselinesBefore, BaselinesMerged
<1> QED
  BY <1>1, <1>2, <1>3, <1>4, <1>5, <1>6

(* The steps of one call, and of nothing else that a call knows. *)
LEMMA OneCall ==
    ASSUME MergeInv, MergeTypeOK', Forward, StoreInv', NEW t \in Threads, CallInv(t)',
           \A u \in Threads \ {t} : run'[u] = run[u]
    PROVE  MergeInv'
<1>1. ASSUME NEW u \in Threads \ {t}  PROVE CallInv(u)'
  BY OtherCalls DEF MergeInv
<1> QED
  BY <1>1 DEF MergeInv

LEMMA NoCall ==
    ASSUME MergeInv, MergeTypeOK', Forward, StoreInv', UNCHANGED run
    PROVE  MergeInv'
<1>1. ASSUME NEW u \in Threads  PROVE CallInv(u)'
  BY OtherCalls DEF MergeInv
<1> QED
  BY <1>1 DEF MergeInv

(* What holds of the store and the worktrees goes on holding while the      *)
(* mutations are left alone and a worktree is only removed, or made on a    *)
(* head where the fix is not.                                               *)
LEMMA StoreKept ==
    ASSUME MergeTypeOK, MergeTypeOK', Forward, StoreInv, UNCHANGED caseVars,
           \A b \in Branches : studio'[b] # studio[b] => fixed'[b],
           \A b \in Branches :
              \/ worktree'[b] \in {worktree[b], None}
              \/ /\ worktree'[b] <= head[b] /\ Unmerged(b, worktree'[b])
                 /\ \A r \in Repos : b = Target(r) => BaselinesMerged
    PROVE  StoreInv'
<1> USE BranchFacts DEF StoreInv, Forward, caseVars
<1>a. \A b \in Branches : head[b] \in Nat /\ head'[b] \in Nat
  BY DEF MergeTypeOK, Heads
<1>b. \A b \in Branches : worktree[b] \in Nat \cup {None} /\ worktree'[b] \in Nat \cup {None}
  BY DEF MergeTypeOK, Heads
<1>c. version \in Nat /\ \A a \in approvals : a.heads \in [Branches -> Nat]
  BY DEF MergeTypeOK, Heads
<1>1. ApprovalsFit'
  BY <1>a, <1>c DEF ApprovalsFit
<1>2. StudioMerged'
  BY DEF StudioMerged
<1>3. WorktreeIsUnmerged'
  <2> SUFFICES ASSUME NEW b \in Branches, worktree'[b] # None
               PROVE  worktree'[b] <= head'[b] /\ (head'[b] = worktree'[b] => ~fixed'[b])
    BY DEF WorktreeIsUnmerged, Unmerged
  <2> QED
    BY <1>a, <1>b, MergeAssumption DEF WorktreeIsUnmerged, Unmerged
<1>4. TargetsAfterBaselines'
  BY DEF TargetsAfterBaselines, BaselinesMerged
<1>5. SubmittedIsMerged'
  BY DEF SubmittedIsMerged
<1> QED
  BY <1>1, <1>2, <1>3, <1>4, <1>5

(* Pushing a merge commit: the branch was at the head that it was made on.  *)
LEMMA LandFacts ==
    ASSUME MergeTypeOK, NEW b \in Branches, NEW h \in Nat, Land(b, h), ~fixed[b]
    PROVE  /\ head' \in [Branches -> Nat]
           /\ fixed' \in [Branches -> BOOLEAN] /\ clash' \in [Branches -> BOOLEAN]
           /\ studio' \in [Branches -> Nat \cup {None}]
           /\ \A c \in Branches : /\ head[c] <= head'[c]
                                  /\ fixed[c] => fixed'[c]
                                  /\ head'[c] = head[c] => fixed'[c] = fixed[c]
                                  /\ studio'[c] # studio[c] => c = b /\ fixed'[c]
           /\ fixed'[b]
<1> USE DEF MergeTypeOK, Heads, Land
<1>1. head' \in [Branches -> Nat]
  OBVIOUS
<1>2. fixed' \in [Branches -> BOOLEAN] /\ clash' \in [Branches -> BOOLEAN]
  OBVIOUS
<1>3. studio' \in [Branches -> Nat \cup {None}]
  OBVIOUS
<1>4. ASSUME NEW c \in Branches
      PROVE  /\ head[c] <= head'[c]
             /\ fixed[c] => fixed'[c]
             /\ head'[c] = head[c] => fixed'[c] = fixed[c]
             /\ studio'[c] # studio[c] => c = b /\ fixed'[c]
  <2>1. CASE c = b
    <3>1. head'[c] = head[c] + 1 /\ fixed'[c] = TRUE /\ head[c] \in Nat
      BY <2>1
    <3>2. head[c] <= head'[c] /\ head'[c] # head[c]
      BY <3>1
    <3> QED
      BY <2>1, <3>1, <3>2, Zenon
  <2>2. CASE c # b
    <3>1. head'[c] = head[c] /\ fixed'[c] = fixed[c] /\ studio'[c] = studio[c] /\ head[c] \in Nat
      BY <2>2
    <3>2. head[c] <= head'[c]
      BY <3>1
    <3> QED
      BY <3>1, <3>2, Zenon
  <2> QED
    BY <2>1, <2>2
<1> QED
  BY <1>1, <1>2, <1>3, <1>4

(* The facts about a call that every step of it needs. *)
LEMMA CallFacts ==
    ASSUME MergeInv, NEW t \in Threads
    PROVE  /\ run \in [Threads -> Run] /\ run[t] \in Run
           /\ CallInv(t) /\ MergeTypeOK /\ StoreInv
           /\ \A b \in Branches : run[t].heads[b] \in Nat /\ head[b] \in Nat
           /\ run[t].at \in {"merge", "push", "resume_push"} =>
                 NextRepo(t) \in run[t].todo /\ NextRepo(t) \in Repos
           /\ run[t].at \in {"merge", "push"} =>
                 /\ BranchOf(run[t].stage, NextRepo(t)) \in Branches
                 /\ run[t].stage = "baseline" =>
                       /\ NextRepo(t) \in Dual
                       /\ BranchOf(run[t].stage, NextRepo(t)) = Baseline(NextRepo(t))
                 /\ run[t].stage = "target" =>
                       BranchOf(run[t].stage, NextRepo(t)) = Target(NextRepo(t))
<1>1. run \in [Threads -> Run] /\ run[t] \in Run
  BY DEF MergeInv, MergeTypeOK
<1>2. CallInv(t) /\ MergeTypeOK /\ StoreInv
  BY DEF MergeInv
<1>3. \A b \in Branches : run[t].heads[b] \in Nat /\ head[b] \in Nat
  BY <1>1, <1>2 DEF MergeTypeOK, Run, Heads
<1>4. run[t].at \in {"merge", "push", "resume_push"} =>
          NextRepo(t) \in run[t].todo /\ NextRepo(t) \in Repos
  BY <1>1, <1>2, NextRepoIsLeft DEF CallInv, TodoFits, Run
<1>5. ASSUME run[t].at \in {"merge", "push"}
      PROVE  /\ BranchOf(run[t].stage, NextRepo(t)) \in Branches
             /\ run[t].stage = "baseline" =>
                   /\ NextRepo(t) \in Dual
                   /\ BranchOf(run[t].stage, NextRepo(t)) = Baseline(NextRepo(t))
             /\ run[t].stage = "target" =>
                   BranchOf(run[t].stage, NextRepo(t)) = Target(NextRepo(t))
  BY <1>1, <1>2, <1>4, <1>5, BranchFacts DEF CallInv, TodoFits, Run, BranchOf
<1> QED
  BY <1>1, <1>2, <1>3, <1>4, <1>5

(* How a call fails: where it goes on, what it says and what it found. *)
FailsAt(t, at, kind, found) ==
    run' = [run EXCEPT ![t] = [run[t] EXCEPT !.at = at, !.kind = kind, !.found = found]]

(* A call that fails, or is inspected: it says something but "completed".   *)
LEMMA CallFails ==
    ASSUME MergeInv, MergeTypeOK', Forward, UNCHANGED <<version, status>>,
           NEW t \in Threads, run[t].at \in Working,
           NEW at \in {"reinspect", "record"}, NEW kind \in Failures,
           NEW found \in [Repos -> Heads \cup {None}],
           \A r \in Repos : found[r] # None => run[t].found[r] # None \/ BaselinesMerged,
           FailsAt(t, at, kind, found)
    PROVE  CallInv(t)'
<1>0. run'[t] = [run[t] EXCEPT !.at = at, !.kind = kind, !.found = found]
  BY CallFacts DEF FailsAt
<1> USE CallFacts DEF CallInv, Forward
<1>1. /\ run'[t].at = at /\ run'[t].kind = kind /\ run'[t].found = found
      /\ run'[t].heads = run[t].heads /\ run'[t].seen = run[t].seen /\ run'[t].key = run[t].key
  BY <1>0 DEF Run
<1>2. \A b \in Branches : head'[b] \in Nat /\ version \in Nat
  BY DEF MergeTypeOK, Heads
<1>3. WorksForApproval(t)'
  BY <1>1, <1>2 DEF WorksForApproval, Working
<1>4. SeenFits(t)'
  BY <1>1 DEF SeenFits, Working
<1>5. TodoFits(t)'
  BY <1>1 DEF TodoFits
<1>6. PushIsNew(t)'
  BY <1>1 DEF PushIsNew
<1>7. DoneIsMerged(t)'
  <2>1. run'[t].at \in {"reinspect", "record"} /\ run'[t].kind \in Failures
    BY <1>1
  <2> QED
    BY <2>1 DEF DoneIsMerged, Failures
<1>8. BaselinesMerged => BaselinesMerged'
  BY BranchFacts DEF BaselinesMerged
<1>9. BaselinesBefore(t)'
  BY <1>1, <1>8 DEF BaselinesBefore
<1> QED
  BY <1>3, <1>4, <1>5, <1>6, <1>7, <1>9

(* A repository is done when its branch has the fix. *)
LEMMA RepoDoneFacts ==
    ASSUME MergeInv, MergeTypeOK', Forward, UNCHANGED <<version, status>>,
           NEW t \in Threads, run[t].at \in {"merge", "push"},
           NEW found \in [Repos -> Heads \cup {None}],
           \A r \in Repos : found[r] # None => run[t].found[r] # None \/ BaselinesMerged,
           RepoDone(t, NextRepo(t), found),
           fixed'[BranchOf(run[t].stage, NextRepo(t))]
    PROVE  CallInv(t)'
<1> DEFINE r == NextRepo(t)
           rest == run[t].todo \ {r}
<1>z. run \in [Threads -> Run] /\ run[t] \in Run
  BY CallFacts
<1>0. /\ run'[t].found = found /\ run'[t].heads = run[t].heads /\ run'[t].seen = run[t].seen
      /\ run'[t].key = run[t].key /\ run'[t].replay = run[t].replay
      /\ run'[t].partial = run[t].partial /\ run'[t].kind = "completed"
      /\ rest = {} => /\ run'[t].at = AfterCall(t).at /\ run'[t].stage = AfterCall(t).stage
                      /\ run'[t].todo = AfterCall(t).todo
      /\ rest # {} => run'[t].at = "merge" /\ run'[t].stage = run[t].stage /\ run'[t].todo = rest
  <2>1. CASE rest = {}
    BY <2>1, <1>z DEF RepoDone, Run
  <2>2. CASE rest # {}
    <3>1. run' = [run EXCEPT ![t].at = "merge", ![t].stage = run[t].stage,
                             ![t].todo = rest, ![t].found = found, ![t].kind = "completed"]
      BY <2>2 DEF RepoDone
    <3> HIDE DEF rest
    <3> QED
      BY <2>2, <3>1, <1>z DEF Run
  <2> QED
    BY <2>1, <2>2
<1> USE CallFacts DEF CallInv, Forward
<1>a. run[t].stage \in {"baseline", "target"} /\ run[t].todo \subseteq Repos
  BY DEF Run
<1>1. \/ run'[t].at = "merge" /\ run'[t].stage = run[t].stage /\ run'[t].todo = rest /\ rest # {}
      \/ /\ rest = {} /\ run[t].stage = "target"
         /\ run'[t].at = "record"
      \/ /\ rest = {} /\ run[t].stage = "baseline"
         /\ run'[t].at = "resume" \/ (run'[t].at = "merge" /\ run'[t].todo = Repos)
         /\ run'[t].stage = "target"
  BY <1>0, <1>a DEF AfterCall
<1>2. \A b \in Branches : head'[b] \in Nat /\ version \in Nat
  BY DEF MergeTypeOK, Heads
<1>3. WorksForApproval(t)'
  BY <1>0, <1>1, <1>2 DEF WorksForApproval, Working
<1>4. SeenFits(t)'
  BY <1>0, <1>1 DEF SeenFits, Working
<1>5. TodoFits(t)'
  BY <1>1, MergeAssumption DEF TodoFits
<1>6. PushIsNew(t)'
  BY <1>1 DEF PushIsNew
<1>7. /\ run[t].stage = "baseline" => \A d \in Dual \ rest : fixed'[Baseline(d)]
      /\ run[t].stage = "target" => \A q \in Repos \ rest : fixed'[Target(q)]
  BY BranchFacts DEF DoneIsMerged, TargetsMerged
<1>8. BaselinesMerged => BaselinesMerged'
  BY BranchFacts DEF BaselinesMerged
<1>9. rest = {} /\ run[t].stage = "baseline" => BaselinesMerged'
  BY <1>7 DEF BaselinesMerged
<1>10. DoneIsMerged(t)'
  BY <1>0, <1>1, <1>7 DEF DoneIsMerged, TargetsMerged
<1>11. BaselinesBefore(t)'
  BY <1>0, <1>1, <1>8, <1>9 DEF BaselinesBefore
<1> QED
  BY <1>3, <1>4, <1>5, <1>6, <1>10, <1>11

-----------------------------------------------------------------------------
(***************************************************************************)
(* Every action preserves the invariant.                                   *)
(***************************************************************************)

(* Nothing that a step leaves in place moves. *)
LEMMA Untouched ==
    ASSUME MergeTypeOK, UNCHANGED <<head, fixed, approvals, version, status>>
    PROVE  Forward
<1>1. \A b \in Branches : head[b] <= head'[b]
  BY DEF MergeTypeOK, Heads
<1>2. version <= version'
  BY DEF MergeTypeOK
<1> QED
  BY <1>1, <1>2, Zenon DEF Forward

(* A step that writes a run and removes worktrees, or makes one on a head   *)
(* where the fix is not, keeps the types.                                   *)
LEMMA TypesOfCall ==
    ASSUME MergeTypeOK, NEW t \in Threads, NEW record \in Run,
           run' = [run EXCEPT ![t] = record],
           worktree' \in [Branches -> Heads \cup {None}],
           mutex' \in Threads \cup {None},
           UNCHANGED <<caseVars, remoteVars, processVars>>
    PROVE  MergeTypeOK'
<1>1. run' \in [Threads -> Run]
  BY DEF MergeTypeOK
<1> QED
  BY <1>1 DEF MergeTypeOK, caseVars, remoteVars, processVars

(* What a finished repository leaves of a run is a run. *)
LEMMA RepoDoneIsRun ==
    ASSUME MergeTypeOK, NEW t \in Threads, run[t].at \in {"merge", "push"},
           NEW found \in [Repos -> Heads \cup {None}],
           NEW r, RepoDone(t, r, found)
    PROVE  run' \in [Threads -> Run] /\ mutex' \in Threads \cup {None}
<1> DEFINE rest == run[t].todo \ {r}
<1>1. run \in [Threads -> Run] /\ run[t] \in Run
  BY DEF MergeTypeOK
<1>2. CASE rest = {}
  <2>1. /\ AfterCall(t).at \in {"record", "resume", "merge"}
        /\ AfterCall(t).stage \in {"baseline", "target"}
        /\ AfterCall(t).todo \in SUBSET Repos
    BY <1>1 DEF AfterCall
  <2>2. run' = [run EXCEPT ![t].at = AfterCall(t).at, ![t].stage = AfterCall(t).stage,
                           ![t].todo = AfterCall(t).todo, ![t].found = found,
                           ![t].kind = "completed"]
    BY <1>2 DEF RepoDone
  <2>3. [run[t] EXCEPT !.at = AfterCall(t).at, !.stage = AfterCall(t).stage,
                       !.todo = AfterCall(t).todo, !.found = found,
                       !.kind = "completed"] \in Run
    BY <1>1, <2>1 DEF Run, Kinds
  <2>4. run' \in [Threads -> Run]
    BY <1>1, <2>2, <2>3
  <2> QED
    BY <2>4, <1>2 DEF RepoDone
<1>3. CASE rest # {}
  <2>1. run' = [run EXCEPT ![t].at = "merge", ![t].stage = run[t].stage,
                           ![t].todo = rest, ![t].found = found, ![t].kind = "completed"]
    BY <1>3 DEF RepoDone
  <2>2. rest \in SUBSET Repos
    BY <1>1 DEF Run
  <2>3. mutex' = t
    BY <1>3 DEF RepoDone
  <2> HIDE DEF rest
  <2>4. [run[t] EXCEPT !.at = "merge", !.stage = run[t].stage,
                       !.todo = rest, !.found = found, !.kind = "completed"] \in Run
    BY <1>1, <2>2 DEF Run, Kinds
  <2>5. run' \in [Threads -> Run]
    BY <1>1, <2>1, <2>4
  <2> QED
    BY <2>5, <2>3
<1> QED
  BY <1>2, <1>3

LEMMA TypesOfRepoDone ==
    ASSUME MergeTypeOK, NEW t \in Threads, run[t].at \in {"merge", "push"},
           NEW found \in [Repos -> Heads \cup {None}],
           NEW r, RepoDone(t, r, found),
           worktree' \in [Branches -> Heads \cup {None}],
           UNCHANGED <<caseVars, remoteVars, processVars>>
    PROVE  MergeTypeOK'
  BY RepoDoneIsRun DEF MergeTypeOK, caseVars, remoteVars, processVars

(* A branch that is not found to have the fix does not have it. *)
LEMMA LocalMergeIsNew ==
    ASSUME StoreInv, NEW b \in Branches, NEW h \in Nat, ~AlreadyIn(b, h)
    PROVE  Unmerged(b, h)
<1>1. h # None
  BY MergeAssumption
<1> QED
  BY <1>1, Zenon DEF AlreadyIn, LocalMerge, Unmerged, StoreInv, WorktreeIsUnmerged

(* A call that fails. *)
LEMMA FailCallForm ==
    ASSUME MergeTypeOK, NEW t \in Threads, NEW kind, NEW found, FailCall(t, kind, found)
    PROVE  /\ mutex' = None
           /\ FailsAt(t, "reinspect", kind, found) \/ FailsAt(t, "record", kind, found)
<1>1. run \in [Threads -> Run] /\ run[t] \in Run
  BY DEF MergeTypeOK
<1>2. CASE run[t].stage = "target"
  BY <1>1, <1>2 DEF FailCall, FailsAt, Run
<1>3. CASE run[t].stage # "target"
  BY <1>1, <1>3 DEF FailCall, FailsAt, Run
<1> QED
  BY <1>2, <1>3

LEMMA EndCallForm ==
    ASSUME MergeTypeOK, NEW t \in Threads, NEW kind, EndCall(t, kind)
    PROVE  /\ mutex' = None
           /\ FailsAt(t, "record", kind, run[t].found)
<1>1. run \in [Threads -> Run] /\ run[t] \in Run
  BY DEF MergeTypeOK
<1> QED
  BY <1>1 DEF EndCall, FailsAt, Run

LEMMA MergeRepoKeeps ==
    ASSUME MergeInv, NEW t \in Threads, MergeRepo(t)
    PROVE  MergeInv'
<1> DEFINE r == NextRepo(t)
           b == BranchOf(run[t].stage, r)
           h == run[t].heads[b]
<1>1. /\ up /\ run[t].at = "merge" /\ GitFree(t)
      /\ UNCHANGED <<caseVars, remoteVars, processVars>>
  BY DEF MergeRepo
<1>2. /\ run \in [Threads -> Run] /\ run[t] \in Run
      /\ CallInv(t) /\ MergeTypeOK /\ StoreInv
      /\ r \in run[t].todo /\ r \in Repos
      /\ b \in Branches /\ h \in Nat /\ head[b] \in Nat
      /\ run[t].found \in [Repos -> Heads \cup {None}]
      /\ worktree \in [Branches -> Heads \cup {None}]
  BY <1>1, CallFacts DEF MergeTypeOK, Run
<1>3. Forward
  BY <1>1, <1>2, Untouched DEF caseVars, remoteVars
<1>4. UNCHANGED <<caseVars, version, status, studio, fixed, head, approvals>>
  BY <1>1 DEF caseVars, remoteVars
<1>5. \/ /\ AlreadyIn(b, h)
         /\ worktree' = [worktree EXCEPT ![b] = IF @ = h THEN None ELSE @]
         /\ RepoDone(t, r, run[t].found)
      \/ /\ Conflicts(b, h)
         /\ worktree' = [worktree EXCEPT ![b] = Cleaned(b, h)]
         /\ FailCall(t, "conflict", run[t].found)
      \/ /\ ~AlreadyIn(b, h) /\ ~Conflicts(b, h) /\ head[b] # h
         /\ worktree' = [worktree EXCEPT ![b] = Cleaned(b, h)]
         /\ EndCall(t, "stale")
      \/ /\ ~AlreadyIn(b, h) /\ ~Conflicts(b, h) /\ head[b] = h
         /\ worktree' = [worktree EXCEPT ![b] = h]
         /\ mutex' = t
         /\ run' = [run EXCEPT ![t].at = "push"]
      \/ /\ FailCall(t, "ambiguous", run[t].found)
         /\ UNCHANGED worktree
  BY DEF MergeRepo
<1>6. \/ worktree' = [worktree EXCEPT ![b] = IF @ = h THEN None ELSE @]
      \/ worktree' = [worktree EXCEPT ![b] = Cleaned(b, h)]
      \/ worktree' = [worktree EXCEPT ![b] = h] /\ head[b] = h /\ ~AlreadyIn(b, h)
      \/ UNCHANGED worktree
  BY <1>5
<1>7. worktree' \in [Branches -> Heads \cup {None}]
  BY <1>2, <1>6 DEF Cleaned, Heads
<1>8. ASSUME NEW c \in Branches
      PROVE  \/ worktree'[c] \in {worktree[c], None}
             \/ /\ worktree'[c] <= head[c] /\ Unmerged(c, worktree'[c])
                /\ \A q \in Repos : c = Target(q) => BaselinesMerged
  <2>1. CASE worktree'[c] \in {worktree[c], None}
    BY <2>1
  <2>2. CASE c = b /\ worktree' = [worktree EXCEPT ![b] = h] /\ head[b] = h /\ ~AlreadyIn(b, h)
    <3>1. worktree'[b] = h
      BY <1>2, <2>2
    <3>2. Unmerged(b, h)
      BY <1>2, <2>2, LocalMergeIsNew
    <3>3. \A q \in Repos : b = Target(q) => BaselinesMerged
      BY <1>1, <1>2, CallFacts, BranchFacts DEF CallInv, BaselinesBefore, Run
    <3> QED
      BY <1>2, <2>2, <3>1, <3>2, <3>3
  <2>3. CASE c # b \/ ~(worktree' = [worktree EXCEPT ![b] = h] /\ head[b] = h /\ ~AlreadyIn(b, h))
    BY <1>2, <1>6, <2>3 DEF Cleaned
  <2> QED
    BY <2>1, <2>2, <2>3
<1>9. ASSUME MergeTypeOK'  PROVE StoreInv'
  BY <1>2, <1>3, <1>4, <1>8, <1>9, StoreKept
<1>10. CASE AlreadyIn(b, h) /\ RepoDone(t, r, run[t].found)
  <2>1. fixed'[b]
    BY <1>4, <1>10 DEF AlreadyIn
  <2>2. MergeTypeOK'
    BY <1>1, <1>2, <1>7, <1>10, TypesOfRepoDone
  <2>3. CallInv(t)'
    BY <1>1, <1>2, <1>3, <1>4, <1>10, <2>1, <2>2, RepoDoneFacts
  <2>4. \A u \in Threads \ {t} : run'[u] = run[u]
    BY <1>2, <1>10 DEF RepoDone
  <2> QED
    BY <1>3, <1>9, <2>2, <2>3, <2>4, OneCall
<1>11. ASSUME NEW at \in {"reinspect", "record"}, NEW kind \in Failures,
              mutex' = None,
              FailsAt(t, at, kind, run[t].found)
       PROVE  MergeInv'
  <2>1. [run[t] EXCEPT !.at = at, !.kind = kind, !.found = run[t].found] \in Run
    BY <1>2, <1>11 DEF Run, Failures, Kinds
  <2>2. MergeTypeOK'
    BY <1>1, <1>2, <1>7, <1>11, <2>1, TypesOfCall DEF FailsAt
  <2>3. /\ run'[t] = [run[t] EXCEPT !.at = at, !.kind = kind, !.found = run[t].found]
        /\ \A u \in Threads \ {t} : run'[u] = run[u]
    BY <1>2, <1>11 DEF FailsAt
  <2>4. run[t].at \in Working
    BY <1>1 DEF Working
  <2>5. UNCHANGED <<version, status>>
    BY <1>4
  <2>6. CallInv(t)'
    BY <1>2, <1>3, <1>11, <2>2, <2>4, <2>5, CallFails
  <2> QED
    BY <1>3, <1>9, <2>2, <2>3, <2>6, OneCall
<1>12. CASE FailCall(t, "conflict", run[t].found)
  <2>1. "conflict" \in Failures
    BY DEF Failures
  <2> QED
    BY <1>2, <1>11, <1>12, <2>1, FailCallForm, Zenon
<1>13. CASE EndCall(t, "stale")
  <2>1. "stale" \in Failures /\ "record" \in {"reinspect", "record"}
    BY DEF Failures
  <2> QED
    BY <1>2, <1>11, <1>13, <2>1, EndCallForm, Zenon
<1>14. CASE FailCall(t, "ambiguous", run[t].found)
  <2>1. "ambiguous" \in Failures
    BY DEF Failures
  <2> QED
    BY <1>2, <1>11, <1>14, <2>1, FailCallForm, Zenon
<1>15. CASE /\ ~AlreadyIn(b, h) /\ head[b] = h
            /\ mutex' = t /\ run' = [run EXCEPT ![t].at = "push"]
  <2>1. [run[t] EXCEPT !.at = "push"] \in Run
    BY <1>2 DEF Run
  <2>2. run' = [run EXCEPT ![t] = [run[t] EXCEPT !.at = "push"]]
    BY <1>2, <1>15
  <2>3. MergeTypeOK'
    BY <1>1, <1>2, <1>7, <1>15, <2>1, <2>2, TypesOfCall
  <2>4. /\ run'[t] = [run[t] EXCEPT !.at = "push"]
        /\ \A u \in Threads \ {t} : run'[u] = run[u]
    BY <1>2, <2>2
  <2>5. Unmerged(b, h)
    BY <1>2, <1>15, LocalMergeIsNew
  <2>6. CallInv(t)'
    <3>1. /\ run'[t].at = "push" /\ run'[t].todo = run[t].todo /\ run'[t].stage = run[t].stage
          /\ run'[t].heads = run[t].heads /\ run'[t].seen = run[t].seen
          /\ run'[t].found = run[t].found
      BY <1>2, <2>4 DEF Run
    <3>2. NextRepo(t)' = r
      BY <3>1 DEF NextRepo
    <3>3. PushIsNew(t)'
      BY <1>4, <2>5, <3>1, <3>2 DEF PushIsNew, Unmerged, BranchOf
    <3>4. WorksForApproval(t)' /\ SeenFits(t)' /\ TodoFits(t)' /\ DoneIsMerged(t)'
      BY <1>1, <1>2, <1>4, <3>1
         DEF CallInv, WorksForApproval, SeenFits, TodoFits, DoneIsMerged, Working, TargetsMerged
    <3>5. BaselinesBefore(t)'
      BY <1>1, <1>2, <1>4, <3>1 DEF CallInv, BaselinesBefore, BaselinesMerged
    <3> QED
      BY <3>3, <3>4, <3>5 DEF CallInv
  <2> QED
    BY <1>3, <1>9, <2>3, <2>4, <2>6, OneCall
<1> QED
  BY <1>5, <1>10, <1>12, <1>13, <1>14, <1>15

(* A failing call leaves a run behind. *)
LEMMA FailsIsRun ==
    ASSUME MergeTypeOK, NEW t \in Threads, NEW at \in {"reinspect", "record"},
           NEW kind \in Failures, NEW found \in [Repos -> Heads \cup {None}],
           FailsAt(t, at, kind, found)
    PROVE  run' \in [Threads -> Run] /\ \A u \in Threads \ {t} : run'[u] = run[u]
<1>1. run \in [Threads -> Run] /\ run[t] \in Run
  BY DEF MergeTypeOK
<1>2. [run[t] EXCEPT !.at = at, !.kind = kind, !.found = found] \in Run
  BY <1>1 DEF Run, Failures, Kinds
<1> QED
  BY <1>1, <1>2 DEF FailsAt

LEMMA FailKeeps ==
    ASSUME MergeInv, MergeTypeOK', Forward, StoreInv', UNCHANGED <<version, status>>,
           NEW t \in Threads, run[t].at \in Working,
           NEW at \in {"reinspect", "record"}, NEW kind \in Failures,
           NEW found \in [Repos -> Heads \cup {None}],
           \A r \in Repos : found[r] # None => run[t].found[r] # None \/ BaselinesMerged,
           FailsAt(t, at, kind, found)
    PROVE  MergeInv'
<1>1. CallInv(t)'
  BY CallFails
<1>2. \A u \in Threads \ {t} : run'[u] = run[u]
  BY FailsIsRun DEF MergeInv
<1> QED
  BY <1>1, <1>2, OneCall

(* What a push leaves in place: the rest goes forward. *)
LEMMA PushGoesForward ==
    ASSUME MergeTypeOK, NEW b \in Branches, NEW h \in Nat, Unmerged(b, h),
           Land(b, h) \/ UNCHANGED remoteVars, UNCHANGED caseVars
    PROVE  /\ Forward
           /\ head' \in [Branches -> Heads]
           /\ fixed' \in [Branches -> BOOLEAN] /\ clash' \in [Branches -> BOOLEAN]
           /\ studio' \in [Branches -> Heads \cup {None}]
           /\ \A c \in Branches : studio'[c] # studio[c] => fixed'[c]
           /\ Land(b, h) => fixed'[b]
<1>1. CASE Land(b, h)
  <2>1. ~fixed[b]
    BY <1>1, Zenon DEF Land, Accepts, Unmerged
  <2>2. version <= version'
    BY DEF MergeTypeOK, caseVars
  <2>3. UNCHANGED <<approvals, version, status>>
    BY DEF caseVars
  <2> QED
    BY <1>1, <2>1, <2>2, <2>3, LandFacts, Zenon DEF Forward, Heads
<1>2. CASE ~Land(b, h)
  <2>1. UNCHANGED <<head, fixed, clash, studio, approvals, version, status>>
    BY <1>2 DEF caseVars, remoteVars
  <2> QED
    BY <1>2, <2>1, Untouched, Zenon DEF MergeTypeOK
<1> QED
  BY <1>1, <1>2

LEMMA PushRepoKeeps ==
    ASSUME MergeInv, NEW t \in Threads, PushRepo(t)
    PROVE  MergeInv'
<1> DEFINE r == NextRepo(t)
           b == BranchOf(run[t].stage, r)
           h == run[t].heads[b]
           found == IF run[t].stage = "target" THEN [run[t].found EXCEPT ![r] = h]
                    ELSE run[t].found
<1>1. /\ up /\ run[t].at = "push"
      /\ UNCHANGED <<caseVars, processVars>>
  BY DEF PushRepo
<1>2. /\ run \in [Threads -> Run] /\ run[t] \in Run
      /\ CallInv(t) /\ MergeTypeOK /\ StoreInv
      /\ r \in run[t].todo /\ r \in Repos
      /\ b \in Branches /\ h \in Nat
      /\ run[t].found \in [Repos -> Heads \cup {None}]
  BY <1>1, CallFacts DEF MergeTypeOK, Run
<1>3. Unmerged(b, h)
  BY <1>1, <1>2, Zenon DEF CallInv, PushIsNew
<1>4. found \in [Repos -> Heads \cup {None}]
  BY <1>2 DEF Heads
<1>5. \A q \in Repos : found[q] # None => run[t].found[q] # None \/ BaselinesMerged
  BY <1>1, <1>2 DEF CallInv, BaselinesBefore
<1>6. \/ /\ Land(b, h)
         /\ worktree' = [worktree EXCEPT ![b] = None]
         /\ RepoDone(t, r, found)
      \/ /\ Land(b, h) \/ UNCHANGED remoteVars
         /\ UNCHANGED worktree
         /\ FailCall(t, "ambiguous", found)
  BY DEF PushRepo
<1> HIDE DEF found
<1>7. /\ Forward
      /\ head' \in [Branches -> Heads]
      /\ fixed' \in [Branches -> BOOLEAN] /\ clash' \in [Branches -> BOOLEAN]
      /\ studio' \in [Branches -> Heads \cup {None}]
      /\ \A c \in Branches : studio'[c] # studio[c] => fixed'[c]
      /\ Land(b, h) => fixed'[b]
  BY <1>1, <1>2, <1>3, <1>6, PushGoesForward
<1>8. /\ worktree' \in [Branches -> Heads \cup {None}]
      /\ \A c \in Branches : worktree'[c] \in {worktree[c], None}
  BY <1>2, <1>6 DEF MergeTypeOK
<1>9. UNCHANGED <<version, status, approvals, events, commit, up, serving>>
  BY <1>1 DEF caseVars, processVars
<1>10. ASSUME MergeTypeOK'  PROVE StoreInv'
  BY <1>1, <1>2, <1>7, <1>8, <1>10, StoreKept
<1>11. CASE Land(b, h) /\ RepoDone(t, r, found)
  <2>1. run' \in [Threads -> Run] /\ mutex' \in Threads \cup {None}
    BY <1>1, <1>2, <1>4, <1>11, RepoDoneIsRun
  <2>2. MergeTypeOK'
    BY <1>2, <1>7, <1>8, <1>9, <2>1 DEF MergeTypeOK
  <2>3. CallInv(t)'
    BY <1>1, <1>4, <1>5, <1>7, <1>9, <1>11, <2>2, RepoDoneFacts
  <2>4. \A u \in Threads \ {t} : run'[u] = run[u]
    BY <1>2, <1>11 DEF RepoDone
  <2> QED
    BY <1>7, <1>10, <2>2, <2>3, <2>4, OneCall
<1>12. CASE FailCall(t, "ambiguous", found)
  <2>1. mutex' = None
    BY <1>2, <1>12, FailCallForm
  <2>2. "ambiguous" \in Failures
    BY DEF Failures
  <2>3. ASSUME NEW at \in {"reinspect", "record"}, FailsAt(t, at, "ambiguous", found)
        PROVE  MergeInv'
    <3>1. run' \in [Threads -> Run]
      BY <1>2, <1>4, <2>2, <2>3, FailsIsRun
    <3>2. MergeTypeOK'
      BY <1>2, <1>7, <1>8, <1>9, <2>1, <3>1 DEF MergeTypeOK
    <3>3. run[t].at \in Working
      BY <1>1 DEF Working
    <3> QED
      BY <1>4, <1>5, <1>7, <1>9, <1>10, <2>2, <2>3, <3>2, <3>3, FailKeeps
  <2> QED
    BY <1>2, <1>12, <2>3, FailCallForm, Zenon
<1> QED
  BY <1>6, <1>11, <1>12

(* Cleaning removes worktrees and makes none. *)
LEMMA CleanTargetsRemoves ==
    ASSUME MergeTypeOK, NEW t \in Threads, worktree' = CleanTargets(t)
    PROVE  /\ worktree' \in [Branches -> Heads \cup {None}]
           /\ \A b \in Branches : worktree'[b] \in {worktree[b], None}
<1>1. worktree \in [Branches -> Heads \cup {None}]
  BY DEF MergeTypeOK
<1>2. \A b \in Branches : \A h : Cleaned(b, h) \in {worktree[b], None}
  BY DEF Cleaned
<1> QED
  BY <1>1, <1>2, Zenon DEF CleanTargets

LEMMA ReinspectKeeps ==
    ASSUME MergeInv, NEW t \in Threads, Reinspect(t)
    PROVE  MergeInv'
<1>1. /\ run[t].at = "reinspect"
      /\ UNCHANGED <<caseVars, remoteVars, processVars, mutex>>
      /\ worktree' = CleanTargets(t) \/ UNCHANGED worktree
  BY DEF Reinspect
<1>2. /\ run \in [Threads -> Run] /\ run[t] \in Run
      /\ CallInv(t) /\ MergeTypeOK /\ StoreInv
      /\ run[t].found \in [Repos -> Heads \cup {None}]
      /\ run[t].kind \in Failures
  BY <1>1, CallFacts DEF MergeTypeOK, Run, CallInv, DoneIsMerged
<1>3. \E kind \in Failures : FailsAt(t, "record", kind, run[t].found)
  <2>1. "conflict" \in Failures
    BY DEF Failures
  <2>2. \/ run' = [run EXCEPT ![t].at = "record", ![t].kind = "conflict"]
        \/ run' = [run EXCEPT ![t].at = "record", ![t].kind = run[t].kind]
        \/ run' = [run EXCEPT ![t].at = "record"]
    BY <1>2 DEF Reinspect
  <2>3. FailsAt(t, "record", "conflict", run[t].found) \/ FailsAt(t, "record", run[t].kind, run[t].found)
    BY <1>2, <2>2 DEF FailsAt, Run
  <2> QED
    BY <1>2, <2>1, <2>3
<1>4. PICK kind \in Failures : FailsAt(t, "record", kind, run[t].found)
  BY <1>3
<1>5. /\ worktree' \in [Branches -> Heads \cup {None}]
      /\ \A b \in Branches : worktree'[b] \in {worktree[b], None}
  BY <1>1, <1>2, CleanTargetsRemoves DEF MergeTypeOK
<1>6. Forward /\ UNCHANGED <<version, status, studio, caseVars>>
  BY <1>1, <1>2, Untouched DEF caseVars, remoteVars
<1>7. run' \in [Threads -> Run]
  BY <1>2, <1>4, FailsIsRun
<1>8. MergeTypeOK'
  BY <1>1, <1>2, <1>5, <1>7 DEF MergeTypeOK, caseVars, remoteVars, processVars
<1>9. StoreInv'
  BY <1>2, <1>5, <1>6, <1>8, StoreKept
<1> QED
  BY <1>1, <1>2, <1>4, <1>6, <1>8, <1>9, FailKeeps DEF Working

-----------------------------------------------------------------------------

(* A call that begins: it has done nothing, or it inspects the targets.     *)
Begins(record) ==
    /\ record \in Run
    /\ record.at \in {"merge", "resume"}
    /\ record.at = "merge" =>
          \/ record.stage = "baseline" /\ record.todo = Dual /\ Dual # {}
          \/ record.stage = "target" /\ record.todo = Repos /\ Dual = {}

(* BeginMerge begins a call and keeps what it works for. *)
LEMMA BeginMergeBegins ==
    ASSUME NEW record \in Run
    PROVE  /\ Begins(BeginMerge(record))
           /\ BeginMerge(record).heads = record.heads /\ BeginMerge(record).seen = record.seen
           /\ BeginMerge(record).found = record.found
<1>1. Dual \subseteq Repos
  BY MergeAssumption
<1>2. CASE Dual # {}
  BY <1>1, <1>2 DEF BeginMerge, Begins, Run
<1>3. CASE Dual = {} /\ record.replay
  BY <1>3 DEF BeginMerge, Begins, Run
<1>4. CASE Dual = {} /\ ~record.replay
  BY <1>4 DEF BeginMerge, Begins, Run
<1> QED
  BY <1>2, <1>3, <1>4

LEMMA BeginKeeps ==
    ASSUME MergeInv, MergeTypeOK', Forward, StoreInv', NEW t \in Threads, NEW record,
           Begins(record), run' = [run EXCEPT ![t] = record],
           \A b \in Branches : record.heads[b] <= head'[b],
           \E a \in approvals' : a.heads = record.heads,
           record.seen <= version', status' = "merging",
           \A r \in Repos : record.found[r] # None => BaselinesMerged'
    PROVE  MergeInv'
<1>1. run'[t] = record /\ \A u \in Threads \ {t} : run'[u] = run[u]
  BY CallFacts
<1>2. WorksForApproval(t)' /\ SeenFits(t)'
  BY <1>1 DEF WorksForApproval, SeenFits, Begins
<1>3. TodoFits(t)'
  BY <1>1, MergeAssumption DEF TodoFits, Begins
<1>4. PushIsNew(t)'
  BY <1>1 DEF PushIsNew, Begins
<1>5. DoneIsMerged(t)'
  BY <1>1 DEF DoneIsMerged, Begins, TargetsMerged
<1>6. BaselinesBefore(t)'
  BY <1>1 DEF BaselinesBefore, Begins, BaselinesMerged
<1>7. CallInv(t)'
  BY <1>2, <1>3, <1>4, <1>5, <1>6 DEF CallInv
<1> QED
  BY <1>1, <1>7, OneCall

(* The record that a call starts from. *)
LEMMA IdleIsRun == Idle \in Run
<1>1. NoHeads \in [Branches -> Heads] /\ NoCommits \in [Repos -> Heads \cup {None}]
  BY DEF NoHeads, NoCommits, Heads
<1> QED
  BY <1>1 DEF Idle, Run, RecoveryKey, Kinds

(* A call that is over knows nothing. *)
LEMMA IdleCall ==
    ASSUME MergeTypeOK', NEW t \in Threads, run'[t] = Idle
    PROVE  CallInv(t)'
<1>1. /\ run'[t].at = "idle" /\ run'[t].seen = 0
      /\ \A b \in Branches : run'[t].heads[b] = 0
      /\ \A r \in Repos : run'[t].found[r] = None
  BY DEF Idle, NoHeads, NoCommits
<1>2. version' \in Nat /\ \A b \in Branches : head'[b] \in Nat
  BY DEF MergeTypeOK, Heads
<1>3. WorksForApproval(t)' /\ SeenFits(t)'
  BY <1>1, <1>2 DEF WorksForApproval, SeenFits, Working
<1>4. TodoFits(t)' /\ PushIsNew(t)' /\ DoneIsMerged(t)' /\ BaselinesBefore(t)'
  BY <1>1 DEF TodoFits, PushIsNew, DoneIsMerged, BaselinesBefore
<1> QED
  BY <1>3, <1>4 DEF CallInv

LEMMA ForgetKeeps ==
    ASSUME MergeInv, MergeTypeOK', Forward, StoreInv', NEW t \in Threads, Forget(t)
    PROVE  MergeInv'
<1>1. run'[t] = Idle /\ \A u \in Threads \ {t} : run'[u] = run[u]
  BY CallFacts DEF Forget
<1> QED
  BY <1>1, IdleCall, OneCall

LEMMA InspectHeadsKeeps ==
    ASSUME MergeInv, NEW t \in Threads, InspectHeads(t)
    PROVE  MergeInv'
<1> DEFINE record == [Idle EXCEPT !.at = "approving", !.key = version,
                                  !.seen = version, !.heads = head, !.found = commit]
<1>1. /\ status = "waiting_merge_approval" /\ run' = [run EXCEPT ![t] = record]
      /\ UNCHANGED <<caseVars, remoteVars, worktree, processVars, mutex>>
  BY DEF InspectHeads
<1>2. MergeTypeOK /\ StoreInv /\ run \in [Threads -> Run]
  BY CallFacts
<1>3. record \in Run
  BY <1>2, IdleIsRun DEF MergeTypeOK, Run
<1>4. /\ record.at = "approving" /\ record.key = version /\ record.seen = version
      /\ record.heads = head /\ record.found = commit
  BY DEF Idle
<1> HIDE DEF record
<1>5. MergeTypeOK'
  BY <1>1, <1>2, <1>3 DEF MergeTypeOK, caseVars, remoteVars, processVars
<1>6. Forward /\ UNCHANGED <<studio, worktree, head, fixed, version, status, commit>>
  BY <1>1, <1>2, Untouched DEF caseVars, remoteVars
<1>7. StoreInv'
  BY <1>1, <1>2, <1>5, <1>6, StoreKept
<1>8. run'[t] = record /\ \A u \in Threads \ {t} : run'[u] = run[u]
  BY <1>1, <1>2
<1>9. CallInv(t)'
  <2>1. version \in Nat /\ \A b \in Branches : head[b] \in Nat
    BY <1>2 DEF MergeTypeOK, Heads
  <2>2. WorksForApproval(t)' /\ SeenFits(t)'
    BY <1>1, <1>4, <1>6, <1>8, <2>1 DEF WorksForApproval, SeenFits, Working
  <2>3. TodoFits(t)' /\ PushIsNew(t)' /\ DoneIsMerged(t)'
    BY <1>4, <1>8 DEF TodoFits, PushIsNew, DoneIsMerged
  <2>4. BaselinesBefore(t)'
    BY <1>2, <1>4, <1>6, <1>8
       DEF BaselinesBefore, StoreInv, TargetsAfterBaselines, BaselinesMerged
  <2> QED
    BY <2>2, <2>3, <2>4 DEF CallInv
<1> QED
  BY <1>5, <1>6, <1>7, <1>8, <1>9, OneCall

(* A call that begins while its Case is merging. *)
LEMMA BeginWhileMerging ==
    ASSUME MergeInv, NEW t \in Threads, NEW record, Begins(record),
           run' = [run EXCEPT ![t] = record],
           UNCHANGED <<caseVars, remoteVars, worktree, processVars, mutex>>,
           status = "merging", record.seen = version, record.found = commit,
           \E a \in approvals : a.heads = record.heads
    PROVE  MergeInv'
<1>1. MergeTypeOK /\ StoreInv /\ run \in [Threads -> Run]
  BY CallFacts
<1>2. MergeTypeOK'
  BY <1>1 DEF MergeTypeOK, Begins, caseVars, remoteVars, processVars
<1>3. Forward /\ UNCHANGED <<studio, worktree, head, fixed, version, status, commit, approvals>>
  BY <1>1, Untouched DEF caseVars, remoteVars
<1>4. StoreInv'
  BY <1>1, <1>2, <1>3, StoreKept
<1>5. \A b \in Branches : record.heads[b] <= head'[b]
  BY <1>1, <1>3 DEF StoreInv, ApprovalsFit
<1>6. record.seen <= version'
  BY <1>1, <1>3 DEF MergeTypeOK
<1>7. \A r \in Repos : record.found[r] # None => BaselinesMerged'
  BY <1>1, <1>3 DEF StoreInv, TargetsAfterBaselines, BaselinesMerged
<1>8. (\E a \in approvals' : a.heads = record.heads) /\ status' = "merging"
  BY <1>3
<1> QED
  BY <1>2, <1>3, <1>4, <1>5, <1>6, <1>7, <1>8, BeginKeeps

LEMMA ReplayApprovalKeeps ==
    ASSUME MergeInv, NEW t \in Threads, ReplayApproval(t)
    PROVE  MergeInv'
<1>1. MergeTypeOK
  BY DEF MergeInv
<1>2. PICK a \in approvals :
         run' = [run EXCEPT ![t] =
                   BeginMerge([Idle EXCEPT !.key = a.key, !.seen = version, !.heads = a.heads,
                                           !.found = commit, !.replay = TRUE])]
  BY DEF ReplayApproval
<1> DEFINE record == [Idle EXCEPT !.key = a.key, !.seen = version, !.heads = a.heads,
                                  !.found = commit, !.replay = TRUE]
<1>3. /\ record \in Run /\ record.seen = version /\ record.heads = a.heads
      /\ record.found = commit
  BY <1>1, IdleIsRun DEF MergeTypeOK, Run
<1>4. run' = [run EXCEPT ![t] = BeginMerge(record)]
  BY <1>2
<1> HIDE DEF record
<1>5. /\ Begins(BeginMerge(record)) /\ BeginMerge(record).heads = a.heads
      /\ BeginMerge(record).seen = version /\ BeginMerge(record).found = commit
  BY <1>3, BeginMergeBegins
<1>6. status = "merging" /\ UNCHANGED <<caseVars, remoteVars, worktree, processVars, mutex>>
  BY DEF ReplayApproval
<1> QED
  BY <1>4, <1>5, <1>6, BeginWhileMerging

LEMMA RecoverMergeKeeps ==
    ASSUME MergeInv, RecoverMerge
    PROVE  MergeInv'
<1> DEFINE record == [Idle EXCEPT !.at = "resume", !.stage = "target", !.seen = version,
                                  !.heads = LatestApproval.heads, !.found = commit]
<1>1. MergeTypeOK /\ StoreInv
  BY DEF MergeInv
<1>2. /\ status = "merging" /\ run' = [run EXCEPT ![Pass] = record]
      /\ UNCHANGED <<caseVars, remoteVars, worktree, processVars, mutex>>
  BY DEF RecoverMerge
<1>3. LatestApproval \in approvals
  BY <1>1, <1>2, Zenon DEF StoreInv, ApprovalsFit, LatestApproval
<1>4. /\ record \in Run /\ record.seen = version /\ record.heads = LatestApproval.heads
      /\ record.found = commit /\ record.at = "resume"
  BY <1>1, <1>3, IdleIsRun DEF MergeTypeOK, Run
<1> HIDE DEF record
<1>5. Begins(record) /\ Pass \in Threads
  BY <1>4 DEF Begins, Threads
<1> QED
  BY <1>2, <1>3, <1>4, <1>5, BeginWhileMerging

LEMMA ReserveMergeKeeps ==
    ASSUME MergeInv, NEW t \in Threads, ReserveMerge(t)
    PROVE  MergeInv'
<1>1. /\ run[t].at = "approving"
      /\ UNCHANGED <<remoteVars, worktree, processVars, mutex>>
  BY DEF ReserveMerge
<1>2. /\ run \in [Threads -> Run] /\ run[t] \in Run
      /\ CallInv(t) /\ MergeTypeOK /\ StoreInv
      /\ version \in Nat /\ \A b \in Branches : head[b] \in Nat
  BY CallFacts DEF MergeTypeOK, Heads
<1>3. UNCHANGED <<head, fixed, clash, studio, worktree, up, serving, mutex>>
  BY <1>1 DEF remoteVars, processVars
<1>4. CASE version = run[t].seen
  <2> DEFINE approval == [key |-> run[t].key, heads |-> run[t].heads]
             record == [run[t] EXCEPT !.seen = version + 1]
  <2>1. /\ status' = "merging" /\ version' = version + 1
        /\ approvals' = approvals \cup {approval}
        /\ UNCHANGED <<events, commit>>
    BY <1>4 DEF ReserveMerge
  <2>2. run' = [run EXCEPT ![t] = BeginMerge(record)]
    BY <1>2, <1>4 DEF ReserveMerge
  <2>3. /\ record \in Run /\ record.seen = version + 1 /\ record.heads = run[t].heads
        /\ record.found = run[t].found
    <3>1. run[t] \in Run /\ version + 1 \in Nat
      BY <1>2
    <3> QED
      BY <3>1 DEF Run
  <2>4. approval \in [key : Nat, heads : [Branches -> Heads]] /\ approval.key = version
    BY <1>1, <1>2, <1>4 DEF Run, CallInv, SeenFits
  <2>5. approval.heads = run[t].heads
    OBVIOUS
  <2> HIDE DEF record, approval
  <2>6. /\ Begins(BeginMerge(record)) /\ BeginMerge(record).heads = run[t].heads
        /\ BeginMerge(record).seen = version + 1 /\ BeginMerge(record).found = run[t].found
    BY <2>3, BeginMergeBegins
  <2>7. MergeTypeOK'
    <3>1. run' \in [Threads -> Run]
      BY <1>2, <2>2, <2>6 DEF Begins
    <3>2. approvals' \subseteq [key : Nat, heads : [Branches -> Heads]]
      BY <1>2, <2>1, <2>4 DEF MergeTypeOK
    <3> QED
      BY <1>2, <1>3, <2>1, <3>1, <3>2 DEF MergeTypeOK
  <2>8. Forward
    <3>1. version <= version' /\ version' # version /\ \A b \in Branches : head[b] <= head'[b]
      BY <1>2, <1>3, <2>1
    <3> QED
      BY <1>3, <2>1, <3>1, Zenon DEF Forward
  <2>9. StoreInv'
    <3>1. ApprovalsFit'
      <4>1. \A a \in approvals' : a.key <= version'
        BY <1>2, <2>1, <2>4 DEF StoreInv, ApprovalsFit, MergeTypeOK
      <4>2. \E a \in approvals' : \A o \in approvals' : o.key <= a.key
        BY <1>2, <2>1, <2>4 DEF StoreInv, ApprovalsFit, MergeTypeOK
      <4>3. \A a \in approvals', b \in Branches : a.heads[b] <= head'[b]
        BY <1>2, <1>3, <2>1, <2>5 DEF StoreInv, ApprovalsFit, CallInv, WorksForApproval
      <4> QED
        BY <2>1, <4>1, <4>2, <4>3 DEF ApprovalsFit
    <3>2. StudioMerged' /\ WorktreeIsUnmerged'
      BY <1>2, <1>3 DEF StoreInv, StudioMerged, WorktreeIsUnmerged, Unmerged
    <3>3. TargetsAfterBaselines'
      BY <1>2, <1>3, <2>1 DEF StoreInv, TargetsAfterBaselines, BaselinesMerged
    <3>4. SubmittedIsMerged'
      BY <2>1 DEF SubmittedIsMerged
    <3> QED
      BY <3>1, <3>2, <3>3, <3>4 DEF StoreInv
  <2>10. \A b \in Branches : BeginMerge(record).heads[b] <= head'[b]
    BY <1>2, <1>3, <2>6 DEF CallInv, WorksForApproval
  <2>11. \E a \in approvals' : a.heads = BeginMerge(record).heads
    BY <2>1, <2>5, <2>6
  <2>12. BeginMerge(record).seen <= version'
    BY <1>2, <2>1, <2>6
  <2>13. \A r \in Repos : BeginMerge(record).found[r] # None => BaselinesMerged'
    BY <1>2, <1>3, <2>6 DEF CallInv, BaselinesBefore, BaselinesMerged
  <2> QED
    BY <2>1, <2>2, <2>6, <2>7, <2>8, <2>9, <2>10, <2>11, <2>12, <2>13, BeginKeeps
<1>5. CASE version # run[t].seen
  <2>1. Forget(t) /\ UNCHANGED caseVars
    BY <1>5 DEF ReserveMerge
  <2>2. UNCHANGED <<status, version, approvals, events, commit>>
    BY <2>1 DEF caseVars
  <2>3. MergeTypeOK'
    BY <1>2, <1>3, <2>1, <2>2, IdleIsRun DEF MergeTypeOK, Forget
  <2>4. Forward
    BY <1>2, <1>3, <2>2, Untouched
  <2>5. StoreInv'
    BY <1>2, <1>3, <2>1, <2>3, <2>4, StoreKept
  <2> QED
    BY <2>1, <2>3, <2>4, <2>5, ForgetKeeps
<1> QED
  BY <1>4, <1>5

-----------------------------------------------------------------------------

(* An inspection that finds no merged rest and no conflict: what was made   *)
(* locally is pushed, and the call remembers whether that is everything.    *)
Resumes(t, found, local, partial) ==
    run' = [run EXCEPT ![t] =
              [run[t] EXCEPT !.at = IF local = {} THEN "record" ELSE "resume_push",
                             !.kind = "ambiguous", !.todo = local, !.found = found,
                             !.partial = partial]]

LEMMA ResumesKeeps ==
    ASSUME MergeInv, MergeTypeOK', Forward, StoreInv', UNCHANGED <<version, status, head, fixed>>,
           NEW t \in Threads, run[t].at = "resume",
           NEW found \in [Repos -> Heads \cup {None}], NEW local \in SUBSET Repos,
           NEW partial \in BOOLEAN,
           \A r \in Repos : found[r] # None => BaselinesMerged,
           \A r \in local : found[r] # None /\ Unmerged(Target(r), run[t].heads[Target(r)]),
           ~partial => TargetsMerged(Repos \ local),
           Resumes(t, found, local, partial)
    PROVE  MergeInv'
<1>1. /\ run \in [Threads -> Run] /\ run[t] \in Run
      /\ CallInv(t) /\ MergeTypeOK /\ StoreInv
  BY CallFacts
<1>2. /\ run'[t] = [run[t] EXCEPT !.at = IF local = {} THEN "record" ELSE "resume_push",
                                  !.kind = "ambiguous", !.todo = local, !.found = found,
                                  !.partial = partial]
      /\ \A u \in Threads \ {t} : run'[u] = run[u]
  BY <1>1 DEF Resumes
<1>3. /\ run'[t].at = IF local = {} THEN "record" ELSE "resume_push"
      /\ run'[t].kind = "ambiguous" /\ run'[t].todo = local /\ run'[t].found = found
      /\ run'[t].partial = partial /\ run'[t].heads = run[t].heads
      /\ run'[t].seen = run[t].seen
  BY <1>1, <1>2 DEF Run
<1>4. WorksForApproval(t)'
  BY <1>1, <1>3 DEF CallInv, WorksForApproval, Working, Forward
<1>5. SeenFits(t)'
  BY <1>1, <1>3 DEF CallInv, SeenFits, Working
<1>6. TodoFits(t)'
  BY <1>3 DEF TodoFits
<1>7. PushIsNew(t)'
  BY <1>3 DEF PushIsNew, Unmerged
<1>8. DoneIsMerged(t)'
  <2>1. run'[t].at \in {"resume_push", "record"} /\ run'[t].kind \in Failures
    BY <1>3 DEF Failures
  <2> QED
    BY <1>3, <2>1 DEF DoneIsMerged, TargetsMerged, Failures
<1>9. BaselinesBefore(t)'
  BY <1>3 DEF BaselinesBefore, BaselinesMerged
<1> QED
  BY <1>2, <1>4, <1>5, <1>6, <1>7, <1>8, <1>9, OneCall DEF CallInv

LEMMA ResumesIsRun ==
    ASSUME MergeTypeOK, NEW t \in Threads,
           NEW found \in [Repos -> Heads \cup {None}], NEW local \in SUBSET Repos,
           NEW partial \in BOOLEAN, Resumes(t, found, local, partial)
    PROVE  run' \in [Threads -> Run]
<1>1. run \in [Threads -> Run] /\ run[t] \in Run
  BY DEF MergeTypeOK
<1>2. [run[t] EXCEPT !.at = IF local = {} THEN "record" ELSE "resume_push",
                     !.kind = "ambiguous", !.todo = local, !.found = found,
                     !.partial = partial] \in Run
  BY <1>1 DEF Run, Kinds
<1> QED
  BY <1>1, <1>2 DEF Resumes

LEMMA ResumeKeeps ==
    ASSUME MergeInv, NEW t \in Threads, Resume(t)
    PROVE  MergeInv'
<1> DEFINE found == [r \in Repos |-> IF Resumed(t, r) THEN run[t].heads[Target(r)]
                                     ELSE run[t].found[r]]
           local == { r \in Repos : ~In(t, r) /\ found[r] # None }
           partial == \E r \in Repos \ local : ~In(t, r)
<1>1. /\ run[t].at = "resume" /\ worktree' = CleanTargets(t)
      /\ UNCHANGED <<caseVars, remoteVars, processVars, mutex>>
  BY DEF Resume
<1>2. /\ run \in [Threads -> Run] /\ run[t] \in Run
      /\ CallInv(t) /\ MergeTypeOK /\ StoreInv
      /\ run[t].found \in [Repos -> Heads \cup {None}]
      /\ \A b \in Branches : run[t].heads[b] \in Nat
  BY CallFacts DEF Run
<1>3. /\ worktree' \in [Branches -> Heads \cup {None}]
      /\ \A b \in Branches : worktree'[b] \in {worktree[b], None}
  BY <1>1, <1>2, CleanTargetsRemoves
<1>4. Forward /\ UNCHANGED <<version, status, studio, head, fixed>>
  BY <1>1, <1>2, Untouched DEF caseVars, remoteVars
<1>5. ASSUME run' \in [Threads -> Run]  PROVE MergeTypeOK' /\ StoreInv'
  <2>1. MergeTypeOK'
    BY <1>1, <1>2, <1>3, <1>5 DEF MergeTypeOK, caseVars, remoteVars, processVars
  <2> QED
    BY <1>1, <1>2, <1>3, <1>4, <2>1, StoreKept
<1>6. \/ run' = [run EXCEPT ![t] = [run[t] EXCEPT !.at = "record", !.kind = "conflict"]]
      \/ /\ \A r \in Repos : In(t, r)
         /\ run' = [run EXCEPT ![t] = [run[t] EXCEPT !.at = "record", !.kind = "completed"]]
      \/ Resumes(t, found, local, partial)
  BY <1>2 DEF Resume, Resumes
<1>7. CASE run' = [run EXCEPT ![t] = [run[t] EXCEPT !.at = "record", !.kind = "conflict"]]
  <2>1. FailsAt(t, "record", "conflict", run[t].found)
    BY <1>2, <1>7 DEF FailsAt, Run
  <2>2. "conflict" \in Failures /\ run[t].at \in Working
    BY <1>1 DEF Failures, Working
  <2>3. run' \in [Threads -> Run]
    BY <1>2, <2>1, <2>2, FailsIsRun
  <2> QED
    BY <1>2, <1>4, <1>5, <2>1, <2>2, <2>3, FailKeeps
<1>8. CASE /\ \A r \in Repos : In(t, r)
           /\ run' = [run EXCEPT ![t] = [run[t] EXCEPT !.at = "record", !.kind = "completed"]]
  <2>1. [run[t] EXCEPT !.at = "record", !.kind = "completed"] \in Run
    BY <1>2 DEF Run, Kinds
  <2>2. /\ run'[t] = [run[t] EXCEPT !.at = "record", !.kind = "completed"]
        /\ \A u \in Threads \ {t} : run'[u] = run[u]
        /\ run' \in [Threads -> Run]
    BY <1>2, <1>8, <2>1
  <2>3. /\ run'[t].at = "record" /\ run'[t].heads = run[t].heads
        /\ run'[t].seen = run[t].seen /\ run'[t].found = run[t].found
        /\ run'[t].kind = "completed"
    BY <1>2, <2>2 DEF Run
  <2>4. TargetsMerged(Repos)'
    BY <1>4, <1>8 DEF In, AlreadyIn, TargetsMerged
  <2>5. WorksForApproval(t)' /\ SeenFits(t)'
    BY <1>1, <1>2, <1>4, <2>3 DEF CallInv, WorksForApproval, SeenFits, Working, Forward
  <2>6. TodoFits(t)' /\ PushIsNew(t)' /\ DoneIsMerged(t)'
    BY <2>3, <2>4 DEF TodoFits, PushIsNew, DoneIsMerged
  <2>7. BaselinesBefore(t)'
    BY <1>2, <1>4, <2>3 DEF CallInv, BaselinesBefore, BaselinesMerged
  <2> QED
    BY <1>4, <1>5, <2>2, <2>5, <2>6, <2>7, OneCall DEF CallInv
<1>9. CASE Resumes(t, found, local, partial)
  <2>1. found \in [Repos -> Heads \cup {None}]
    BY <1>2, BranchFacts DEF Heads
  <2>2. \A r \in Repos : found[r] # None => BaselinesMerged
    BY <1>2, BranchFacts, MergeAssumption
       DEF Resumed, LocalMerge, StoreInv, TargetsAfterBaselines, CallInv, BaselinesBefore
  <2>3. \A r \in local : found[r] # None /\ Unmerged(Target(r), run[t].heads[Target(r)])
    BY <1>2, BranchFacts, LocalMergeIsNew DEF In
  <2>4. ~partial => TargetsMerged(Repos \ local)
    BY DEF TargetsMerged, In, AlreadyIn
  <2>5. local \in SUBSET Repos /\ partial \in BOOLEAN
    OBVIOUS
  <2> HIDE DEF found, local, partial
  <2>6. run' \in [Threads -> Run]
    BY <1>2, <1>9, <2>1, <2>5, ResumesIsRun
  <2>7. MergeTypeOK' /\ StoreInv'
    BY <1>5, <2>6
  <2> QED
    BY <1>1, <1>4, <1>9, <2>1, <2>2, <2>3, <2>4, <2>5, <2>7, ResumesKeeps
<1> QED
  BY <1>6, <1>7, <1>8, <1>9

LEMMA ResumeUnavailableKeeps ==
    ASSUME MergeInv, NEW t \in Threads, ResumeUnavailable(t)
    PROVE  MergeInv'
<1>1. /\ run[t].at = "resume"
      /\ UNCHANGED <<caseVars, remoteVars, worktree, processVars, mutex>>
      /\ \/ run' = [run EXCEPT ![t].at = "record", ![t].kind = "ambiguous"]
         \/ Forget(t)
  BY DEF ResumeUnavailable
<1>2. /\ run \in [Threads -> Run] /\ run[t] \in Run /\ MergeTypeOK /\ StoreInv
      /\ run[t].found \in [Repos -> Heads \cup {None}]
  BY CallFacts DEF Run
<1>3. Forward /\ UNCHANGED <<version, status, studio, worktree>>
  BY <1>1, <1>2, Untouched DEF caseVars, remoteVars
<1>4. ASSUME run' \in [Threads -> Run]  PROVE MergeTypeOK' /\ StoreInv'
  <2>1. MergeTypeOK'
    BY <1>1, <1>2, <1>4 DEF MergeTypeOK, caseVars, remoteVars, processVars
  <2> QED
    BY <1>1, <1>2, <1>3, <2>1, StoreKept
<1>5. CASE run' = [run EXCEPT ![t].at = "record", ![t].kind = "ambiguous"]
  <2>1. FailsAt(t, "record", "ambiguous", run[t].found)
    BY <1>2, <1>5 DEF FailsAt, Run
  <2>2. "ambiguous" \in Failures /\ run[t].at \in Working
    BY <1>1 DEF Failures, Working
  <2>3. run' \in [Threads -> Run]
    BY <1>2, <2>1, <2>2, FailsIsRun
  <2> QED
    BY <1>2, <1>3, <1>4, <2>1, <2>2, <2>3, FailKeeps
<1>6. CASE Forget(t)
  <2>1. run' \in [Threads -> Run]
    BY <1>2, <1>6, IdleIsRun DEF Forget
  <2> QED
    BY <1>3, <1>4, <1>6, <2>1, ForgetKeeps
<1> QED
  BY <1>1, <1>5, <1>6

(* A repository of a resumed merge is done: it is in the branch.            *)
LEMMA PushedKeeps ==
    ASSUME MergeInv, MergeTypeOK', Forward, StoreInv', UNCHANGED <<version, status>>,
           NEW t \in Threads, run[t].at = "resume_push",
           Pushed(t, NextRepo(t)), fixed'[Target(NextRepo(t))]
    PROVE  MergeInv'
<1> DEFINE r == NextRepo(t)
           rest == run[t].todo \ {r}
<1>1. /\ run \in [Threads -> Run] /\ run[t] \in Run
      /\ CallInv(t) /\ MergeTypeOK /\ StoreInv /\ r \in run[t].todo /\ r \in Repos
      /\ \A b \in Branches : run[t].heads[b] \in Nat /\ head[b] \in Nat
  BY CallFacts
<1>2. run' = [run EXCEPT ![t].todo = rest,
                         ![t].at = IF rest = {} THEN "record" ELSE @,
                         ![t].kind = IF rest = {} /\ ~run[t].partial THEN "completed" ELSE @]
  BY DEF Pushed
<1>4. rest \subseteq run[t].todo /\ rest \subseteq Repos /\ Repos \ rest = (Repos \ run[t].todo) \cup {r}
  BY <1>1 DEF Run
<1> HIDE DEF rest
<1>3. /\ run'[t].todo = rest
      /\ run'[t].at = IF rest = {} THEN "record" ELSE "resume_push"
      /\ run'[t].kind = IF rest = {} /\ ~run[t].partial THEN "completed" ELSE run[t].kind
      /\ run'[t].heads = run[t].heads /\ run'[t].seen = run[t].seen
      /\ run'[t].found = run[t].found /\ run'[t].partial = run[t].partial
      /\ \A u \in Threads \ {t} : run'[u] = run[u]
  BY <1>1, <1>2 DEF Run
<1>5. \A b \in Branches : run[t].heads[b] \in Nat /\ head[b] \in Nat /\ head'[b] \in Nat
  BY <1>1 DEF MergeTypeOK, Heads
<1>6. WorksForApproval(t)'
  BY <1>1, <1>3, <1>5 DEF CallInv, WorksForApproval, Working, Forward
<1>7. SeenFits(t)'
  BY <1>1, <1>3 DEF CallInv, SeenFits, Working
<1>8. TodoFits(t)'
  BY <1>1, <1>3, <1>4 DEF CallInv, TodoFits
<1>9. PushIsNew(t)'
  <2>1. \A q \in rest : Unmerged(Target(q), run[t].heads[Target(q)])
    BY <1>1, <1>4 DEF CallInv, PushIsNew
  <2>2. ASSUME NEW b \in Branches, Unmerged(b, run[t].heads[b])
        PROVE  Unmerged(b, run[t].heads[b])'
    BY <1>1, <1>3, <1>5, <2>2 DEF Unmerged, CallInv, WorksForApproval, Forward
  <2>3. \A q \in rest : Unmerged(Target(q), run[t].heads[Target(q)])'
    BY <1>4, <2>1, <2>2, BranchFacts
  <2> QED
    BY <1>3, <2>3 DEF PushIsNew
<1>10. ~run[t].partial => \A q \in Repos \ rest : fixed'[Target(q)]
  BY <1>1, <1>4, BranchFacts DEF CallInv, DoneIsMerged, TargetsMerged, Forward
<1>11. DoneIsMerged(t)'
  <2>1. run[t].kind \in Failures
    BY <1>1 DEF CallInv, DoneIsMerged
  <2>2. CASE rest # {}
    BY <1>3, <1>10, <2>1, <2>2 DEF DoneIsMerged, TargetsMerged
  <2>3. CASE rest = {}
    <3>1. ~run[t].partial => \A q \in Repos : fixed'[Target(q)]
      BY <1>10, <2>3
    <3> QED
      BY <1>3, <2>1, <2>3, <3>1 DEF DoneIsMerged, TargetsMerged, Failures
  <2> QED
    BY <2>2, <2>3
<1>12. BaselinesBefore(t)'
  BY <1>1, <1>3, BranchFacts DEF CallInv, BaselinesBefore, BaselinesMerged, Forward
<1> QED
  BY <1>3, <1>6, <1>7, <1>8, <1>9, <1>11, <1>12, OneCall DEF CallInv

LEMMA PushedIsRun ==
    ASSUME MergeTypeOK, NEW t \in Threads, run[t].at = "resume_push", NEW r, Pushed(t, r)
    PROVE  run' \in [Threads -> Run] /\ mutex' \in Threads \cup {None}
<1> DEFINE rest == run[t].todo \ {r}
           at == IF rest = {} THEN "record" ELSE "resume_push"
           kind == IF rest = {} /\ ~run[t].partial THEN "completed" ELSE run[t].kind
<1>1. run \in [Threads -> Run] /\ run[t] \in Run
  BY DEF MergeTypeOK
<1>2. run' = [run EXCEPT ![t] = [run[t] EXCEPT !.todo = rest, !.at = at, !.kind = kind]]
  BY <1>1 DEF Pushed, Run
<1>3. mutex' \in Threads \cup {None}
  BY DEF Pushed
<1>4. rest \in SUBSET Repos /\ at \in {"record", "resume_push"} /\ kind \in Kinds
  BY <1>1 DEF Run, Kinds
<1> HIDE DEF rest, at, kind
<1>5. [run[t] EXCEPT !.todo = rest, !.at = at, !.kind = kind] \in Run
  BY <1>1, <1>4 DEF Run
<1> QED
  BY <1>1, <1>2, <1>3, <1>5

LEMMA ResumePushKeeps ==
    ASSUME MergeInv, NEW t \in Threads, ResumePush(t)
    PROVE  MergeInv'
<1> DEFINE r == NextRepo(t)
           b == Target(r)
           h == run[t].heads[b]
           m == run[t].found[r]
<1>1. run[t].at = "resume_push" /\ UNCHANGED <<caseVars, processVars>>
  BY DEF ResumePush
<1>2. /\ run \in [Threads -> Run] /\ run[t] \in Run
      /\ CallInv(t) /\ MergeTypeOK /\ StoreInv
      /\ r \in run[t].todo /\ r \in Repos
      /\ run[t].found \in [Repos -> Heads \cup {None}]
  BY <1>1, CallFacts DEF Run
<1>3. b \in Branches /\ h \in Nat /\ Unmerged(b, h) /\ m \in Nat
  <2>1. b \in Branches /\ m # None
    BY <1>1, <1>2, BranchFacts DEF CallInv, TodoFits
  <2>2. h \in Nat /\ Unmerged(b, h)
    BY <1>1, <1>2, <2>1, CallFacts DEF CallInv, PushIsNew
  <2> QED
    BY <1>2, <2>1, <2>2 DEF Heads
<1>4. \/ /\ studio[b] = m
         /\ worktree' = [worktree EXCEPT ![b] = IF @ = h THEN None ELSE @]
         /\ Pushed(t, r)
         /\ UNCHANGED remoteVars
      \/ EndCall(t, "stale") /\ UNCHANGED <<remoteVars, worktree>>
      \/ /\ head[b] = h /\ Land(b, m)
         /\ worktree' = [worktree EXCEPT ![b] = IF @ = h THEN None ELSE @]
         /\ Pushed(t, r)
      \/ /\ UNCHANGED remoteVars \/ (head[b] = h /\ Land(b, m))
         /\ EndCall(t, "ambiguous")
         /\ UNCHANGED worktree
  BY DEF ResumePush
<1>5. Land(b, m) /\ head[b] = h => Unmerged(b, m)
  BY <1>3 DEF Land, Accepts, Unmerged
<1>7. /\ Forward
      /\ head' \in [Branches -> Heads]
      /\ fixed' \in [Branches -> BOOLEAN] /\ clash' \in [Branches -> BOOLEAN]
      /\ studio' \in [Branches -> Heads \cup {None}]
      /\ \A c \in Branches : studio'[c] # studio[c] => fixed'[c]
      /\ Land(b, m) => fixed'[b]
  <2>1. CASE head[b] = h /\ Land(b, m)
    BY <1>1, <1>2, <1>3, <1>5, <2>1, PushGoesForward
  <2>2. CASE UNCHANGED remoteVars
    <3>1. UNCHANGED <<head, fixed, clash, studio, approvals, version, status>>
      BY <1>1, <2>2 DEF caseVars, remoteVars
    <3>2. Land(b, m) => fixed'[b] = TRUE
      BY <1>2, <1>3 DEF Land, MergeTypeOK
    <3> QED
      BY <1>2, <3>1, <3>2, Untouched, Zenon DEF MergeTypeOK
  <2> QED
    BY <1>4, <2>1, <2>2
<1>8. /\ worktree' \in [Branches -> Heads \cup {None}]
      /\ \A c \in Branches : worktree'[c] \in {worktree[c], None}
  BY <1>2, <1>4 DEF MergeTypeOK
<1>9. UNCHANGED <<version, status, approvals, events, commit, up, serving>>
  BY <1>1 DEF caseVars, processVars
<1>10. ASSUME run' \in [Threads -> Run], mutex' \in Threads \cup {None}
       PROVE  MergeTypeOK' /\ StoreInv'
  <2>1. MergeTypeOK'
    BY <1>2, <1>7, <1>8, <1>9, <1>10 DEF MergeTypeOK
  <2> QED
    BY <1>1, <1>2, <1>7, <1>8, <2>1, StoreKept
<1>11. CASE Pushed(t, r) /\ (Land(b, m) \/ (studio[b] = m /\ UNCHANGED remoteVars))
  <2>1. fixed'[b]
    <3>1. CASE Land(b, m)
      BY <1>7, <3>1
    <3>2. CASE studio[b] = m /\ UNCHANGED remoteVars
      <4>1. m # None
        BY <1>3, MergeAssumption
      <4>2. fixed' = fixed
        BY <3>2 DEF remoteVars
      <4> QED
        BY <1>2, <1>3, <3>2, <4>1, <4>2, Zenon DEF StoreInv, StudioMerged
    <3> QED
      BY <1>11, <3>1, <3>2
  <2>2. run' \in [Threads -> Run] /\ mutex' \in Threads \cup {None}
    BY <1>1, <1>2, <1>11, PushedIsRun
  <2> QED
    BY <1>1, <1>7, <1>9, <1>10, <1>11, <2>1, <2>2, PushedKeeps
<1>12. ASSUME NEW kind \in Failures, EndCall(t, kind)  PROVE MergeInv'
  <2>1. mutex' = None /\ FailsAt(t, "record", kind, run[t].found)
    BY <1>2, <1>12, EndCallForm
  <2>2. run' \in [Threads -> Run]
    BY <1>2, <2>1, FailsIsRun
  <2>3. run[t].at \in Working
    BY <1>1 DEF Working
  <2> QED
    BY <1>2, <1>7, <1>9, <1>10, <2>1, <2>2, <2>3, FailKeeps
<1>13. "stale" \in Failures /\ "ambiguous" \in Failures
  BY DEF Failures
<1> QED
  BY <1>4, <1>11, <1>12, <1>13

-----------------------------------------------------------------------------

(* An outcome is recorded of a call that says something. *)
LEMMA RecordOutcomeKeeps ==
    ASSUME MergeInv, NEW t \in Threads, RecordOutcome(t)
    PROVE  MergeInv'
<1> DEFINE kind == run[t].kind
<1>1. /\ run[t].at = "record" /\ Forget(t)
      /\ UNCHANGED <<remoteVars, worktree, up, mutex>>
      /\ serving' = (serving \/ (t = Pass /\ kind = "completed" /\ Recordable(t, kind)))
  BY DEF RecordOutcome
<1>2. /\ run \in [Threads -> Run] /\ run[t] \in Run
      /\ CallInv(t) /\ MergeTypeOK /\ StoreInv
      /\ version \in Nat /\ \A b \in Branches : head[b] \in Nat
  BY CallFacts DEF MergeTypeOK, Heads
<1>3. UNCHANGED <<head, fixed, clash, studio>>
  BY <1>1 DEF remoteVars
<1>4. run' \in [Threads -> Run]
  BY <1>1, <1>2, IdleIsRun DEF Forget
<1>5. serving' \in BOOLEAN
  BY <1>1, <1>2, Zenon DEF MergeTypeOK
<1>6. CASE Recordable(t, kind)
  <2>1. /\ status' = OutcomeStatus(kind) /\ version' = version + 1
        /\ events' = events \cup {<<run[t].key, kind>>}
        /\ commit' = run[t].found /\ UNCHANGED approvals
    BY <1>6 DEF RecordOutcome
  <2>2. status = "merging"
    BY <1>1, <1>2, <1>6 DEF Recordable, CallInv, SeenFits, Working
  <2>3. kind \in Failures \/ (kind = "completed" /\ TargetsMerged(Repos))
    BY <1>1, <1>2 DEF CallInv, DoneIsMerged
  <2>4. /\ OutcomeStatus(kind) \in {"submitted", "waiting_merge_approval", "merge_conflict", "merging"}
        /\ OutcomeStatus(kind) = "submitted" => TargetsMerged(Repos)
    BY <2>3 DEF OutcomeStatus, Failures
  <2>5. MergeTypeOK'
    <3>1. events' \subseteq Nat \X Kinds
      BY <1>2, <2>1 DEF MergeTypeOK, Run
    <3>2. commit' \in [Repos -> Heads \cup {None}] /\ version' \in Nat
      BY <1>2, <2>1 DEF Run
    <3> QED
      BY <1>1, <1>2, <1>3, <1>4, <1>5, <2>1, <2>4, <3>1, <3>2 DEF MergeTypeOK
  <2>6. Forward
    <3>1. version <= version' /\ version' # version /\ \A b \in Branches : head[b] <= head'[b]
      BY <1>2, <1>3, <2>1
    <3> QED
      BY <1>3, <2>1, <3>1, Zenon DEF Forward
  <2>7. StoreInv'
    <3>1. ApprovalsFit'
      <4>1. \A a \in approvals : a.key \in Nat
        BY <1>2 DEF MergeTypeOK
      <4>2. \A a \in approvals' : a.key <= version'
        BY <1>2, <2>1, <4>1 DEF StoreInv, ApprovalsFit
      <4> QED
        BY <1>2, <1>3, <2>1, <2>2, <4>2 DEF StoreInv, ApprovalsFit
    <3>2. StudioMerged' /\ WorktreeIsUnmerged'
      BY <1>1, <1>2, <1>3 DEF StoreInv, StudioMerged, WorktreeIsUnmerged, Unmerged
    <3>3. TargetsAfterBaselines'
      BY <1>1, <1>2, <1>3, <2>1
         DEF StoreInv, TargetsAfterBaselines, BaselinesMerged, CallInv, BaselinesBefore
    <3>4. SubmittedIsMerged'
      BY <1>3, <2>1, <2>4 DEF SubmittedIsMerged, TargetsMerged
    <3> QED
      BY <3>1, <3>2, <3>3, <3>4 DEF StoreInv
  <2> QED
    BY <1>1, <2>5, <2>6, <2>7, ForgetKeeps
<1>7. CASE ~Recordable(t, kind)
  <2>1. UNCHANGED caseVars
    BY <1>7 DEF RecordOutcome
  <2>2. UNCHANGED <<status, version, approvals, events, commit>>
    BY <2>1 DEF caseVars
  <2>3. MergeTypeOK'
    BY <1>1, <1>2, <1>3, <1>4, <1>5, <2>2 DEF MergeTypeOK
  <2>4. Forward
    BY <1>2, <1>3, <2>2, Untouched
  <2>5. StoreInv'
    BY <1>1, <1>2, <1>3, <2>1, <2>3, <2>4, StoreKept
  <2> QED
    BY <1>1, <2>3, <2>4, <2>5, ForgetKeeps
<1> QED
  BY <1>6, <1>7

(* Another command takes a version; it neither submits nor begins a merge.  *)
LEMMA CaseMoves ==
    ASSUME MergeInv, version' = version + 1,
           status' \in {status, "waiting_merge_approval", "reset_archived"},
           events' \subseteq Nat \X Kinds,
           UNCHANGED <<approvals, commit, remoteVars, worktree, processVars, mutex, run>>
    PROVE  MergeInv'
<1>1. /\ MergeTypeOK /\ StoreInv
      /\ version \in Nat /\ \A b \in Branches : head[b] \in Nat
  BY DEF MergeInv, MergeTypeOK, Heads
<1>2. UNCHANGED <<head, fixed, clash, studio, up, serving, worktree, approvals, commit, run, mutex>>
  BY DEF remoteVars, processVars
<1>3. MergeTypeOK'
  BY <1>1, <1>2 DEF MergeTypeOK
<1>4. Forward
  <2>1. version <= version' /\ version' # version /\ \A b \in Branches : head[b] <= head'[b]
    BY <1>1, <1>2
  <2> QED
    BY <1>2, <2>1, Zenon DEF Forward
<1>5. StoreInv'
  <2>1. \A a \in approvals : a.key \in Nat
    BY <1>1 DEF MergeTypeOK
  <2>2. \A a \in approvals' : a.key <= version'
    BY <1>1, <1>2, <2>1 DEF StoreInv, ApprovalsFit
  <2>3. status' = "merging" => status = "merging"
    OBVIOUS
  <2>4. ApprovalsFit'
    BY <1>1, <1>2, <2>2, <2>3 DEF StoreInv, ApprovalsFit
  <2>5. StudioMerged' /\ WorktreeIsUnmerged' /\ TargetsAfterBaselines'
    BY <1>1, <1>2
       DEF StoreInv, StudioMerged, WorktreeIsUnmerged, Unmerged, TargetsAfterBaselines, BaselinesMerged
  <2>6. SubmittedIsMerged'
    BY <1>1, <1>2 DEF StoreInv, SubmittedIsMerged
  <2> QED
    BY <2>4, <2>5, <2>6 DEF StoreInv
<1> QED
  BY <1>2, <1>3, <1>4, <1>5, NoCall

LEMMA StaleViewKeeps ==
    ASSUME MergeInv, NEW t \in Threads, StaleView(t)
    PROVE  MergeInv'
<1>1. /\ version' = version + 1 /\ status' = status
      /\ events' = events \cup {<<version, "stale">>}
      /\ UNCHANGED <<approvals, commit, remoteVars, worktree, processVars, mutex, run>>
  BY DEF StaleView
<1>2. events' \subseteq Nat \X Kinds
  BY <1>1 DEF MergeInv, MergeTypeOK, Kinds
<1> QED
  BY <1>1, <1>2, CaseMoves

LEMMA OtherCommandsKeep ==
    ASSUME MergeInv, ContinueAfterConflict \/ ResetCase
    PROVE  MergeInv'
<1>1. /\ version' = version + 1
      /\ status' \in {status, "waiting_merge_approval", "reset_archived"}
      /\ UNCHANGED <<events, approvals, commit, remoteVars, worktree, processVars, mutex, run>>
  BY DEF ContinueAfterConflict, ResetCase
<1>2. events' \subseteq Nat \X Kinds
  BY <1>1 DEF MergeInv, MergeTypeOK
<1> QED
  BY <1>1, <1>2, CaseMoves

(* The process: a pass is due or done, it dies, it starts again. *)
LEMMA ProcessKeeps ==
    ASSUME MergeInv, up' \in BOOLEAN, serving' \in BOOLEAN, mutex' \in Threads \cup {None},
           UNCHANGED <<caseVars, remoteVars, worktree>>,
           UNCHANGED run \/ run' = [t \in Threads |-> Idle]
    PROVE  MergeInv'
<1>1. /\ MergeTypeOK /\ StoreInv
      /\ UNCHANGED <<status, version, approvals, events, commit, head, fixed, clash, studio, worktree>>
  BY DEF MergeInv, caseVars, remoteVars
<1>2. run' \in [Threads -> Run]
  BY <1>1, IdleIsRun DEF MergeTypeOK
<1>3. MergeTypeOK'
  BY <1>1, <1>2 DEF MergeTypeOK
<1>4. Forward
  BY <1>1, Untouched
<1>5. StoreInv'
  BY <1>1, <1>3, <1>4, StoreKept
<1>6. CASE UNCHANGED run
  BY <1>3, <1>4, <1>5, <1>6, NoCall
<1>7. CASE run' = [t \in Threads |-> Idle]
  <2>1. \A t \in Threads : CallInv(t)'
    BY <1>3, <1>7, IdleCall
  <2> QED
    BY <1>3, <1>5, <2>1 DEF MergeInv
<1> QED
  BY <1>6, <1>7

LEMMA OutsidePushKeeps ==
    ASSUME MergeInv, NEW b \in Branches, OutsidePush(b)
    PROVE  MergeInv'
<1>1. /\ head' = [head EXCEPT ![b] = @ + 1]
      /\ \/ /\ clash' \in { [clash EXCEPT ![b] = x] : x \in BOOLEAN }
            /\ UNCHANGED fixed
         \/ fixed' = [fixed EXCEPT ![b] = TRUE] /\ clash' = [clash EXCEPT ![b] = FALSE]
      /\ UNCHANGED <<caseVars, studio, worktree, processVars, mutex, run>>
  BY DEF OutsidePush
<1>2. MergeTypeOK /\ StoreInv /\ version \in Nat
  BY DEF MergeInv, MergeTypeOK
<1>3. UNCHANGED <<status, version, approvals, events, commit, up, serving>>
  BY <1>1 DEF caseVars, processVars
<1>4. /\ head \in [Branches -> Nat] /\ fixed \in [Branches -> BOOLEAN]
      /\ clash \in [Branches -> BOOLEAN]
  BY <1>2 DEF MergeTypeOK, Heads
<1>5. head' \in [Branches -> Nat]
  BY <1>1, <1>4
<1>6. fixed' \in [Branches -> BOOLEAN] /\ clash' \in [Branches -> BOOLEAN]
  BY <1>1, <1>4
<1>7. MergeTypeOK'
  BY <1>1, <1>2, <1>3, <1>5, <1>6 DEF MergeTypeOK, Heads
<1>8. Forward
  <2>1. ASSUME NEW c \in Branches
        PROVE  head[c] <= head'[c] /\ (c = b => head'[c] # head[c])
    BY <1>1, <1>4
  <2>2. ASSUME NEW c \in Branches
        PROVE  (fixed[c] => fixed'[c]) /\ (c # b => fixed'[c] = fixed[c])
    <3>1. CASE fixed' = fixed
      BY <3>1
    <3>2. CASE fixed' = [fixed EXCEPT ![b] = TRUE]
      BY <1>4, <3>2
    <3> QED
      BY <1>1, <3>1, <3>2
  <2>3. version <= version
    BY <1>2
  <2> QED
    BY <1>3, <2>1, <2>2, <2>3, Zenon DEF Forward
<1>9. StoreInv'
  BY <1>1, <1>2, <1>7, <1>8, StoreKept
<1> QED
  BY <1>1, <1>7, <1>8, <1>9, NoCall

-----------------------------------------------------------------------------

LEMMA InitMergeInv == Init => MergeInv
<1> SUFFICES ASSUME Init PROVE MergeInv
  OBVIOUS
<1>1. NoHeads \in [Branches -> Heads] /\ NoCommits \in [Repos -> Heads \cup {None}]
  BY DEF NoHeads, NoCommits, Heads
<1>2. MergeTypeOK
  BY <1>1, IdleIsRun DEF Init, MergeTypeOK
<1>3. StoreInv
  BY BranchFacts DEF Init, NoCommits, StoreInv, ApprovalsFit, StudioMerged, WorktreeIsUnmerged,
         TargetsAfterBaselines, SubmittedIsMerged
<1>4. ASSUME NEW t \in Threads  PROVE CallInv(t)
  <2>1. /\ run[t].at = "idle" /\ run[t].seen = 0
        /\ \A b \in Branches : run[t].heads[b] = 0 /\ head[b] = 0
        /\ \A r \in Repos : run[t].found[r] = None
    BY DEF Init, Idle, NoHeads, NoCommits
  <2>2. WorksForApproval(t) /\ SeenFits(t)
    BY <2>1 DEF Init, WorksForApproval, SeenFits, Working
  <2>3. TodoFits(t) /\ PushIsNew(t) /\ DoneIsMerged(t) /\ BaselinesBefore(t)
    BY <2>1 DEF TodoFits, PushIsNew, DoneIsMerged, BaselinesBefore
  <2> QED
    BY <2>2, <2>3 DEF CallInv
<1> QED
  BY <1>2, <1>3, <1>4 DEF MergeInv

LEMMA NextMergeInv == MergeInv /\ [Next]_vars => MergeInv'
<1> SUFFICES ASSUME MergeInv, [Next]_vars PROVE MergeInv'
  OBVIOUS
<1>1. ASSUME NEW t \in Commands, Approving(t)  PROVE MergeInv'
  <2>1. t \in Threads
    BY DEF Threads
  <2> QED
    BY <1>1, <2>1, StaleViewKeeps, InspectHeadsKeeps, ReserveMergeKeeps, ReplayApprovalKeeps
       DEF Approving
<1>2. ASSUME NEW t \in Threads, Merging(t)  PROVE MergeInv'
  BY <1>2, MergeRepoKeeps, PushRepoKeeps, ReinspectKeeps, ResumeKeeps, ResumeUnavailableKeeps,
     ResumePushKeeps, RecordOutcomeKeeps DEF Merging
<1>3. CASE RecoverMerge
  BY <1>3, RecoverMergeKeeps
<1>4. CASE NothingToRecover \/ PassRequested \/ Restart
  <2>1. up \in BOOLEAN /\ serving \in BOOLEAN /\ mutex \in Threads \cup {None}
    BY DEF MergeInv, MergeTypeOK
  <2>2. /\ up' \in BOOLEAN /\ serving' \in BOOLEAN /\ mutex' \in Threads \cup {None}
        /\ UNCHANGED <<caseVars, remoteVars, worktree>> /\ UNCHANGED run
    BY <1>4, <2>1 DEF NothingToRecover, PassRequested, Restart
  <2> QED
    BY <2>2, ProcessKeeps
<1>5. CASE Crash
  <2>1. /\ up' \in BOOLEAN /\ serving' \in BOOLEAN /\ mutex' \in Threads \cup {None}
        /\ UNCHANGED <<caseVars, remoteVars, worktree>> /\ run' = [t \in Threads |-> Idle]
    BY <1>5 DEF Crash
  <2> QED
    BY <2>1, ProcessKeeps
<1>6. CASE ContinueAfterConflict \/ ResetCase
  BY <1>6, OtherCommandsKeep
<1>7. ASSUME NEW b \in Branches, OutsidePush(b)  PROVE MergeInv'
  BY <1>7, OutsidePushKeeps
<1>8. CASE UNCHANGED vars
  <2>1. up \in BOOLEAN /\ serving \in BOOLEAN /\ mutex \in Threads \cup {None}
    BY DEF MergeInv, MergeTypeOK
  <2>2. /\ up' \in BOOLEAN /\ serving' \in BOOLEAN /\ mutex' \in Threads \cup {None}
        /\ UNCHANGED <<caseVars, remoteVars, worktree>> /\ UNCHANGED run
    BY <1>8, <2>1 DEF vars, processVars
  <2> QED
    BY <2>2, ProcessKeeps
<1> QED
  BY <1>1, <1>2, <1>3, <1>4, <1>5, <1>6, <1>7, <1>8 DEF Next

(* MergeInv is inductive, so every reachable state of the merge is in it. *)
THEOREM MergeInvHolds == Spec => []MergeInv
  BY InitMergeInv, NextMergeInv, PTL DEF Spec

(***************************************************************************)
(* The properties, for every value of the constants.                       *)
(***************************************************************************)

(* Type correctness of the merge. *)
THEOREM MergeTypeCorrect == Spec => []MergeTypeOK
<1>1. MergeInv => MergeTypeOK
  BY DEF MergeInv
<1> QED
  BY <1>1, MergeInvHolds, PTL

(* A submitted Case is merged into every target branch, whatever answers    *)
(* were lost and wherever the process died (RecordMerge, ResumePush,        *)
(* resumeInspectedMerge).                                                   *)
THEOREM SubmittedCasesAreMerged == Spec => []SubmittedIsMerged
<1>1. MergeInv => SubmittedIsMerged
  BY DEF MergeInv, StoreInv
<1> QED
  BY <1>1, MergeInvHolds, PTL

(* A push of a call: to a branch of its stage that does not have the fix,   *)
(* still at the head that the call works from.                              *)
LEMMA PushFacts ==
    ASSUME MergeInv, NEW t \in Threads, Merging(t), studio' # studio
    PROVE  \E b \in Branches :
              /\ \A c \in Branches \ {b} : studio'[c] = studio[c]
              /\ head[b] = run[t].heads[b] /\ ~fixed[b]
              /\ run[t].at \in Working
              /\ \A r \in Repos : b = Target(r) => BaselinesMerged
<1>1. PushRepo(t) \/ ResumePush(t)
  BY DEF Merging, MergeRepo, Reinspect, Resume, ResumeUnavailable, RecordOutcome, remoteVars
<1>2. /\ MergeTypeOK /\ StoreInv /\ CallInv(t) /\ run[t] \in Run
      /\ studio \in [Branches -> Heads \cup {None}]
  BY CallFacts DEF MergeTypeOK
<1>3. CASE PushRepo(t)
  <2> DEFINE r == NextRepo(t)
             b == BranchOf(run[t].stage, r)
             h == run[t].heads[b]
  <2>1. run[t].at = "push" /\ Land(b, h)
    BY <1>3 DEF PushRepo, remoteVars
  <2>2. b \in Branches /\ h \in Nat
    BY <2>1, CallFacts
  <2>3. Unmerged(b, h)
    BY <1>2, <2>1, Zenon DEF CallInv, PushIsNew
  <2>4. head[b] = h /\ ~fixed[b]
    BY <2>1, <2>3, Zenon DEF Land, Accepts, Unmerged
  <2>5. \A c \in Branches \ {b} : studio'[c] = studio[c]
    BY <1>2, <2>1 DEF Land
  <2>6. \A q \in Repos : b = Target(q) => BaselinesMerged
    BY <1>2, <2>1, CallFacts, BranchFacts DEF CallInv, BaselinesBefore, Run
  <2> QED
    BY <2>1, <2>2, <2>4, <2>5, <2>6 DEF Working
<1>4. CASE ResumePush(t)
  <2> DEFINE r == NextRepo(t)
             b == Target(r)
             h == run[t].heads[b]
             m == run[t].found[r]
  <2>1. run[t].at = "resume_push" /\ head[b] = h /\ Land(b, m)
    BY <1>4 DEF ResumePush, EndCall, remoteVars
  <2>2. r \in run[t].todo /\ r \in Repos /\ b \in Branches
    BY <2>1, CallFacts, BranchFacts
  <2>3. run[t].found[r] # None /\ Unmerged(b, h)
    BY <1>2, <2>1, <2>2 DEF CallInv, TodoFits, PushIsNew
  <2>4. ~fixed[b]
    BY <2>1, <2>3, Zenon DEF Unmerged
  <2>5. \A c \in Branches \ {b} : studio'[c] = studio[c]
    BY <1>2, <2>1 DEF Land
  <2>6. BaselinesMerged
    BY <1>2, <2>2, <2>3 DEF CallInv, BaselinesBefore
  <2> QED
    BY <2>1, <2>2, <2>4, <2>5, <2>6 DEF Working
<1> QED
  BY <1>1, <1>3, <1>4

(* Only a call pushes. *)
LEMMA OnlyCallsPush ==
    ASSUME [Next]_vars, studio' # studio
    PROVE  \E t \in Threads : Merging(t)
  BY DEF Next, vars, remoteVars, Approving, StaleView, InspectHeads, ReserveMerge,
         ReplayApproval, RecoverMerge, NothingToRecover, PassRequested,
         ContinueAfterConflict, ResetCase, Crash, Restart, OutsidePush

(* Studio pushes to a branch only from the head that an approval names      *)
(* (ApproveMerge, recoverReservedMerge, recoverMergeWithoutAttempt).        *)
THEOREM PushesAreApproved == Spec => PushIsApproved
<1>1. MergeInv /\ [Next]_vars =>
        [\A b \in Branches : StudioPushes(b) => \E a \in approvals : a.heads[b] = head[b]]_vars
  <2> SUFFICES ASSUME MergeInv, [Next]_vars, NEW c \in Branches, StudioPushes(c)
               PROVE  \E a \in approvals : a.heads[c] = head[c]
    OBVIOUS
  <2>1. studio' # studio
    BY DEF StudioPushes
  <2>2. PICK t \in Threads : Merging(t)
    BY <2>1, OnlyCallsPush
  <2>3. head[c] = run[t].heads[c] /\ run[t].at \in Working
    BY <2>1, <2>2, PushFacts DEF StudioPushes
  <2> QED
    BY <2>3 DEF MergeInv, CallInv, WorksForApproval
<1> QED
  BY <1>1, MergeInvHolds, PTL DEF Spec, PushIsApproved

(* No branch gets the fix from Studio when it has it (ResumePush after a    *)
(* push whose answer was lost, mergeRepo after somebody else's merge).      *)
THEOREM NothingIsPushedTwice == Spec => PushedOnce
<1>1. MergeInv /\ [Next]_vars => [\A b \in Branches : StudioPushes(b) => ~fixed[b]]_vars
  <2> SUFFICES ASSUME MergeInv, [Next]_vars, NEW c \in Branches, StudioPushes(c)
               PROVE  ~fixed[c]
    OBVIOUS
  <2>1. studio' # studio
    BY DEF StudioPushes
  <2>2. PICK t \in Threads : Merging(t)
    BY <2>1, OnlyCallsPush
  <2> QED
    BY <2>1, <2>2, PushFacts DEF StudioPushes
<1> QED
  BY <1>1, MergeInvHolds, PTL DEF Spec, PushedOnce

(* The environment branches come after the baselines, on a first merge, on  *)
(* its replay and in recovery.                                              *)
THEOREM BaselinesComeFirst == Spec => BaselinesFirst
<1>1. MergeInv /\ [Next]_vars =>
        [\A r \in Repos : StudioPushes(Target(r)) => \A d \in Dual : fixed[Baseline(d)]]_vars
  <2> SUFFICES ASSUME MergeInv, [Next]_vars, NEW r \in Repos, StudioPushes(Target(r))
               PROVE  BaselinesMerged
    BY DEF BaselinesMerged
  <2>1. studio' # studio /\ Target(r) \in Branches
    BY BranchFacts DEF StudioPushes
  <2>2. PICK t \in Threads : Merging(t)
    BY <2>1, OnlyCallsPush
  <2>3. PICK b \in Branches :
              /\ \A c \in Branches \ {b} : studio'[c] = studio[c]
              /\ \A q \in Repos : b = Target(q) => BaselinesMerged
    BY <2>1, <2>2, PushFacts
  <2>4. b = Target(r)
    BY <2>1, <2>3 DEF StudioPushes
  <2> QED
    BY <2>3, <2>4
<1> QED
  BY <1>1, MergeInvHolds, PTL DEF Spec, BaselinesFirst

(* What a step does to the Case row: nothing, a step of the lifecycle, or   *)
(* an audit of a Case that is not over.                                     *)
LEMMA RowSteps ==
    ASSUME MergeInv, [Next]_vars
    PROVE  \/ UNCHANGED <<status, version>>
           \/ /\ version' = version + 1
              /\ <<status, status'>> \in
                   { <<"waiting_merge_approval", "merging">>, <<"merging", "submitted">>,
                     <<"merging", "waiting_merge_approval">>, <<"merging", "merge_conflict">>,
                     <<"merge_conflict", "waiting_merge_approval">> }
                 \/ status' = status \/ status' = "reset_archived"
              /\ ~IsTerminalCaseStatus(status)
<1>1. ASSUME NEW t \in Threads, ReserveMerge(t), ~UNCHANGED <<status, version>>
      PROVE  /\ version' = version + 1 /\ status = "waiting_merge_approval" /\ status' = "merging"
  BY <1>1, CallFacts DEF ReserveMerge, caseVars, CallInv, SeenFits
<1>2. ASSUME NEW t \in Threads, RecordOutcome(t), ~UNCHANGED <<status, version>>
      PROVE  /\ version' = version + 1 /\ status = "merging"
             /\ status' \in {"submitted", "waiting_merge_approval", "merge_conflict", "merging"}
  <2>1. Recordable(t, run[t].kind) /\ run[t].at = "record"
    BY <1>2 DEF RecordOutcome, caseVars
  <2>2. status' = OutcomeStatus(run[t].kind) /\ version' = version + 1
    BY <1>2, <2>1 DEF RecordOutcome
  <2>3. status = "merging" /\ (run[t].kind \in Failures \/ run[t].kind = "completed")
    BY <2>1, CallFacts DEF Recordable, CallInv, SeenFits, DoneIsMerged, Working
  <2> QED
    BY <2>2, <2>3 DEF OutcomeStatus, Failures
<1>3. ASSUME NEW t \in Threads, StaleView(t)
      PROVE  version' = version + 1 /\ status' = status /\ status = "waiting_merge_approval"
  BY <1>3 DEF StaleView
<1>4. ASSUME ContinueAfterConflict
      PROVE  /\ version' = version + 1 /\ status = "merge_conflict"
             /\ status' = "waiting_merge_approval"
  BY <1>4 DEF ContinueAfterConflict
<1>5. ASSUME ResetCase
      PROVE  version' = version + 1 /\ status' = "reset_archived" /\ ~IsTerminalCaseStatus(status)
  BY <1>5 DEF ResetCase
<1>6. \/ UNCHANGED <<status, version>>
      \/ \E t \in Threads : ReserveMerge(t) \/ RecordOutcome(t) \/ StaleView(t)
      \/ ContinueAfterConflict \/ ResetCase
  BY DEF Next, vars, caseVars, Threads, Approving, Merging, InspectHeads, ReplayApproval, MergeRepo,
         PushRepo, Reinspect, Resume, ResumeUnavailable, ResumePush, RecoverMerge,
         NothingToRecover, PassRequested, Crash, Restart, OutsidePush
<1>7. ~IsTerminalCaseStatus("waiting_merge_approval") /\ ~IsTerminalCaseStatus("merging")
      /\ ~IsTerminalCaseStatus("merge_conflict")
  BY DEF IsTerminalCaseStatus
<1> QED
  BY <1>1, <1>2, <1>3, <1>4, <1>5, <1>6, <1>7

(* The Case row walks the transition table of the store, one version for    *)
(* every mutation (workflow_transition.go): the merge implements the part   *)
(* of the lifecycle that is its own.                                        *)
THEOREM MergeImplementsLifecycle == Spec => MergeWalksTable
<1>1. MergeInv /\ [Next]_vars =>
        [\/ UNCHANGED <<status, version>>
         \/ Lifecycle!Advance("case") \/ Lifecycle!Audit("case")]_<<status, version>>
  <2> SUFFICES ASSUME MergeInv, [Next]_vars, ~UNCHANGED <<status, version>>
               PROVE  Lifecycle!Advance("case") \/ Lifecycle!Audit("case")
    OBVIOUS
  <2>1. /\ version' = version + 1
        /\ <<status, status'>> \in
             { <<"waiting_merge_approval", "merging">>, <<"merging", "submitted">>,
               <<"merging", "waiting_merge_approval">>, <<"merging", "merge_conflict">>,
               <<"merge_conflict", "waiting_merge_approval">> }
           \/ status' = status \/ status' = "reset_archived"
        /\ ~IsTerminalCaseStatus(status)
    BY RowSteps
  <2>2. status \in {"waiting_merge_approval", "merging", "merge_conflict"}
    BY <2>1 DEF MergeInv, MergeTypeOK, IsTerminalCaseStatus
  <2> DEFINE row == [c \in {"case"} |-> status]
             number == [c \in {"case"} |-> version]
  <2>3. number' = [number EXCEPT !["case"] = number["case"] + 1]
    BY <2>1
  <2>4. CASE status' = status
    <3>1. row["case"] # Lifecycle!Absent /\ ~Lifecycle!IsTerminalCaseStatus(row["case"])
      BY <2>1, <2>2 DEF Lifecycle!Absent, Lifecycle!IsTerminalCaseStatus, IsTerminalCaseStatus
    <3>2. row' = row
      BY <2>4
    <3> QED
      BY <2>3, <3>1, <3>2 DEF Lifecycle!Audit
  <2>5. CASE status' # status
    <3>1. row' = [row EXCEPT !["case"] = status']
      OBVIOUS
    <3>2. status' \in Lifecycle!Status /\ Lifecycle!Walk(status, status')
      BY <2>1, <2>2, <2>5
         DEF Lifecycle!Walk, Lifecycle!CanTransition, Lifecycle!AllowedCaseTransitions,
             Lifecycle!PassedThrough, Lifecycle!Status, Lifecycle!IsTerminalCaseStatus
    <3>3. Lifecycle!Walk(row["case"], status')
      BY <3>2
    <3> QED
      BY <2>3, <3>1, <3>2, <3>3 DEF Lifecycle!Advance
  <2> QED
    BY <2>4, <2>5
<1> QED
  BY <1>1, MergeInvHolds, PTL DEF Spec, MergeWalksTable
(* Whatever approvals, replays, crashes and pushes of others meet, the merge  *)
(* of a fix is done once, in order and completely.                            *)
THEOREM MergesAreKept == Spec => MergeIsKept
BY SubmittedCasesAreMerged, NothingIsPushedTwice, BaselinesComeFirst, MergeImplementsLifecycle, PTL
   DEF MergeIsKept

=============================================================================
