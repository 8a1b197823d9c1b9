--------------------------- MODULE MergeWorkflow ---------------------------
(***************************************************************************)
(* The merge of a fix into its branches: ApproveMerge of the orchestrator, *)
(* the replay of an approval, the recovery of a merging Case, and the Git  *)
(* integration service they drive (workflow_orchestrator.go,               *)
(* workflow_recovery.go, workflow_git.go).                                 *)
(*                                                                         *)
(* One Case, from waiting_merge_approval on.  Each repository of the fix   *)
(* has a target (environment) branch and, when the confirmed baseline is a *)
(* different branch, a baseline branch that is merged first.  The remotes  *)
(* belong to everybody: their branches move, receive the fix by hand or    *)
(* come to conflict with it between any two steps, and never move back.    *)
(* A commit is named by the head it was merged on.                         *)
(***************************************************************************)
EXTENDS Naturals, FiniteSets, CaseStatus

CONSTANTS Repos,        \* repositories of the fix, numbered in merge order
          Dual,         \* those whose baseline differs from the target branch
          Commands,     \* concurrent invocations of ApproveMerge
          Pass,         \* the recovery pass
          None,         \* no commit, no worktree, no holder
          MaxHead,      \* bound: others push to a branch only below it
          MaxVersion    \* bound: version up to which users issue commands

ASSUME MergeAssumption ==
    /\ Repos \subseteq Nat /\ Repos # {} /\ IsFiniteSet(Repos)
    /\ Dual \subseteq Repos
    /\ Pass \notin Commands /\ None \notin Commands \cup {Pass}
    /\ None \notin Nat
    /\ MaxHead \in Nat /\ MaxVersion \in Nat

VARIABLES
    \* the Case row, its merge approvals, the keys of its outcome events, and
    \* the merge commit recorded for each repository
    status, version, approvals, events, commit,
    \* the remotes: number of pushes, contains the fix, conflicts with it, and
    \* the head on which Studio's own merge landed
    head, fixed, clash, studio,
    \* the dedicated worktrees: the head a local merge commit was made on
    worktree,
    \* the process: running, passes are not pending, holder of the Git mutex
    up, serving, mutex,
    \* the command invocations and the recovery pass
    run

caseVars   == <<status, version, approvals, events, commit>>
remoteVars == <<head, fixed, clash, studio>>
processVars == <<up, serving>>
vars == <<caseVars, remoteVars, worktree, processVars, mutex, run>>

Baseline(r) == <<"baseline", r>>
Target(r) == <<"target", r>>
Branches == { Baseline(r) : r \in Dual } \cup { Target(r) : r \in Repos }
BranchOf(stage, r) == IF stage = "baseline" THEN Baseline(r) ELSE Target(r)

Threads == Commands \cup {Pass}

(* Recovery passes share one idempotency key; a command's key is the version *)
(* of the Case it was issued on.                                             *)
RecoveryKey == 0

NoHeads == [b \in Branches |-> 0]
NoCommits == [r \in Repos |-> None]
Idle == [at |-> "idle", key |-> RecoveryKey, seen |-> 0, heads |-> NoHeads,
         stage |-> "baseline", todo |-> {}, found |-> NoCommits,
         replay |-> FALSE, partial |-> FALSE, kind |-> "none"]

Init ==
    /\ status = "waiting_merge_approval" /\ version = 1
    /\ approvals = {} /\ events = {} /\ commit = NoCommits
    /\ head = NoHeads
    /\ fixed = [b \in Branches |-> FALSE]
    /\ clash \in [Branches -> BOOLEAN]
    /\ studio = [b \in Branches |-> None]
    /\ worktree = [b \in Branches |-> None]
    /\ up = TRUE /\ serving = TRUE /\ mutex = None
    /\ run = [t \in Threads |-> Idle]

-----------------------------------------------------------------------------
(***************************************************************************)
(* The Git integration service.  A call holds the service mutex and takes  *)
(* its repositories in order; it fails at the first that fails.            *)
(***************************************************************************)

NextRepo(t) == CHOOSE r \in run[t].todo : \A q \in run[t].todo : r <= q
GitFree(t) == mutex \in {None, t}

(* inspectRepo.  The worktree of a head that is gone is removed; a merge    *)
(* commit in the worktree of the approved head is found again.              *)
LocalMerge(b, h) == head[b] = h /\ worktree[b] = h
MergedLooksNew(b, h) == FALSE                 \* mutant: ancestry not asked
AlreadyIn(b, h) == ~LocalMerge(b, h) /\ fixed[b]
Conflicts(b, h) == ~LocalMerge(b, h) /\ ~fixed[b] /\ clash[b]
Cleaned(b, h) == IF worktree[b] = h /\ head[b] # h THEN None ELSE worktree[b]

(* The call ends and its thread goes on to record an outcome. *)
EndCall(t, kind) ==
    /\ mutex' = None
    /\ run' = [run EXCEPT ![t].at = "record", ![t].kind = kind]

(* An error of the target call, a conflict included, is inspected once more *)
(* before it is recorded.                                                   *)
FailCall(t, kind, found) ==
    /\ mutex' = None
    /\ run' = [run EXCEPT ![t].at = IF run[t].stage = "target" THEN "reinspect" ELSE "record",
                          ![t].kind = kind,
                          ![t].found = found]

(* The repository is done; after the last one the command takes its next    *)
(* step.  A replay inspects the targets before it touches them.             *)
AfterCall(t) ==
    IF run[t].stage = "target" THEN [at |-> "record", stage |-> "target", todo |-> {}]
    ELSE IF run[t].replay      THEN [at |-> "resume", stage |-> "target", todo |-> {}]
    ELSE [at |-> "merge", stage |-> "target", todo |-> Repos]

RepoDone(t, r, found) ==
    LET rest == run[t].todo \ {r}
        next == IF rest = {} THEN AfterCall(t)
                ELSE [at |-> "merge", stage |-> run[t].stage, todo |-> rest]
    IN /\ mutex' = IF rest = {} THEN None ELSE t
       /\ run' = [run EXCEPT ![t].at = next.at, ![t].stage = next.stage,
                             ![t].todo = next.todo, ![t].found = found,
                             ![t].kind = "completed"]

(* mergeRepo up to the local merge commit.  A branch that has the fix keeps *)
(* it, so the commit recorded for such a repository is not looked at again. *)
MergeRepo(t) ==
    /\ up /\ run[t].at = "merge" /\ GitFree(t)
    /\ LET r == NextRepo(t)
           b == BranchOf(run[t].stage, r)
           h == run[t].heads[b]
       IN \/ /\ AlreadyIn(b, h)
             /\ worktree' = [worktree EXCEPT ![b] = IF @ = h THEN None ELSE @]
             /\ RepoDone(t, r, run[t].found)
          \/ /\ Conflicts(b, h)
             /\ worktree' = [worktree EXCEPT ![b] = Cleaned(b, h)]
             /\ FailCall(t, "conflict", run[t].found)
          \/ /\ ~AlreadyIn(b, h) /\ ~Conflicts(b, h) /\ head[b] # h
             /\ worktree' = [worktree EXCEPT ![b] = Cleaned(b, h)]
             /\ EndCall(t, "stale")
          \/ /\ ~AlreadyIn(b, h) /\ ~Conflicts(b, h) /\ head[b] = h
             /\ worktree' = [worktree EXCEPT ![b] = h]
             /\ mutex' = t
             /\ run' = [run EXCEPT ![t].at = "push"]
          \/ /\ FailCall(t, "ambiguous", run[t].found)        \* remote unreadable
             /\ UNCHANGED worktree
    /\ UNCHANGED <<caseVars, remoteVars, processVars>>

(* What a push of a merge commit made on h does to a remote that accepts    *)
(* it: the push is not forced, so the branch must still be at h.            *)
ForcedPush(b, h) == h # None                  \* mutant: push --force
Accepts(b, h) == head[b] = h

Land(b, h) ==
    /\ Accepts(b, h)
    /\ head' = [head EXCEPT ![b] = @ + 1]
    /\ fixed' = [fixed EXCEPT ![b] = TRUE]
    /\ clash' = [clash EXCEPT ![b] = FALSE]
    /\ studio' = [studio EXCEPT ![b] = h]

(* The push of mergeRepo.  An error may hide a push the remote accepted;    *)
(* the worktree then stays.                                                 *)
PushRepo(t) ==
    /\ up /\ run[t].at = "push"
    /\ LET r == NextRepo(t)
           b == BranchOf(run[t].stage, r)
           h == run[t].heads[b]
           found == IF run[t].stage = "target" THEN [run[t].found EXCEPT ![r] = h]
                    ELSE run[t].found
       IN \/ /\ Land(b, h)
             /\ worktree' = [worktree EXCEPT ![b] = None]
             /\ RepoDone(t, r, found)
          \/ /\ Land(b, h) \/ UNCHANGED remoteVars
             /\ UNCHANGED worktree
             /\ FailCall(t, "ambiguous", found)
    /\ UNCHANGED <<caseVars, processVars>>

(* Inspect(request) after an error of the target call: a conflict anywhere  *)
(* in the request is recorded as one; an unreadable remote changes nothing. *)
TargetConflict(t) == \E r \in Repos : Conflicts(Target(r), run[t].heads[Target(r)])
CleanTargets(t) ==
    [b \in Branches |-> IF b[1] = "target" THEN Cleaned(b, run[t].heads[b]) ELSE worktree[b]]

Reinspect(t) ==
    /\ up /\ run[t].at = "reinspect" /\ mutex = None
    /\ \/ /\ worktree' = CleanTargets(t)
          /\ run' = [run EXCEPT ![t].at = "record",
                                ![t].kind = IF TargetConflict(t) THEN "conflict" ELSE @]
       \/ /\ UNCHANGED worktree
          /\ run' = [run EXCEPT ![t].at = "record"]
    /\ UNCHANGED <<caseVars, remoteVars, processVars, mutex>>

-----------------------------------------------------------------------------
(***************************************************************************)
(* ApproveMerge: the heads are inspected, the approval and the step to     *)
(* merging are one mutation, then the baselines and the targets are merged.*)
(***************************************************************************)

MayCommand == up /\ serving /\ version <= MaxVersion

(* The user approved heads that are not the heads of the targets any more. *)
StaleView(t) ==
    /\ MayCommand /\ run[t].at = "idle"
    /\ status = "waiting_merge_approval"
    /\ \E r \in Repos : head[Target(r)] # 0
    /\ version' = version + 1
    /\ events' = events \cup {<<version, "stale">>}
    /\ UNCHANGED <<status, approvals, commit, remoteVars, worktree, processVars, mutex, run>>

InspectHeads(t) ==
    /\ MayCommand /\ run[t].at = "idle" /\ mutex = None
    /\ status = "waiting_merge_approval"
    /\ run' = [run EXCEPT ![t] = [Idle EXCEPT !.at = "approving", !.key = version,
                                  !.seen = version, !.heads = head, !.found = commit]]
    /\ UNCHANGED <<caseVars, remoteVars, worktree, processVars, mutex>>

(* The first call of a reserved merge: the baselines, if there are any. *)
BeginAtTargets(record) ==                     \* mutant: baselines forgotten
    IF record.replay THEN [record EXCEPT !.at = "resume", !.stage = "target"]
    ELSE [record EXCEPT !.at = "merge", !.stage = "target", !.todo = Repos]
BeginMerge(record) ==
    IF Dual # {} THEN [record EXCEPT !.at = "merge", !.stage = "baseline", !.todo = Dual]
    ELSE IF record.replay THEN [record EXCEPT !.at = "resume", !.stage = "target"]
    ELSE [record EXCEPT !.at = "merge", !.stage = "target", !.todo = Repos]

Forget(t) == run' = [run EXCEPT ![t] = Idle]

ReserveMerge(t) ==
    /\ up /\ run[t].at = "approving"
    /\ IF version = run[t].seen
       THEN /\ status' = "merging"
            /\ version' = version + 1
            /\ approvals' = approvals \cup {[key |-> run[t].key, heads |-> run[t].heads]}
            /\ run' = [run EXCEPT ![t] = BeginMerge([@ EXCEPT !.seen = version + 1])]
            /\ UNCHANGED <<events, commit>>
       ELSE Forget(t) /\ UNCHANGED caseVars
    /\ UNCHANGED <<remoteVars, worktree, processVars, mutex>>

(* The same command again, while its Case is merging: recoverReservedMerge. *)
ReplayApproval(t) ==
    /\ up /\ serving /\ run[t].at = "idle" /\ status = "merging"
    /\ \E a \in approvals :
          run' = [run EXCEPT ![t] =
                    BeginMerge([Idle EXCEPT !.key = a.key, !.seen = version, !.heads = a.heads,
                                            !.found = commit, !.replay = TRUE])]
    /\ UNCHANGED <<caseVars, remoteVars, worktree, processVars, mutex>>

-----------------------------------------------------------------------------
(***************************************************************************)
(* resumeInspectedMerge: what an inspection of the targets says about a    *)
(* merge that was cut off.                                                 *)
(***************************************************************************)

Resumed(t, r) == LocalMerge(Target(r), run[t].heads[Target(r)])
In(t, r) == AlreadyIn(Target(r), run[t].heads[Target(r)])

(* Only the commits made locally and not pushed are pushed again. *)
Resume(t) ==
    /\ up /\ run[t].at = "resume" /\ mutex = None
    /\ LET found == [r \in Repos |-> IF Resumed(t, r) THEN run[t].heads[Target(r)]
                                     ELSE run[t].found[r]]
           local == { r \in Repos : ~In(t, r) /\ found[r] # None }
       IN run' = [run EXCEPT ![t] =
                    IF TargetConflict(t)
                    THEN [@ EXCEPT !.at = "record", !.kind = "conflict"]
                    ELSE IF \A r \in Repos : In(t, r)
                    THEN [@ EXCEPT !.at = "record", !.kind = "completed"]
                    ELSE [@ EXCEPT !.at = IF local = {} THEN "record" ELSE "resume_push",
                                   !.kind = "ambiguous",
                                   !.todo = local, !.found = found,
                                   !.partial = \E r \in Repos \ local : ~In(t, r)]]
    /\ worktree' = CleanTargets(t)
    /\ UNCHANGED <<caseVars, remoteVars, processVars, mutex>>

(* Recovery audits an inspection that fails; a replay only returns it. *)
ResumeUnavailable(t) ==
    /\ up /\ run[t].at = "resume" /\ mutex = None
    /\ IF t = Pass
       THEN run' = [run EXCEPT ![t].at = "record", ![t].kind = "ambiguous"]
       ELSE Forget(t)
    /\ UNCHANGED <<caseVars, remoteVars, worktree, processVars, mutex>>

PushedIsWhole(t, r) ==                        \* mutant: the rest not looked at
    LET rest == run[t].todo \ {r} IN
       /\ mutex' = IF rest = {} THEN None ELSE t
       /\ run' = [run EXCEPT ![t].todo = rest,
                             ![t].at = IF rest = {} THEN "record" ELSE @,
                             ![t].kind = IF rest = {} THEN "completed" ELSE @]
Pushed(t, r) ==
    LET rest == run[t].todo \ {r} IN
       /\ mutex' = IF rest = {} THEN None ELSE t
       /\ run' = [run EXCEPT ![t].todo = rest,
                             ![t].at = IF rest = {} THEN "record" ELSE @,
                             ![t].kind = IF rest = {} /\ ~run[t].partial
                                         THEN "completed" ELSE @]

(* ResumePush for one repository. *)
ResumePush(t) ==
    /\ up /\ run[t].at = "resume_push" /\ GitFree(t)
    /\ LET r == NextRepo(t)
           b == Target(r)
           h == run[t].heads[b]
           m == run[t].found[r]
       IN \/ /\ studio[b] = m                              \* it is in the branch
             /\ worktree' = [worktree EXCEPT ![b] = IF @ = h THEN None ELSE @]
             /\ Pushed(t, r)
             /\ UNCHANGED remoteVars
          \/ /\ studio[b] # m /\ head[b] # h
             /\ EndCall(t, "stale")
             /\ UNCHANGED <<remoteVars, worktree>>
          \/ /\ studio[b] # m /\ head[b] = h
             /\ Land(b, m)
             /\ worktree' = [worktree EXCEPT ![b] = IF @ = h THEN None ELSE @]
             /\ Pushed(t, r)
          \/ /\ \/ UNCHANGED remoteVars
                \/ studio[b] # m /\ head[b] = h /\ Land(b, m)
             /\ EndCall(t, "ambiguous")
             /\ UNCHANGED worktree
    /\ UNCHANGED <<caseVars, processVars>>

-----------------------------------------------------------------------------
(***************************************************************************)
(* The outcome mutations.  Each has a key of its own per command, and the  *)
(* version the command last saw; a second record under a key changes       *)
(* nothing, whatever it says.                                              *)
(***************************************************************************)

RecordableOnce(t, kind) ==                    \* mutant: version not compared
    <<run[t].key, kind>> \notin events
RecordableNow(t, kind) ==                     \* mutant: a pass shares a key for all
    /\ version = run[t].seen
    /\ \A e \in events : e[1] # run[t].key
Recordable(t, kind) ==
    /\ version = run[t].seen
    /\ <<run[t].key, kind>> \notin events

StaleIsFixFailed(kind) ==                     \* mutant: back to the fixer
    CASE kind = "completed" -> "submitted"
      [] kind = "stale"     -> "fix_failed"
      [] kind = "conflict"  -> "merge_conflict"
      [] kind = "ambiguous" -> "merging"
OutcomeStatus(kind) ==
    CASE kind = "completed" -> "submitted"
      [] kind = "stale"     -> "waiting_merge_approval"
      [] kind = "conflict"  -> "merge_conflict"
      [] kind = "ambiguous" -> "merging"

RecordOutcome(t) ==
    /\ up /\ run[t].at = "record"
    /\ LET kind == run[t].kind IN
          /\ IF Recordable(t, kind)
             THEN /\ status' = OutcomeStatus(kind)
                  /\ version' = version + 1
                  /\ events' = events \cup {<<run[t].key, kind>>}
                  /\ commit' = run[t].found
                  /\ UNCHANGED approvals
             ELSE UNCHANGED caseVars
          /\ serving' = (serving \/ (t = Pass /\ kind = "completed" /\ Recordable(t, kind)))
    /\ Forget(t)
    /\ UNCHANGED <<remoteVars, worktree, up, mutex>>

-----------------------------------------------------------------------------
(***************************************************************************)
(* The recovery pass and the other commands of the Case.                   *)
(***************************************************************************)

LatestApproval == CHOOSE a \in approvals : \A o \in approvals : o.key <= a.key

(* recoverMergeWithoutAttempt: the newest approval says what to inspect. *)
RecoverMerge ==
    /\ up /\ ~serving /\ run[Pass].at = "idle"
    /\ status = "merging"
    /\ run' = [run EXCEPT ![Pass] =
                 [Idle EXCEPT !.at = "resume", !.stage = "target", !.seen = version,
                              !.heads = LatestApproval.heads, !.found = commit]]
    /\ UNCHANGED <<caseVars, remoteVars, worktree, processVars, mutex>>

NothingToRecover ==
    /\ up /\ ~serving /\ run[Pass].at = "idle"
    /\ status # "merging"
    /\ serving' = TRUE
    /\ UNCHANGED <<caseVars, remoteVars, worktree, up, mutex, run>>

(* A fix of another Case could not be inspected: commands run a pass first. *)
PassRequested ==
    /\ up /\ serving
    /\ serving' = FALSE
    /\ UNCHANGED <<caseVars, remoteVars, worktree, up, mutex, run>>

(* ContinueWithEvidence on a conflict asks for a new approval. *)
ContinueAfterConflict ==
    /\ MayCommand /\ status = "merge_conflict"
    /\ status' = "waiting_merge_approval"
    /\ version' = version + 1
    /\ UNCHANGED <<approvals, events, commit, remoteVars, worktree, processVars, mutex, run>>

ResetCase ==
    /\ MayCommand /\ ~IsTerminalCaseStatus(status)
    /\ status' = "reset_archived"
    /\ version' = version + 1
    /\ UNCHANGED <<approvals, events, commit, remoteVars, worktree, processVars, mutex, run>>

Crash ==
    /\ up
    /\ up' = FALSE /\ serving' = FALSE /\ mutex' = None
    /\ run' = [t \in Threads |-> Idle]
    /\ UNCHANGED <<caseVars, remoteVars, worktree>>

Restart ==
    /\ ~up
    /\ up' = TRUE
    /\ UNCHANGED <<caseVars, remoteVars, worktree, serving, mutex, run>>

(* Somebody else pushes to a branch, with or without the fix. *)
OutsidePush(b) ==
    /\ head[b] < MaxHead
    /\ head' = [head EXCEPT ![b] = @ + 1]
    /\ \/ ~fixed[b] /\ clash' \in { [clash EXCEPT ![b] = x] : x \in BOOLEAN } /\ UNCHANGED fixed
       \/ fixed' = [fixed EXCEPT ![b] = TRUE] /\ clash' = [clash EXCEPT ![b] = FALSE]
    /\ UNCHANGED <<caseVars, studio, worktree, processVars, mutex, run>>

-----------------------------------------------------------------------------

Approving(t) == StaleView(t) \/ InspectHeads(t) \/ ReserveMerge(t) \/ ReplayApproval(t)
Merging(t) ==
    \/ MergeRepo(t) \/ PushRepo(t) \/ Reinspect(t)
    \/ Resume(t) \/ ResumeUnavailable(t) \/ ResumePush(t) \/ RecordOutcome(t)

Next ==
    \/ \E t \in Commands : Approving(t)
    \/ \E t \in Threads : Merging(t)
    \/ RecoverMerge \/ NothingToRecover \/ PassRequested
    \/ ContinueAfterConflict \/ ResetCase \/ Crash \/ Restart
    \/ \E b \in Branches : OutsidePush(b)

Spec == Init /\ [][Next]_vars

(***************************************************************************)
(* Once the process stays up its commands go on, a command of the          *)
(* interface (the Case list is one) runs a pending pass, and a remote that *)
(* is asked again and again answers and takes a push.                      *)
(***************************************************************************)
Fairness ==
    /\ WF_vars(Restart) /\ WF_vars(RecoverMerge) /\ WF_vars(NothingToRecover)
    /\ \A t \in Threads :
          /\ WF_vars(Merging(t)) /\ WF_vars(t \in Commands /\ ReserveMerge(t))
          /\ SF_vars(Resume(t))
          /\ SF_vars(ResumePush(t) /\ studio' # studio)

FairSpec == Spec /\ Fairness

-----------------------------------------------------------------------------
(***************************************************************************)
(* Properties.                                                             *)
(***************************************************************************)

Heads == Nat
Kinds == {"none", "completed", "stale", "conflict", "ambiguous"}
Run == [at : {"idle", "approving", "merge", "push", "reinspect", "resume",
              "resume_push", "record"},
        key : Nat, seen : Nat, heads : [Branches -> Heads],
        stage : {"baseline", "target"}, todo : SUBSET Repos,
        found : [Repos -> Heads \cup {None}],
        replay : BOOLEAN, partial : BOOLEAN, kind : Kinds]

(* Type invariant: the Case row, the remotes, the worktrees, the threads.  *)
MergeTypeOK ==
    /\ status \in {"waiting_merge_approval", "merging", "merge_conflict",
                  "submitted", "reset_archived"}
    /\ version \in Nat
    /\ approvals \subseteq [key : Nat, heads : [Branches -> Heads]]
    /\ events \subseteq Nat \X Kinds
    /\ commit \in [Repos -> Heads \cup {None}]
    /\ head \in [Branches -> Heads]
    /\ fixed \in [Branches -> BOOLEAN] /\ clash \in [Branches -> BOOLEAN]
    /\ studio \in [Branches -> Heads \cup {None}]
    /\ worktree \in [Branches -> Heads \cup {None}]
    /\ up \in BOOLEAN /\ serving \in BOOLEAN
    /\ mutex \in Threads \cup {None}
    /\ run \in [Threads -> Run]

StudioPushes(b) == studio'[b] # studio[b]

(* A Case is submitted only when every target branch contains the fix, even *)
(* after lost answers, cut-off merges and passes that meet a running merge. *)
SubmittedIsMerged ==
    status = "submitted" => \A r \in Repos : fixed[Target(r)]

(* Studio pushes to a branch only from a head that some approval of the     *)
(* Case names for that branch: no interleaving of outside pushes, replays   *)
(* and recoveries uses an approval for anything but the heads it was given  *)
(* for.                                                                     *)
PushIsApproved ==
    [][\A b \in Branches : StudioPushes(b) =>
          \E a \in approvals : a.heads[b] = head[b]]_vars

(* No branch gets the fix from Studio twice, nor after somebody else merged *)
(* it: a push whose answer was lost is recognised, not repeated.            *)
PushedOnce == [][\A b \in Branches : StudioPushes(b) => ~fixed[b]]_vars

(* Studio touches no environment branch before every confirmed baseline has *)
(* the fix, on the command, on its replay and in recovery.                  *)
BaselinesFirst ==
    [][\A r \in Repos : StudioPushes(Target(r)) =>
          \A d \in Dual : fixed[Baseline(d)]]_vars

(* The merge implements the lifecycle the store promises: the Case walks    *)
(* the transition table and every mutation takes one version.               *)
Lifecycle == INSTANCE CaseLifecycle WITH Cases <- {"case"},
                status <- [c \in {"case"} |-> status],
                version <- [c \in {"case"} |-> version]
MergeWalksTable ==
    [][\/ UNCHANGED <<status, version>>
       \/ Lifecycle!Advance("case") \/ Lifecycle!Audit("case")]_<<status, version>>

(* All of it: no branch gets the merge twice, baselines come before targets *)
(* and a submitted Case is merged in every repository.                      *)
MergeIsKept == []SubmittedIsMerged /\ PushedOnce /\ BaselinesFirst /\ MergeWalksTable

(* A merge whose pushes all reached the remotes ends: a recovery pass finds *)
(* them, however many answers were lost before.                             *)
PushedMergeIsSubmitted ==
    <>[]up => ((status = "merging" /\ ~serving /\ \A r \in Repos : fixed[Target(r)])
                  ~> status # "merging")

(* What the documentation says and the code does not do: submitted means    *)
(* that the approved code changes, the confirmed baselines among them, are  *)
(* merged and pushed.                                                       *)
SubmittedIsBaselined ==
    status = "submitted" => \A d \in Dual : fixed[Baseline(d)]

(* What the documentation says and the code does not do: an uncertain merge *)
(* stays recoverable, so the commands come back once the process stays up.  *)
MergeIsRecoverable == <>[]up => (~serving ~> serving)
=============================================================================
