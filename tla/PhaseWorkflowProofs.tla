------------------------ MODULE PhaseWorkflowProofs ------------------------
(***************************************************************************)
(* Proofs about PhaseWorkflow for every set of Cases and attempts.         *)
(*                                                                         *)
(* The safety invariants are not inductive one by one.  A completion       *)
(* applies whatever intent it finds, so the type of a Case status rests on *)
(* the phase of the intent, which rests on the pairing of the Case with    *)
(* its attempt; and that a pushed commit can be recovered rests on who     *)
(* still holds a claim.  PhaseInv is the conjunction every action          *)
(* preserves: the rows of the store paired with each other (Pairing) and   *)
(* the rows paired with what runs or lies outside the store (Bookkeeping). *)
(*                                                                         *)
(* What a single step may never do, and that every step is a step of       *)
(* CaseLifecycle, follows from PhaseInv in both states (second half).      *)
(***************************************************************************)
EXTENDS PhaseWorkflow, TLAPS

(* The current attempt of a Case is an attempt of that Case.               *)
CurrentIsOwn ==
    \A c \in Cases : current[c] # NoAttempt =>
       CaseOf[current[c]] = c /\ astatus[current[c]] # "absent"

(* While an attempt runs, its Case has the status of its phase, and a      *)
(* result it has recorded is one of that phase.                            *)
RunningFitsCase ==
    \A a \in Attempts : astatus[a] = "running" =>
       /\ status[CaseOf[a]] = StatusForPhase(phase[a])
       /\ output[a] \in OutcomesOf(phase[a]) \cup {"empty"}

Pairing ==
    /\ CurrentIsOwn
    /\ RunningFitsCase
    /\ OnlyCurrentAttemptRuns
    /\ StatusBackedByAttempt
    /\ FixIsApproved
    /\ MergeApprovalMeansPushed
    /\ CheckpointOfRunningFix

(* Nothing refers to an attempt that no mutation has created.              *)
AbsentIsUntouched ==
    \A a \in Attempts : astatus[a] = "absent" =>
       /\ worker[a] = "idle" /\ todo[a] = "no" /\ output[a] = "empty"
       /\ a \notin claim /\ a \notin manifest /\ a \notin pushed /\ a \notin orphan
       /\ a \notin cancelled /\ cancelling[a] = 0

(* Whoever is about to apply a result to a running attempt finds one, and  *)
(* only a fix is reserved for inspection.                                  *)
IntentIsRecorded ==
    \A a \in Attempts :
       /\ astatus[a] = "running" /\ (worker[a] = "completing" \/ todo[a] = "intent") =>
             output[a] # "empty"
       /\ todo[a] = "reserved" => phase[a] = "fix"

(* A claim is of a running attempt, a claimed fix has its checkpoint row,  *)
(* an agent of a running attempt holds the claim, a cancelled attempt does *)
(* not run, and nothing is on disk or on the remote before a run began.    *)
BeforeAgent == {"starting", "claimed", "failed", "ready"}
AgentHoldsClaim ==
    \A a \in Attempts :
       /\ a \in claim => astatus[a] = "running"
       /\ a \in claim /\ phase[a] = "fix" => a \in checkpoint
       /\ AgentRuns(a) /\ astatus[a] = "running" => a \in claim
       /\ a \in cancelled \/ cancelling[a] # 0 => astatus[a] # "running"
       /\ a \in orphan => worker[a] = "idle"
       /\ a \in manifest \/ a \in pushed \/ a \in orphan =>
             phase[a] = "fix" /\ worker[a] \notin BeforeAgent

Bookkeeping ==
    /\ AbsentIsUntouched
    /\ IntentIsRecorded
    /\ AgentHoldsClaim
    /\ PushedFixIsRecoverable

PhaseInv == TypeOK /\ Pairing /\ Bookkeeping

USE PhaseWorkflowAssumption
USE DEF Absent, Status, Phase, AttemptStatus, WorkerState, Outcome,
        InvestigationOutcome, FixOutcome, OutcomesOf, StatusForPhase,
        FailureStateForPhase, IsTerminalCaseStatus, NoGate, BeforeAgent

-----------------------------------------------------------------------------
(***************************************************************************)
(* What the building blocks of the mutations do to the invariant.          *)
(***************************************************************************)

(* Steps that neither move a Case nor change an attempt keep the pairing.  *)
LEMMA UntouchedKeepsPairing ==
  ASSUME Pairing, CheckpointOfRunningFix', pushed \subseteq pushed',
         UNCHANGED <<status, current, phase, parent, astatus, output, approved>>
  PROVE  Pairing'
BY DEF Pairing, CurrentIsOwn, RunningFitsCase, OnlyCurrentAttemptRuns,
       StatusBackedByAttempt, Backed, FixIsApproved, MergeApprovalMeansPushed

(* Beginning an attempt on a Case that runs none keeps the invariant, if a *)
(* fix descends from an approved root cause.                               *)
LEMMA BeginKeepsInv ==
  ASSUME PhaseInv, NEW c \in Cases, NEW a \in Fresh(c), NEW p \in Phase,
         NEW from \in Attempts \cup {NoAttempt},
         status[c] \notin {"investigating", "fixing"},
         CommitCase(c, StatusForPhase(p), a), BeginAttempt(a, p, from),
         approved \subseteq approved', approved' \subseteq Attempts,
         p = "fix" => /\ from \in approved' /\ CaseOf[from] = c
                      /\ astatus[from] = "succeeded" /\ output[from] = "root_cause_code",
         UNCHANGED <<inspected, remoteVars, processVars, seen, cancelled, cancelling, passVars>>
  PROVE  PhaseInv'
<1> USE DEF Fresh, CommitCase, BeginAttempt
<1>1. TypeOK'
  BY DEF PhaseInv, TypeOK, remoteVars, processVars, passVars
<1>2. CurrentIsOwn' /\ RunningFitsCase' /\ OnlyCurrentAttemptRuns'
  BY DEF PhaseInv, TypeOK, Pairing, CurrentIsOwn, RunningFitsCase, OnlyCurrentAttemptRuns,
         Bookkeeping, AbsentIsUntouched
<1>3. StatusBackedByAttempt' /\ MergeApprovalMeansPushed'
  BY DEF PhaseInv, TypeOK, Pairing, CurrentIsOwn, StatusBackedByAttempt, Backed,
         MergeApprovalMeansPushed, Bookkeeping, AbsentIsUntouched, remoteVars
<1>4. FixIsApproved' /\ CheckpointOfRunningFix'
  BY DEF PhaseInv, TypeOK, Pairing, FixIsApproved, CheckpointOfRunningFix
<1>5. Bookkeeping'
  BY DEF PhaseInv, TypeOK, Bookkeeping, AbsentIsUntouched, IntentIsRecorded,
         AgentHoldsClaim, AgentRuns, PushedFixIsRecoverable, Pairing, CheckpointOfRunningFix,
         remoteVars, passVars
<1>6. QED
  BY <1>1, <1>2, <1>3, <1>4, <1>5 DEF PhaseInv, Pairing

LEMMA SettleTypes ==
  ASSUME TypeOK, NEW a \in Attempts, NEW out \in Outcome, Settle(a, out)
  PROVE  /\ status' \in [Cases -> Status \cup {Absent}]
         /\ version' \in [Cases -> Nat]
         /\ current' \in [Cases -> Attempts \cup {NoAttempt}]
         /\ UNCHANGED <<phase, parent>>
         /\ astatus' \in [Attempts -> AttemptStatus]
         /\ output' \in [Attempts -> Outcome \cup {"empty"}]
         /\ claim' \subseteq Attempts /\ checkpoint' \subseteq Attempts
         /\ manifest' \subseteq Attempts
BY DEF TypeOK, Settle, FinishFixFailure, ApplyOutcome, FinishAttempt, CommitCase,
       OutcomeAttemptStatus, OutcomeCaseStatus

(* The Case a result is applied to gets the status the result stands for.  *)
LEMMA SettleKeepsPairing ==
  ASSUME TypeOK, Pairing, NEW a \in Attempts, astatus[a] = "running",
         NEW out \in OutcomesOf(phase[a]), Settle(a, out), UNCHANGED <<approved, pushed>>
  PROVE  Pairing'
<1> USE DEF FinishAttempt, CommitCase
<1>1. CASE out = "fix_pushed" /\ a \notin pushed
  <2>1. phase[a] = "fix" /\ FinishFixFailure(a)
    BY <1>1 DEF TypeOK, Settle
  <2>2. QED
    BY <2>1 DEF TypeOK, Pairing, CurrentIsOwn, RunningFitsCase, OnlyCurrentAttemptRuns,
       StatusBackedByAttempt, Backed, FixIsApproved, MergeApprovalMeansPushed,
       CheckpointOfRunningFix, FinishFixFailure
<1>2. CASE ~(out = "fix_pushed" /\ a \notin pushed)
  BY <1>2 DEF TypeOK, Pairing, CurrentIsOwn, RunningFitsCase, OnlyCurrentAttemptRuns,
     StatusBackedByAttempt, Backed, FixIsApproved, MergeApprovalMeansPushed,
     CheckpointOfRunningFix, Settle, ApplyOutcome, OutcomeAttemptStatus, OutcomeCaseStatus
<1>3. QED
  BY <1>1, <1>2

(* After a settlement the attempt no longer runs and holds nothing, so the *)
(* bookkeeping survives wherever the run or the pass forgets the attempt.  *)
LEMMA SettleKeepsBookkeeping ==
  ASSUME PhaseInv, NEW a \in Attempts, astatus[a] = "running", NEW out \in Outcome,
         Settle(a, out), UNCHANGED <<pushed, orphan, cancelling>>,
         \A b \in Attempts : worker'[b] = worker[b] \/ worker'[b] = "idle",
         \A b \in Attempts : todo'[b] = todo[b] \/ todo'[b] = "no",
         cancelled' \subseteq cancelled
  PROVE  Bookkeeping'
<1>1. /\ astatus' = [astatus EXCEPT ![a] = astatus'[a]]
      /\ astatus'[a] \notin {"running", "absent"}
      /\ output' = [output EXCEPT ![a] = output'[a]]
      /\ claim' = claim \ {a} /\ checkpoint' = checkpoint \ {a}
      /\ manifest' \in {manifest, manifest \ {a}}
      /\ UNCHANGED <<phase, parent>>
  BY DEF PhaseInv, TypeOK, Settle, FinishFixFailure, ApplyOutcome, FinishAttempt,
         OutcomeAttemptStatus
<1>2. AbsentIsUntouched' /\ IntentIsRecorded'
  BY <1>1 DEF PhaseInv, TypeOK, Bookkeeping, AbsentIsUntouched, IntentIsRecorded
<1>3. AgentHoldsClaim'
  BY <1>1 DEF PhaseInv, TypeOK, Bookkeeping, AgentHoldsClaim, AgentRuns
<1>4. PushedFixIsRecoverable'
  BY <1>1 DEF PhaseInv, TypeOK, Bookkeeping, PushedFixIsRecoverable
<1>5. QED
  BY <1>2, <1>3, <1>4 DEF Bookkeeping

-----------------------------------------------------------------------------
(***************************************************************************)
(* Commands of the user.                                                   *)
(***************************************************************************)

LEMMA CreateCaseInv ==
  ASSUME PhaseInv, NEW c \in Cases, CreateCase(c)  PROVE PhaseInv'
<1> USE DEF CreateCase, CommitCase
<1>1. TypeOK'
  BY DEF PhaseInv, TypeOK, attemptVars, auditVars, remoteVars, processVars, runnerVars, passVars
<1>2. CurrentIsOwn' /\ RunningFitsCase' /\ OnlyCurrentAttemptRuns'
  BY DEF PhaseInv, TypeOK, Pairing, CurrentIsOwn, RunningFitsCase,
         OnlyCurrentAttemptRuns, attemptVars
<1>3. StatusBackedByAttempt' /\ MergeApprovalMeansPushed'
  BY DEF PhaseInv, TypeOK, Pairing, StatusBackedByAttempt, Backed,
         MergeApprovalMeansPushed, attemptVars, remoteVars
<1>4. FixIsApproved' /\ CheckpointOfRunningFix'
  BY DEF PhaseInv, Pairing, FixIsApproved, CheckpointOfRunningFix, attemptVars, auditVars
<1>5. Bookkeeping'
  BY DEF PhaseInv, Bookkeeping, AbsentIsUntouched, IntentIsRecorded, AgentHoldsClaim,
         AgentRuns, PushedFixIsRecoverable, attemptVars, remoteVars, runnerVars, passVars
<1>6. QED
  BY <1>1, <1>2, <1>3, <1>4, <1>5 DEF PhaseInv, Pairing

LEMMA StartCaseInv ==
  ASSUME PhaseInv, NEW c \in Cases, StartCase(c)  PROVE PhaseInv'
<1>1. PICK a \in Fresh(c) :
         CommitCase(c, "investigating", a) /\ BeginAttempt(a, "investigation", NoAttempt)
  BY DEF StartCase
<1>2. QED
  BY <1>1, BeginKeepsInv DEF StartCase, auditVars, PhaseInv, TypeOK

LEMMA ApproveFixInv ==
  ASSUME PhaseInv, NEW c \in Cases, ApproveFix(c)  PROVE PhaseInv'
<1> DEFINE root == current[c]
<1>1. PICK a \in Fresh(c) : CommitCase(c, "fixing", a) /\ BeginAttempt(a, "fix", root)
  BY DEF ApproveFix
<1>2. root \in Attempts /\ CaseOf[root] = c
  BY DEF PhaseInv, TypeOK, Pairing, CurrentIsOwn, ApproveFix
<1>3. QED
  BY <1>1, <1>2, BeginKeepsInv DEF ApproveFix, PhaseInv, TypeOK

LEMMA ContinueWithEvidenceInv ==
  ASSUME PhaseInv, NEW c \in Cases, ContinueWithEvidence(c)  PROVE PhaseInv'
<1> DEFINE previous == current[c]
           p == IF status[c] = "fix_failed" THEN "fix" ELSE "investigation"
<1>1. PICK a \in Fresh(c) : /\ CommitCase(c, StatusForPhase(p), a)
                            /\ BeginAttempt(a, p, ContinuationParent(previous))
  BY DEF ContinueWithEvidence
<1>2. /\ previous \in Attempts /\ CaseOf[previous] = c /\ astatus[previous] # "absent"
      /\ phase[previous] = p
  BY DEF PhaseInv, TypeOK, Pairing, CurrentIsOwn, ContinueWithEvidence
<1>3. /\ ContinuationParent(previous) \in Attempts \cup {NoAttempt}
      /\ p = "fix" => /\ ContinuationParent(previous) \in approved
                      /\ CaseOf[ContinuationParent(previous)] = c
                      /\ astatus[ContinuationParent(previous)] = "succeeded"
                      /\ output[ContinuationParent(previous)] = "root_cause_code"
  BY <1>2 DEF PhaseInv, TypeOK, Pairing, FixIsApproved, ContinuationParent
<1>4. status[c] \notin {"investigating", "fixing"}
  BY DEF ContinueWithEvidence
<1>5. p \in Phase
  OBVIOUS
<1>6. QED
  BY <1>1, <1>3, <1>4, <1>5, BeginKeepsInv
     DEF ContinueWithEvidence, auditVars, PhaseInv, TypeOK

(* A disputed or reconsidered root cause is investigated again.            *)
LEMMA ReopenInv ==
  ASSUME PhaseInv, NEW c \in Cases, NEW root \in Attempts, Reopen(c, root),
         status[c] \notin {"investigating", "fixing"}
  PROVE  PhaseInv'
<1>1. PICK a \in Fresh(c) :
         CommitCase(c, "investigating", a) /\ BeginAttempt(a, "investigation", root)
  BY DEF Reopen
<1>2. QED
  BY <1>1, BeginKeepsInv DEF Reopen, auditVars, PhaseInv, TypeOK

LEMMA DisputeRootCauseInv ==
  ASSUME PhaseInv, NEW c \in Cases, DisputeRootCause(c)  PROVE PhaseInv'
BY ReopenInv DEF DisputeRootCause, PhaseInv, TypeOK

LEMMA ReconsiderRemediationInv ==
  ASSUME PhaseInv, NEW c \in Cases, ReconsiderRemediation(c)  PROVE PhaseInv'
<1>1. PICK root \in Attempts :
         Reopen(c, root) /\ status[c] \in {"waiting_fix_approval", "waiting_merge_approval"}
  BY DEF PhaseInv, TypeOK, ReconsiderRemediation
<1>2. QED
  BY <1>1, ReopenInv

LEMMA CompleteRemediationInv ==
  ASSUME PhaseInv, NEW c \in Cases, CompleteRemediation(c)  PROVE PhaseInv'
<1> USE DEF CompleteRemediation, CommitCase
<1>1. TypeOK'
  BY DEF PhaseInv, TypeOK, attemptVars, auditVars, remoteVars, processVars, runnerVars, passVars
<1>2. Pairing'
  BY DEF PhaseInv, TypeOK, Pairing, CurrentIsOwn, RunningFitsCase, OnlyCurrentAttemptRuns,
         StatusBackedByAttempt, Backed, FixIsApproved, MergeApprovalMeansPushed,
         CheckpointOfRunningFix, attemptVars, auditVars, remoteVars
<1>3. Bookkeeping'
  BY DEF PhaseInv, Bookkeeping, AbsentIsUntouched, IntentIsRecorded, AgentHoldsClaim,
         AgentRuns, PushedFixIsRecoverable, attemptVars, remoteVars, runnerVars, passVars
<1>4. QED
  BY <1>1, <1>2, <1>3 DEF PhaseInv

LEMMA CancelAttemptInv ==
  ASSUME PhaseInv, NEW c \in Cases, CancelAttempt(c)  PROVE PhaseInv'
<1> USE DEF CancelAttempt, Finishable, FinishAttempt, CommitCase
<1>1. TypeOK'
  BY DEF PhaseInv, TypeOK, auditVars, remoteVars, processVars, passVars
<1>2. Pairing'
  BY DEF PhaseInv, TypeOK, Pairing, CurrentIsOwn, RunningFitsCase, OnlyCurrentAttemptRuns,
         StatusBackedByAttempt, Backed, FixIsApproved, MergeApprovalMeansPushed,
         CheckpointOfRunningFix, auditVars, remoteVars
<1>3. Bookkeeping'
  BY DEF PhaseInv, TypeOK, Bookkeeping, AbsentIsUntouched, IntentIsRecorded,
         AgentHoldsClaim, AgentRuns, PushedFixIsRecoverable, remoteVars, passVars
<1>4. QED
  BY <1>1, <1>2, <1>3 DEF PhaseInv

LEMMA ResetCaseInv ==
  ASSUME PhaseInv, NEW c \in Cases, NEW new \in Cases, ResetCase(c, new)  PROVE PhaseInv'
<1> USE DEF ResetCase, RunsNow, FinishAttempt
<1>1. TypeOK'
  <2>1. CASE \E a \in Attempts : RunsNow(c, a)
    BY <2>1 DEF PhaseInv, TypeOK, auditVars, remoteVars, processVars, passVars
  <2>2. CASE \A a \in Attempts : ~RunsNow(c, a)
    BY <2>2 DEF PhaseInv, TypeOK, attemptVars, auditVars, remoteVars, processVars, passVars
  <2>3. QED
    BY <2>1, <2>2
<1>2. c # new /\ \A a \in Attempts : CaseOf[a] = new => astatus[a] # "running"
  BY DEF PhaseInv, TypeOK, Pairing, RunningFitsCase
<1>3. CurrentIsOwn' /\ RunningFitsCase' /\ OnlyCurrentAttemptRuns'
  BY <1>2 DEF PhaseInv, TypeOK, Pairing, CurrentIsOwn, RunningFitsCase,
              OnlyCurrentAttemptRuns, attemptVars
<1>4. StatusBackedByAttempt' /\ MergeApprovalMeansPushed'
  BY <1>2 DEF PhaseInv, TypeOK, Pairing, CurrentIsOwn, StatusBackedByAttempt, Backed,
              MergeApprovalMeansPushed, attemptVars, remoteVars
<1>5. FixIsApproved' /\ CheckpointOfRunningFix'
  BY DEF PhaseInv, TypeOK, Pairing, FixIsApproved, CheckpointOfRunningFix,
         attemptVars, auditVars
<1>6. Bookkeeping'
  BY DEF PhaseInv, TypeOK, Bookkeeping, AbsentIsUntouched, IntentIsRecorded,
         AgentHoldsClaim, AgentRuns, PushedFixIsRecoverable, attemptVars, remoteVars, passVars
<1>7. QED
  BY <1>1, <1>3, <1>4, <1>5, <1>6 DEF PhaseInv, Pairing

-----------------------------------------------------------------------------
(***************************************************************************)
(* The runner: starting, running and cancelling an attempt.                *)
(***************************************************************************)

LEMMA ClaimRunnableAttemptInv ==
  ASSUME PhaseInv, NEW a \in Attempts, ClaimRunnableAttempt(a)  PROVE PhaseInv'
<1> USE DEF ClaimRunnableAttempt, Runnable, Finishable
<1>1. TypeOK'
  BY DEF PhaseInv, TypeOK, caseVars, auditVars, remoteVars, processVars, passVars
<1>2. Pairing'
  BY UntouchedKeepsPairing
     DEF PhaseInv, Pairing, CheckpointOfRunningFix, TypeOK, caseVars, auditVars, remoteVars
<1>3. Bookkeeping'
  BY DEF PhaseInv, TypeOK, Bookkeeping, AbsentIsUntouched, IntentIsRecorded,
         AgentHoldsClaim, AgentRuns, PushedFixIsRecoverable, remoteVars, passVars
<1>4. QED
  BY <1>1, <1>2, <1>3 DEF PhaseInv

LEMMA StartFailsInv ==
  ASSUME PhaseInv, NEW a \in Attempts, StartFails(a)  PROVE PhaseInv'
<1> USE DEF StartFails, ReleaseClaim
<1>1. TypeOK'
  BY DEF PhaseInv, TypeOK, caseVars, auditVars, remoteVars, processVars, passVars
<1>2. Pairing'
  BY UntouchedKeepsPairing
     DEF PhaseInv, Pairing, CheckpointOfRunningFix, caseVars, auditVars, remoteVars
<1>3. Bookkeeping'
  BY DEF PhaseInv, TypeOK, Bookkeeping, AbsentIsUntouched, IntentIsRecorded,
         AgentHoldsClaim, AgentRuns, PushedFixIsRecoverable, remoteVars, passVars
<1>4. QED
  BY <1>1, <1>2, <1>3 DEF PhaseInv

LEMMA PhaseScheduleFailureInv ==
  ASSUME PhaseInv, NEW a \in Attempts, PhaseScheduleFailure(a)  PROVE PhaseInv'
<1>1. CASE version[CaseOf[a]] = begun[a] /\ Finishable(a)
  <2>0. /\ FinishAttempt(a, "failed", "empty")
        /\ CommitCase(CaseOf[a], FailureStateForPhase(phase[a]), current[CaseOf[a]])
    BY <1>1 DEF PhaseScheduleFailure
  <2> USE DEF FinishAttempt, CommitCase
  <2>1. TypeOK'
    BY <2>0 DEF PhaseInv, TypeOK, PhaseScheduleFailure, auditVars, remoteVars, processVars
  <2>2. Pairing'
    BY <1>1, <2>0 DEF PhaseInv, TypeOK, Pairing, CurrentIsOwn, RunningFitsCase,
           OnlyCurrentAttemptRuns, StatusBackedByAttempt, Backed, FixIsApproved,
           MergeApprovalMeansPushed, CheckpointOfRunningFix, PhaseScheduleFailure,
           Finishable, auditVars, remoteVars
  <2>3. Bookkeeping'
    BY <2>0 DEF PhaseInv, TypeOK, PhaseScheduleFailure, Bookkeeping, AbsentIsUntouched, IntentIsRecorded,
           AgentHoldsClaim, AgentRuns, PushedFixIsRecoverable, remoteVars
  <2>4. QED
    BY <2>1, <2>2, <2>3 DEF PhaseInv
<1>2. CASE ~(version[CaseOf[a]] = begun[a] /\ Finishable(a))
  <2> USE <1>2 DEF PhaseScheduleFailure
  <2>1. TypeOK'
    BY DEF PhaseInv, TypeOK, caseVars, attemptVars, auditVars, remoteVars, processVars
  <2>2. Pairing'
    BY UntouchedKeepsPairing DEF PhaseInv, Pairing, CheckpointOfRunningFix,
       caseVars, attemptVars, auditVars, remoteVars
  <2>3. Bookkeeping'
    BY DEF PhaseInv, TypeOK, Bookkeeping, AbsentIsUntouched, IntentIsRecorded,
           AgentHoldsClaim, AgentRuns, PushedFixIsRecoverable, attemptVars, remoteVars
  <2>4. QED
    BY <2>1, <2>2, <2>3 DEF PhaseInv
<1>3. QED
  BY <1>1, <1>2

LEMMA ExecutePhaseInv ==
  ASSUME PhaseInv, NEW a \in Attempts, ExecutePhase(a)  PROVE PhaseInv'
<1> USE DEF ExecutePhase, EndWorker, ReleaseClaim
<1>1. TypeOK'
  BY DEF PhaseInv, TypeOK, caseVars, auditVars, remoteVars, processVars, passVars
<1>2. Pairing'
  BY UntouchedKeepsPairing
     DEF PhaseInv, Pairing, CheckpointOfRunningFix, caseVars, auditVars, remoteVars
<1>3. Bookkeeping'
  BY DEF PhaseInv, TypeOK, Bookkeeping, AbsentIsUntouched, IntentIsRecorded,
         AgentHoldsClaim, AgentRuns, PushedFixIsRecoverable, remoteVars, passVars
<1>4. QED
  BY <1>1, <1>2, <1>3 DEF PhaseInv

LEMMA SaveCompletionIntentInv ==
  ASSUME PhaseInv, NEW a \in Attempts, SaveCompletionIntent(a)  PROVE PhaseInv'
<1> USE DEF SaveCompletionIntent, Finishable, EndWorker, ReleaseClaim
<1>1. TypeOK'
  BY DEF PhaseInv, TypeOK, caseVars, auditVars, remoteVars, processVars, passVars
<1>2. Pairing'
  BY DEF PhaseInv, TypeOK, Pairing, CurrentIsOwn, RunningFitsCase, OnlyCurrentAttemptRuns,
         StatusBackedByAttempt, Backed, FixIsApproved, MergeApprovalMeansPushed,
         CheckpointOfRunningFix, caseVars, auditVars, remoteVars
<1>3. Bookkeeping'
  BY DEF PhaseInv, TypeOK, Bookkeeping, AbsentIsUntouched, IntentIsRecorded,
         AgentHoldsClaim, AgentRuns, PushedFixIsRecoverable, remoteVars, passVars
<1>4. QED
  BY <1>1, <1>2, <1>3 DEF PhaseInv

LEMMA AbandonRunInv ==
  ASSUME PhaseInv, NEW a \in Attempts, AbandonRun(a)  PROVE PhaseInv'
<1> USE DEF AbandonRun, EndWorker, ReleaseClaim
<1>1. TypeOK'
  BY DEF PhaseInv, TypeOK, caseVars, auditVars, remoteVars, processVars, passVars
<1>2. Pairing'
  BY UntouchedKeepsPairing
     DEF PhaseInv, Pairing, CheckpointOfRunningFix, caseVars, auditVars, remoteVars
<1>3. Bookkeeping'
  BY DEF PhaseInv, TypeOK, Bookkeeping, AbsentIsUntouched, IntentIsRecorded,
         AgentHoldsClaim, AgentRuns, PushedFixIsRecoverable, remoteVars, passVars
<1>4. QED
  BY <1>1, <1>2, <1>3 DEF PhaseInv

LEMMA CompleteAttemptInv ==
  ASSUME PhaseInv, NEW a \in Attempts, CompleteAttempt(a)  PROVE PhaseInv'
<1> USE DEF CompleteAttempt, EndWorker
<1>1. CASE CompletionFresh(a)
  <2>1. astatus[a] = "running" /\ output[a] \in OutcomesOf(phase[a]) /\ output[a] \in Outcome
    BY <1>1 DEF PhaseInv, TypeOK, Pairing, RunningFitsCase, Bookkeeping, IntentIsRecorded,
                CompletionFresh
  <2>2. TypeOK'
    BY <1>1, <2>1, SettleTypes
       DEF PhaseInv, TypeOK, auditVars, processVars, passVars
  <2>3. Pairing'
    BY <1>1, <2>1, SettleKeepsPairing DEF PhaseInv, auditVars
  <2>4. Bookkeeping'
    <3>1. UNCHANGED <<pushed, orphan, cancelling, todo>> /\ cancelled' \subseteq cancelled
      BY DEF passVars
    <3>2. \A b \in Attempts : worker'[b] = worker[b] \/ worker'[b] = "idle"
      BY DEF PhaseInv, TypeOK
    <3>3. QED
      BY <1>1, <2>1, <3>1, <3>2, SettleKeepsBookkeeping
  <2>5. QED
    BY <2>2, <2>3, <2>4 DEF PhaseInv
<1>2. CASE ~CompletionFresh(a)
  <2>1. TypeOK'
    BY <1>2 DEF PhaseInv, TypeOK, caseVars, attemptVars, auditVars, processVars, passVars
  <2>2. Pairing'
    BY <1>2, UntouchedKeepsPairing DEF PhaseInv, Pairing, CheckpointOfRunningFix,
       caseVars, attemptVars, auditVars
  <2>3. Bookkeeping'
    BY <1>2 DEF PhaseInv, TypeOK, Bookkeeping, AbsentIsUntouched, IntentIsRecorded,
       AgentHoldsClaim, AgentRuns, PushedFixIsRecoverable, attemptVars, passVars
  <2>4. QED
    BY <2>1, <2>2, <2>3 DEF PhaseInv
<1>3. QED
  BY <1>1, <1>2
LEMMA LaunchInv ==
  ASSUME PhaseInv, NEW a \in Attempts, Launch(a)  PROVE PhaseInv'
<1> USE DEF Launch
<1>1. TypeOK'
  BY DEF
     PhaseInv, TypeOK, caseVars, attemptVars, auditVars, remoteVars, processVars,
     passVars
<1>2. Pairing'
  BY UntouchedKeepsPairing DEF
     PhaseInv, Pairing, CheckpointOfRunningFix, caseVars, attemptVars, auditVars,
     remoteVars
<1>3. Bookkeeping'
  BY DEF
     PhaseInv, TypeOK, Bookkeeping, AbsentIsUntouched, IntentIsRecorded,
     AgentHoldsClaim, AgentRuns, PushedFixIsRecoverable, attemptVars, remoteVars,
     passVars
<1>4. QED
  BY <1>1, <1>2, <1>3 DEF PhaseInv

LEMMA InspectionUnavailableInv ==
  ASSUME PhaseInv, NEW a \in Attempts, InspectionUnavailable(a)  PROVE PhaseInv'
<1> USE DEF InspectionUnavailable, EndWorker
<1>1. TypeOK'
  BY DEF
     PhaseInv, TypeOK, caseVars, attemptVars, auditVars, remoteVars, passVars
<1>2. Pairing'
  BY UntouchedKeepsPairing DEF
     PhaseInv, Pairing, CheckpointOfRunningFix, caseVars, attemptVars, auditVars,
     remoteVars
<1>3. Bookkeeping'
  BY DEF
     PhaseInv, TypeOK, Bookkeeping, AbsentIsUntouched, IntentIsRecorded,
     AgentHoldsClaim, AgentRuns, PushedFixIsRecoverable, attemptVars, remoteVars,
     passVars
<1>4. QED
  BY <1>1, <1>2, <1>3 DEF PhaseInv

LEMMA RunnerCancelInv ==
  ASSUME PhaseInv, NEW a \in Attempts, RunnerCancel(a)  PROVE PhaseInv'
<1> USE DEF RunnerCancel
<1>1. TypeOK'
  BY DEF
     PhaseInv, TypeOK, caseVars, attemptVars, auditVars, remoteVars, processVars,
     passVars
<1>2. Pairing'
  BY UntouchedKeepsPairing DEF
     PhaseInv, Pairing, CheckpointOfRunningFix, caseVars, attemptVars, auditVars,
     remoteVars
<1>3. Bookkeeping'
  BY DEF
     PhaseInv, TypeOK, Bookkeeping, AbsentIsUntouched, IntentIsRecorded,
     AgentHoldsClaim, AgentRuns, PushedFixIsRecoverable, attemptVars, remoteVars,
     passVars
<1>4. QED
  BY <1>1, <1>2, <1>3 DEF PhaseInv

LEMMA RunnerCancelFailsInv ==
  ASSUME PhaseInv, NEW a \in Attempts, RunnerCancelFails(a)  PROVE PhaseInv'
<1> USE DEF RunnerCancelFails, CommitAudit
<1>1. TypeOK'
  BY DEF
     PhaseInv, TypeOK, caseVars, attemptVars, auditVars, remoteVars, processVars,
     passVars
<1>2. Pairing'
  BY UntouchedKeepsPairing DEF
     PhaseInv, Pairing, CheckpointOfRunningFix, caseVars, attemptVars, auditVars,
     remoteVars
<1>3. Bookkeeping'
  BY DEF
     PhaseInv, TypeOK, Bookkeeping, AbsentIsUntouched, IntentIsRecorded,
     AgentHoldsClaim, AgentRuns, PushedFixIsRecoverable, attemptVars, remoteVars,
     passVars
<1>4. QED
  BY <1>1, <1>2, <1>3 DEF PhaseInv

-----------------------------------------------------------------------------
(***************************************************************************)
(* The agent outside the store.                                            *)
(***************************************************************************)

LEMMA WriteManifestInv ==
  ASSUME PhaseInv, NEW a \in Attempts, WriteManifest(a)  PROVE PhaseInv'
<1> USE DEF WriteManifest
<1>1. TypeOK'
  BY DEF
     PhaseInv, TypeOK, caseVars, attemptVars, auditVars, processVars, runnerVars,
     passVars
<1>2. Pairing'
  BY UntouchedKeepsPairing DEF
     PhaseInv, Pairing, CheckpointOfRunningFix, caseVars, attemptVars, auditVars
<1>3. Bookkeeping'
  BY DEF
     PhaseInv, TypeOK, Bookkeeping, AbsentIsUntouched, IntentIsRecorded,
     AgentHoldsClaim, AgentRuns, PushedFixIsRecoverable, attemptVars, runnerVars,
     passVars
<1>4. QED
  BY <1>1, <1>2, <1>3 DEF PhaseInv

LEMMA PushFixInv ==
  ASSUME PhaseInv, NEW a \in Attempts, PushFix(a)  PROVE PhaseInv'
<1> USE DEF PushFix
<1>1. TypeOK'
  BY DEF
     PhaseInv, TypeOK, caseVars, attemptVars, auditVars, processVars, runnerVars,
     passVars
<1>2. Pairing'
  BY UntouchedKeepsPairing DEF
     PhaseInv, Pairing, CheckpointOfRunningFix, caseVars, attemptVars, auditVars
<1>3. Bookkeeping'
  BY DEF
     PhaseInv, TypeOK, Bookkeeping, AbsentIsUntouched, IntentIsRecorded,
     AgentHoldsClaim, AgentRuns, PushedFixIsRecoverable, attemptVars, runnerVars,
     passVars
<1>4. QED
  BY <1>1, <1>2, <1>3 DEF PhaseInv

LEMMA OrphanEndsInv ==
  ASSUME PhaseInv, NEW a \in Attempts, OrphanEnds(a)  PROVE PhaseInv'
<1> USE DEF OrphanEnds
<1>1. TypeOK'
  BY DEF
     PhaseInv, TypeOK, caseVars, attemptVars, auditVars, processVars, runnerVars,
     passVars
<1>2. Pairing'
  BY UntouchedKeepsPairing DEF
     PhaseInv, Pairing, CheckpointOfRunningFix, caseVars, attemptVars, auditVars
<1>3. Bookkeeping'
  BY DEF
     PhaseInv, TypeOK, Bookkeeping, AbsentIsUntouched, IntentIsRecorded,
     AgentHoldsClaim, AgentRuns, PushedFixIsRecoverable, attemptVars, runnerVars,
     passVars
<1>4. QED
  BY <1>1, <1>2, <1>3 DEF PhaseInv

-----------------------------------------------------------------------------
(***************************************************************************)
(* The recovery pass, the crash and the restart.                           *)
(***************************************************************************)

LEMMA BeginRecoveryInv ==
  ASSUME PhaseInv, BeginRecovery  PROVE PhaseInv'
<1> USE DEF BeginRecovery
<1>1. TypeOK'
  BY DEF
     PhaseInv, TypeOK, caseVars, attemptVars, auditVars, processVars, runnerVars
<1>2. Pairing'
  BY UntouchedKeepsPairing DEF
     PhaseInv, Pairing, CheckpointOfRunningFix, caseVars, attemptVars, auditVars
<1>3. AbsentIsUntouched'
  <2>1. SUFFICES ASSUME NEW a \in Attempts, astatus[a] = "absent"  PROVE todo'[a] = "no"
    BY DEF PhaseInv, Bookkeeping, AbsentIsUntouched, attemptVars, runnerVars
  <2>2. QED
    BY <2>1
<1>4. IntentIsRecorded'
  <2>1. SUFFICES ASSUME NEW a \in Attempts
                 PROVE  /\ astatus[a] = "running" /\ todo'[a] = "intent" => output[a] # "empty"
                        /\ todo'[a] # "reserved"
    BY DEF PhaseInv, Bookkeeping, IntentIsRecorded, attemptVars, runnerVars
  <2>2. QED
    BY DEF PhaseInv, TypeOK
<1>5. AgentHoldsClaim' /\ PushedFixIsRecoverable'
  BY DEF PhaseInv, Bookkeeping, AgentHoldsClaim, AgentRuns, PushedFixIsRecoverable,
     attemptVars, runnerVars
<1>6. QED
  BY <1>1, <1>2, <1>3, <1>4, <1>5 DEF PhaseInv, Bookkeeping

LEMMA RecoverNothingInv ==
  ASSUME PhaseInv, NEW a \in Attempts, RecoverNothing(a)  PROVE PhaseInv'
<1> USE DEF RecoverNothing, Done
<1>1. TypeOK'
  BY DEF
     PhaseInv, TypeOK, caseVars, attemptVars, auditVars, remoteVars, processVars,
     runnerVars
<1>2. Pairing'
  BY UntouchedKeepsPairing DEF
     PhaseInv, Pairing, CheckpointOfRunningFix, caseVars, attemptVars, auditVars,
     remoteVars
<1>3. Bookkeeping'
  BY DEF
     PhaseInv, TypeOK, Bookkeeping, AbsentIsUntouched, IntentIsRecorded,
     AgentHoldsClaim, AgentRuns, PushedFixIsRecoverable, attemptVars, remoteVars,
     runnerVars
<1>4. QED
  BY <1>1, <1>2, <1>3 DEF PhaseInv

LEMMA RecoverIntentInv ==
  ASSUME PhaseInv, NEW a \in Attempts, RecoverIntent(a)  PROVE PhaseInv'
<1> USE DEF RecoverIntent, Done
<1>1. CASE astatus[a] = "running"
  <2>1. output[a] \in OutcomesOf(phase[a]) /\ output[a] \in Outcome /\ Settle(a, output[a])
    BY <1>1 DEF PhaseInv, TypeOK, Pairing, RunningFitsCase, Bookkeeping, IntentIsRecorded
  <2>2. TypeOK'
    BY <1>1, <2>1, SettleTypes
       DEF PhaseInv, TypeOK, auditVars, processVars, runnerVars
  <2>3. Pairing'
    BY <1>1, <2>1, SettleKeepsPairing DEF PhaseInv, auditVars
  <2>4. Bookkeeping'
    <3>1. /\ UNCHANGED <<pushed, orphan, cancelling, worker, cancelled>>
          /\ \A b \in Attempts : todo'[b] = todo[b] \/ todo'[b] = "no"
      BY DEF PhaseInv, TypeOK, runnerVars
    <3>2. QED
      BY <1>1, <2>1, <3>1, SettleKeepsBookkeeping
  <2>5. QED
    BY <2>2, <2>3, <2>4 DEF PhaseInv
<1>2. CASE astatus[a] # "running"
  <2>1. TypeOK'
    <3>1. recErr' \in BOOLEAN
      BY <1>2 DEF PhaseInv, TypeOK
    <3>2. QED
      BY <1>2, <3>1 DEF PhaseInv, TypeOK, caseVars, attemptVars, auditVars, processVars, runnerVars
  <2>2. Pairing'
    BY <1>2, UntouchedKeepsPairing DEF PhaseInv, Pairing, CheckpointOfRunningFix,
       caseVars, attemptVars, auditVars
  <2>3. Bookkeeping'
    BY <1>2 DEF PhaseInv, TypeOK, Bookkeeping, AbsentIsUntouched, IntentIsRecorded,
       AgentHoldsClaim, AgentRuns, PushedFixIsRecoverable, attemptVars, runnerVars
  <2>4. QED
    BY <2>1, <2>2, <2>3 DEF PhaseInv
<1>3. QED
  BY <1>1, <1>2

(* The retry replaces the interrupted attempt in the same mutation.        *)
LEMMA RetryInterruptedInv ==
  ASSUME PhaseInv, NEW a \in Attempts, NEW retry \in Fresh(CaseOf[a]), Finishable(a),
         current[CaseOf[a]] = a, status[CaseOf[a]] = "investigating",
         RetryInterrupted(a, retry), Done(a),
         UNCHANGED <<auditVars, remoteVars, processVars, seen, cancelled, cancelling, recovering>>
  PROVE  PhaseInv'
<1>1. /\ a # retry /\ CaseOf[a] \in Cases /\ CaseOf[retry] = CaseOf[a]
      /\ phase[a] = "investigation"
  BY DEF PhaseInv, TypeOK, Pairing, RunningFitsCase, Fresh, Finishable
<1> USE <1>1 DEF Fresh, CommitCase, Finishable, RetryInterrupted, Done
<1>2. TypeOK'
  BY DEF PhaseInv, TypeOK, auditVars, remoteVars, processVars
<1>3. Pairing'
  BY DEF PhaseInv, TypeOK, Pairing, CurrentIsOwn, RunningFitsCase, OnlyCurrentAttemptRuns,
     StatusBackedByAttempt, Backed, FixIsApproved, MergeApprovalMeansPushed,
     CheckpointOfRunningFix, Bookkeeping, AbsentIsUntouched, auditVars, remoteVars
<1>4. Bookkeeping'
  BY DEF PhaseInv, TypeOK, Pairing, OnlyCurrentAttemptRuns, Bookkeeping, AbsentIsUntouched,
     IntentIsRecorded, AgentHoldsClaim, AgentRuns, PushedFixIsRecoverable, remoteVars
<1>5. QED
  BY <1>2, <1>3, <1>4 DEF PhaseInv

LEMMA GiveUpInterruptedInv ==
  ASSUME PhaseInv, NEW a \in Attempts, Finishable(a), current[CaseOf[a]] = a,
         GiveUpInterrupted(a), Done(a),
         UNCHANGED <<auditVars, remoteVars, processVars, seen, cancelled, cancelling, recovering>>
  PROVE  PhaseInv'
<1> USE DEF CommitCase, Finishable, FinishAttempt, GiveUpInterrupted, Done
<1>1. TypeOK'
  BY DEF PhaseInv, TypeOK, auditVars, remoteVars, processVars
<1>2. Pairing'
  BY DEF PhaseInv, TypeOK, Pairing, CurrentIsOwn, RunningFitsCase, OnlyCurrentAttemptRuns,
     StatusBackedByAttempt, Backed, FixIsApproved, MergeApprovalMeansPushed,
     CheckpointOfRunningFix, auditVars, remoteVars
<1>3. Bookkeeping'
  BY DEF PhaseInv, TypeOK, Bookkeeping, AbsentIsUntouched, IntentIsRecorded,
     AgentHoldsClaim, AgentRuns, PushedFixIsRecoverable, remoteVars
<1>4. QED
  BY <1>1, <1>2, <1>3 DEF PhaseInv

LEMMA RecoverReadOnlyInv ==
  ASSUME PhaseInv, NEW a \in Attempts, RecoverReadOnly(a)  PROVE PhaseInv'
<1>1. CASE \E retry \in Fresh(CaseOf[a]) : Finishable(a) /\ RetryInterrupted(a, retry)
  BY <1>1, RetryInterruptedInv DEF RecoverReadOnly
<1>2. CASE Finishable(a) /\ GiveUpInterrupted(a)
  BY <1>2, GiveUpInterruptedInv DEF RecoverReadOnly
<1>3. CASE /\ ~Finishable(a) /\ recErr' = TRUE
           /\ UNCHANGED <<caseVars, attemptVars, worker, begun, recoveryStarted>>
  <2> USE <1>3 DEF RecoverReadOnly, Done
  <2>1. TypeOK'
    BY DEF PhaseInv, TypeOK, caseVars, attemptVars, auditVars, remoteVars, processVars
  <2>2. Pairing'
    BY UntouchedKeepsPairing DEF PhaseInv, Pairing, CheckpointOfRunningFix,
       caseVars, attemptVars, auditVars, remoteVars
  <2>3. Bookkeeping'
    BY DEF PhaseInv, TypeOK, Bookkeeping, AbsentIsUntouched, IntentIsRecorded,
       AgentHoldsClaim, AgentRuns, PushedFixIsRecoverable, attemptVars, remoteVars
  <2>4. QED
    BY <2>1, <2>2, <2>3 DEF PhaseInv
<1>4. QED
  BY <1>1, <1>2, <1>3 DEF RecoverReadOnly

LEMMA ReserveInspectionInv ==
  ASSUME PhaseInv, NEW a \in Attempts, ReserveInspection(a)  PROVE PhaseInv'
<1> USE DEF ReserveInspection, Done, CommitAudit
<1>1. TypeOK'
  BY DEF
     PhaseInv, TypeOK, caseVars, attemptVars, remoteVars, processVars, runnerVars
<1>2. Pairing'
  BY UntouchedKeepsPairing DEF
     PhaseInv, Pairing, CheckpointOfRunningFix, caseVars, attemptVars, remoteVars
<1>3. Bookkeeping'
  BY DEF
     PhaseInv, TypeOK, Bookkeeping, AbsentIsUntouched, IntentIsRecorded,
     AgentHoldsClaim, AgentRuns, PushedFixIsRecoverable, Pairing, StatusBackedByAttempt, Backed, attemptVars, remoteVars,
     runnerVars, caseVars
<1>4. QED
  BY <1>1, <1>2, <1>3 DEF PhaseInv

LEMMA RecoverFixInv ==
  ASSUME PhaseInv, NEW a \in Attempts, RecoverFix(a)  PROVE PhaseInv'
<1> USE DEF RecoverFix, Done
<1>1. CASE Runnable(a)
  <2>1. astatus[a] = "running" /\ phase[a] = "fix"
    BY <1>1 DEF PhaseInv, Bookkeeping, IntentIsRecorded, Runnable, Finishable
  <2>2. CASE a \in checkpoint /\ a \in manifest
    <3>1. Settle(a, "fix_pushed")
      BY <1>1, <2>2
    <3>2. TypeOK'
      BY <1>1, <3>1, SettleTypes DEF PhaseInv, TypeOK, auditVars, processVars, runnerVars
    <3>3. Pairing'
      BY <2>1, <3>1, SettleKeepsPairing DEF PhaseInv, auditVars
    <3>4. Bookkeeping'
      <4>1. /\ UNCHANGED <<pushed, orphan, cancelling, worker, cancelled>>
            /\ \A b \in Attempts : todo'[b] = todo[b] \/ todo'[b] = "no"
        BY DEF PhaseInv, TypeOK, runnerVars
      <4>2. QED
        BY <2>1, <3>1, <4>1, SettleKeepsBookkeeping
    <3>5. QED
      BY <3>2, <3>3, <3>4 DEF PhaseInv
  <2>3. CASE ~(a \in checkpoint /\ a \in manifest)
    <3>1. FinishFixFailure(a)
      BY <1>1, <2>3
    <3> USE DEF FinishFixFailure, FinishAttempt, CommitCase
    <3>2. TypeOK'
      BY <1>1, <3>1 DEF PhaseInv, TypeOK, auditVars, processVars, runnerVars
    <3>3. Pairing'
      BY <1>1, <2>1, <3>1
         DEF PhaseInv, TypeOK, Pairing, CurrentIsOwn, RunningFitsCase,
             OnlyCurrentAttemptRuns, StatusBackedByAttempt, Backed, FixIsApproved,
             MergeApprovalMeansPushed, CheckpointOfRunningFix, auditVars
    <3>4. Bookkeeping'
      BY <2>1, <3>1
         DEF PhaseInv, TypeOK, Bookkeeping, AbsentIsUntouched, IntentIsRecorded,
             AgentHoldsClaim, AgentRuns, PushedFixIsRecoverable, runnerVars
    <3>5. QED
      BY <3>2, <3>3, <3>4 DEF PhaseInv
  <2>4. QED
    BY <2>2, <2>3
<1>2. CASE ~Runnable(a)
  <2> USE <1>2
  <2>1. TypeOK'
    BY DEF PhaseInv, TypeOK, caseVars, attemptVars, auditVars, processVars, runnerVars
  <2>2. Pairing'
    BY UntouchedKeepsPairing DEF PhaseInv, Pairing, CheckpointOfRunningFix,
       caseVars, attemptVars, auditVars
  <2>3. Bookkeeping'
    BY DEF PhaseInv, TypeOK, Bookkeeping, AbsentIsUntouched, IntentIsRecorded,
       AgentHoldsClaim, AgentRuns, PushedFixIsRecoverable, attemptVars, runnerVars
  <2>4. QED
    BY <2>1, <2>2, <2>3 DEF PhaseInv
<1>3. QED
  BY <1>1, <1>2

LEMMA RecoveryInspectionUnavailableInv ==
  ASSUME PhaseInv, NEW a \in Attempts, RecoveryInspectionUnavailable(a)  PROVE PhaseInv'
<1> USE DEF RecoveryInspectionUnavailable, Done
<1>1. TypeOK'
  BY DEF
     PhaseInv, TypeOK, caseVars, attemptVars, auditVars, remoteVars, processVars,
     runnerVars
<1>2. Pairing'
  BY UntouchedKeepsPairing DEF
     PhaseInv, Pairing, CheckpointOfRunningFix, caseVars, attemptVars, auditVars,
     remoteVars
<1>3. Bookkeeping'
  BY DEF
     PhaseInv, TypeOK, Bookkeeping, AbsentIsUntouched, IntentIsRecorded,
     AgentHoldsClaim, AgentRuns, PushedFixIsRecoverable, attemptVars, remoteVars,
     runnerVars
<1>4. QED
  BY <1>1, <1>2, <1>3 DEF PhaseInv

LEMMA EndRecoveryInv ==
  ASSUME PhaseInv, EndRecovery  PROVE PhaseInv'
<1> USE DEF EndRecovery
<1>1. TypeOK'
  BY DEF
     PhaseInv, TypeOK, caseVars, attemptVars, auditVars, remoteVars, runnerVars
<1>2. Pairing'
  BY UntouchedKeepsPairing DEF
     PhaseInv, Pairing, CheckpointOfRunningFix, caseVars, attemptVars, auditVars,
     remoteVars
<1>3. Bookkeeping'
  BY DEF
     PhaseInv, TypeOK, Bookkeeping, AbsentIsUntouched, IntentIsRecorded,
     AgentHoldsClaim, AgentRuns, PushedFixIsRecoverable, attemptVars, remoteVars,
     runnerVars
<1>4. QED
  BY <1>1, <1>2, <1>3 DEF PhaseInv

LEMMA CrashInv ==
  ASSUME PhaseInv, Crash  PROVE PhaseInv'
<1> USE DEF Crash
<1>1. TypeOK'
  BY DEF
     PhaseInv, TypeOK, caseVars, attemptVars, auditVars
<1>2. Pairing'
  BY UntouchedKeepsPairing DEF
     PhaseInv, Pairing, CheckpointOfRunningFix, caseVars, attemptVars, auditVars
<1>3. Bookkeeping'
  BY DEF
     PhaseInv, TypeOK, Bookkeeping, AbsentIsUntouched, IntentIsRecorded,
     AgentHoldsClaim, AgentRuns, PushedFixIsRecoverable, attemptVars
<1>4. QED
  BY <1>1, <1>2, <1>3 DEF PhaseInv

LEMMA RestartInv ==
  ASSUME PhaseInv, Restart  PROVE PhaseInv'
<1> USE DEF Restart
<1>1. TypeOK'
  BY DEF
     PhaseInv, TypeOK, caseVars, attemptVars, auditVars, remoteVars, runnerVars,
     passVars
<1>2. Pairing'
  BY UntouchedKeepsPairing DEF
     PhaseInv, Pairing, CheckpointOfRunningFix, caseVars, attemptVars, auditVars,
     remoteVars
<1>3. Bookkeeping'
  BY DEF
     PhaseInv, TypeOK, Bookkeeping, AbsentIsUntouched, IntentIsRecorded,
     AgentHoldsClaim, AgentRuns, PushedFixIsRecoverable, attemptVars, remoteVars,
     runnerVars, passVars
<1>4. QED
  BY <1>1, <1>2, <1>3 DEF PhaseInv

-----------------------------------------------------------------------------
(***************************************************************************)
(* The theorems.                                                           *)
(***************************************************************************)

LEMMA InitInv == Init => PhaseInv
<1> SUFFICES ASSUME Init  PROVE PhaseInv
  OBVIOUS
<1> USE DEF Init
<1>1. TypeOK
  BY DEF TypeOK
<1>2. Pairing
  BY DEF Pairing, CurrentIsOwn, RunningFitsCase, OnlyCurrentAttemptRuns,
     StatusBackedByAttempt, FixIsApproved, MergeApprovalMeansPushed, CheckpointOfRunningFix
<1>3. Bookkeeping
  BY DEF Bookkeeping, AbsentIsUntouched, IntentIsRecorded, AgentHoldsClaim, AgentRuns,
     PushedFixIsRecoverable
<1>4. QED
  BY <1>1, <1>2, <1>3 DEF PhaseInv

LEMMA StutterInv == PhaseInv /\ UNCHANGED vars => PhaseInv'
<1> SUFFICES ASSUME PhaseInv, UNCHANGED vars  PROVE PhaseInv'
  OBVIOUS
<1> USE DEF vars, caseVars, attemptVars, auditVars, remoteVars, processVars, runnerVars,
        passVars
<1>1. TypeOK'
  BY DEF PhaseInv, TypeOK
<1>2. Pairing'
  BY UntouchedKeepsPairing DEF PhaseInv, Pairing, CheckpointOfRunningFix
<1>3. Bookkeeping'
  BY DEF PhaseInv, Bookkeeping, AbsentIsUntouched, IntentIsRecorded, AgentHoldsClaim,
     AgentRuns, PushedFixIsRecoverable
<1>4. QED
  BY <1>1, <1>2, <1>3 DEF PhaseInv

LEMMA StepInv == PhaseInv /\ [Next]_vars => PhaseInv'
<1> SUFFICES ASSUME PhaseInv, [Next]_vars  PROVE PhaseInv'
  OBVIOUS
<1>1. ASSUME NEW c \in Cases, UserCommand(c)  PROVE PhaseInv'
  BY <1>1, CreateCaseInv, StartCaseInv, ApproveFixInv, ContinueWithEvidenceInv,
     DisputeRootCauseInv, ReconsiderRemediationInv, CompleteRemediationInv,
     CancelAttemptInv, ResetCaseInv DEF UserCommand
<1>2. ASSUME NEW a \in Attempts, Scheduling(a)  PROVE PhaseInv'
  BY <1>2, ClaimRunnableAttemptInv, StartFailsInv, LaunchInv, PhaseScheduleFailureInv
     DEF Scheduling
<1>3. ASSUME NEW a \in Attempts, Running(a)  PROVE PhaseInv'
  BY <1>3, ExecutePhaseInv, SaveCompletionIntentInv, AbandonRunInv, CompleteAttemptInv,
     InspectionUnavailableInv, RunnerCancelInv, RunnerCancelFailsInv DEF Running
<1>4. ASSUME NEW a \in Attempts, Agent(a)  PROVE PhaseInv'
  BY <1>4, WriteManifestInv, PushFixInv, OrphanEndsInv DEF Agent
<1>5. ASSUME NEW a \in Attempts, Recovery(a)  PROVE PhaseInv'
  BY <1>5, RecoverNothingInv, RecoverIntentInv, RecoverReadOnlyInv, ReserveInspectionInv,
     RecoverFixInv, RecoveryInspectionUnavailableInv DEF Recovery
<1>6. CASE BeginRecovery \/ EndRecovery \/ Crash \/ Restart
  BY <1>6, BeginRecoveryInv, EndRecoveryInv, CrashInv, RestartInv
<1>7. CASE UNCHANGED vars
  BY <1>7, StutterInv
<1>8. QED
  BY <1>1, <1>2, <1>3, <1>4, <1>5, <1>6, <1>7 DEF Next

(* The inductive invariant holds in every reachable state.                 *)
THEOREM PhaseInvHolds == Spec => []PhaseInv
BY InitInv, StepInv, PTL DEF Spec

(* Every row of the store, the memory of the process and the recovery list *)
(* keep their types, whatever commands, runs, passes and crashes do.       *)
THEOREM TypeCorrect == Spec => []TypeOK
<1>1. PhaseInv => TypeOK
  BY DEF PhaseInv
<1>2. QED
  BY <1>1, PhaseInvHolds, PTL

(* No attempt runs behind the back of its Case: however commands, late     *)
(* completions and passes interleave, only the current one can be running. *)
THEOREM OnlyCurrentRuns == Spec => []OnlyCurrentAttemptRuns
<1>1. PhaseInv => OnlyCurrentAttemptRuns
  BY DEF PhaseInv, Pairing
<1>2. QED
  BY <1>1, PhaseInvHolds, PTL

(* The status of a Case always rests on the attempt a completion, a        *)
(* cancellation or a recovery pass left it.                                *)
THEOREM CaseAndAttemptAgree == Spec => []StatusBackedByAttempt
<1>1. PhaseInv => StatusBackedByAttempt
  BY DEF PhaseInv, Pairing
<1>2. QED
  BY <1>1, PhaseInvHolds, PTL

(* Every fix, retries and recoveries included, descends from a root cause  *)
(* of its own Case whose fix a user approved.                              *)
THEOREM FixesAreApproved == Spec => []FixIsApproved
<1>1. PhaseInv => FixIsApproved
  BY DEF PhaseInv, Pairing
<1>2. QED
  BY <1>1, PhaseInvHolds, PTL

(* Merge approval is only offered for a commit that is on the remote.      *)
THEOREM ApprovalsArePushed == Spec => []MergeApprovalMeansPushed
<1>1. PhaseInv => MergeApprovalMeansPushed
  BY DEF PhaseInv, Pairing
<1>2. QED
  BY <1>1, PhaseInvHolds, PTL

(* A crash at any moment leaves recovery the checkpoint row and the        *)
(* manifest of a fix that has pushed and not yet reported.                 *)
THEOREM PushedFixesAreRecoverable == Spec => []PushedFixIsRecoverable
<1>1. PhaseInv => PushedFixIsRecoverable
  BY DEF PhaseInv, Bookkeeping
<1>2. QED
  BY <1>1, PhaseInvHolds, PTL

(* A checkpoint row never outlives the running, claimed fix it belongs to. *)
THEOREM CheckpointsAreOfRunningFixes == Spec => []CheckpointOfRunningFix
<1>1. PhaseInv => CheckpointOfRunningFix
  BY DEF PhaseInv, Pairing
<1>2. QED
  BY <1>1, PhaseInvHolds, PTL

-----------------------------------------------------------------------------
(***************************************************************************)
(* The steps by what they do to the attempt rows.  Every step of Next that *)
(* changes the status or the result of an attempt is one of six kinds.     *)
(***************************************************************************)

(* A new attempt is created, nothing else about attempts changes.          *)
Begins(b) ==
    /\ astatus[b] = "absent"
    /\ astatus' = [astatus EXCEPT ![b] = "running"]
    /\ UNCHANGED output

(* An attempt without a recorded result ends, perhaps replaced by a retry. *)
EndsWithoutResult(b) ==
    /\ Finishable(b)
    /\ \A a \in Attempts \ {b} :
          output'[a] = output[a]
          /\ (astatus'[a] = astatus[a] \/ astatus[a] = "absent")

(* The result of a running attempt is recorded. *)
Records(b) ==
    /\ Finishable(b)
    /\ \E out \in Outcome : output' = [output EXCEPT ![b] = out]
    /\ UNCHANGED astatus

(* The recorded result of a running attempt is applied.                    *)
Applies(b) ==
    /\ astatus[b] = "running" /\ output[b] \in OutcomesOf(phase[b])
    /\ Settle(b, output[b])

(* Recovery finds the outcome of an interrupted fix on the remote.         *)
Inspects(b) ==
    /\ Runnable(b) /\ phase[b] = "fix"
    /\ \/ Settle(b, "fix_pushed")
       \/ b \notin pushed /\ FinishFixFailure(b)

(* A running attempt goes down with its Case. *)
IsReset(b) ==
    /\ astatus[b] = "running"
    /\ astatus' = [astatus EXCEPT ![b] = "cancelled"]
    /\ UNCHANGED output
    /\ status'[CaseOf[b]] = "reset_archived"

Quiet == UNCHANGED <<astatus, output>>
EndingFails(b) == EndsWithoutResult(b) /\ (astatus'[b] = "failed" => b \notin pushed)

RowStep ==
    Quiet \/ \E b \in Attempts :
       Begins(b) \/ EndingFails(b) \/ Records(b) \/ Applies(b) \/ Inspects(b) \/ IsReset(b)

LEMMA CommandRowStep ==
  ASSUME PhaseInv, NEW c \in Cases, UserCommand(c)  PROVE RowStep
<1>1. CASE CreateCase(c) \/ CompleteRemediation(c)
  BY <1>1 DEF RowStep, Quiet, CreateCase, CompleteRemediation, attemptVars
<1>2. CASE StartCase(c) \/ ApproveFix(c) \/ ContinueWithEvidence(c) \/ DisputeRootCause(c)
           \/ ReconsiderRemediation(c)
  <2>1. \E b \in Fresh(c), p \in Phase, from \in Attempts \cup {NoAttempt} :
           BeginAttempt(b, p, from)
    <3>1. CASE StartCase(c)
      BY <3>1 DEF StartCase
    <3>2. CASE ApproveFix(c)
      BY <3>2 DEF ApproveFix, PhaseInv, TypeOK
    <3>3. CASE ContinueWithEvidence(c)
      BY <3>3 DEF ContinueWithEvidence, ContinuationParent, PhaseInv, TypeOK
    <3>4. CASE DisputeRootCause(c) \/ ReconsiderRemediation(c)
      BY <3>4 DEF DisputeRootCause, ReconsiderRemediation, Reopen, PhaseInv, TypeOK
    <3>5. QED
      BY <1>2, <3>1, <3>2, <3>3, <3>4
  <2>2. QED
    BY <2>1 DEF RowStep, Begins, Fresh, BeginAttempt
<1>3. CASE CancelAttempt(c)
  <2>1. PICK b \in Attempts : Finishable(b) /\ FinishAttempt(b, "cancelled", "empty")
    BY <1>3 DEF CancelAttempt, PhaseInv, TypeOK
  <2>2. QED
    BY <2>1 DEF RowStep, EndingFails, EndsWithoutResult, FinishAttempt, PhaseInv, TypeOK
<1>4. ASSUME NEW new \in Cases, ResetCase(c, new)  PROVE RowStep
  <2>1. c # new
    BY <1>4 DEF ResetCase
  <2>2. CASE \E b \in Attempts : RunsNow(c, b) /\ FinishAttempt(b, "cancelled", output[b])
    <3>1. PICK b \in Attempts : RunsNow(c, b) /\ FinishAttempt(b, "cancelled", output[b])
      BY <2>2
    <3>2. CaseOf[b] = c
      BY <3>1 DEF PhaseInv, TypeOK, Pairing, CurrentIsOwn, RunsNow
    <3>3. status'[c] = "reset_archived"
      BY <1>4, <2>1 DEF ResetCase, PhaseInv, TypeOK
    <3>4. IsReset(b)
      BY <3>1, <3>2, <3>3 DEF IsReset, RunsNow, FinishAttempt, PhaseInv, TypeOK
    <3>5. QED
      BY <3>4 DEF RowStep
  <2>3. CASE UNCHANGED attemptVars
    BY <2>3 DEF RowStep, Quiet, attemptVars
  <2>4. QED
    BY <1>4, <2>2, <2>3 DEF ResetCase
<1>5. QED
  BY <1>1, <1>2, <1>3, <1>4 DEF UserCommand

LEMMA RunRowStep ==
  ASSUME PhaseInv, NEW a \in Attempts, Scheduling(a) \/ Running(a) \/ Agent(a)  PROVE RowStep
<1>1. CASE \/ ClaimRunnableAttempt(a) \/ StartFails(a) \/ Launch(a) \/ ExecutePhase(a)
           \/ AbandonRun(a) \/ InspectionUnavailable(a) \/ RunnerCancel(a)
           \/ RunnerCancelFails(a) \/ Agent(a)
  BY <1>1 DEF RowStep, Quiet, ClaimRunnableAttempt, StartFails, Launch, ExecutePhase,
     AbandonRun, InspectionUnavailable, RunnerCancel, RunnerCancelFails, Agent,
     WriteManifest, PushFix, OrphanEnds, attemptVars
<1>2. CASE PhaseScheduleFailure(a)
  <2>1. CASE Finishable(a) /\ FinishAttempt(a, "failed", "empty")
    BY <1>2, <2>1 DEF RowStep, EndingFails, EndsWithoutResult, FinishAttempt, PhaseInv,
       TypeOK, Bookkeeping, AgentHoldsClaim, PhaseScheduleFailure
  <2>2. CASE UNCHANGED attemptVars
    BY <2>2 DEF RowStep, Quiet, attemptVars
  <2>3. QED
    BY <1>2, <2>1, <2>2 DEF PhaseScheduleFailure
<1>3. CASE SaveCompletionIntent(a)
  BY <1>3 DEF RowStep, Quiet, Records, SaveCompletionIntent
<1>4. CASE CompleteAttempt(a)
  <2>1. CASE CompletionFresh(a)
    BY <1>4, <2>1 DEF RowStep, Applies, CompleteAttempt, CompletionFresh, PhaseInv, TypeOK,
       Pairing, RunningFitsCase, Bookkeeping, IntentIsRecorded
  <2>2. CASE ~CompletionFresh(a)
    BY <1>4, <2>2 DEF RowStep, Quiet, CompleteAttempt, attemptVars
  <2>3. QED
    BY <2>1, <2>2
<1>5. QED
  BY <1>1, <1>2, <1>3, <1>4 DEF Scheduling, Running

LEMMA RecoveryRowStep ==
  ASSUME PhaseInv, NEW a \in Attempts, Recovery(a)  PROVE RowStep
<1>1. CASE RecoverNothing(a) \/ ReserveInspection(a) \/ RecoveryInspectionUnavailable(a)
  BY <1>1 DEF RowStep, Quiet, RecoverNothing, ReserveInspection,
     RecoveryInspectionUnavailable, attemptVars
<1>2. CASE RecoverIntent(a)
  <2>1. CASE astatus[a] = "running"
    BY <1>2, <2>1 DEF RowStep, Applies, RecoverIntent, PhaseInv, TypeOK, Pairing,
       RunningFitsCase, Bookkeeping, IntentIsRecorded
  <2>2. CASE astatus[a] # "running"
    BY <1>2, <2>2 DEF RowStep, Quiet, RecoverIntent, attemptVars
  <2>3. QED
    BY <2>1, <2>2
<1>3. CASE RecoverReadOnly(a)
  <2>1. CASE \E retry \in Fresh(CaseOf[a]) : Finishable(a) /\ RetryInterrupted(a, retry)
    BY <2>1 DEF RowStep, EndingFails, EndsWithoutResult, RetryInterrupted, Fresh,
       Finishable, PhaseInv, TypeOK
  <2>2. CASE Finishable(a) /\ GiveUpInterrupted(a)
    BY <2>2 DEF RowStep, EndingFails, EndsWithoutResult, GiveUpInterrupted, FinishAttempt,
       PhaseInv, TypeOK
  <2>3. CASE UNCHANGED attemptVars
    BY <2>3 DEF RowStep, Quiet, attemptVars
  <2>4. QED
    BY <1>3, <2>1, <2>2, <2>3 DEF RecoverReadOnly
<1>4. CASE RecoverFix(a)
  <2>1. CASE Runnable(a)
    <3>1. phase[a] = "fix"
      BY <1>4, <2>1 DEF RecoverFix, PhaseInv, Bookkeeping, IntentIsRecorded
    <3>2. a \in pushed => a \in checkpoint /\ a \in manifest
      BY <2>1 DEF Runnable, Finishable, PhaseInv, Bookkeeping, PushedFixIsRecoverable
    <3>3. QED
      BY <1>4, <2>1, <3>1, <3>2 DEF RowStep, Inspects, RecoverFix
  <2>2. CASE ~Runnable(a)
    BY <1>4, <2>2 DEF RowStep, Quiet, RecoverFix, attemptVars
  <2>3. QED
    BY <2>1, <2>2
<1>5. QED
  BY <1>1, <1>2, <1>3, <1>4 DEF Recovery

LEMMA NextRowStep ==
  ASSUME PhaseInv, [Next]_vars  PROVE RowStep
<1>1. CASE BeginRecovery \/ EndRecovery \/ Crash \/ Restart \/ UNCHANGED vars
  BY <1>1 DEF RowStep, Quiet, BeginRecovery, EndRecovery, Crash, Restart, vars, attemptVars
<1>2. QED
  BY <1>1, CommandRowStep, RunRowStep, RecoveryRowStep DEF Next

-----------------------------------------------------------------------------
(* A recorded result decides how its attempt ends, whoever gets to apply   *)
(* it: the run that recorded it or a recovery pass.  Only a reset of the   *)
(* Case, or a remote that lacks the commit, ends the attempt otherwise.    *)
THEOREM IntentNeverLost == Spec => IntentIsNeverLost
<1>1. ASSUME PhaseInv, [Next]_vars, NEW a \in Attempts  PROVE IntentDecides(a)
  <2>1. SUFFICES ASSUME astatus[a] = "running", output[a] # "empty", ~Quiet
                 PROVE  IntentDecides(a)
    BY DEF IntentDecides, Quiet
  <2>2. PICK b \in Attempts : Begins(b) \/ EndingFails(b) \/ Records(b) \/ Applies(b)
                              \/ Inspects(b) \/ IsReset(b)
    BY <1>1, <2>1, NextRowStep DEF RowStep
  <2>3. CASE Begins(b) \/ EndingFails(b) \/ Records(b) \/ IsReset(b)
    BY <1>1, <2>1, <2>3 DEF PhaseInv, TypeOK, IntentDecides, Begins, EndingFails,
       EndsWithoutResult, Finishable, Records, IsReset
  <2>4. CASE Applies(b) \/ Inspects(b)
    BY <1>1, <2>1, <2>4 DEF PhaseInv, TypeOK, IntentDecides, Applies, Inspects, Runnable,
       Finishable, Settle, FinishFixFailure, ApplyOutcome, FinishAttempt
  <2>5. QED
    BY <2>2, <2>3, <2>4
<1>2. PhaseInv /\ [Next]_vars => [\A a \in Attempts : IntentDecides(a)]_vars
  BY <1>1
<1>3. QED
  BY <1>2, PhaseInvHolds, PTL DEF Spec, IntentIsNeverLost

(* No schedule failure, completion or recovery pass marks a fix as failed  *)
(* once its commit is on the remote, unless the agent reported a failure.  *)
THEOREM PushedFixNotFailed == Spec => PushedFixIsNotFailed
<1>1. ASSUME PhaseInv, [Next]_vars, NEW a \in Attempts, PushedFixFails(a)  PROVE FALSE
  <2> USE DEF PushedFixFails
  <2>1. a \in pushed /\ phase[a] = "fix"
    BY <1>1 DEF PhaseInv, Bookkeeping, AgentHoldsClaim
  <2>2. PICK b \in Attempts : Begins(b) \/ EndingFails(b) \/ Records(b) \/ Applies(b)
                              \/ Inspects(b) \/ IsReset(b)
    BY <1>1, NextRowStep DEF RowStep, Quiet
  <2>3. CASE Begins(b) \/ EndingFails(b) \/ Records(b) \/ IsReset(b)
    BY <1>1, <2>1, <2>3 DEF PhaseInv, TypeOK, Begins, EndingFails, EndsWithoutResult,
       Finishable, Records, IsReset
  <2>4. CASE Applies(b) \/ Inspects(b)
    BY <1>1, <2>1, <2>4 DEF PhaseInv, TypeOK, Applies, Inspects, Runnable, Settle,
       FinishFixFailure, ApplyOutcome, FinishAttempt, OutcomeAttemptStatus
  <2>5. QED
    BY <2>2, <2>3, <2>4
<1>2. PhaseInv /\ [Next]_vars => [\A a \in Attempts : ~PushedFixFails(a)]_vars
  BY <1>1
<1>3. QED
  BY <1>2, PhaseInvHolds, PTL DEF Spec, PushedFixIsNotFailed

-----------------------------------------------------------------------------
(***************************************************************************)
(* The refinement of CaseLifecycle.  A runner cancellation that fails is   *)
(* audited under the version its cancellation committed; that this Case is *)
(* not terminal needs one more invariant.                                  *)
(***************************************************************************)

CancelledStatus == {"waiting_evidence", "fix_failed", "reset_archived"}

VersionInv ==
    /\ \A c \in Cases : status[c] = Absent => version[c] = 0
    /\ \A a \in Attempts : cancelling[a] # 0 =>
          /\ status[CaseOf[a]] # Absent
          /\ cancelling[a] <= version[CaseOf[a]]
          /\ cancelling[a] = version[CaseOf[a]] => status[CaseOf[a]] \in CancelledStatus

(* Cancellations are only forgotten, or refer to the mutation on c itself. *)
Delivered == \A a \in Attempts : cancelling'[a] \in {0, cancelling[a]}
CancelledNow(c) ==
    \A a \in Attempts :
       \/ cancelling'[a] \in {0, cancelling[a]}
       \/ /\ CaseOf[a] = c /\ cancelling'[a] = version[c] + 1
          /\ status'[c] \in CancelledStatus

Still == UNCHANGED <<status, version>> /\ Delivered
Moves(c, to) ==
    /\ to \in Status /\ Walk(status[c], to)
    /\ status' = [status EXCEPT ![c] = to]
    /\ version' = [version EXCEPT ![c] = @ + 1]
    /\ CancelledNow(c)
Audits(c) ==
    /\ status[c] # Absent /\ ~IsTerminalCaseStatus(status[c])
    /\ version' = [version EXCEPT ![c] = @ + 1]
    /\ UNCHANGED status /\ Delivered
Creates(c) ==
    /\ status[c] = Absent
    /\ status' = [status EXCEPT ![c] = "pending_investigation"]
    /\ version' = [version EXCEPT ![c] = @ + 1]
    /\ Delivered
Replaces(c, new) ==
    /\ status[c] # Absent /\ ~IsTerminalCaseStatus(status[c]) /\ status[new] = Absent
    /\ status' = [status EXCEPT ![c] = "reset_archived", ![new] = "pending_investigation"]
    /\ version' = [version EXCEPT ![c] = @ + 1, ![new] = 1]
    /\ CancelledNow(c)

CaseStep ==
    \/ Still
    \/ \E c \in Cases : Audits(c) \/ Creates(c) \/ \E to \in Status : Moves(c, to)
    \/ \E c, new \in Cases : Replaces(c, new)

(* The instance shares the transition table.                               *)
LEMMA SameTable ==
  /\ Lifecycle!Status = Status /\ Lifecycle!Absent = Absent
  /\ \A s : Lifecycle!IsTerminalCaseStatus(s) <=> IsTerminalCaseStatus(s)
  /\ \A from, to : Lifecycle!CanTransition(from, to) <=> CanTransition(from, to)
  /\ \A from, to : Lifecycle!Walk(from, to) <=> Walk(from, to)
<1>1. /\ Lifecycle!Status = Status /\ Lifecycle!Absent = Absent
      /\ Lifecycle!PassedThrough = PassedThrough
      /\ \A s : Lifecycle!IsTerminalCaseStatus(s) <=> IsTerminalCaseStatus(s)
  BY DEF Lifecycle!Status, Lifecycle!Absent, Lifecycle!IsTerminalCaseStatus,
         Lifecycle!PassedThrough, PassedThrough
<1>2. Lifecycle!AllowedCaseTransitions = AllowedCaseTransitions
  BY DEF Lifecycle!AllowedCaseTransitions, AllowedCaseTransitions, Lifecycle!Status,
         Lifecycle!IsTerminalCaseStatus
<1>3. \A from, to : Lifecycle!CanTransition(from, to) <=> CanTransition(from, to)
  BY <1>2 DEF Lifecycle!CanTransition, CanTransition
<1>4. \A from, to : Lifecycle!Walk(from, to) <=> Walk(from, to)
  BY <1>1, <1>3 DEF Lifecycle!Walk, Walk
<1>5. QED
  BY <1>1, <1>3, <1>4

LEMMA ResetIsAllowed ==
  ASSUME NEW s \in Status, ~IsTerminalCaseStatus(s)  PROVE CanTransition(s, "reset_archived")
<1>1. <<s, "reset_archived">> \in { <<t, "reset_archived">> :
         t \in { u \in Status : ~IsTerminalCaseStatus(u) } }
  OBVIOUS
<1>2. QED
  BY <1>1, Zenon DEF CanTransition, AllowedCaseTransitions

(* Every kind of step keeps VersionInv and is a step of the lifecycle.     *)
LEMMA CaseStepRefines ==
  ASSUME TypeOK, VersionInv, CaseStep
  PROVE  VersionInv' /\ [Lifecycle!Next]_(Lifecycle!vars)
<1> USE DEF TypeOK, VersionInv, Lifecycle!Next, Lifecycle!vars
<1>1. CASE Still
  BY <1>1 DEF Still, Delivered
<1>2. ASSUME NEW c \in Cases, Audits(c)
      PROVE  VersionInv' /\ [Lifecycle!Next]_(Lifecycle!vars)
  <2>1. Lifecycle!Audit(c)
    BY <1>2, SameTable DEF Audits, Lifecycle!Audit
  <2>2. VersionInv'
    BY <1>2 DEF Audits, Delivered, CancelledStatus
  <2>3. QED
    BY <2>1, <2>2
<1>3. ASSUME NEW c \in Cases, Creates(c)
      PROVE  VersionInv' /\ [Lifecycle!Next]_(Lifecycle!vars)
  <2>1. Lifecycle!Create(c)
    <3>1. version[c] + 1 = 1
      BY <1>3 DEF Creates
    <3>2. version' = [version EXCEPT ![c] = version[c] + 1]
      BY <1>3 DEF Creates
    <3>3. version' = [version EXCEPT ![c] = 1]
      BY <3>1, <3>2
    <3>4. QED
      BY <1>3, <3>3, SameTable DEF Creates, Lifecycle!Create
  <2>2. VersionInv'
    BY <1>3 DEF Creates, Delivered, CancelledStatus
  <2>3. QED
    BY <2>1, <2>2
<1>4. ASSUME NEW c \in Cases, NEW to \in Status, Moves(c, to)
      PROVE  VersionInv' /\ [Lifecycle!Next]_(Lifecycle!vars)
  <2>1. Lifecycle!Advance(c)
    BY <1>4, SameTable DEF Moves, Lifecycle!Advance
  <2>2. VersionInv'
    BY <1>4 DEF Moves, CancelledNow, CancelledStatus
  <2>3. QED
    BY <2>1, <2>2
<1>5. ASSUME NEW c \in Cases, NEW new \in Cases, Replaces(c, new)
      PROVE  VersionInv' /\ [Lifecycle!Next]_(Lifecycle!vars)
  <2>1. Lifecycle!Replace(c, new)
    <3>1. CanTransition(status[c], "reset_archived")
      BY <1>5, ResetIsAllowed DEF Replaces
    <3>2. QED
      BY <1>5, <3>1, SameTable DEF Replaces, Lifecycle!Replace
  <2>2. c # new
    BY <1>5 DEF Replaces
  <2>3. VersionInv'
    BY <1>5, <2>2 DEF Replaces, CancelledNow, CancelledStatus
  <2>4. QED
    BY <2>1, <2>3
<1>6. QED
  BY <1>1, <1>2, <1>3, <1>4, <1>5 DEF CaseStep

(* The walks over the transition table that the commands take.             *)
LEMMA Walks ==
  /\ \A from \in {"pending_investigation", "waiting_evidence", "waiting_fix_approval",
                  "waiting_remediation", "waiting_merge_approval", "investigating"} :
        Walk(from, "investigating")
  /\ \A from \in {"waiting_fix_approval", "fix_failed"} : Walk(from, "fixing")
  /\ Walk("waiting_remediation", "remediation_recorded")
  /\ \A to \in {"waiting_fix_approval", "waiting_remediation", "waiting_evidence"} :
        Walk("investigating", to)
  /\ \A to \in {"waiting_merge_approval", "fix_failed"} : Walk("fixing", to)
BY DEF Walk, PassedThrough, CanTransition, AllowedCaseTransitions

LEMMA CommandCaseStep ==
  ASSUME PhaseInv, NEW c \in Cases, UserCommand(c)  PROVE CaseStep
<1> USE DEF CommitCase
<1>1. CASE CreateCase(c)
  BY <1>1 DEF CaseStep, Creates, Delivered, CreateCase, runnerVars
<1>2. CASE StartCase(c) \/ ApproveFix(c) \/ ContinueWithEvidence(c) \/ DisputeRootCause(c)
           \/ ReconsiderRemediation(c) \/ CompleteRemediation(c)
  <2>1. \E to \in Status, cur \in Attempts \cup {NoAttempt} :
           /\ CommitCase(c, to, cur) /\ Walk(status[c], to) /\ UNCHANGED cancelling
    <3>1. CASE StartCase(c)
      <4>1. Walk(status[c], "investigating")
        BY <3>1, Walks DEF StartCase
      <4>2. QED
        BY <3>1, <4>1 DEF StartCase, Fresh
    <3>2. CASE ApproveFix(c)
      <4>1. Walk(status[c], "fixing")
        BY <3>2, Walks DEF ApproveFix
      <4>2. QED
        BY <3>2, <4>1 DEF ApproveFix, Fresh
    <3>3. CASE ContinueWithEvidence(c)
      <4>1. \E p \in Phase, a \in Fresh(c) :
               /\ CommitCase(c, StatusForPhase(p), a) /\ Walk(status[c], StatusForPhase(p))
        BY <3>3, Walks DEF ContinueWithEvidence
      <4>2. QED
        BY <3>3, <4>1 DEF ContinueWithEvidence, Fresh
    <3>4. CASE DisputeRootCause(c) \/ ReconsiderRemediation(c)
      BY <3>4, Walks DEF DisputeRootCause, ReconsiderRemediation, Reopen, Fresh
    <3>5. CASE CompleteRemediation(c)
      BY <3>5, Walks DEF CompleteRemediation, runnerVars, PhaseInv, TypeOK
    <3>6. QED
      BY <1>2, <3>1, <3>2, <3>3, <3>4, <3>5
  <2>2. QED
    BY <2>1 DEF CaseStep, Moves, CancelledNow
<1>3. CASE CancelAttempt(c)
  <2>1. PICK a \in Attempts :
           /\ a = current[c] /\ Finishable(a)
           /\ CommitCase(c, FailureStateForPhase(phase[a]), a)
           /\ cancelling' = [cancelling EXCEPT ![a] = version[c] + 1]
    BY <1>3 DEF CancelAttempt, PhaseInv, TypeOK
  <2>2. CaseOf[a] = c /\ status[c] = StatusForPhase(phase[a]) /\ phase[a] \in Phase
    BY <2>1 DEF PhaseInv, TypeOK, Pairing, CurrentIsOwn, RunningFitsCase, Finishable
  <2>3. Moves(c, FailureStateForPhase(phase[a]))
    BY <2>1, <2>2, Walks DEF Moves, CancelledNow, CancelledStatus, PhaseInv, TypeOK
  <2>4. QED
    BY <2>3 DEF CaseStep, Moves
<1>4. ASSUME NEW new \in Cases, ResetCase(c, new)  PROVE CaseStep
  <2>1. c # new
    BY <1>4 DEF ResetCase
  <2>2. CancelledNow(c)
    <3>1. status'[c] = "reset_archived"
      BY <1>4, <2>1 DEF ResetCase, PhaseInv, TypeOK
    <3>2. \/ UNCHANGED cancelling
          \/ \E a \in Attempts : /\ CaseOf[a] = c
                                 /\ cancelling' = [cancelling EXCEPT ![a] = version[c] + 1]
      BY <1>4 DEF ResetCase, RunsNow, PhaseInv, TypeOK, Pairing, CurrentIsOwn
    <3>3. QED
      BY <3>1, <3>2 DEF CancelledNow, CancelledStatus, PhaseInv, TypeOK
  <2>3. QED
    BY <1>4, <2>2 DEF CaseStep, Replaces, ResetCase
<1>5. QED
  BY <1>1, <1>2, <1>3, <1>4 DEF UserCommand

(* A running attempt ends into a status the table allows.                  *)
LEMMA EndingMoves ==
  ASSUME PhaseInv, NEW a \in Attempts, astatus[a] = "running", NEW to \in Status,
         status' = [status EXCEPT ![CaseOf[a]] = to],
         version' = [version EXCEPT ![CaseOf[a]] = @ + 1],
         Delivered,
         phase[a] = "fix" => to \in {"waiting_merge_approval", "fix_failed"},
         phase[a] = "investigation" => to \in {"waiting_fix_approval", "waiting_remediation",
                                               "waiting_evidence", "investigating"}
  PROVE  CaseStep
<1>1. Moves(CaseOf[a], to)
  BY Walks DEF PhaseInv, TypeOK, Pairing, RunningFitsCase, Moves, CancelledNow, Delivered
<1>2. QED
  BY <1>1 DEF CaseStep, PhaseInv, TypeOK

LEMMA SettleMoves ==
  ASSUME PhaseInv, NEW a \in Attempts, astatus[a] = "running",
         NEW out \in OutcomesOf(phase[a]), Settle(a, out), UNCHANGED cancelling
  PROVE  CaseStep
<1> DEFINE to == IF out = "fix_pushed" /\ a \notin pushed THEN "fix_failed"
                 ELSE OutcomeCaseStatus(out)
<1>1. /\ to \in Status
      /\ phase[a] = "fix" => to \in {"waiting_merge_approval", "fix_failed"}
      /\ phase[a] = "investigation" => to \in {"waiting_fix_approval", "waiting_remediation",
                                               "waiting_evidence", "investigating"}
  BY DEF OutcomeCaseStatus, PhaseInv, TypeOK
<1>2. /\ status' = [status EXCEPT ![CaseOf[a]] = to]
      /\ version' = [version EXCEPT ![CaseOf[a]] = @ + 1]
  BY DEF Settle, FinishFixFailure, ApplyOutcome, CommitCase
<1>3. QED
  BY <1>1, <1>2, EndingMoves DEF Delivered

LEMMA RunCaseStep ==
  ASSUME PhaseInv, VersionInv, NEW a \in Attempts, Scheduling(a) \/ Running(a) \/ Agent(a)
  PROVE  CaseStep
<1>1. CASE \/ ClaimRunnableAttempt(a) \/ StartFails(a) \/ Launch(a) \/ ExecutePhase(a)
           \/ SaveCompletionIntent(a) \/ AbandonRun(a) \/ InspectionUnavailable(a) \/ Agent(a)
  BY <1>1 DEF CaseStep, Still, Delivered, ClaimRunnableAttempt, StartFails, Launch,
     ExecutePhase, SaveCompletionIntent, AbandonRun, InspectionUnavailable, Agent,
     WriteManifest, PushFix, OrphanEnds, caseVars, runnerVars
<1>2. CASE PhaseScheduleFailure(a)
  <2>1. CASE /\ Finishable(a)
             /\ CommitCase(CaseOf[a], FailureStateForPhase(phase[a]), current[CaseOf[a]])
    <3>1. phase[a] \in Phase
      BY DEF PhaseInv, TypeOK
    <3>2. QED
      BY <1>2, <2>1, <3>1, EndingMoves
         DEF PhaseScheduleFailure, Finishable, CommitCase, Delivered
  <2>2. CASE UNCHANGED caseVars
    BY <1>2, <2>2 DEF CaseStep, Still, Delivered, PhaseScheduleFailure, caseVars
  <2>3. QED
    BY <1>2, <2>1, <2>2 DEF PhaseScheduleFailure
<1>3. CASE CompleteAttempt(a)
  <2>1. CASE CompletionFresh(a)
    <3>1. /\ astatus[a] = "running" /\ output[a] \in OutcomesOf(phase[a])
          /\ Settle(a, output[a]) /\ UNCHANGED cancelling
      BY <1>3, <2>1 DEF CompleteAttempt, CompletionFresh, PhaseInv, TypeOK,
         Pairing, RunningFitsCase, Bookkeeping, IntentIsRecorded
    <3>2. QED
      BY <3>1, SettleMoves
  <2>2. CASE ~CompletionFresh(a)
    BY <1>3, <2>2 DEF CaseStep, Still, Delivered, CompleteAttempt, caseVars
  <2>3. QED
    BY <2>1, <2>2
<1>4. CASE RunnerCancel(a)
  BY <1>4 DEF CaseStep, Still, Delivered, RunnerCancel, caseVars, PhaseInv, TypeOK
<1>5. CASE RunnerCancelFails(a)
  <2>1. Delivered
    BY <1>5 DEF RunnerCancelFails, Delivered, PhaseInv, TypeOK
  <2>2. CASE version[CaseOf[a]] = cancelling[a] /\ status[CaseOf[a]] # "reset_archived"
    BY <1>5, <2>1, <2>2
       DEF RunnerCancelFails, CommitAudit, CaseStep, Audits, VersionInv, CancelledStatus,
           PhaseInv, TypeOK
  <2>3. CASE UNCHANGED caseVars
    BY <2>1, <2>3 DEF CaseStep, Still, caseVars
  <2>4. QED
    BY <1>5, <2>2, <2>3 DEF RunnerCancelFails
<1>6. QED
  BY <1>1, <1>2, <1>3, <1>4, <1>5 DEF Scheduling, Running

LEMMA RecoveryCaseStep ==
  ASSUME PhaseInv, NEW a \in Attempts, Recovery(a)  PROVE CaseStep
<1>1. CASE RecoverNothing(a) \/ RecoveryInspectionUnavailable(a)
  BY <1>1 DEF CaseStep, Still, Delivered, RecoverNothing, RecoveryInspectionUnavailable,
     caseVars, runnerVars
<1>2. CASE RecoverIntent(a)
  <2>1. CASE astatus[a] = "running"
    <3>1. output[a] \in OutcomesOf(phase[a]) /\ Settle(a, output[a]) /\ UNCHANGED cancelling
      BY <1>2, <2>1 DEF RecoverIntent, PhaseInv, TypeOK, Pairing, RunningFitsCase,
         Bookkeeping, IntentIsRecorded, runnerVars
    <3>2. QED
      BY <2>1, <3>1, SettleMoves
  <2>2. CASE astatus[a] # "running"
    BY <1>2, <2>2 DEF CaseStep, Still, Delivered, RecoverIntent, caseVars, runnerVars
  <2>3. QED
    BY <2>1, <2>2
<1>3. CASE RecoverReadOnly(a)
  <2>1. UNCHANGED cancelling /\ (Finishable(a) => phase[a] = "investigation")
    BY <1>3 DEF RecoverReadOnly, Finishable, PhaseInv, TypeOK, Pairing, RunningFitsCase
  <2>2. CASE \E retry \in Fresh(CaseOf[a]) : Finishable(a) /\ RetryInterrupted(a, retry)
    BY <1>3, <2>1, <2>2, EndingMoves
       DEF RetryInterrupted, CommitCase, Delivered, Finishable, RecoverReadOnly
  <2>3. CASE Finishable(a) /\ GiveUpInterrupted(a)
    BY <1>3, <2>1, <2>3, EndingMoves
       DEF GiveUpInterrupted, CommitCase, Delivered, Finishable, RecoverReadOnly
  <2>4. CASE UNCHANGED caseVars
    BY <1>3, <2>4 DEF CaseStep, Still, Delivered, caseVars, RecoverReadOnly
  <2>5. QED
    BY <1>3, <2>2, <2>3, <2>4 DEF RecoverReadOnly
<1>4. CASE ReserveInspection(a)
  BY <1>4 DEF CaseStep, Still, Audits, Delivered, ReserveInspection, CommitAudit,
     caseVars, runnerVars, PhaseInv, TypeOK
<1>5. CASE RecoverFix(a)
  <2>1. CASE Runnable(a)
    <3>1. astatus[a] = "running" /\ phase[a] = "fix" /\ UNCHANGED cancelling
      BY <1>5, <2>1 DEF RecoverFix, Runnable, Finishable, PhaseInv, Bookkeeping,
         IntentIsRecorded, runnerVars
    <3>2. CASE Settle(a, "fix_pushed")
      BY <3>1, <3>2, SettleMoves
    <3>3. CASE FinishFixFailure(a)
      BY <3>1, <3>3, EndingMoves DEF FinishFixFailure, CommitCase, Delivered
    <3>4. QED
      BY <1>5, <2>1, <3>2, <3>3 DEF RecoverFix
  <2>2. CASE ~Runnable(a)
    BY <1>5, <2>2 DEF CaseStep, Still, Delivered, RecoverFix, caseVars, runnerVars
  <2>3. QED
    BY <2>1, <2>2
<1>6. QED
  BY <1>1, <1>2, <1>3, <1>4, <1>5 DEF Recovery

LEMMA NextCaseStep ==
  ASSUME PhaseInv, VersionInv, [Next]_vars  PROVE CaseStep
<1>1. CASE BeginRecovery \/ EndRecovery \/ Restart \/ UNCHANGED vars
  BY <1>1 DEF CaseStep, Still, Delivered, BeginRecovery, EndRecovery, Restart, vars,
     caseVars, runnerVars
<1>2. CASE Crash
  BY <1>2 DEF CaseStep, Still, Delivered, Crash, caseVars
<1>3. QED
  BY <1>1, <1>2, CommandCaseStep, RunCaseStep, RecoveryCaseStep DEF Next

(* The Case store keeps its promise: whatever runs, passes and crashes do, *)
(* a status only walks along the transition table, a version counts the    *)
(* mutations, and a terminal Case never changes again.                     *)
THEOREM LifecycleRefined == Spec => RefinesLifecycle
<1>1. Init => Lifecycle!Init /\ VersionInv
  BY SameTable DEF Init, Lifecycle!Init, VersionInv
<1>2. PhaseInv /\ VersionInv /\ [Next]_vars
         => VersionInv' /\ [Lifecycle!Next]_(Lifecycle!vars)
  BY NextCaseStep, CaseStepRefines DEF PhaseInv
<1>3. QED
  BY <1>1, <1>2, PhaseInvHolds, PTL DEF Spec, RefinesLifecycle, Lifecycle!Spec

-----------------------------------------------------------------------------
(***************************************************************************)
(* The list of a recovery pass.  A command that got past the gate before   *)
(* the pass commits at most once per Case, because its commit moves the    *)
(* Case away from the gate; so a listed attempt that does not run any more *)
(* is one whose Case no such command can change again.                     *)
(***************************************************************************)

Gated(c) == ~serving \/ gate[c] < version[c]

GateIsBehind == \A c \in Cases : gate[c] <= version[c]

ListedFits(a) ==
    todo[a] # "no" =>
       /\ recovering
       /\ \/ status[CaseOf[a]] = "reset_archived"
          \/ /\ current[CaseOf[a]] = a
             /\ astatus[a] = "running" \/ Gated(CaseOf[a])

PassInv == GateIsBehind /\ \A a \in Attempts : ListedFits(a)

(* What a step may do to the Case of an attempt that stays on the list.    *)
Spares(a) ==
    \/ status'[CaseOf[a]] = "reset_archived"
    \/ /\ status[CaseOf[a]] # "reset_archived"
       /\ current'[CaseOf[a]] = current[CaseOf[a]]
       /\ astatus'[a] = astatus[a] \/ version[CaseOf[a]] < version'[CaseOf[a]]

LEMMA SparedListKeepsPass ==
  ASSUME TypeOK, TypeOK', PassInv,
         UNCHANGED <<serving, gate, recovering>>,
         \A c \in Cases : version[c] <= version'[c],
         \A a \in Attempts : todo'[a] # "no" => todo[a] # "no" /\ Spares(a)
  PROVE  PassInv'
<1>1. GateIsBehind'
  BY DEF TypeOK, PassInv, GateIsBehind
<1>2. ASSUME NEW a \in Attempts, todo'[a] # "no"  PROVE ListedFits(a)'
  <2> DEFINE c == CaseOf[a]
  <2>1. recovering' /\ ListedFits(a) /\ todo[a] # "no" /\ Spares(a)
    BY <1>2 DEF PassInv, ListedFits
  <2>2. CASE status'[c] # "reset_archived"
    <3>1. current'[c] = a
      BY <2>1, <2>2 DEF ListedFits, Spares
    <3>2. astatus[a] = "running" \/ Gated(c)
      BY <2>1, <2>2 DEF ListedFits, Spares
    <3>3. gate[c] <= version[c] /\ version[c] <= version'[c]
      BY DEF PassInv, GateIsBehind, TypeOK
    <3>4. astatus'[a] = "running" \/ Gated(c)'
      BY <2>1, <2>2, <3>2, <3>3 DEF Spares, Gated, TypeOK
    <3>5. QED
      BY <2>1, <3>1, <3>4 DEF ListedFits
  <2>3. QED
    BY <2>1, <2>2 DEF ListedFits
<1>3. QED
  BY <1>1, <1>2 DEF PassInv, ListedFits

(* A mutation of one Case takes a version and leaves the other Cases alone. *)
OneCase(c) ==
    /\ \A d \in Cases \ {c} : /\ status'[d] = status[d]
                              /\ current'[d] = current[d]
                              /\ version'[d] = version[d]
    /\ version'[c] = version[c] + 1
    /\ \A a \in Attempts : CaseOf[a] # c => astatus'[a] = astatus[a]
    /\ UNCHANGED <<serving, gate, recovering>>
    /\ \A a \in Attempts : todo'[a] # "no" => todo[a] # "no"

LEMMA CommitKeepsPass ==
  ASSUME TypeOK, TypeOK', PassInv, NEW c \in Cases, OneCase(c),
         \A a \in Attempts : CaseOf[a] = c /\ todo'[a] # "no" =>
            \/ status'[c] = "reset_archived"
            \/ status[c] # "reset_archived" /\ current'[c] = current[c]
  PROVE  PassInv'
<1>1. \A d \in Cases : version[d] <= version'[d]
  BY DEF OneCase, TypeOK
<1>2. ASSUME NEW a \in Attempts, todo'[a] # "no"  PROVE todo[a] # "no" /\ Spares(a)
  BY <1>2 DEF OneCase, Spares, TypeOK
<1>3. QED
  BY <1>1, <1>2, SparedListKeepsPass DEF OneCase

(* A step that leaves the Cases and the statuses of the attempts alone.    *)
LEMMA QuietKeepsPass ==
  ASSUME TypeOK, TypeOK', PassInv,
         UNCHANGED <<status, current, version, astatus, serving, gate, recovering>>,
         \A a \in Attempts : todo'[a] # "no" => todo[a] # "no"
  PROVE  PassInv'
<1>1. \A c \in Cases : version[c] <= version'[c]
  BY DEF TypeOK
<1>2. \A a \in Attempts : todo'[a] # "no" => todo[a] # "no" /\ Spares(a)
  BY DEF Spares
<1>3. QED
  BY <1>1, <1>2, SparedListKeepsPass

(* A command that the gate lets through while a pass runs finds the Case   *)
(* as the list was read: a listed attempt of it runs.                      *)
LEMMA OpenCaseIsListedRunning ==
  ASSUME PhaseInv, PassInv, NEW c \in Cases, CommandOpen(c),
         NEW a \in Attempts, CaseOf[a] = c, todo[a] # "no", status[c] # "reset_archived"
  PROVE  astatus[a] = "running" /\ status[c] \in {"investigating", "fixing"}
<1>1. ListedFits(a) /\ gate[c] <= version[c]
  BY DEF PassInv, GateIsBehind
<1>2. gate[c] \in Nat /\ version[c] \in Nat
  BY DEF PhaseInv, TypeOK
<1>3. ~Gated(c)
  BY <1>1, <1>2 DEF ListedFits, CommandOpen, Gated
<1>4. QED
  BY <1>1, <1>3 DEF ListedFits, PhaseInv, TypeOK, Pairing, RunningFitsCase

LEMMA BeginKeepsPass ==
  ASSUME PhaseInv, TypeOK', PassInv, NEW c \in Cases, CommandOpen(c),
         status[c] \notin {"investigating", "fixing", "reset_archived"},
         NEW a \in Fresh(c), NEW to, CommitCase(c, to, a),
         NEW p, NEW from, BeginAttempt(a, p, from),
         UNCHANGED <<serving, gate, recovering, todo>>
  PROVE  PassInv'
<1>1. OneCase(c)
  BY DEF OneCase, CommitCase, BeginAttempt, Fresh, PhaseInv, TypeOK
<1>2. \A b \in Attempts : CaseOf[b] = c => todo'[b] = "no"
  BY OpenCaseIsListedRunning
<1>3. QED
  BY <1>1, <1>2, CommitKeepsPass DEF PhaseInv

LEMMA ResetKeepsPass ==
  ASSUME PhaseInv, TypeOK', VersionInv, PassInv, NEW c \in Cases, NEW new \in Cases,
         ResetCase(c, new)
  PROVE  PassInv'
<1>1. /\ c # new /\ CommandOpen(c) /\ serving
      /\ version[new] = 0 /\ gate[new] = 0
  BY DEF ResetCase, CommandOpen, VersionInv, PassInv, GateIsBehind, PhaseInv, TypeOK
<1>2. /\ status' = [status EXCEPT ![c] = "reset_archived", ![new] = "pending_investigation"]
      /\ version' = [version EXCEPT ![c] = @ + 1, ![new] = 1]
      /\ current' = [current EXCEPT ![c] = NoAttempt]
  BY DEF ResetCase
<1>3. \A d \in Cases : version[d] <= version'[d]
  BY <1>1, <1>2 DEF PhaseInv, TypeOK
<1>4. UNCHANGED <<serving, gate, recovering, todo>>
  BY DEF ResetCase, processVars, passVars
<1>5. \A a \in Attempts : CaseOf[a] # c => astatus'[a] = astatus[a]
  <2>1. \A b \in Attempts : RunsNow(c, b) => CaseOf[b] = c
    BY DEF RunsNow, PhaseInv, TypeOK, Pairing, CurrentIsOwn
  <2>2. QED
    BY <2>1 DEF ResetCase, FinishAttempt, attemptVars, PhaseInv, TypeOK
<1>6. ASSUME NEW a \in Attempts, CaseOf[a] = new  PROVE todo[a] = "no"
  <2>1. status[new] = Absent /\ ~Gated(new)
    BY <1>1 DEF ResetCase, Gated
  <2>2. astatus[a] # "running"
    BY <1>6, <2>1 DEF PhaseInv, TypeOK, Pairing, RunningFitsCase
  <2>3. QED
    BY <1>6, <2>1, <2>2 DEF PassInv, ListedFits
<1>7. ASSUME NEW a \in Attempts, todo'[a] # "no"  PROVE todo[a] # "no" /\ Spares(a)
  <2>1. todo[a] # "no" /\ CaseOf[a] # new
    BY <1>4, <1>6, <1>7
  <2>2. CASE CaseOf[a] = c
    BY <1>1, <1>2, <2>1, <2>2 DEF Spares, PhaseInv, TypeOK
  <2>3. CASE CaseOf[a] # c
    BY <1>2, <1>5, <2>1, <2>3 DEF Spares, PhaseInv, TypeOK
  <2>4. QED
    BY <2>1, <2>2, <2>3
<1>8. QED
  BY <1>3, <1>4, <1>7, SparedListKeepsPass DEF PhaseInv

LEMMA CommandKeepsPass ==
  ASSUME PhaseInv, TypeOK', VersionInv, PassInv, NEW c \in Cases, UserCommand(c)
  PROVE  PassInv'
<1>1. CASE CreateCase(c)
  <2>1. OneCase(c)
    BY <1>1 DEF OneCase, CreateCase, CommitCase, attemptVars, processVars, passVars, PhaseInv,
       TypeOK
  <2>2. \A a \in Attempts : todo'[a] = "no"
    BY <1>1 DEF CreateCase, passVars, PassInv, ListedFits
  <2>3. QED
    BY <2>1, <2>2, CommitKeepsPass DEF PhaseInv
<1>2. CASE StartCase(c) \/ ApproveFix(c) \/ ContinueWithEvidence(c) \/ DisputeRootCause(c)
           \/ ReconsiderRemediation(c)
  <2>1. /\ CommandOpen(c)
        /\ status[c] \notin {"investigating", "fixing", "reset_archived"}
        /\ UNCHANGED <<serving, gate, recovering, todo>>
    BY <1>2 DEF StartCase, ApproveFix, ContinueWithEvidence, DisputeRootCause,
       ReconsiderRemediation, Reopen, processVars, passVars
  <2>2. \E a \in Fresh(c), to \in Status, p \in Phase, from \in Attempts \cup {NoAttempt} :
           CommitCase(c, to, a) /\ BeginAttempt(a, p, from)
    <3>1. CASE StartCase(c)
      BY <3>1 DEF StartCase
    <3>2. CASE ApproveFix(c)
      BY <3>2 DEF ApproveFix, PhaseInv, TypeOK
    <3>3. CASE ContinueWithEvidence(c)
      BY <3>3 DEF ContinueWithEvidence, ContinuationParent, PhaseInv, TypeOK
    <3>4. CASE DisputeRootCause(c) \/ ReconsiderRemediation(c)
      BY <3>4 DEF DisputeRootCause, ReconsiderRemediation, Reopen, PhaseInv, TypeOK
    <3>5. QED
      BY <1>2, <3>1, <3>2, <3>3, <3>4
  <2>3. QED
    BY <2>1, <2>2, BeginKeepsPass
<1>3. CASE CompleteRemediation(c)
  <2>1. OneCase(c) /\ current'[c] = current[c] /\ status[c] # "reset_archived"
    BY <1>3 DEF OneCase, CompleteRemediation, CommitCase, attemptVars, processVars, passVars,
       PhaseInv, TypeOK
  <2>2. QED
    BY <2>1, CommitKeepsPass DEF PhaseInv
<1>4. CASE CancelAttempt(c)
  <2>1. PICK a \in Attempts :
           /\ a = current[c] /\ Finishable(a) /\ FinishAttempt(a, "cancelled", "empty")
           /\ CommitCase(c, FailureStateForPhase(phase[a]), a)
    BY <1>4 DEF CancelAttempt, PhaseInv, TypeOK
  <2>2. CaseOf[a] = c /\ status[c] # "reset_archived"
    BY <2>1 DEF PhaseInv, TypeOK, Pairing, CurrentIsOwn, RunningFitsCase, Finishable
  <2>3. UNCHANGED <<serving, gate, recovering, todo>>
    BY <1>4 DEF CancelAttempt, processVars, passVars
  <2>4. OneCase(c) /\ current'[c] = current[c]
    BY <2>1, <2>2, <2>3 DEF OneCase, CommitCase, FinishAttempt, PhaseInv, TypeOK
  <2>5. QED
    BY <2>2, <2>4, CommitKeepsPass DEF PhaseInv
<1>5. QED
  BY <1>1, <1>2, <1>3, <1>4, ResetKeepsPass DEF UserCommand

(* The end of a running attempt keeps it the current one of its Case.      *)
LEMMA EndingKeepsPass ==
  ASSUME PhaseInv, TypeOK', PassInv, NEW a \in Attempts, astatus[a] = "running",
         NEW to, CommitCase(CaseOf[a], to, a),
         NEW end, NEW out, FinishAttempt(a, end, out),
         UNCHANGED <<serving, gate, recovering>>,
         \A b \in Attempts : todo'[b] # "no" => todo[b] # "no"
  PROVE  PassInv'
<1>1. CaseOf[a] \in Cases /\ current[CaseOf[a]] = a /\ status[CaseOf[a]] # "reset_archived"
  BY DEF PhaseInv, TypeOK, Pairing, OnlyCurrentAttemptRuns, RunningFitsCase
<1>2. OneCase(CaseOf[a]) /\ current'[CaseOf[a]] = a
  BY <1>1 DEF OneCase, CommitCase, FinishAttempt, PhaseInv, TypeOK
<1>3. QED
  BY <1>1, <1>2, CommitKeepsPass DEF PhaseInv

LEMMA SettleKeepsPass ==
  ASSUME PhaseInv, TypeOK', PassInv, NEW a \in Attempts, astatus[a] = "running",
         NEW out, Settle(a, out),
         UNCHANGED <<serving, gate, recovering>>,
         \A b \in Attempts : todo'[b] # "no" => todo[b] # "no"
  PROVE  PassInv'
BY EndingKeepsPass DEF Settle, FinishFixFailure, ApplyOutcome

LEMMA AuditKeepsPass ==
  ASSUME PhaseInv, TypeOK', PassInv, NEW c \in Cases, CommitAudit(c),
         UNCHANGED <<astatus, serving, gate, recovering>>,
         \A b \in Attempts : todo'[b] # "no" => todo[b] # "no"
  PROVE  PassInv'
<1>1. OneCase(c)
  BY DEF OneCase, CommitAudit, PhaseInv, TypeOK
<1>2. QED
  BY <1>1, CommitKeepsPass DEF CommitAudit, PhaseInv

LEMMA RunKeepsPass ==
  ASSUME PhaseInv, TypeOK', PassInv, NEW a \in Attempts, Scheduling(a) \/ Running(a) \/ Agent(a)
  PROVE  PassInv'
<1>1. CASE \/ ClaimRunnableAttempt(a) \/ StartFails(a) \/ Launch(a) \/ ExecutePhase(a)
           \/ SaveCompletionIntent(a) \/ AbandonRun(a) \/ RunnerCancel(a) \/ Agent(a)
  BY <1>1, QuietKeepsPass DEF PhaseInv, ClaimRunnableAttempt, StartFails, Launch, ExecutePhase,
     SaveCompletionIntent, AbandonRun, RunnerCancel, Agent, WriteManifest, PushFix, OrphanEnds,
     caseVars, attemptVars, processVars, passVars
<1>2. CASE PhaseScheduleFailure(a)
  <2>1. UNCHANGED <<serving, gate, recovering, todo>>
    BY <1>2 DEF PhaseScheduleFailure, processVars
  <2>2. CASE /\ Finishable(a) /\ FinishAttempt(a, "failed", "empty")
             /\ CommitCase(CaseOf[a], FailureStateForPhase(phase[a]), current[CaseOf[a]])
    BY <2>1, <2>2, EndingKeepsPass DEF Finishable, PhaseInv, Pairing, OnlyCurrentAttemptRuns
  <2>3. CASE UNCHANGED <<caseVars, attemptVars>>
    BY <2>1, <2>3, QuietKeepsPass DEF PhaseInv, caseVars, attemptVars
  <2>4. QED
    BY <1>2, <2>2, <2>3 DEF PhaseScheduleFailure
<1>3. CASE CompleteAttempt(a)
  <2>1. UNCHANGED <<serving, gate, recovering, todo>>
    BY <1>3 DEF CompleteAttempt, processVars, passVars
  <2>2. CASE CompletionFresh(a)
    BY <1>3, <2>1, <2>2, SettleKeepsPass DEF CompleteAttempt, CompletionFresh
  <2>3. CASE ~CompletionFresh(a)
    BY <1>3, <2>1, <2>3, QuietKeepsPass DEF CompleteAttempt, PhaseInv, caseVars, attemptVars
  <2>4. QED
    BY <2>2, <2>3
<1>4. CASE InspectionUnavailable(a)
  <2>1. \A b \in Attempts : todo'[b] = "no"
    BY <1>4 DEF InspectionUnavailable, passVars, PassInv, ListedFits
  <2>2. GateIsBehind'
    BY <1>4 DEF InspectionUnavailable, caseVars, PassInv, GateIsBehind, PhaseInv, TypeOK
  <2>3. QED
    BY <2>1, <2>2 DEF PassInv, ListedFits
<1>5. CASE RunnerCancelFails(a)
  <2>1. UNCHANGED <<astatus, serving, gate, recovering, todo>>
    BY <1>5 DEF RunnerCancelFails, attemptVars, processVars, passVars
  <2>2. CASE CommitAudit(CaseOf[a])
    BY <2>1, <2>2, AuditKeepsPass DEF PhaseInv, TypeOK
  <2>3. CASE UNCHANGED caseVars
    BY <2>1, <2>3, QuietKeepsPass DEF caseVars, PhaseInv
  <2>4. QED
    BY <1>5, <2>2, <2>3 DEF RunnerCancelFails
<1>6. QED
  BY <1>1, <1>2, <1>3, <1>4, <1>5 DEF Scheduling, Running

LEMMA RecoveryKeepsPass ==
  ASSUME PhaseInv, TypeOK', PassInv, NEW a \in Attempts, Recovery(a)
  PROVE  PassInv'
<1>1. \A b \in Attempts : todo'[b] # "no" => todo[b] # "no"
  <2>1. \/ Done(a)
        \/ todo[a] = "interrupted" /\ todo' = [todo EXCEPT ![a] = "reserved"]
    BY DEF Recovery, RecoverNothing, RecoverIntent, RecoverReadOnly, ReserveInspection,
           RecoverFix, RecoveryInspectionUnavailable
  <2>2. QED
    BY <2>1 DEF Done, PhaseInv, TypeOK
<1>2. UNCHANGED <<serving, gate, recovering>>
  BY DEF Recovery, RecoverNothing, RecoverIntent, RecoverReadOnly, ReserveInspection,
         RecoverFix, RecoveryInspectionUnavailable, processVars
<1>3. CASE RecoverNothing(a) \/ RecoveryInspectionUnavailable(a)
  BY <1>1, <1>2, <1>3, QuietKeepsPass
     DEF RecoverNothing, RecoveryInspectionUnavailable, PhaseInv, caseVars, attemptVars
<1>4. CASE RecoverIntent(a)
  <2>1. CASE astatus[a] = "running"
    BY <1>1, <1>2, <1>4, <2>1, SettleKeepsPass DEF RecoverIntent
  <2>2. CASE astatus[a] # "running"
    BY <1>1, <1>2, <1>4, <2>2, QuietKeepsPass
       DEF RecoverIntent, PhaseInv, caseVars, attemptVars
  <2>3. QED
    BY <2>1, <2>2
<1>5. CASE RecoverReadOnly(a)
  <2>1. CASE UNCHANGED <<caseVars, attemptVars>>
    BY <1>1, <1>2, <2>1, QuietKeepsPass DEF PhaseInv, caseVars, attemptVars
  <2>2. CASE \E to \in Status, cur \in Attempts \cup {NoAttempt} : CommitCase(CaseOf[a], to, cur)
    <3>1. CaseOf[a] \in Cases /\ status[CaseOf[a]] = "investigating" /\ current[CaseOf[a]] = a
      BY <1>5 DEF RecoverReadOnly
    <3>2. \A b \in Attempts : CaseOf[b] # CaseOf[a] => astatus'[b] = astatus[b]
      BY <1>5 DEF RecoverReadOnly, RetryInterrupted, GiveUpInterrupted, FinishAttempt, Fresh,
         attemptVars, PhaseInv, TypeOK
    <3>3. OneCase(CaseOf[a])
      BY <1>1, <1>2, <2>2, <3>1, <3>2 DEF OneCase, CommitCase, PhaseInv, TypeOK
    <3>4. ASSUME NEW b \in Attempts, CaseOf[b] = CaseOf[a]  PROVE todo'[b] = "no"
      <4>1. todo[b] # "no" => b = a
        BY <3>1, <3>4 DEF PassInv, ListedFits
      <4>2. QED
        BY <1>5, <4>1 DEF RecoverReadOnly, Done, PhaseInv, TypeOK
    <3>5. QED
      BY <3>1, <3>3, <3>4, CommitKeepsPass DEF PhaseInv
  <2>3. QED
    BY <1>5, <2>1, <2>2 DEF RecoverReadOnly, RetryInterrupted, GiveUpInterrupted, Fresh
<1>6. CASE ReserveInspection(a)
  <2>1. CASE CommitAudit(CaseOf[a])
    BY <1>1, <1>2, <1>6, <2>1, AuditKeepsPass
       DEF ReserveInspection, attemptVars, PhaseInv, TypeOK
  <2>2. CASE UNCHANGED caseVars
    BY <1>1, <1>2, <1>6, <2>2, QuietKeepsPass
       DEF ReserveInspection, caseVars, attemptVars, PhaseInv
  <2>3. QED
    BY <1>6, <2>1, <2>2 DEF ReserveInspection
<1>7. CASE RecoverFix(a)
  <2>1. CASE Runnable(a)
    BY <1>1, <1>2, <1>7, <2>1, SettleKeepsPass, EndingKeepsPass
       DEF RecoverFix, Runnable, Finishable, FinishFixFailure
  <2>2. CASE ~Runnable(a)
    BY <1>1, <1>2, <1>7, <2>2, QuietKeepsPass DEF RecoverFix, PhaseInv, caseVars, attemptVars
  <2>3. QED
    BY <2>1, <2>2
<1>8. QED
  BY <1>3, <1>4, <1>5, <1>6, <1>7 DEF Recovery

LEMMA NextKeepsPass ==
  ASSUME PhaseInv, PhaseInv', VersionInv, PassInv, [Next]_vars  PROVE PassInv'
<1>1. TypeOK'
  BY DEF PhaseInv
<1>2. CASE BeginRecovery
  <2>1. \A a \in Attempts : todo'[a] # "no" => astatus[a] = "running"
    BY <1>2 DEF BeginRecovery
  <2>2. QED
    BY <1>2, <2>1 DEF BeginRecovery, PassInv, GateIsBehind, ListedFits, PhaseInv, Pairing,
       OnlyCurrentAttemptRuns, caseVars, attemptVars, processVars
<1>3. CASE EndRecovery
  BY <1>3 DEF EndRecovery, PassInv, GateIsBehind, ListedFits, PhaseInv, TypeOK, caseVars
<1>4. CASE Crash
  BY <1>4 DEF Crash, PassInv, GateIsBehind, ListedFits, PhaseInv, TypeOK, caseVars
<1>5. CASE Restart \/ UNCHANGED vars
  BY <1>1, <1>5, QuietKeepsPass
     DEF Restart, vars, caseVars, attemptVars, processVars, passVars, PhaseInv
<1>6. QED
  BY <1>1, <1>2, <1>3, <1>4, <1>5, CommandKeepsPass, RunKeepsPass, RecoveryKeepsPass DEF Next

(* The list that a recovery pass reads once stays usable, in a live process *)
(* as after a restart: neither a command that was issued before the pass    *)
(* nor a late completion makes another attempt current in a listed Case.    *)
THEOREM ListedAttemptsStayCurrent == Spec => []ListedAttemptStaysCurrent
<1> DEFINE Inv == VersionInv /\ PassInv
<1>1. Init => Inv
  BY DEF Init, VersionInv, PassInv, GateIsBehind, ListedFits
<1>2. PhaseInv /\ PhaseInv' /\ Inv /\ [Next]_vars => Inv'
  BY NextCaseStep, CaseStepRefines, NextKeepsPass DEF PhaseInv
<1>3. Inv => ListedAttemptStaysCurrent
  BY DEF PassInv, ListedFits, ListedAttemptStaysCurrent
<1>4. QED
  BY <1>1, <1>2, <1>3, PhaseInvHolds, PTL DEF Spec
(* However the runs of many Cases and the recovery passes that they start     *)
(* meet, the work that a pass finds is kept.                                  *)
THEOREM RecoveriesKeepWork == Spec => RecoveryKeepsWork
BY PushedFixesAreRecoverable, ListedAttemptsStayCurrent, IntentNeverLost, PushedFixNotFailed, PTL
   DEF RecoveryKeepsWork

=============================================================================
