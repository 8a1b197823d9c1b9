--------------------------- MODULE PhaseWorkflow ---------------------------
(***************************************************************************)
(* The phases of an incident Case: the durable Case store, the commands of *)
(* the orchestrator, the agent phase runner of the process, and the        *)
(* recovery pass, which runs when the process starts and again, in the     *)
(* live process, after a fix whose remote could not be inspected.          *)
(*                                                                         *)
(* A store mutation is one immediate SQLite transaction under a compare-   *)
(* and-set of the Case version, so a command is one action; what runs      *)
(* after the commit (scheduling, the agent, completion, the cancellation   *)
(* of a runner) is a chain of further actions that anything can interleave *)
(* with and a crash can cut.  The merge that follows                       *)
(* waiting_merge_approval is MergeWorkflow.                                *)
(***************************************************************************)
EXTENDS Naturals, FiniteSets, CaseStatus

CONSTANTS Cases,        \* Case identities
          Attempts,     \* attempt identities: stableID("attempt", command key)
          CaseOf,       \* the Case whose command key an attempt id derives from
          NoAttempt     \* the empty current_attempt_id or parent_attempt_id

ASSUME PhaseWorkflowAssumption ==
    /\ CaseOf \in [Attempts -> Cases]
    /\ NoAttempt \notin Attempts

VARIABLES
    \* incident_cases
    status, version, current,
    \* phase_attempts: phase, parent, status, and output_json, which holds
    \* the completion intent while the attempt is running
    phase, parent, astatus, output,
    \* sets of attempts: with a run_claim_token, with a fix_checkpoints row,
    \* root causes with a start_fix approval, with a recovery:ID:inspect event
    claim, checkpoint, approved, inspected,
    \* outside the process: fix-checkpoint.json in the staging directory, the
    \* commit on the remote fix branch, agents that outlived their process
    manifest, pushed, orphan,
    \* the desktop process: running, a pass of this process has succeeded,
    \* workflowInitErr, and the Case versions when that error was set
    up, serving, initErr, gate,
    \* the phase runner: where the run of an attempt stands, the version the
    \* start returned, the version the run completes with, cancelled contexts,
    \* and the runner cancellations still to be delivered
    worker, begun, seen, cancelled, cancelling,
    \* the recovery pass: running, its list, an error so far, recoveryStarted
    recovering, todo, recErr, recoveryStarted

caseVars    == <<status, version, current>>
attemptVars == <<phase, parent, astatus, output, claim, checkpoint>>
auditVars   == <<approved, inspected>>
remoteVars  == <<manifest, pushed, orphan>>
processVars == <<up, serving, initErr, gate>>
runnerVars  == <<worker, begun, seen, cancelled, cancelling>>
passVars    == <<recovering, todo, recErr, recoveryStarted>>
vars == <<caseVars, attemptVars, auditVars, remoteVars, processVars,
          runnerVars, passVars>>

AttemptStatus == {"absent", "running", "succeeded", "failed", "cancelled",
                  "interrupted"}
InvestigationOutcome == {"root_cause_code", "root_cause_other", "needs_evidence"}
FixOutcome == {"fix_pushed", "fix_failed"}
Outcome == InvestigationOutcome \cup FixOutcome
OutcomesOf(p) == IF p = "fix" THEN FixOutcome ELSE InvestigationOutcome

WorkerState == {"idle", "starting", "claimed", "failed", "ready", "executing",
                "completing"}
(* AgentPhaseRunner.active: the cancel functions the runner still holds. *)
Active(a) == worker[a] \in {"starting", "claimed", "ready", "executing", "completing"}

NoGate == [c \in Cases |-> 0]

Init ==
    /\ status = [c \in Cases |-> Absent]
    /\ version = [c \in Cases |-> 0]
    /\ current = [c \in Cases |-> NoAttempt]
    /\ phase = [a \in Attempts |-> "investigation"]
    /\ parent = [a \in Attempts |-> NoAttempt]
    /\ astatus = [a \in Attempts |-> "absent"]
    /\ output = [a \in Attempts |-> "empty"]
    /\ claim = {} /\ checkpoint = {} /\ approved = {} /\ inspected = {}
    /\ manifest = {} /\ pushed = {} /\ orphan = {}
    /\ up = TRUE /\ serving = TRUE /\ initErr = FALSE /\ gate = NoGate
    /\ worker = [a \in Attempts |-> "idle"]
    /\ begun = [a \in Attempts |-> 0]
    /\ seen = [a \in Attempts |-> 0]
    /\ cancelled = {}
    /\ cancelling = [a \in Attempts |-> 0]
    /\ recovering = FALSE
    /\ todo = [a \in Attempts |-> "no"]
    /\ recErr = FALSE
    /\ recoveryStarted = {}

-----------------------------------------------------------------------------
(***************************************************************************)
(* The pieces mutations are made of.                                       *)
(***************************************************************************)

Fresh(c) == { a \in Attempts : CaseOf[a] = c /\ astatus[a] = "absent" }

(* The Case row after a mutation: its status, its current attempt, version. *)
CommitCase(c, to, cur) ==
    /\ status' = [status EXCEPT ![c] = to]
    /\ current' = [current EXCEPT ![c] = cur]
    /\ version' = [version EXCEPT ![c] = @ + 1]

(* An audit-only mutation keeps the status and still takes a version. *)
CommitAudit(c) ==
    /\ version' = [version EXCEPT ![c] = @ + 1]
    /\ UNCHANGED <<status, current>>

(* newAttempt and CreateAttempts, then startPhase in the same command. *)
BeginAttempt(a, p, from) ==
    /\ phase' = [phase EXCEPT ![a] = p]
    /\ parent' = [parent EXCEPT ![a] = from]
    /\ astatus' = [astatus EXCEPT ![a] = "running"]
    /\ worker' = [worker EXCEPT ![a] = "starting"]
    /\ begun' = [begun EXCEPT ![a] = version[CaseOf[a]] + 1]
    /\ UNCHANGED <<output, claim, checkpoint>>

(* Mutant of FinishAttempt: the checkpoint row outlives the attempt. *)
FinishKeepsCheckpoint(a, final, out) ==
    /\ astatus' = [astatus EXCEPT ![a] = final]
    /\ output' = [output EXCEPT ![a] = out]
    /\ claim' = claim \ {a}
    /\ UNCHANGED <<phase, parent, checkpoint>>

(* FinishAttempts clears the claim; a finished fix loses its checkpoint row. *)
FinishAttempt(a, final, out) ==
    /\ astatus' = [astatus EXCEPT ![a] = final]
    /\ output' = [output EXCEPT ![a] = out]
    /\ claim' = claim \ {a}
    /\ checkpoint' = checkpoint \ {a}
    /\ UNCHANGED <<phase, parent>>

(* Mutant of Finishable: the pending completion intent is not looked at. *)
FinishableAnyway(a) == astatus[a] = "running"

(* A finish without an expected output refuses a pending completion intent. *)
Finishable(a) == astatus[a] = "running" /\ output[a] = "empty"

(* Mutant of CommandOpen: commands do not wait for the recovery pass. *)
CommandsNeverWait(c) == c \in Cases /\ up /\ serving

(***************************************************************************)
(* Every binding passes workflowComponents first, which holds workflowMu   *)
(* during a recovery pass and reruns the pass while workflowInitErr is     *)
(* set.  A command can therefore commit only when no error is pending, or  *)
(* when it was issued before the error was set: then it expects the        *)
(* version the Case had at that moment.                                    *)
(***************************************************************************)
CommandOpen(c) ==
    /\ up /\ serving
    /\ initErr \/ recovering => gate[c] = version[c]

-----------------------------------------------------------------------------
(***************************************************************************)
(* Commands of the user.                                                   *)
(***************************************************************************)

CreateCase(c) ==
    /\ up /\ serving /\ ~initErr /\ ~recovering
    /\ status[c] = Absent
    /\ CommitCase(c, "pending_investigation", NoAttempt)
    /\ UNCHANGED <<attemptVars, auditVars, remoteVars, processVars, runnerVars, passVars>>

StartCase(c) ==
    /\ CommandOpen(c)
    /\ status[c] = "pending_investigation"
    /\ \E a \in Fresh(c) :
          /\ CommitCase(c, "investigating", a)
          /\ BeginAttempt(a, "investigation", NoAttempt)
    /\ UNCHANGED <<auditVars, remoteVars, processVars, seen, cancelled, cancelling, passVars>>

(* The approval is bound to the current attempt, the proved root cause. *)
ApproveFix(c) ==
    /\ CommandOpen(c)
    /\ status[c] = "waiting_fix_approval"
    /\ current[c] # NoAttempt
    /\ LET root == current[c] IN
          /\ astatus[root] = "succeeded" /\ output[root] = "root_cause_code"
          /\ approved' = approved \cup {root}
          /\ \E a \in Fresh(c) :
                /\ CommitCase(c, "fixing", a)
                /\ BeginAttempt(a, "fix", root)
    /\ UNCHANGED <<inspected, remoteVars, processVars, seen, cancelled, cancelling, passVars>>

(* Mutant of ContinuationParent: a retried fix names the failed fix. *)
ParentIsPrevious(a) == a

(* A retry of a fix inherits the root cause whose fix was approved. *)
ContinuationParent(a) == IF phase[a] = "fix" THEN parent[a] ELSE a

ContinueWithEvidence(c) ==
    /\ CommandOpen(c)
    /\ status[c] \in {"fix_failed", "waiting_evidence"}
    /\ current[c] # NoAttempt
    /\ LET previous == current[c]
           p == IF status[c] = "fix_failed" THEN "fix" ELSE "investigation"
       IN /\ phase[previous] = p
          /\ \E a \in Fresh(c) :
                /\ CommitCase(c, StatusForPhase(p), a)
                /\ BeginAttempt(a, p, ContinuationParent(previous))
    /\ UNCHANGED <<auditVars, remoteVars, processVars, seen, cancelled, cancelling, passVars>>

(* Both commands reopen the investigation of a root cause that succeeded. *)
Reopen(c, root) ==
    /\ phase[root] = "investigation" /\ astatus[root] = "succeeded"
    /\ \E a \in Fresh(c) :
          /\ CommitCase(c, "investigating", a)
          /\ BeginAttempt(a, "investigation", root)
    /\ UNCHANGED <<auditVars, remoteVars, processVars, seen, cancelled, cancelling, passVars>>

DisputeRootCause(c) ==
    /\ CommandOpen(c)
    /\ status[c] \in {"waiting_fix_approval", "waiting_remediation"}
    /\ current[c] # NoAttempt
    /\ Reopen(c, current[c])

ReconsiderRemediation(c) ==
    /\ CommandOpen(c)
    /\ current[c] # NoAttempt
    /\ \/ status[c] = "waiting_fix_approval" /\ Reopen(c, current[c])
       \/ /\ status[c] = "waiting_merge_approval"
          /\ LET fix == current[c] IN
                /\ phase[fix] = "fix" /\ astatus[fix] = "succeeded"
                /\ parent[fix] # NoAttempt
                /\ Reopen(c, parent[fix])

CompleteRemediation(c) ==
    /\ CommandOpen(c)
    /\ status[c] = "waiting_remediation"
    /\ current[c] # NoAttempt /\ output[current[c]] = "root_cause_other"
    /\ CommitCase(c, "remediation_recorded", current[c])
    /\ UNCHANGED <<attemptVars, auditVars, remoteVars, processVars, runnerVars, passVars>>

(* The database commit of a cancellation; the runner is told afterwards. *)
CancelAttempt(c) ==
    /\ CommandOpen(c)
    /\ current[c] # NoAttempt
    /\ LET a == current[c] IN
          /\ Finishable(a)
          /\ FinishAttempt(a, "cancelled", "empty")
          /\ CommitCase(c, FailureStateForPhase(phase[a]), a)
          /\ cancelling' = [cancelling EXCEPT ![a] = version[c] + 1]
    /\ UNCHANGED <<auditVars, remoteVars, processVars, worker, begun, seen, cancelled, passVars>>

(* Mutant of RunsNow: reset spares an attempt whose result is recorded. *)
RunsWithoutResult(c, a) == current[c] = a /\ Finishable(a)

RunsNow(c, a) == current[c] = a /\ astatus[a] = "running"

(* Reset cancels a running attempt even when its result is already recorded. *)
ResetCase(c, new) ==
    /\ CommandOpen(c)
    /\ status[c] # Absent /\ ~IsTerminalCaseStatus(status[c])
    /\ status[new] = Absent
    /\ status' = [status EXCEPT ![c] = "reset_archived", ![new] = "pending_investigation"]
    /\ version' = [version EXCEPT ![c] = @ + 1, ![new] = 1]
    /\ current' = [current EXCEPT ![c] = NoAttempt]
    /\ \/ \E a \in Attempts :
             /\ RunsNow(c, a)
             /\ FinishAttempt(a, "cancelled", output[a])
             /\ cancelling' = [cancelling EXCEPT ![a] = version[c] + 1]
       \/ /\ \A a \in Attempts : ~RunsNow(c, a)
          /\ UNCHANGED <<attemptVars, cancelling>>
    /\ UNCHANGED <<auditVars, remoteVars, processVars, worker, begun, seen, cancelled, passVars>>

(* runner.Cancel after the commit: it cancels the context of an active run. *)
RunnerCancel(a) ==
    /\ up /\ cancelling[a] # 0
    /\ cancelled' = IF Active(a) THEN cancelled \cup {a} ELSE cancelled
    /\ cancelling' = [cancelling EXCEPT ![a] = 0]
    /\ UNCHANGED <<caseVars, attemptVars, auditVars, remoteVars, processVars,
                   worker, begun, seen, passVars>>

(* The workers are saturated or the executor did not answer: the failure is *)
(* audited, unless the Case moved on after the cancellation committed.      *)
RunnerCancelFails(a) ==
    /\ up /\ cancelling[a] # 0
    /\ \/ UNCHANGED cancelled
       \/ Active(a) /\ cancelled' = cancelled \cup {a}
    /\ cancelling' = [cancelling EXCEPT ![a] = 0]
    /\ LET c == CaseOf[a] IN
          IF version[c] = cancelling[a] /\ status[c] # "reset_archived"
          THEN CommitAudit(c)
          ELSE UNCHANGED caseVars
    /\ UNCHANGED <<attemptVars, auditVars, remoteVars, processVars,
                   worker, begun, seen, passVars>>

-----------------------------------------------------------------------------
(***************************************************************************)
(* AgentPhaseRunner.Start: the checks, the durable claim with the          *)
(* checkpoint row of a fix, then the goroutine.                            *)
(***************************************************************************)

Runnable(a) ==
    /\ current[CaseOf[a]] = a
    /\ status[CaseOf[a]] = StatusForPhase(phase[a])
    /\ Finishable(a)

(* Mutant of ClaimRunnableAttempt: no checkpoint row is reserved for a fix. *)
ClaimWithoutCheckpoint(a) ==
    /\ up /\ worker[a] = "starting"
    /\ Runnable(a) /\ a \notin claim
    /\ claim' = claim \cup {a}
    /\ worker' = [worker EXCEPT ![a] = "claimed"]
    /\ seen' = [seen EXCEPT ![a] = version[CaseOf[a]]]
    /\ UNCHANGED <<caseVars, phase, parent, astatus, output, checkpoint, auditVars,
                   remoteVars, processVars, begun, cancelled, cancelling, passVars>>

ClaimRunnableAttempt(a) ==
    /\ up /\ worker[a] = "starting"
    /\ Runnable(a) /\ a \notin claim
    /\ claim' = claim \cup {a}
    /\ checkpoint' = IF phase[a] = "fix" THEN checkpoint \cup {a} ELSE checkpoint
    /\ worker' = [worker EXCEPT ![a] = "claimed"]
    /\ seen' = [seen EXCEPT ![a] = version[CaseOf[a]]]
    /\ UNCHANGED <<caseVars, phase, parent, astatus, output, auditVars, remoteVars,
                   processVars, begun, cancelled, cancelling, passVars>>

(* ReleaseAttemptRunClaim only touches a runnable attempt. *)
ReleaseClaim(a) ==
    IF astatus[a] = "running" /\ a \in claim
    THEN /\ claim' = claim \ {a}
         /\ checkpoint' = checkpoint \ {a}
    ELSE UNCHANGED <<claim, checkpoint>>

(* Staging, the claim, its validation or a worktree failed. *)
StartFails(a) ==
    /\ up
    /\ \/ worker[a] = "starting" /\ UNCHANGED <<claim, checkpoint>>
       \/ worker[a] = "claimed" /\ ReleaseClaim(a)
    /\ worker' = [worker EXCEPT ![a] = "failed"]
    /\ seen' = [seen EXCEPT ![a] = 0]
    /\ cancelled' = cancelled \ {a}
    /\ UNCHANGED <<caseVars, phase, parent, astatus, output, auditVars, remoteVars,
                   processVars, begun, cancelling, passVars>>

Launch(a) ==
    /\ up /\ worker[a] = "claimed"
    /\ worker' = [worker EXCEPT ![a] = "ready"]
    /\ begun' = [begun EXCEPT ![a] = 0]
    /\ UNCHANGED <<caseVars, attemptVars, auditVars, remoteVars, processVars,
                   seen, cancelled, cancelling, passVars>>

(* Mutant of PhaseScheduleFailure: the Case loses its failed attempt. *)
ScheduleFailureForgets(a) ==
    /\ up /\ worker[a] = "failed"
    /\ IF version[CaseOf[a]] = begun[a] /\ Finishable(a)
       THEN /\ FinishAttempt(a, "failed", "empty")
            /\ CommitCase(CaseOf[a], FailureStateForPhase(phase[a]), NoAttempt)
       ELSE UNCHANGED <<caseVars, attemptVars>>
    /\ worker' = [worker EXCEPT ![a] = "idle"]
    /\ begun' = [begun EXCEPT ![a] = 0]
    /\ UNCHANGED <<auditVars, remoteVars, processVars, seen, cancelled,
                   cancelling, passVars>>

(* The failure is committed under the version the start had committed. *)
PhaseScheduleFailure(a) ==
    /\ up /\ worker[a] = "failed"
    /\ LET c == CaseOf[a] IN
          IF version[c] = begun[a] /\ Finishable(a)
          THEN /\ FinishAttempt(a, "failed", "empty")
               /\ CommitCase(c, FailureStateForPhase(phase[a]), current[c])
          ELSE UNCHANGED <<caseVars, attemptVars>>
    /\ worker' = [worker EXCEPT ![a] = "idle"]
    /\ begun' = [begun EXCEPT ![a] = 0]
    /\ recErr' = (recErr \/ a \in recoveryStarted)      \* a retry of the pass
    /\ recoveryStarted' = recoveryStarted \ {a}
    /\ UNCHANGED <<auditVars, remoteVars, processVars, seen, cancelled,
                   cancelling, recovering, todo>>

-----------------------------------------------------------------------------
(***************************************************************************)
(* AgentPhaseRunner.run and the agent it executes.                         *)
(***************************************************************************)

EndWorker(a) ==
    /\ worker' = [worker EXCEPT ![a] = "idle"]
    /\ seen' = [seen EXCEPT ![a] = 0]
    /\ cancelled' = cancelled \ {a}

(* The run validates its claim once, before it executes the agent. *)
ExecutePhase(a) ==
    /\ up /\ worker[a] = "ready"
    /\ IF a \notin cancelled /\ a \in claim /\ Runnable(a)
       THEN /\ worker' = [worker EXCEPT ![a] = "executing"]
            /\ UNCHANGED <<claim, checkpoint, seen, cancelled>>
       ELSE EndWorker(a) /\ ReleaseClaim(a)
    /\ UNCHANGED <<caseVars, phase, parent, astatus, output, auditVars, remoteVars,
                   processVars, begun, cancelling, passVars>>

AgentRuns(a) == worker[a] = "executing" \/ a \in orphan

(* The agent writes the checkpoint manifest before its first push. *)
WriteManifest(a) ==
    /\ AgentRuns(a) /\ phase[a] = "fix" /\ a \notin manifest
    /\ manifest' = manifest \cup {a}
    /\ UNCHANGED <<caseVars, attemptVars, auditVars, pushed, orphan, processVars,
                   runnerVars, passVars>>

(* An agent whose attempt was finished meanwhile may still push: its staging *)
(* is gone, its manifest was written before.                                 *)
PushFix(a) ==
    /\ AgentRuns(a) /\ phase[a] = "fix" /\ a \notin pushed
    /\ a \in manifest \/ astatus[a] # "running"
    /\ pushed' = pushed \cup {a}
    /\ UNCHANGED <<caseVars, attemptVars, auditVars, manifest, orphan, processVars,
                   runnerVars, passVars>>

OrphanEnds(a) ==
    /\ a \in orphan
    /\ orphan' = orphan \ {a}
    /\ UNCHANGED <<caseVars, attemptVars, auditVars, manifest, pushed, processVars,
                   runnerVars, passVars>>

(* SaveCompletionIntentIfRunning: the result is durable before it is applied. *)
SaveCompletionIntent(a) ==
    /\ up /\ worker[a] = "executing" /\ a \notin cancelled
    /\ \E out \in OutcomesOf(phase[a]) :
          /\ out = "fix_pushed" => a \in manifest
          /\ IF Finishable(a)
             THEN /\ output' = [output EXCEPT ![a] = out]
                  /\ worker' = [worker EXCEPT ![a] = "completing"]
                  /\ UNCHANGED <<claim, checkpoint, seen, cancelled>>
             ELSE /\ EndWorker(a) /\ ReleaseClaim(a)
                  /\ UNCHANGED output
    /\ UNCHANGED <<caseVars, phase, parent, astatus, auditVars, remoteVars,
                   processVars, begun, cancelling, passVars>>

(* A cancelled run drops its result, its claim and its staging directory. *)
AbandonRun(a) ==
    /\ up /\ worker[a] = "executing" /\ a \in cancelled
    /\ EndWorker(a) /\ ReleaseClaim(a)
    /\ manifest' = manifest \ {a}
    /\ UNCHANGED <<caseVars, phase, parent, astatus, output, auditVars, pushed, orphan,
                   processVars, begun, cancelling, passVars>>

-----------------------------------------------------------------------------
(***************************************************************************)
(* CompleteAttempt and applyOutcome, from the run or from recovery.        *)
(***************************************************************************)

(* Mutant of OutcomeAttemptStatus: a Case status is stored on the attempt. *)
AttemptStatusOfCase(out) ==
    IF out \in {"needs_evidence", "fix_failed"} THEN out ELSE "succeeded"

OutcomeAttemptStatus(out) ==
    IF out \in {"needs_evidence", "fix_failed"} THEN "failed" ELSE "succeeded"

OutcomeCaseStatus(out) ==
    CASE out = "root_cause_code"  -> "waiting_fix_approval"
      [] out = "root_cause_other" -> "waiting_remediation"
      [] out = "needs_evidence"   -> "waiting_evidence"
      [] out = "fix_pushed"       -> "waiting_merge_approval"
      [] out = "fix_failed"       -> "fix_failed"

(* The staging of a run whose result is applied is removed. *)
ApplyOutcome(a, out) ==
    /\ FinishAttempt(a, OutcomeAttemptStatus(out), out)
    /\ CommitCase(CaseOf[a], OutcomeCaseStatus(out), a)
    /\ manifest' = manifest \ {a}

(* finishFixRecoveryFailure: the remote contradicts the result, or nothing  *)
(* can be inspected.  The staging of the checkpoint is removed as well.     *)
FinishFixFailure(a) ==
    /\ FinishAttempt(a, "failed", "empty")
    /\ CommitCase(CaseOf[a], "fix_failed", a)
    /\ manifest' = manifest \ {a}

(* Mutant of Settle: the reported commit is believed. *)
SettleUninspected(a, out) == ApplyOutcome(a, out)

(* InspectFix: a fix completes only if its commit is on the remote branch.   *)
(* The inspection and the mutation are one action: the mutation compares the *)
(* Case version and the attempt it read, and a push that slips in between    *)
(* leaves the state it would leave right after the mutation.                 *)
Settle(a, out) ==
    IF out = "fix_pushed" /\ a \notin pushed
    THEN FinishFixFailure(a)
    ELSE ApplyOutcome(a, out)

(* Mutant of CompletionFresh: a late result is applied to the Case anyway. *)
CompletionAlwaysFresh(a) == worker[a] = "completing"

CompletionFresh(a) ==
    /\ version[CaseOf[a]] = seen[a]
    /\ current[CaseOf[a]] = a
    /\ astatus[a] = "running"

CompleteAttempt(a) ==
    /\ up /\ worker[a] = "completing"
    /\ IF CompletionFresh(a)
       THEN Settle(a, output[a])
       ELSE UNCHANGED <<caseVars, attemptVars, manifest>>
    /\ EndWorker(a)
    /\ UNCHANGED <<auditVars, pushed, orphan, processVars, begun, cancelling, passVars>>

(* Mutant of InspectionUnavailable: no recovery pass is asked for. *)
InspectionForgotten(a) ==
    /\ up /\ worker[a] = "completing" /\ ~recovering
    /\ CompletionFresh(a) /\ output[a] = "fix_pushed"
    /\ EndWorker(a)
    /\ UNCHANGED <<caseVars, attemptVars, auditVars, remoteVars, processVars,
                   begun, cancelling, passVars>>

(* The remote cannot be read: the run retries or gives up, the intent stays, *)
(* and the next command is asked to run a recovery pass.  The callback takes *)
(* workflowMu, so it waits for a pass that is running.                       *)
InspectionUnavailable(a) ==
    /\ up /\ worker[a] = "completing" /\ ~recovering
    /\ CompletionFresh(a) /\ output[a] = "fix_pushed"
    /\ initErr' = TRUE
    /\ gate' = IF initErr THEN gate ELSE version
    /\ EndWorker(a) \/ UNCHANGED <<worker, seen, cancelled>>
    /\ UNCHANGED <<caseVars, attemptVars, auditVars, remoteVars, up, serving,
                   begun, cancelling, passVars>>

-----------------------------------------------------------------------------
(***************************************************************************)
(* RecoverInterrupted.  The list is read once; every Case is read again    *)
(* when the pass reaches it.                                               *)
(***************************************************************************)

BeginRecovery ==
    /\ up /\ ~recovering
    /\ ~serving \/ initErr
    /\ recovering' = TRUE
    /\ recErr' = FALSE
    /\ todo' = [a \in Attempts |->
                  IF astatus[a] # "running" \/ a \in recoveryStarted THEN "no"
                  ELSE IF output[a] = "empty" THEN "interrupted" ELSE "intent"]
    /\ manifest' = { a \in manifest : astatus[a] = "running" }
    /\ UNCHANGED <<caseVars, attemptVars, auditVars, pushed, orphan, processVars,
                   runnerVars, recoveryStarted>>

Done(a) == todo' = [todo EXCEPT ![a] = "no"]

(* The Case was reset, or its attempt settled, since the list was read. *)
RecoverNothing(a) ==
    /\ up /\ todo[a] # "no"
    /\ \/ IsTerminalCaseStatus(status[CaseOf[a]]) /\ todo[a] # "reserved"
       \/ /\ todo[a] = "interrupted" /\ current[CaseOf[a]] = a
          /\ status[CaseOf[a]] \notin {"investigating", "fixing"}
    /\ Done(a)
    /\ UNCHANGED <<caseVars, attemptVars, auditVars, remoteVars, processVars,
                   runnerVars, recovering, recErr, recoveryStarted>>

(* A recorded result is completed under the version the Case has now.  Of an
   attempt that ended meanwhile it is a replay, or an error. *)
RecoverIntent(a) ==
    /\ up /\ todo[a] = "intent"
    /\ ~IsTerminalCaseStatus(status[CaseOf[a]]) /\ current[CaseOf[a]] = a
    /\ IF astatus[a] = "running"
       THEN Settle(a, output[a]) /\ UNCHANGED recErr
       ELSE /\ recErr' \in {recErr, TRUE}
            /\ UNCHANGED <<caseVars, attemptVars, manifest>>
    /\ Done(a)
    /\ UNCHANGED <<auditVars, pushed, orphan, processVars, runnerVars,
                   recovering, recoveryStarted>>

(* recoverReadOnly: interrupt the attempt and retry it once per Case. *)
InvestigationsOf(c) ==
    { a \in Attempts : CaseOf[a] = c /\ astatus[a] # "absent" /\ phase[a] = "investigation" }

RetryInterrupted(a, retry) ==
    /\ CommitCase(CaseOf[a], "investigating", retry)
    /\ astatus' = [astatus EXCEPT ![a] = "interrupted", ![retry] = "running"]
    /\ phase' = [phase EXCEPT ![retry] = "investigation"]
    /\ parent' = [parent EXCEPT ![retry] = a]
    /\ claim' = claim \ {a}
    /\ worker' = [worker EXCEPT ![retry] = "starting"]
    /\ begun' = [begun EXCEPT ![retry] = version[CaseOf[a]] + 1]
    /\ recoveryStarted' = recoveryStarted \cup {retry}
    /\ UNCHANGED <<output, checkpoint, recErr>>

GiveUpInterrupted(a) ==
    /\ FinishAttempt(a, "interrupted", "empty")
    /\ CommitCase(CaseOf[a], "waiting_evidence", NoAttempt)
    /\ UNCHANGED <<worker, begun, recErr, recoveryStarted>>

RecoverReadOnly(a) ==
    /\ up /\ todo[a] = "interrupted" /\ current[CaseOf[a]] = a
    /\ status[CaseOf[a]] = "investigating"
    /\ \/ /\ ~Finishable(a)
          /\ recErr' = TRUE
          /\ UNCHANGED <<caseVars, attemptVars, worker, begun, recoveryStarted>>
       \/ /\ Finishable(a) /\ Cardinality(InvestigationsOf(CaseOf[a])) < 2
          /\ \E retry \in Fresh(CaseOf[a]) : RetryInterrupted(a, retry)
       \/ /\ Finishable(a) /\ Cardinality(InvestigationsOf(CaseOf[a])) >= 2
          /\ GiveUpInterrupted(a)
    /\ Done(a)
    /\ UNCHANGED <<auditVars, remoteVars, processVars, seen, cancelled, cancelling, recovering>>

(* reserveInspectionOnly: one audit event per attempt, before any inspection.
   It also looks for the event of a recovered result; that one is written with
   the end of the attempt, so a Case whose current attempt runs has none. *)
ReserveInspection(a) ==
    /\ up /\ todo[a] = "interrupted" /\ current[CaseOf[a]] = a
    /\ status[CaseOf[a]] = "fixing"
    /\ todo' = [todo EXCEPT ![a] = "reserved"]
    /\ IF a \in inspected
       THEN UNCHANGED <<caseVars, inspected>>
       ELSE CommitAudit(CaseOf[a]) /\ inspected' = inspected \cup {a}
    /\ UNCHANGED <<attemptVars, approved, remoteVars, processVars, runnerVars,
                   recovering, recErr, recoveryStarted>>

(* recoverFix: the checkpoint names the commit to look for on the remote. *)
RecoverFix(a) ==
    /\ up /\ todo[a] = "reserved"
    /\ IF Runnable(a)
       THEN /\ IF a \in checkpoint /\ a \in manifest
               THEN Settle(a, "fix_pushed")
               ELSE FinishFixFailure(a)
            /\ UNCHANGED recErr
       ELSE /\ recErr' = TRUE
            /\ UNCHANGED <<caseVars, attemptVars, manifest>>
    /\ Done(a)
    /\ UNCHANGED <<auditVars, pushed, orphan, processVars, runnerVars,
                   recovering, recoveryStarted>>

(* Mutant of RecoveryInspectionUnavailable: unreadable is taken for missing. *)
UnavailableIsMissing(a) ==
    /\ up /\ todo[a] = "reserved" /\ Runnable(a) /\ a \in checkpoint
    /\ FinishFixFailure(a)
    /\ Done(a)
    /\ UNCHANGED <<auditVars, pushed, orphan, processVars, runnerVars,
                   recovering, recErr, recoveryStarted>>

(* An unreadable remote is no evidence: the attempt stays as it is. *)
RecoveryInspectionUnavailable(a) ==
    /\ up /\ current[CaseOf[a]] = a
    /\ \/ todo[a] = "intent" /\ astatus[a] = "running" /\ output[a] = "fix_pushed"
       \/ todo[a] = "reserved" /\ Runnable(a) /\ a \in checkpoint /\ a \in manifest
    /\ recErr' = TRUE
    /\ Done(a)
    /\ UNCHANGED <<caseVars, attemptVars, auditVars, remoteVars, processVars,
                   runnerVars, recovering, recoveryStarted>>

EndRecovery ==
    /\ up /\ recovering
    /\ \A a \in Attempts : todo[a] = "no"
    /\ \A a \in recoveryStarted : worker[a] \notin {"starting", "claimed", "failed"}
    /\ recovering' = FALSE
    /\ initErr' = recErr
    /\ serving' = (serving \/ ~recErr)
    /\ gate' = IF recErr THEN gate ELSE NoGate
    /\ recErr' = FALSE
    /\ UNCHANGED <<caseVars, attemptVars, auditVars, remoteVars, up, runnerVars,
                   todo, recoveryStarted>>

-----------------------------------------------------------------------------
(***************************************************************************)
(* The process dies at any point: its memory is gone.  Agents run in a     *)
(* process group of their own and may outlive it.                          *)
(***************************************************************************)

Crash ==
    /\ up
    /\ up' = FALSE /\ serving' = FALSE /\ initErr' = FALSE /\ gate' = NoGate
    /\ orphan' \in SUBSET { a \in Attempts : AgentRuns(a) /\ phase[a] = "fix" }
    /\ worker' = [a \in Attempts |-> "idle"]
    /\ begun' = [a \in Attempts |-> 0]
    /\ seen' = [a \in Attempts |-> 0]
    /\ cancelled' = {}
    /\ cancelling' = [a \in Attempts |-> 0]
    /\ recovering' = FALSE /\ recErr' = FALSE /\ recoveryStarted' = {}
    /\ todo' = [a \in Attempts |-> "no"]
    /\ UNCHANGED <<caseVars, attemptVars, auditVars, manifest, pushed>>

Restart ==
    /\ ~up
    /\ up' = TRUE
    /\ UNCHANGED <<caseVars, attemptVars, auditVars, remoteVars, serving, initErr,
                   gate, runnerVars, passVars>>

-----------------------------------------------------------------------------

UserCommand(c) ==
    \/ CreateCase(c) \/ StartCase(c) \/ ApproveFix(c) \/ ContinueWithEvidence(c)
    \/ DisputeRootCause(c) \/ ReconsiderRemediation(c) \/ CompleteRemediation(c)
    \/ CancelAttempt(c)
    \/ \E new \in Cases : ResetCase(c, new)

Scheduling(a) ==
    ClaimRunnableAttempt(a) \/ StartFails(a) \/ Launch(a) \/ PhaseScheduleFailure(a)

Running(a) ==
    \/ ExecutePhase(a) \/ SaveCompletionIntent(a) \/ AbandonRun(a)
    \/ CompleteAttempt(a) \/ InspectionUnavailable(a)
    \/ RunnerCancel(a) \/ RunnerCancelFails(a)

Agent(a) == WriteManifest(a) \/ PushFix(a) \/ OrphanEnds(a)

Recovery(a) ==
    \/ RecoverNothing(a) \/ RecoverIntent(a) \/ RecoverReadOnly(a)
    \/ ReserveInspection(a) \/ RecoverFix(a) \/ RecoveryInspectionUnavailable(a)

Next ==
    \/ \E c \in Cases : UserCommand(c)
    \/ \E a \in Attempts : Scheduling(a) \/ Running(a) \/ Agent(a) \/ Recovery(a)
    \/ BeginRecovery \/ EndRecovery
    \/ Crash \/ Restart

Spec == Init /\ [][Next]_vars

(***************************************************************************)
(* The process keeps running its goroutines; an agent ends; a command of   *)
(* the interface (the Case list is one) runs a pending recovery pass; a    *)
(* remote is not unreadable at every inspection by recovery for ever.      *)
(***************************************************************************)
Fairness ==
    /\ WF_vars(Restart) /\ WF_vars(BeginRecovery) /\ WF_vars(EndRecovery)
    /\ \A a \in Attempts :
          /\ WF_vars(Scheduling(a)) /\ WF_vars(Running(a)) /\ WF_vars(Recovery(a))
          /\ SF_vars(RecoverIntent(a)) /\ SF_vars(RecoverFix(a))

FairSpec == Spec /\ Fairness

-----------------------------------------------------------------------------
(***************************************************************************)
(* Properties.                                                             *)
(***************************************************************************)

(* Type invariant: the rows, the process memory and the recovery list.     *)
TypeOK ==
    /\ status \in [Cases -> Status \cup {Absent}]
    /\ version \in [Cases -> Nat]
    /\ current \in [Cases -> Attempts \cup {NoAttempt}]
    /\ phase \in [Attempts -> Phase]
    /\ parent \in [Attempts -> Attempts \cup {NoAttempt}]
    /\ astatus \in [Attempts -> AttemptStatus]
    /\ output \in [Attempts -> Outcome \cup {"empty"}]
    /\ claim \subseteq Attempts /\ checkpoint \subseteq Attempts
    /\ approved \subseteq Attempts /\ inspected \subseteq Attempts
    /\ manifest \subseteq Attempts /\ pushed \subseteq Attempts /\ orphan \subseteq Attempts
    /\ up \in BOOLEAN /\ serving \in BOOLEAN /\ initErr \in BOOLEAN
    /\ gate \in [Cases -> Nat]
    /\ worker \in [Attempts -> WorkerState]
    /\ begun \in [Attempts -> Nat] /\ seen \in [Attempts -> Nat]
    /\ cancelled \subseteq Attempts
    /\ cancelling \in [Attempts -> Nat]
    /\ recovering \in BOOLEAN /\ recErr \in BOOLEAN
    /\ todo \in [Attempts -> {"no", "interrupted", "intent", "reserved"}]
    /\ recoveryStarted \subseteq Attempts

(* The attempt a status rests on: a Case that is investigating or fixing has *)
(* a running attempt of that phase, a Case that waits for a decision has the *)
(* finished attempt the decision is about.  No order of completions,         *)
(* cancellations, schedule failures and recovery separates the two rows.     *)
Backed(c, ph, statuses, outs) ==
    /\ current[c] \in Attempts /\ CaseOf[current[c]] = c
    /\ phase[current[c]] = ph
    /\ astatus[current[c]] \in statuses
    /\ output[current[c]] \in outs

StatusBackedByAttempt ==
    \A c \in Cases :
       /\ status[c] = "investigating" =>
             Backed(c, "investigation", {"running"}, InvestigationOutcome \cup {"empty"})
       /\ status[c] = "fixing" =>
             Backed(c, "fix", {"running"}, FixOutcome \cup {"empty"})
       /\ status[c] = "waiting_fix_approval" =>
             Backed(c, "investigation", {"succeeded"}, {"root_cause_code"})
       /\ status[c] \in {"waiting_remediation", "remediation_recorded"} =>
             Backed(c, "investigation", {"succeeded"}, {"root_cause_other"})
       /\ status[c] = "waiting_merge_approval" =>
             Backed(c, "fix", {"succeeded"}, {"fix_pushed"})
       /\ status[c] = "fix_failed" =>
             Backed(c, "fix", {"failed", "cancelled"}, {"fix_failed", "empty"})

(* No attempt runs behind the back of its Case: only the current attempt of  *)
(* a Case can be running, so at most one result can ever be applied to it.   *)
OnlyCurrentAttemptRuns ==
    \A a \in Attempts : astatus[a] = "running" => current[CaseOf[a]] = a

(* Every fix, a retry after failures and recoveries included, descends from  *)
(* a proved code root cause of its own Case whose fix a user approved.       *)
FixIsApproved ==
    \A a \in Attempts :
       astatus[a] # "absent" /\ phase[a] = "fix" =>
          /\ parent[a] \in approved
          /\ CaseOf[parent[a]] = CaseOf[a]
          /\ astatus[parent[a]] = "succeeded" /\ output[parent[a]] = "root_cause_code"

(* A merge can be approved only for a commit that is on the remote branch.   *)
MergeApprovalMeansPushed ==
    \A c \in Cases : status[c] = "waiting_merge_approval" => current[c] \in pushed

(* A crash never strands a pushed commit: while a fix that has pushed is     *)
(* running and has no recorded result, the checkpoint row and the manifest   *)
(* that recovery needs to find the commit both exist.                        *)
PushedFixIsRecoverable ==
    \A a \in Attempts :
       astatus[a] = "running" /\ a \in pushed /\ output[a] = "empty" =>
          a \in checkpoint /\ a \in manifest

(* Checkpoint rows do not outlive the attempt that can use them.             *)
CheckpointOfRunningFix ==
    \A a \in checkpoint : astatus[a] = "running" /\ phase[a] = "fix" /\ a \in claim

(* The list a recovery pass read once stays usable: a listed attempt is      *)
(* still the current attempt of its Case, unless the Case was reset, so the  *)
(* pass never takes a finished attempt for one that was only prepared.       *)
ListedAttemptStaysCurrent ==
    \A a \in Attempts :
       todo[a] # "no" =>
          current[CaseOf[a]] = a \/ status[CaseOf[a]] = "reset_archived"

(* A recorded result is never lost: a running attempt with a completion      *)
(* intent ends with that result, fails because the remote lacks the commit,  *)
(* or goes down with a reset of its Case.                                    *)
IntentDecides(a) ==
    astatus[a] = "running" /\ output[a] # "empty" =>
       \/ astatus'[a] = "running" /\ output'[a] = output[a]
       \/ astatus'[a] = OutcomeAttemptStatus(output[a]) /\ output'[a] = output[a]
       \/ output[a] = "fix_pushed" /\ a \notin pushed /\ astatus'[a] = "failed"
       \/ status'[CaseOf[a]] = "reset_archived"
IntentIsNeverLost == [][\A a \in Attempts : IntentDecides(a)]_vars

(* No completion, recovery or schedule failure marks a fix as failed whose   *)
(* commit is on the remote when it decides, unless the recorded result is a  *)
(* failure: lost results, unreadable remotes and stale lists included.       *)
PushedFixFails(a) ==
    /\ a \in pushed /\ output[a] # "fix_failed"
    /\ astatus[a] = "running" /\ astatus'[a] = "failed"
PushedFixIsNotFailed == [][\A a \in Attempts : ~PushedFixFails(a)]_vars

(* What a recovery pass owes the work that it finds: pushed fixes stay       *)
(* recoverable and listed attempts current, no recorded result is lost and   *)
(* no pushed fix fails.                                                      *)
RecoveryKeepsWork ==
    /\ [](PushedFixIsRecoverable /\ ListedAttemptStaysCurrent)
    /\ IntentIsNeverLost
    /\ PushedFixIsNotFailed

Lifecycle == INSTANCE CaseLifecycle
(* The commands, runs and recovery passes implement the abstract lifecycle.  *)
RefinesLifecycle == Lifecycle!Spec

(* Under fairness, once the process stays up every running attempt settles:  *)
(* no order of crashes, unreadable remotes and stale versions leaves a Case  *)
(* investigating or fixing for ever.                                         *)
RunningAttemptsSettle ==
    <>[]up => \A a \in Attempts : astatus[a] = "running" ~> astatus[a] # "running"

-----------------------------------------------------------------------------
(***************************************************************************)
(* What the repository says and the code does not do.                      *)
(***************************************************************************)

(* The pass finishes runs "interrupted by Studio restart": an attempt it     *)
(* takes away has no agent run left in this process.                         *)
TakenByPass(a) ==
    /\ todo[a] \in {"interrupted", "reserved"} /\ todo'[a] = "no"
    /\ astatus[a] = "running" /\ astatus'[a] \in {"interrupted", "failed"}
RecoveryTakesOnlyDeadRuns ==
    [][\A a \in Attempts : TakenByPass(a) => worker[a] # "executing"]_vars

(* A Case that waits for evidence can be continued with evidence.            *)
EvidenceCanContinue ==
    \A c \in Cases : status[c] = "waiting_evidence" => current[c] # NoAttempt
=============================================================================
