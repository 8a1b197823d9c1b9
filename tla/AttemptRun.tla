------------------------------ MODULE AttemptRun ----------------------------
(***************************************************************************)
(* One run of a phase attempt (AgentPhaseRunner.run): the executions of    *)
(* the agent with their corrective repetitions, the verdict on what came   *)
(* back, the durable completion intent, the completion with its retries,   *)
(* and what becomes of the claim and of the staging directory.  The agent, *)
(* the cancellation of the context and the end of the attempt elsewhere    *)
(* (a cancel, a reset) come at any step.                                   *)
(*                                                                         *)
(* A result is what the checks tell apart.  Each execution costs one token. *)
(***************************************************************************)
EXTENDS Naturals, FiniteSets

CONSTANT MaxInspections   \* completionReconcileAttempts

AttemptRunAssumption == MaxInspections \in Nat \ {0}

VARIABLES
  setting,     \* the attempt: its phase, its bot, its input, the index at hand
  stage,          \* the next step of run
  result,      \* what the last execution brought: kind "error" is runErr
  executions,  \* history: executions of the agent
  usage,       \* tokens counted for the attempt
  seen,        \* receipts of queries observed in the event stream
  cancelled,   \* the context of the run
  runnable,    \* the attempt is still running in the database
  command,     \* the completion command built
  intent,      \* the durable completion intent, or NoCommand
  completed,   \* the completion callback committed
  inspections, \* tries of the completion callback
  staging,     \* the attempt's staging directory exists
  claim,       \* the run's claim in the database
  lease,       \* the fix workspace is still open
  legacy       \* status of the display projection of the attempt

attemptVars == <<setting, stage, result, executions, usage, seen, cancelled, runnable, command, intent,
          completed, inspections, staging, claim, lease, legacy>>

-----------------------------------------------------------------------------
Fix == setting.phase = "fix"
Investigates == setting.phase = "investigation"   \* and is no reassessment

Settings ==
  {s \in [phase : {"investigation", "reassessment", "fix"}, codex : BOOLEAN, facts : BOOLEAN, ready : BOOLEAN] :
     s.phase # "investigation" => ~s.codex /\ ~s.facts /\ ~s.ready}

NoCommand == [outcome |-> "none"]
NoResult == [kind |-> "none", good |-> "all"]
Failed == [kind |-> "error", good |-> "all"]

(* What an agent can bring back in each phase.  "invalid" is what
   ParsePhaseResult refuses, "codegaps" a cause in the code that lacks
   evidence; good is "all" of a result whose environment,
   checkpoint, histories and artifacts pass, else the first check that fails. *)
Results ==
  [kind : IF Fix THEN {"pushed", "blocked"} ELSE {"code", "other", "gaps", "codegaps"},
   good : {"all", "environment", "artifacts"} \cup IF Fix THEN {"checkpoint", "base"} ELSE {},
   sensitive : BOOLEAN, known : BOOLEAN]
  \cup {[kind |-> "invalid", good |-> "all", sensitive |-> FALSE, known |-> TRUE]}

Receipts == IF Investigates THEN SUBSET {"datastore", "graph"} ELSE {{}}

FailureOutcome == IF Fix THEN "fix_failed" ELSE "needs_evidence"

-----------------------------------------------------------------------------
AttemptInit ==
  /\ setting \in Settings
  /\ stage = "claim" /\ result = NoResult /\ executions = 0 /\ usage = 0 /\ seen = {}
  /\ cancelled = FALSE /\ runnable = TRUE
  /\ command = NoCommand /\ intent = NoCommand /\ completed = FALSE /\ inspections = 0
  /\ staging = TRUE /\ claim = TRUE /\ lease = Fix /\ legacy = "running"

(* Mutant of End: the directory always goes. *)
EndSweeping(keep, status) ==
  /\ stage' = "ended"
  /\ staging' = FALSE
  /\ lease' = FALSE
  /\ legacy' = status

(* The deferred calls: without preserve the directory goes. *)
End(keep, status) ==
  /\ stage' = "ended"
  /\ staging' = (staging /\ keep)
  /\ lease' = FALSE
  /\ legacy' = status

(* The claim is validated before anything runs. *)
ValidateClaim ==
  /\ stage = "claim"
  /\ IF cancelled \/ ~runnable
     THEN End(FALSE, legacy) /\ claim' = FALSE
     ELSE stage' = "execute" /\ UNCHANGED <<staging, lease, legacy, claim>>
  /\ UNCHANGED <<setting, result, executions, usage, seen, cancelled, runnable, command, intent, completed, inspections>>

(* result.Usage grows with every execution. *)
Count(r) == usage + 1

(* executor.ExecutePhase with emit: events of a cancelled run are dropped, and
   a cancelled executor returns with an error. *)
Execute(next) ==
  /\ \E r \in IF cancelled THEN {Failed} ELSE Results \cup {Failed}, got \in Receipts :
       /\ result' = r
       /\ seen' = IF cancelled THEN seen ELSE seen \cup got
       /\ usage' = Count(r)
  /\ executions' = executions + 1
  /\ stage' = next
  /\ UNCHANGED <<setting, cancelled, runnable, command, intent, completed, inspections, staging, claim, lease, legacy>>

(* materializeCodeIntelligence may fail for an investigation; the run then
   goes on as if the first execution had failed. *)
Materialise ==
  /\ stage = "execute" /\ Investigates
  /\ result' = Failed /\ setting' = [setting EXCEPT !.ready = FALSE] /\ stage' = "retry"
  /\ UNCHANGED <<executions, usage, seen, cancelled, runnable, command, intent, completed, inspections, staging, claim, lease, legacy>>

First == stage = "execute" /\ Execute("retry")

Skip(from, next, unless) ==
  /\ stage = from /\ ~unless /\ stage' = next
  /\ UNCHANGED <<setting, result, executions, usage, seen, cancelled, runnable, command, intent,
                 completed, inspections, staging, claim, lease, legacy>>

(* Mutant of RetryDue: any phase is repeated. *)
RetryAlways == result = Failed /\ ~cancelled

(* Read-only phases are repeated once when their process fails. *)
RetryDue == result = Failed /\ ~Fix /\ ~cancelled
Retry ==
  \/ stage = "retry" /\ RetryDue /\ Execute("datastore")
  \/ Skip("retry", "datastore", RetryDue)

(* A run that needs a receipt of a query and has none is repeated with that
   instruction, and fails when there is still none. *)
DatastoreDue == result # Failed /\ Investigates /\ setting.codex /\ setting.facts /\ "datastore" \notin seen /\ ~cancelled
AboutCode == result.kind \in {"code", "codegaps"}
GraphDue == result # Failed /\ setting.ready /\ AboutCode /\ "graph" \notin seen /\ ~cancelled

Demand(from, due, checked) ==
  \/ stage = from /\ due /\ Execute(checked)
  \/ Skip(from, IF from = "datastore" THEN "graph" ELSE "repositories", due)

Datastore == Demand("datastore", DatastoreDue, "datastore checked")
Graph == Demand("graph", GraphDue, "graph checked")

Checked(at, receipt, next) ==
  /\ stage = at
  /\ result' = IF receipt \in seen THEN result ELSE Failed
  /\ stage' = next
  /\ UNCHANGED <<setting, executions, usage, seen, cancelled, runnable, command, intent, completed, inspections, staging, claim, lease, legacy>>

DatastoreChecked == Checked("datastore checked", "datastore", "graph")
GraphChecked == Checked("graph checked", "graph", "repositories")

(* validateInvestigationRemediationRepositories: only a ready code fix names
   repositories of the access manifest. *)
UnknownRepositories == result.kind = "code" /\ ~result.known
CorrectionDue == result # Failed /\ Investigates /\ UnknownRepositories /\ ~cancelled
Repositories ==
  \/ stage = "repositories" /\ CorrectionDue /\ Execute("repositories checked")
  \/ Skip("repositories", "verdict", CorrectionDue)

(* Mutant of RepositoriesChecked: what the correction brought is taken. *)
RepositoriesTaken == Skip("repositories checked", "verdict", FALSE)

RepositoriesChecked ==
  /\ stage = "repositories checked"
  /\ result' = IF result # Failed /\ UnknownRepositories THEN Failed ELSE result
  /\ stage' = "verdict"
  /\ UNCHANGED <<setting, executions, usage, seen, cancelled, runnable, command, intent, completed, inspections, staging, claim, lease, legacy>>

(* A cancelled run gives back its claim and its directory; nothing is stored. *)
Stopped ==
  /\ stage = "verdict" /\ cancelled
  /\ claim' = FALSE /\ End(FALSE, "cancelled")
  /\ UNCHANGED <<setting, result, executions, usage, seen, cancelled, runnable, command, intent, completed, inspections>>

Failure(code, changes) ==
  [outcome |-> FailureOutcome, code |-> code, changes |-> changes, sensitive |-> FALSE, usage |-> usage]
Success(outcome, changes) ==
  [outcome |-> outcome, code |-> "none", changes |-> changes, sensitive |-> result.sensitive, usage |-> usage]

(* Mutants of Screened: what is sensitive is stored; the changes of a screened
   command stay. *)
Unscreened(c) == c
ScreenedKeep(c) == IF c.sensitive THEN Failure("sensitive_phase_output", c.changes) ELSE c

(* completionContainsSensitiveData *)
Screened(c) == IF c.sensitive THEN Failure("sensitive_phase_output", FALSE) ELSE c

(* validateFixCheckpoint, FixWorkspaceLease.ValidateResult,
   validateResultEnvironment, registerArtifacts: the checks in their order. *)
CheckpointFails == result.kind = "pushed" /\ result.good = "checkpoint"
HistoryFails == result.kind = "pushed" /\ result.good = "base"
EnvironmentFails == result.good = "environment"
ArtifactsFail == result.good = "artifacts"

(* fixResultWithoutOptionalEvidence: a fix that did not push may drop them. *)
OptionalEvidence == result.kind = "blocked"

(* The verdict: process, form, checkpoint, histories, environment, artifacts.
   Only the second and third of these take the code changes back. *)
Command ==
  LET pushed == result.kind = "pushed"
  IN  CASE result = Failed -> Failure("agent_process_failed", FALSE)
        [] result.kind = "invalid" -> Failure("invalid_phase_result", FALSE)
        [] CheckpointFails -> Failure("fix_checkpoint_invalid", FALSE)
        [] HistoryFails -> Failure("fix_base_mismatch", FALSE)
        [] EnvironmentFails -> Failure("phase_environment_mismatch", pushed)
        [] ArtifactsFail /\ ~OptionalEvidence -> Failure("artifact_registration_failed", pushed)
        [] OTHER -> Success(CASE pushed -> "fix_pushed" [] result.kind = "blocked" -> "fix_failed"
                              [] result.kind \in {"gaps", "codegaps"} -> "needs_evidence" [] OTHER -> "root_cause_ready", pushed)

Judge ==
  /\ stage = "verdict" /\ ~cancelled
  /\ command' = Screened(Command)
  /\ stage' = "intent"
  /\ UNCHANGED <<setting, result, executions, usage, seen, cancelled, runnable, intent, completed, inspections, staging, claim, lease, legacy>>

(* validateFixCompletionPayload, as far as run's own commands differ in it. *)
Valid(c) == c.changes <=> c.outcome = "fix_pushed"

(* Mutant of SaveIntent: whatever happened to the attempt meanwhile. *)
SaveIntentLate ==
  /\ stage = "intent" /\ Valid(command)
  /\ intent' = command /\ stage' = "complete" /\ UNCHANGED <<staging, claim, lease, legacy>>
  /\ UNCHANGED <<setting, result, executions, usage, seen, cancelled, runnable, command, completed, inspections>>

(* SaveCompletionIntentIfRunning, under the run's context. *)
SaveIntent ==
  /\ stage = "intent"
  /\ IF runnable /\ ~cancelled /\ Valid(command)
     THEN intent' = command /\ stage' = "complete" /\ UNCHANGED <<staging, claim, lease, legacy>>
     ELSE claim' = FALSE /\ End(TRUE, "failed") /\ UNCHANGED intent
  /\ UNCHANGED <<setting, result, executions, usage, seen, cancelled, runnable, command, completed, inspections>>

(* The completion callback: it commits, the inspection of the pushed branch is
   unavailable, or something else fails. *)
Complete ==
  /\ stage \in {"complete", "wait"}
  /\ stage = "wait" => ~cancelled
  /\ inspections' = inspections + 1
  /\ \/ /\ runnable /\ ~cancelled
        /\ completed' = TRUE /\ runnable' = FALSE
        /\ End(FALSE, IF command.code = "none" THEN "succeeded" ELSE "failed")
     \/ /\ Fix /\ inspections + 1 < MaxInspections /\ stage' = "wait"
        /\ UNCHANGED <<completed, runnable, staging, lease, legacy>>
     \/ End(TRUE, "failed") /\ UNCHANGED <<completed, runnable>>
  /\ UNCHANGED <<setting, result, executions, usage, seen, cancelled, command, intent, claim>>

(* The wait between two tries ends with the context. *)
WaitCancelled ==
  /\ stage = "wait" /\ cancelled
  /\ End(TRUE, "failed")
  /\ UNCHANGED <<setting, result, executions, usage, seen, cancelled, runnable, command, intent, completed, inspections, claim>>

(* Cancel of the runner, Shutdown; a cancelled or reset attempt. *)
CancelRun ==
  /\ ~cancelled /\ stage # "ended" /\ cancelled' = TRUE
  /\ UNCHANGED <<setting, stage, result, executions, usage, seen, runnable, command, intent, completed, inspections, staging, claim, lease, legacy>>
EndElsewhere ==
  /\ runnable /\ runnable' = FALSE
  /\ UNCHANGED <<setting, stage, result, executions, usage, seen, cancelled, command, intent, completed, inspections, staging, claim, lease, legacy>>

AttemptNext ==
  \/ ValidateClaim \/ Materialise \/ First \/ Retry
  \/ Datastore \/ DatastoreChecked \/ Graph \/ GraphChecked \/ Repositories \/ RepositoriesChecked
  \/ Stopped \/ Judge \/ SaveIntent \/ Complete \/ WaitCancelled \/ CancelRun \/ EndElsewhere

AttemptSpec == AttemptInit /\ [][AttemptNext]_attemptVars

-----------------------------------------------------------------------------
(* Properties. *)

Codes == {"none", "agent_process_failed", "invalid_phase_result", "fix_checkpoint_invalid", "fix_base_mismatch",
          "phase_environment_mismatch", "artifact_registration_failed", "sensitive_phase_output"}

AttemptTypeOK ==
  /\ executions \in 0..5 /\ inspections \in 0..MaxInspections
  /\ intent # NoCommand => intent = command /\ intent.code \in Codes
  /\ stage = "ended" => ~lease

(* A fix never runs twice, and no phase more often than its corrections: what
   an agent pushed is not pushed again by a repetition.  And every execution
   is paid for, however many brought the result. *)
FixRunsOnce ==
  /\ Fix => executions <= 1
  /\ intent # NoCommand => intent.usage = executions

(* A cause in the code, proven or not, is stored only with a receipt of the index
   when one was ready, and to be fixed only in repositories that are configured;
   a finding about business data only with a receipt of a datastore - also when
   a later correction replaced the result that first passed. *)
ReceiptsBackResult ==
  (intent # NoCommand /\ intent.code = "none" /\ Investigates) =>
    /\ result.kind = "code" => result.known
    /\ setting.ready /\ AboutCode => "graph" \in seen
    /\ setting.codex /\ setting.facts => "datastore" \in seen

(* Nothing is made durable for an attempt that has ended elsewhere, nor
   anything sensitive. *)
IntentOfRunning ==
  [][intent' # intent => runnable /\ ~cancelled /\ ~intent'.sensitive]_attemptVars

(* When the run has ended its directory is there exactly for what may still be
   asked about it: an intent not completed, or a refused one; a completed or a
   cancelled run leaves nothing. *)
StagingServesRecovery ==
  stage = "ended" =>
    (staging <=> \/ intent # NoCommand /\ ~completed
                 \/ intent = NoCommand /\ command # NoCommand)

(* A run that reached its verdict and neither stored an intent nor found the
   attempt ended or cancelled leaves an attempt running with nobody running
   it.  The one way there is a pushed fix whose environment or artifacts are
   refused: its command keeps the code changes, and is itself refused. *)
StrandedOnlyByRefusal ==
  (stage = "ended" /\ runnable /\ ~cancelled /\ command # NoCommand /\ intent = NoCommand)
    => result.kind = "pushed" /\ result.good \in {"environment", "artifacts"}

(* All of it: what an attempt leaves behind is earned by its executions. *)
AttemptIsEarned ==
  /\ [](/\ AttemptTypeOK /\ FixRunsOnce /\ ReceiptsBackResult
        /\ StagingServesRecovery /\ StrandedOnlyByRefusal)
  /\ IntentOfRunning
=============================================================================
