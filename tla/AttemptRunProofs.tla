---------------------------- MODULE AttemptRunProofs ---------------------------
(***************************************************************************)
(* Proofs about AttemptRun for every number of tries of the completion,    *)
(* and about StagingDirectory for every number of attempts, directories,   *)
(* files and bounds.                                                       *)
(*                                                                         *)
(* The checks of a run follow one another, and a later repetition replaces *)
(* the result that an earlier check let pass.  RunInv says what each step  *)
(* of the sequence has left behind for the result at hand; that a failed   *)
(* result, a receipt and a cancellation last is why it survives the        *)
(* repetitions.                                                            *)
(*                                                                         *)
(* StagingInv: a directory belongs to one attempt for good, since names    *)
(* are never given twice (OwnDirs); only attempts that are terminal are    *)
(* cleaned up (TasksFit); and a read under way holds what the file has as  *)
(* long as its modification time has not moved (ReadFits).                 *)
(***************************************************************************)
EXTENDS AttemptRun, StagingDirectory, Integers, TLAPS

(* The steps after which a check has passed, up to the verdict. *)
FromVerdict == {"verdict"}
FromRepositories == FromVerdict \cup {"repositories", "repositories checked"}
FromGraph == FromRepositories \cup {"graph", "graph checked"}
Asking == FromGraph \cup {"claim", "execute", "retry", "datastore", "datastore checked"}
Stored == {"complete", "wait"}

NeedsDatastore == Investigates /\ setting.codex /\ setting.facts
NeedsGraph == setting.ready /\ AboutCode

Lost == result = Failed \/ cancelled

RunTypeOK ==
  /\ setting \in Settings
  /\ stage \in Asking \cup Stored \cup {"intent", "ended"}
  /\ {cancelled, runnable, completed, staging} \subseteq BOOLEAN
  /\ executions \in Nat /\ usage = executions
  /\ result = NoResult \/ result = Failed \/ result \in Results
  /\ result = NoResult => stage \in {"claim", "execute", "ended"}

(* A fix has its one execution behind it when it leaves "execute". *)
RunsOnce ==
  /\ stage \in {"claim", "execute"} => executions = 0
  /\ Fix => executions <= 1

(* What the checks have left behind. *)
ChecksPassed ==
  /\ stage \in FromGraph => Lost \/ ~NeedsDatastore \/ "datastore" \in seen
  /\ stage \in FromRepositories => Lost \/ ~NeedsGraph \/ "graph" \in seen
  /\ stage \in FromVerdict => Lost \/ ~Investigates \/ ~UnknownRepositories

(* What a command says of the result it was built from. *)
Backed ==
  /\ result.kind = "code" => result.known
  /\ NeedsGraph => "graph" \in seen
  /\ NeedsDatastore => "datastore" \in seen

Refused == result.kind = "pushed" /\ result.good \in {"environment", "artifacts"}

CommandFits ==
  command # NoCommand =>
    /\ command.usage = executions /\ ~command.sensitive
    /\ ~Valid(command) => Refused
    /\ command.code = "none" /\ Investigates => Backed

(* Where the run is tells what it has built, stored and kept. *)
Kept ==
  /\ stage \in Asking => command = NoCommand /\ intent = NoCommand
  /\ stage = "intent" => command # NoCommand /\ intent = NoCommand
  /\ stage \in Stored => command # NoCommand /\ intent = command
  /\ intent # NoCommand => intent = command
  /\ stage # "ended" => staging /\ ~completed
  /\ stage = "ended" /\ runnable /\ ~cancelled /\ command # NoCommand /\ intent = NoCommand
       => ~Valid(command)

RunInv == RunTypeOK /\ RunsOnce /\ ChecksPassed /\ CommandFits /\ Kept /\ StagingServesRecovery

-----------------------------------------------------------------------------
(* The command that a result is judged with: its price, that nothing sensitive
   is in it, when it is refused and when it keeps the result. *)
LEMMA ResultFields ==
  ASSUME NEW r \in Results
  PROVE  /\ r.kind \in {"pushed", "blocked", "code", "other", "gaps", "codegaps", "invalid"}
         /\ r.good \in {"all", "environment", "artifacts", "checkpoint", "base"}
         /\ r.sensitive \in BOOLEAN /\ r.known \in BOOLEAN
         /\ r # Failed /\ r # NoResult
<1>1. CASE r = [kind |-> "invalid", good |-> "all", sensitive |-> FALSE, known |-> TRUE]
  BY <1>1 DEF Failed, NoResult
<1>2. CASE r # [kind |-> "invalid", good |-> "all", sensitive |-> FALSE, known |-> TRUE]
  <2>1. PICK K \in {{"pushed", "blocked"}, {"code", "other", "gaps", "codegaps"}},
             G \in {{}, {"checkpoint", "base"}} :
          r \in [kind : K, good : {"all", "environment", "artifacts"} \cup G,
                 sensitive : BOOLEAN, known : BOOLEAN]
    BY <1>2 DEF Results
  <2>2. r.kind \in K /\ r.good \in {"all", "environment", "artifacts"} \cup G
        /\ r.sensitive \in BOOLEAN /\ r.known \in BOOLEAN
    BY <2>1
  <2>3. QED
    BY <2>2 DEF Failed, NoResult
<1>3. QED
  BY <1>1, <1>2

(* The command that a result is judged with: its price, that nothing sensitive
   is in it, when it is refused and when it keeps the result. *)
LEMMA JudgedCommand ==
  ASSUME setting \in Settings, result = Failed \/ result \in Results
  PROVE  LET c == Screened(Command) IN
           /\ c # NoCommand
           /\ c.usage = usage /\ ~c.sensitive
           /\ ~Valid(c) => Refused
           /\ c.code = "none" => result # Failed
<1>1. CASE result = Failed
  <2>1. Command = Failure("agent_process_failed", FALSE)
    BY <1>1 DEF Command, CheckpointFails, HistoryFails, EnvironmentFails, ArtifactsFail, OptionalEvidence, Failed
  <2>2. QED
    BY <1>1, <2>1 DEF Screened, Failure, FailureOutcome, Valid, NoCommand
<1>2. CASE result \in Results
  <2> DEFINE pushed == result.kind = "pushed"
  <2>1. /\ result # Failed /\ result.sensitive \in BOOLEAN /\ pushed \in BOOLEAN
        /\ result.kind = "invalid" => result.good = "all"
    BY <1>2, ResultFields DEF Results
  <2>2. \/ \E code \in {"invalid_phase_result", "fix_checkpoint_invalid", "fix_base_mismatch"} :
             Command = Failure(code, FALSE)
        \/ /\ \E code \in {"phase_environment_mismatch", "artifact_registration_failed"} :
                Command = Failure(code, pushed)
           /\ result.good \in {"environment", "artifacts"}
        \/ \E outcome \in {"fix_pushed", "fix_failed", "needs_evidence", "root_cause_ready"} :
             /\ Command = Success(outcome, pushed)
             /\ outcome = "fix_pushed" <=> pushed
    BY <2>1 DEF Command, CheckpointFails, HistoryFails, EnvironmentFails, ArtifactsFail, OptionalEvidence
  <2>3. CASE \E code \in {"invalid_phase_result", "fix_checkpoint_invalid", "fix_base_mismatch"} :
               Command = Failure(code, FALSE)
    BY <2>1, <2>3 DEF Screened, Failure, FailureOutcome, Valid, NoCommand
  <2>4. CASE /\ \E code \in {"phase_environment_mismatch", "artifact_registration_failed"} :
                  Command = Failure(code, pushed)
             /\ result.good \in {"environment", "artifacts"}
    <3>1. PICK code \in {"phase_environment_mismatch", "artifact_registration_failed"} :
            Command = Failure(code, pushed)
      BY <2>4
    <3>2. Screened(Command) = Command
      BY <3>1 DEF Screened, Failure
    <3>3. CASE pushed
      BY <2>4, <3>1, <3>2, <3>3 DEF Failure, FailureOutcome, Valid, NoCommand, Refused
    <3>4. CASE ~pushed
      <4>1. Command = Failure(code, FALSE)
        BY <3>1, <3>4, pushed = FALSE DEF Failure
      <4>2. QED
        BY <2>1, <3>2, <4>1 DEF Failure, FailureOutcome, Valid, NoCommand
    <3>5. QED
      BY <3>3, <3>4
  <2>5. CASE \E outcome \in {"fix_pushed", "fix_failed", "needs_evidence", "root_cause_ready"} :
               /\ Command = Success(outcome, pushed)
               /\ outcome = "fix_pushed" <=> pushed
    <3>1. PICK outcome \in {"fix_pushed", "fix_failed", "needs_evidence", "root_cause_ready"} :
            Command = Success(outcome, pushed) /\ (outcome = "fix_pushed" <=> pushed)
      BY <2>5
    <3>2. CASE result.sensitive
      BY <2>1, <3>1, <3>2 DEF Screened, Success, Failure, FailureOutcome, Valid, NoCommand
    <3>3. CASE ~result.sensitive
      <4> DEFINE c == Success(outcome, pushed)
      <4>1. Screened(Command) = c
        BY <3>1, <3>3 DEF Screened, Success
      <4>2. c.outcome = outcome /\ c.usage = usage /\ c.sensitive = result.sensitive
        BY DEF Success
      <4>3. c.changes = pushed
        BY DEF Success
      <4> HIDE DEF c
      <4>4. c # NoCommand
        BY <3>1, <4>2 DEF NoCommand
      <4>5. Valid(c)
        BY <3>1, <4>2, <4>3 DEF Valid
      <4>6. QED
        BY <2>1, <3>3, <4>1, <4>2, <4>4, <4>5
    <3>4. QED
      BY <2>1, <3>2, <3>3
  <2>6. QED
    BY <2>2, <2>3, <2>4, <2>5
<1>3. QED
  BY <1>1, <1>2

(* An execution of the agent costs one token, and replaces the result at hand. *)
LEMMA ExecutionKeeps ==
  ASSUME RunInv, stage \in Asking, stage # "claim", NEW next \in Asking \ {"claim", "execute"},
         Execute(next), Fix => executions = 0
  PROVE  /\ RunTypeOK' /\ RunsOnce' /\ CommandFits' /\ Kept' /\ StagingServesRecovery'
         /\ seen \subseteq seen'
<1>1. /\ result' = Failed \/ result' \in Results
      /\ seen \subseteq seen' /\ usage' = usage + 1 /\ executions' = executions + 1
      /\ stage' = next
      /\ UNCHANGED <<setting, cancelled, runnable, command, intent, completed, staging>>
  BY DEF Execute, Count
<1>2. stage' \notin {"intent", "ended"} \cup Stored /\ command = NoCommand /\ intent = NoCommand
      /\ staging /\ ~completed
  BY <1>1 DEF RunInv, Kept, Asking, FromGraph, FromRepositories, FromVerdict, Stored
<1>3. RunTypeOK'
  <2>1. result' = Failed \/ (result \in Results)'
    BY <1>1 DEF Results, Fix
  <2>2. QED
    BY <1>1, <2>1, ResultFields DEF RunInv, RunTypeOK, Failed, NoResult
<1>4. RunsOnce'
  BY <1>1 DEF RunInv, RunTypeOK, RunsOnce, Fix
<1>5. CommandFits' /\ Kept' /\ StagingServesRecovery'
  BY <1>1, <1>2 DEF CommandFits, Kept, StagingServesRecovery
<1>6. QED
  BY <1>1, <1>3, <1>4, <1>5

(* What a step leaves alone that changes neither the result nor the command. *)
LEMMA SameRun ==
  ASSUME RunInv, UNCHANGED <<setting, result, executions, usage, seen, command, intent>>
  PROVE  /\ CommandFits'
         /\ (result' = NoResult \/ result' = Failed \/ (result \in Results)')
         /\ (cancelled => cancelled') => (Lost => Lost')
         /\ NeedsDatastore' = NeedsDatastore /\ NeedsGraph' = NeedsGraph
         /\ Investigates' = Investigates /\ UnknownRepositories' = UnknownRepositories
  BY DEF RunInv, RunTypeOK, CommandFits, Valid, Refused, Backed, Lost, NeedsDatastore, NeedsGraph, AboutCode,
         Investigates, UnknownRepositories, Results, Fix

(* A check that an execution has to show a receipt for may fail its result. *)
LEMMA CheckedKeeps ==
  ASSUME RunInv, stage \in Asking \ {"claim", "execute"}, stage' \in Asking \ {"claim", "execute"},
         result' = result \/ result' = Failed,
         UNCHANGED <<setting, executions, usage, seen, cancelled, runnable, command, intent,
                     completed, inspections, staging, claim, lease, legacy>>
  PROVE  RunTypeOK' /\ RunsOnce' /\ CommandFits' /\ Kept' /\ StagingServesRecovery'
<1> USE DEF Asking, FromGraph, FromRepositories, FromVerdict, Stored
<1>1. RunTypeOK' /\ RunsOnce'
  <2>1. result # NoResult /\ Results' = Results /\ Failed # NoResult
    BY DEF RunInv, RunTypeOK, Results, Fix, Failed, NoResult
  <2>2. result' # NoResult /\ (result' = Failed \/ (result \in Results)')
    BY <2>1 DEF RunInv, RunTypeOK
  <2>3. QED
    BY <2>2 DEF RunInv, RunTypeOK, RunsOnce, Fix
<1>2. command' = NoCommand /\ CommandFits' /\ Kept' /\ StagingServesRecovery'
  BY DEF RunInv, CommandFits, Kept, StagingServesRecovery
<1>3. QED
  BY <1>1, <1>2

THEOREM RunInvHolds == AttemptSpec => []RunInv
<1>1. AttemptInit => RunInv
  <2> SUFFICES ASSUME AttemptInit PROVE RunInv
    OBVIOUS
  <2> USE DEF Asking, FromGraph, FromRepositories, FromVerdict, Stored
  <2>1. RunTypeOK
    BY DEF AttemptInit, RunTypeOK
  <2>2. RunsOnce
    BY DEF AttemptInit, RunsOnce
  <2>3. ChecksPassed /\ CommandFits /\ Kept /\ StagingServesRecovery
    BY DEF AttemptInit, ChecksPassed, CommandFits, Kept, StagingServesRecovery
  <2>4. QED
    BY <2>1, <2>2, <2>3 DEF RunInv
<1>2. RunInv /\ [AttemptNext]_attemptVars => RunInv'
  <2> SUFFICES ASSUME RunInv, [AttemptNext]_attemptVars PROVE RunInv'
    OBVIOUS
  <2> USE DEF Asking, FromGraph, FromRepositories, FromVerdict, Stored
  <2>1. CASE ValidateClaim
    BY <2>1, SameRun DEF ValidateClaim, End, RunInv, RunTypeOK, RunsOnce, ChecksPassed, Kept,
       StagingServesRecovery, Fix
  <2>2. CASE Materialise
    <3>1. setting' \in Settings /\ setting'.phase = setting.phase
      BY <2>2 DEF Materialise, RunInv, RunTypeOK, Settings
    <3>2. RunTypeOK' /\ RunsOnce'
      BY <2>2, <3>1 DEF Materialise, RunInv, RunTypeOK, RunsOnce, Fix, Failed, NoResult
    <3>3. ChecksPassed' /\ CommandFits' /\ Kept' /\ StagingServesRecovery'
      BY <2>2 DEF Materialise, RunInv, ChecksPassed, CommandFits, Kept, StagingServesRecovery
    <3>4. QED
      BY <3>2, <3>3 DEF RunInv
  <2>3. CASE First
    <3>1. ChecksPassed'
      BY <2>3 DEF First, Execute, ChecksPassed
    <3>2. QED
      BY <2>3, <3>1, ExecutionKeeps DEF First, RunInv, RunsOnce
  <2>4. CASE Retry
    <3>1. CASE stage = "retry" /\ RetryDue /\ Execute("datastore")
      <4>1. ChecksPassed'
        BY <3>1 DEF Execute, ChecksPassed
      <4>2. QED
        BY <3>1, <4>1, ExecutionKeeps DEF RetryDue, RunInv
    <3>2. CASE Skip("retry", "datastore", RetryDue)
      BY <3>2, SameRun DEF Skip, RunInv, RunTypeOK, RunsOnce, ChecksPassed, Kept, StagingServesRecovery, Fix
    <3>3. QED
      BY <2>4, <3>1, <3>2 DEF Retry
  <2>5. CASE Datastore
    <3>1. CASE stage = "datastore" /\ DatastoreDue /\ Execute("datastore checked")
      <4>1. ChecksPassed'
        BY <3>1 DEF Execute, ChecksPassed
      <4>2. QED
        BY <3>1, <4>1, ExecutionKeeps DEF DatastoreDue, Investigates, Fix, RunInv
    <3>2. CASE Skip("datastore", "graph", DatastoreDue)
      <4>1. ChecksPassed'
        BY <3>2 DEF Skip, DatastoreDue, ChecksPassed, Lost, NeedsDatastore, Investigates
      <4>2. QED
        BY <3>2, <4>1, SameRun DEF Skip, RunInv, RunTypeOK, RunsOnce, Kept, StagingServesRecovery, Fix
    <3>3. QED
      BY <2>5, <3>1, <3>2 DEF Datastore, Demand
  <2>6. CASE DatastoreChecked
    <3>1. ChecksPassed'
      BY <2>6 DEF DatastoreChecked, Checked, ChecksPassed, Lost, NeedsDatastore, Investigates
    <3>2. QED
      BY <2>6, <3>1, CheckedKeeps DEF DatastoreChecked, Checked, RunInv
  <2>7. CASE Graph
    <3>1. CASE stage = "graph" /\ GraphDue /\ Execute("graph checked")
      <4>1. setting.phase = "investigation"
        BY <3>1 DEF GraphDue, RunInv, RunTypeOK, Settings
      <4>2. /\ RunTypeOK' /\ RunsOnce' /\ CommandFits' /\ Kept' /\ StagingServesRecovery'
            /\ seen \subseteq seen'
        BY <3>1, <4>1, ExecutionKeeps DEF Fix
      <4>3. ~NeedsDatastore \/ "datastore" \in seen
        BY <3>1 DEF GraphDue, RunInv, ChecksPassed, Lost
      <4>4. ChecksPassed'
        BY <3>1, <4>2, <4>3 DEF Execute, ChecksPassed, NeedsDatastore, Investigates
      <4>5. QED
        BY <4>2, <4>4 DEF RunInv
    <3>2. CASE Skip("graph", "repositories", GraphDue)
      <4>1. ChecksPassed'
        BY <3>2 DEF Skip, GraphDue, RunInv, ChecksPassed, Lost, NeedsGraph, AboutCode, NeedsDatastore, Investigates
      <4>2. QED
        BY <3>2, <4>1, SameRun DEF Skip, RunInv, RunTypeOK, RunsOnce, Kept, StagingServesRecovery, Fix
    <3>3. QED
      BY <2>7, <3>1, <3>2 DEF Graph, Demand
  <2>8. CASE GraphChecked
    <3>1. ChecksPassed'
      BY <2>8 DEF GraphChecked, Checked, RunInv, ChecksPassed, Lost, NeedsDatastore, NeedsGraph, AboutCode, Investigates
    <3>2. QED
      BY <2>8, <3>1, CheckedKeeps DEF GraphChecked, Checked, RunInv
  <2>9. CASE Repositories
    <3>1. CASE stage = "repositories" /\ CorrectionDue /\ Execute("repositories checked")
      <4>1. /\ RunTypeOK' /\ RunsOnce' /\ CommandFits' /\ Kept' /\ StagingServesRecovery'
            /\ seen \subseteq seen'
        BY <3>1, ExecutionKeeps DEF CorrectionDue, Investigates, Fix
      <4>2. /\ ~NeedsDatastore \/ "datastore" \in seen
            /\ ~setting.ready \/ "graph" \in seen
        BY <3>1 DEF CorrectionDue, UnknownRepositories, RunInv, ChecksPassed, Lost, NeedsGraph, AboutCode
      <4>3. ChecksPassed'
        BY <3>1, <4>1, <4>2 DEF Execute, ChecksPassed, NeedsDatastore, NeedsGraph, AboutCode, Investigates
      <4>4. QED
        BY <4>1, <4>3 DEF RunInv
    <3>2. CASE Skip("repositories", "verdict", CorrectionDue)
      <4>1. ChecksPassed'
        BY <3>2 DEF Skip, CorrectionDue, RunInv, ChecksPassed, Lost, NeedsGraph, AboutCode, NeedsDatastore,
           Investigates, UnknownRepositories
      <4>2. QED
        BY <3>2, <4>1, SameRun DEF Skip, RunInv, RunTypeOK, RunsOnce, Kept, StagingServesRecovery, Fix
    <3>3. QED
      BY <2>9, <3>1, <3>2 DEF Repositories
  <2>10. CASE RepositoriesChecked
    <3>1. ChecksPassed'
      BY <2>10 DEF RepositoriesChecked, RunInv, ChecksPassed, Lost, NeedsDatastore, NeedsGraph, AboutCode,
         Investigates, UnknownRepositories
    <3>2. QED
      BY <2>10, <3>1, CheckedKeeps DEF RepositoriesChecked, RunInv
  <2>11. CASE Stopped
    BY <2>11, SameRun DEF Stopped, End, RunInv, RunTypeOK, RunsOnce, ChecksPassed, Kept,
       StagingServesRecovery, Fix
  <2>12. CASE Judge
    <3> DEFINE c == Screened(Command)
    <3>1. stage = "verdict" /\ ~cancelled /\ command' = c /\ stage' = "intent"
          /\ intent = NoCommand /\ staging /\ ~completed
      BY <2>12 DEF Judge, RunInv, Kept
    <3>2. result = Failed \/ result \in Results
      BY <3>1 DEF RunInv, RunTypeOK
    <3>3. /\ c # NoCommand /\ c.usage = usage /\ ~c.sensitive
          /\ ~Valid(c) => Refused
          /\ c.code = "none" => result # Failed
      BY <3>2, JudgedCommand DEF RunInv, RunTypeOK
    <3> HIDE DEF c
    <3>4. c.code = "none" /\ Investigates => Backed
      BY <3>1, <3>3 DEF RunInv, ChecksPassed, Lost, Backed, UnknownRepositories
    <3>5. UNCHANGED <<setting, result, executions, usage, seen, cancelled, runnable, intent,
                      completed, staging>>
      BY <2>12 DEF Judge
    <3>6. CommandFits'
      BY <3>1, <3>3, <3>4, <3>5 DEF CommandFits, RunInv, RunTypeOK, Valid, Refused, Backed,
         Investigates, NeedsDatastore, NeedsGraph, AboutCode
    <3>7. RunTypeOK' /\ RunsOnce' /\ ChecksPassed' /\ StagingServesRecovery'
      BY <3>1, <3>2, <3>5 DEF RunInv, RunTypeOK, RunsOnce, ChecksPassed, StagingServesRecovery,
         Results, Fix
    <3>8. Kept'
      BY <3>1, <3>3, <3>5 DEF Kept
    <3>9. QED
      BY <3>6, <3>7, <3>8 DEF RunInv
  <2>13. CASE SaveIntent
    <3>1. UNCHANGED <<setting, result, executions, usage, seen, cancelled, runnable, command,
                      completed>>
          /\ stage = "intent" /\ command # NoCommand /\ intent = NoCommand /\ staging /\ ~completed
      BY <2>13 DEF SaveIntent, RunInv, Kept
    <3>2. CommandFits'
      BY <3>1 DEF RunInv, CommandFits, Valid, Refused, Backed, NeedsDatastore, NeedsGraph, AboutCode, Investigates
    <3>3. RunTypeOK' /\ RunsOnce' /\ ChecksPassed'
      BY <2>13, <3>1 DEF SaveIntent, End, RunInv, RunTypeOK, RunsOnce, ChecksPassed, Results, Fix
    <3>4. CASE runnable /\ ~cancelled /\ Valid(command)
      BY <2>13, <3>1, <3>2, <3>3, <3>4 DEF SaveIntent, RunInv, Kept, StagingServesRecovery
    <3>5. CASE ~(runnable /\ ~cancelled /\ Valid(command))
      <4>1. stage' = "ended" /\ staging' = staging /\ intent' = intent
        BY <2>13, <3>1, <3>5 DEF SaveIntent, End
      <4>2. Kept' /\ StagingServesRecovery'
        BY <3>1, <3>5, <4>1 DEF Kept, StagingServesRecovery, Valid
      <4>3. QED
        BY <3>2, <3>3, <4>2 DEF RunInv
    <3>6. QED
      BY <3>4, <3>5
  <2>14. CASE Complete
    <3>1. CommandFits'
      BY <2>14, SameRun DEF Complete
    <3>2. RunTypeOK' /\ RunsOnce' /\ ChecksPassed'
      BY <2>14 DEF Complete, End, RunInv, RunTypeOK, RunsOnce, ChecksPassed, Results, Fix
    <3>3. /\ command # NoCommand /\ intent = command /\ staging /\ ~completed
          /\ command' = command /\ intent' = intent
      BY <2>14 DEF Complete, RunInv, Kept
    <3>4. \/ stage' = "ended" /\ completed' /\ ~staging'
          \/ stage' = "wait" /\ ~completed' /\ staging'
          \/ stage' = "ended" /\ ~completed' /\ staging'
      BY <2>14, <3>3 DEF Complete, End
    <3>5. Kept' /\ StagingServesRecovery'
      BY <3>3, <3>4 DEF Kept, StagingServesRecovery
    <3>6. QED
      BY <3>1, <3>2, <3>5 DEF RunInv
  <2>15. CASE WaitCancelled
    BY <2>15, SameRun DEF WaitCancelled, End, RunInv, RunTypeOK, RunsOnce, ChecksPassed, Kept,
       StagingServesRecovery, Fix
  <2>16. CASE CancelRun
    BY <2>16, SameRun DEF CancelRun, RunInv, RunTypeOK, RunsOnce, ChecksPassed, Lost, Kept,
       StagingServesRecovery, Fix
  <2>17. CASE EndElsewhere
    <3>1. RunTypeOK' /\ CommandFits'
      BY <2>17, SameRun DEF EndElsewhere, RunInv, RunTypeOK
    <3>2. RunsOnce' /\ ChecksPassed'
      BY <2>17 DEF EndElsewhere, RunInv, RunsOnce, Fix, ChecksPassed, Lost, NeedsDatastore, NeedsGraph, AboutCode,
         Investigates, UnknownRepositories
    <3>3. Kept' /\ StagingServesRecovery'
      BY <2>17 DEF EndElsewhere, RunInv, Kept, StagingServesRecovery, Valid
    <3>4. QED
      BY <3>1, <3>2, <3>3 DEF RunInv
  <2>18. CASE UNCHANGED attemptVars
    <3>1. RunTypeOK' /\ CommandFits'
      BY <2>18, SameRun DEF attemptVars, RunInv, RunTypeOK
    <3>2. RunsOnce' /\ ChecksPassed'
      BY <2>18 DEF attemptVars, RunInv, RunsOnce, Fix, ChecksPassed, Lost, NeedsDatastore, NeedsGraph, AboutCode,
         Investigates, UnknownRepositories
    <3>3. Kept' /\ StagingServesRecovery'
      BY <2>18 DEF attemptVars, RunInv, Kept, StagingServesRecovery, Valid
    <3>4. QED
      BY <3>1, <3>2, <3>3 DEF RunInv
  <2>19. QED
    BY <2>1, <2>2, <2>3, <2>4, <2>5, <2>6, <2>7, <2>8, <2>9, <2>10, <2>11, <2>12, <2>13, <2>14,
       <2>15, <2>16, <2>17, <2>18 DEF AttemptNext
<1>3. QED
  BY <1>1, <1>2, PTL DEF AttemptSpec

-----------------------------------------------------------------------------
(* A fix is executed at most once, however its run goes on, and a stored intent
   carries the price of every execution: no repetition that run decides on can
   make an agent push twice, and none is left unpaid. *)
THEOREM FixesRunOnce == AttemptSpec => []FixRunsOnce
<1>1. RunInv => FixRunsOnce
  BY DEF RunInv, RunsOnce, CommandFits, Kept, FixRunsOnce
<1>2. QED
  BY <1>1, RunInvHolds, PTL

(* Every receipt and repository that a stored finding needs was checked for the
   very result it was built from, whatever earlier result the check was made on. *)
THEOREM ReceiptsBackResults == AttemptSpec => []ReceiptsBackResult
<1>1. RunInv => ReceiptsBackResult
  BY DEF RunInv, CommandFits, Kept, Backed, NeedsDatastore, NeedsGraph, AboutCode, ReceiptsBackResult
<1>2. QED
  BY <1>1, RunInvHolds, PTL

(* When the run is over its staging directory is there exactly for what recovery
   may still ask about. *)
THEOREM StagingKeptForRecovery == AttemptSpec => []StagingServesRecovery
<1>1. RunInv => StagingServesRecovery
  BY DEF RunInv
<1>2. QED
  BY <1>1, RunInvHolds, PTL

(* Only a pushed fix whose environment or artifacts are refused leaves an attempt
   running with nobody running it. *)
THEOREM StrandedOnlyByRefusals == AttemptSpec => []StrandedOnlyByRefusal
<1>1. RunInv => StrandedOnlyByRefusal
  BY DEF RunInv, CommandFits, Kept, Refused, StrandedOnlyByRefusal
<1>2. QED
  BY <1>1, RunInvHolds, PTL

(* An intent is stored only while the attempt runs and nobody has cancelled it, and
   with nothing sensitive in it. *)
THEOREM IntentsOfRunning == AttemptSpec => IntentOfRunning
<1>1. RunInv /\ [AttemptNext]_attemptVars => [intent' # intent => runnable /\ ~cancelled /\ ~intent'.sensitive]_attemptVars
  <2> SUFFICES ASSUME RunInv, AttemptNext, intent' # intent
               PROVE  runnable /\ ~cancelled /\ ~intent'.sensitive
    BY DEF attemptVars
  <2>1. SaveIntent
    BY DEF AttemptNext, ValidateClaim, Materialise, First, Retry, Datastore, DatastoreChecked, Graph,
       GraphChecked, Repositories, RepositoriesChecked, Stopped, Judge, Complete, WaitCancelled,
       CancelRun, EndElsewhere, Execute, Skip, Demand, Checked
  <2>2. QED
    BY <2>1 DEF SaveIntent, RunInv, CommandFits, Kept
<1>2. QED
  BY <1>1, RunInvHolds, PTL DEF AttemptSpec, IntentOfRunning

(* How many executions may lie behind each step of a run. *)
Allowed(p) ==
  IF p \in {"claim", "execute"} THEN 0 ELSE IF p = "retry" THEN 1 ELSE IF p = "datastore" THEN 2
  ELSE IF p \in {"datastore checked", "graph"} THEN 3 ELSE IF p \in {"graph checked", "repositories"} THEN 4 ELSE 5

(* What bounds a run: its executions, the tries of the completion, the code of its
   command and the end of its workspace. *)
ExecutionsFit == executions \in Nat /\ executions <= Allowed(stage)
TriesFit ==
  /\ inspections \in Nat /\ inspections <= MaxInspections
  /\ stage \in Asking \cup {"intent", "complete"} => inspections = 0
  /\ stage = "wait" => inspections < MaxInspections
CodeFits == command # NoCommand => command.code \in Codes
LeaseFits == stage = "ended" => ~lease
Counted == ExecutionsFit /\ TriesFit /\ CodeFits /\ LeaseFits

LEMMA AllowedValues ==
  /\ Allowed(stage) \in 0..5 /\ Allowed(stage') \in 0..5
  /\ Allowed("claim") = 0 /\ Allowed("execute") = 0 /\ Allowed("retry") = 1 /\ Allowed("datastore") = 2
  /\ Allowed("datastore checked") = 3 /\ Allowed("graph") = 3 /\ Allowed("graph checked") = 4
  /\ Allowed("repositories") = 4 /\ Allowed("repositories checked") = 5 /\ Allowed("verdict") = 5
  /\ Allowed("intent") = 5 /\ Allowed("complete") = 5 /\ Allowed("wait") = 5 /\ Allowed("ended") = 5
BY DEF Allowed

(* The steps that execute no agent go on in the order of the run, or end it. *)
LEMMA Onward ==
  ASSUME [AttemptNext]_attemptVars, RunInv
  PROVE  \/ executions' = executions + 1 /\ Allowed(stage') = Allowed(stage) + 1 /\ stage' \in Asking /\ stage \in Asking
            /\ UNCHANGED <<inspections, command, lease>>
         \/ executions' = executions /\ Allowed(stage) <= Allowed(stage')
<1> DEFINE Goes(p, q) == stage = p /\ stage' = q
<1>1. CASE First \/ Retry \/ Datastore \/ Graph \/ Repositories
  <2>1. \/ /\ \/ Goes("execute", "retry") \/ Goes("retry", "datastore") \/ Goes("datastore", "datastore checked")
              \/ Goes("graph", "graph checked") \/ Goes("repositories", "repositories checked")
           /\ executions' = executions + 1 /\ UNCHANGED <<inspections, command, lease>>
        \/ /\ \/ Goes("retry", "datastore") \/ Goes("datastore", "graph")
              \/ Goes("graph", "repositories") \/ Goes("repositories", "verdict")
           /\ executions' = executions
    BY <1>1 DEF First, Retry, Datastore, Graph, Repositories, Demand, Execute, Skip
  <2>2. /\ Goes("execute", "retry") => Allowed(stage) = 0 /\ Allowed(stage') = 1
        /\ Goes("retry", "datastore") => Allowed(stage) = 1 /\ Allowed(stage') = 2
        /\ Goes("datastore", "datastore checked") => Allowed(stage) = 2 /\ Allowed(stage') = 3
        /\ Goes("datastore", "graph") => Allowed(stage) = 2 /\ Allowed(stage') = 3
        /\ Goes("graph", "graph checked") => Allowed(stage) = 3 /\ Allowed(stage') = 4
        /\ Goes("graph", "repositories") => Allowed(stage) = 3 /\ Allowed(stage') = 4
        /\ Goes("repositories", "repositories checked") => Allowed(stage) = 4 /\ Allowed(stage') = 5
        /\ Goes("repositories", "verdict") => Allowed(stage) = 4 /\ Allowed(stage') = 5
    BY AllowedValues
  <2>3. CASE executions' = executions
    <3>1. PICK m \in 0..5, n \in 0..5 : m = Allowed(stage) /\ n = Allowed(stage')
      BY AllowedValues
    <3>2. (m = 0 /\ n = 1) \/ (m = 1 /\ n = 2) \/ (m = 2 /\ n = 3) \/ (m = 3 /\ n = 4) \/ (m = 4 /\ n = 5)
      BY <2>1, <2>2, <3>1
    <3>3. m <= n
      BY <3>2
    <3>4. QED
      BY <2>3, <3>1, <3>3
  <2>4. CASE executions' # executions
    <3>1. PICK m \in 0..5, n \in 0..5 : m = Allowed(stage) /\ n = Allowed(stage')
      BY AllowedValues
    <3>2. (m = 0 /\ n = 1) \/ (m = 1 /\ n = 2) \/ (m = 2 /\ n = 3) \/ (m = 3 /\ n = 4) \/ (m = 4 /\ n = 5)
      BY <2>1, <2>2, <3>1
    <3>3. n = m + 1
      BY <3>2
    <3>4. /\ executions' = executions + 1 /\ UNCHANGED <<inspections, command, lease>>
          /\ stage \in Asking /\ stage' \in Asking
      BY <2>1, <2>4 DEF Asking, FromGraph, FromRepositories, FromVerdict
    <3>5. QED
      BY <3>1, <3>3, <3>4
  <2>5. QED
    BY <2>3, <2>4
<1>2. CASE ValidateClaim \/ Materialise \/ DatastoreChecked \/ GraphChecked \/ RepositoriesChecked
  <2>1. /\ \/ Goes("claim", "ended") \/ Goes("claim", "execute") \/ Goes("execute", "retry")
           \/ Goes("datastore checked", "graph") \/ Goes("graph checked", "repositories")
           \/ Goes("repositories checked", "verdict")
        /\ executions' = executions
    BY <1>2 DEF ValidateClaim, Materialise, DatastoreChecked, GraphChecked, RepositoriesChecked, Checked, End
  <2>2. /\ Goes("claim", "ended") => Allowed(stage) = 0 /\ Allowed(stage') = 5
        /\ Goes("claim", "execute") => Allowed(stage) = 0 /\ Allowed(stage') = 0
        /\ Goes("execute", "retry") => Allowed(stage) = 0 /\ Allowed(stage') = 1
        /\ Goes("datastore checked", "graph") => Allowed(stage) = 3 /\ Allowed(stage') = 3
        /\ Goes("graph checked", "repositories") => Allowed(stage) = 4 /\ Allowed(stage') = 4
        /\ Goes("repositories checked", "verdict") => Allowed(stage) = 5 /\ Allowed(stage') = 5
    BY AllowedValues
  <2>3. PICK m \in 0..5, n \in 0..5 : m = Allowed(stage) /\ n = Allowed(stage')
    BY AllowedValues
  <2>4. (m = 0 /\ n \in {0, 1, 5}) \/ (m = 3 /\ n = 3) \/ (m = 4 /\ n = 4) \/ (m = 5 /\ n = 5)
    BY <2>1, <2>2, <2>3
  <2>5. m <= n
    BY <2>4
  <2>6. QED
    BY <2>1, <2>3, <2>5
<1>3. CASE Stopped \/ Judge \/ SaveIntent \/ Complete \/ WaitCancelled
  <2>1. stage' \in {"ended", "intent", "complete", "wait"} /\ executions' = executions
    BY <1>3 DEF Stopped, Judge, SaveIntent, Complete, WaitCancelled, End
  <2>2. Allowed(stage) \in 0..5 /\ Allowed(stage') = 5
    BY <2>1, AllowedValues
  <2>3. QED
    BY <2>1, <2>2
<1>4. CASE CancelRun \/ EndElsewhere \/ UNCHANGED attemptVars
  <2>1. stage' = stage /\ executions' = executions
    BY <1>4 DEF CancelRun, EndElsewhere, attemptVars
  <2>2. Allowed(stage) \in 0..5
    BY AllowedValues
  <2>3. QED
    BY <2>1, <2>2
<1>5. QED
  BY <1>1, <1>2, <1>3, <1>4 DEF AttemptNext

LEMMA CountedHolds ==
  ASSUME AttemptRunAssumption
  PROVE  AttemptSpec => []Counted
<1>1. AttemptInit => Counted
  BY DEF AttemptInit, Counted, ExecutionsFit, Allowed, TriesFit, CodeFits, LeaseFits, AttemptRunAssumption
<1>2. RunInv /\ Counted /\ [AttemptNext]_attemptVars => Counted'
  <2> SUFFICES ASSUME RunInv, Counted, [AttemptNext]_attemptVars PROVE Counted'
    OBVIOUS
  <2>1. ExecutionsFit'
    <3>1. executions \in Nat /\ executions <= Allowed(stage) /\ Allowed(stage) \in 0..5 /\ Allowed(stage') \in 0..5
      BY AllowedValues DEF Counted, ExecutionsFit
    <3>2. QED
      BY <3>1, Onward DEF ExecutionsFit
  <2>2. TriesFit'
    <3> USE DEF Asking, FromGraph, FromRepositories, FromVerdict
    <3>1. inspections \in Nat /\ inspections <= MaxInspections /\ MaxInspections \in Nat
      BY DEF Counted, TriesFit, AttemptRunAssumption
    <3>2. CASE Complete
      <4>1. inspections < MaxInspections
        <5>1. CASE stage = "wait"
          BY <5>1 DEF Counted, TriesFit
        <5>2. CASE stage = "complete"
          <6>1. inspections = 0 /\ MaxInspections \in Nat \ {0}
            BY <5>2 DEF Counted, TriesFit, AttemptRunAssumption
          <6>2. QED
            BY <6>1
        <5>3. QED
          BY <3>2, <5>1, <5>2 DEF Complete
      <4>2. inspections' = inspections + 1
        BY <3>2 DEF Complete
      <4>3. stage' = "ended" \/ (stage' = "wait" /\ inspections + 1 < MaxInspections)
        BY <3>2 DEF Complete, End
      <4>4. inspections' \in Nat /\ inspections' <= MaxInspections /\ (stage' = "wait" => inspections' < MaxInspections)
        BY <3>1, <4>1, <4>2, <4>3
      <4>5. stage' \notin Asking \cup {"intent", "complete"}
        BY <4>3
      <4>6. QED
        BY <4>4, <4>5 DEF TriesFit
    <3>3. CASE Stopped \/ Judge \/ SaveIntent \/ WaitCancelled \/ ValidateClaim
      BY <3>3 DEF Stopped, Judge, SaveIntent, WaitCancelled, ValidateClaim, End, Counted, TriesFit
    <3>4. CASE First \/ Retry \/ Datastore \/ Graph \/ Repositories
      <4>1. stage \in Asking /\ stage' \in Asking /\ inspections' = inspections
        BY <3>4 DEF First, Retry, Datastore, Graph, Repositories, Demand, Execute, Skip
      <4>2. QED
        BY <4>1 DEF Counted, TriesFit
    <3>5. CASE Materialise \/ DatastoreChecked \/ GraphChecked \/ RepositoriesChecked
      <4>1. stage \in Asking /\ stage' \in Asking /\ inspections' = inspections
        BY <3>5 DEF Materialise, DatastoreChecked, GraphChecked, RepositoriesChecked, Checked
      <4>2. QED
        BY <4>1 DEF Counted, TriesFit
    <3>6. CASE CancelRun \/ EndElsewhere \/ UNCHANGED attemptVars
      BY <3>6 DEF CancelRun, EndElsewhere, attemptVars, Counted, TriesFit
    <3>7. QED
      BY <3>2, <3>3, <3>4, <3>5, <3>6 DEF AttemptNext
  <2>3. CodeFits'
    <3>1. CASE Judge
      <4>1. \A code \in Codes : \A changes : Failure(code, changes).code \in Codes
        BY DEF Failure
      <4>2. \A outcome, changes : Success(outcome, changes).code \in Codes
        BY DEF Success, Codes
      <4>3. Command.code \in Codes
        BY <4>1, <4>2 DEF Command, Codes
      <4>4. Screened(Command).code \in Codes
        BY <4>1, <4>3 DEF Screened, Codes
      <4>5. QED
        BY <3>1, <4>4 DEF Judge, CodeFits
    <3>2. CASE UNCHANGED command
      BY <3>2 DEF Counted, CodeFits
    <3>3. QED
      BY <3>1, <3>2 DEF AttemptNext, attemptVars, ValidateClaim, Materialise, First, Retry, Datastore, DatastoreChecked, Graph,
         GraphChecked, Repositories, RepositoriesChecked, Stopped, SaveIntent, Complete, WaitCancelled,
         CancelRun, EndElsewhere, Execute, Skip, Demand, Checked
  <2>4. LeaseFits'
    <3>1. CASE ValidateClaim \/ Stopped \/ SaveIntent \/ Complete \/ WaitCancelled
      BY <3>1 DEF ValidateClaim, Stopped, SaveIntent, Complete, WaitCancelled, End, LeaseFits
    <3>2. CASE UNCHANGED <<stage, lease>>
      BY <3>2 DEF Counted, LeaseFits
    <3>3. QED
      BY <3>1, <3>2 DEF AttemptNext, attemptVars, Materialise, First, Retry, Datastore, DatastoreChecked, Graph,
         GraphChecked, Repositories, RepositoriesChecked, Judge,
         CancelRun, EndElsewhere, Execute, Skip, Demand, Checked, LeaseFits
  <2>5. QED
    BY <2>1, <2>2, <2>3, <2>4 DEF Counted
<1>3. QED
  BY <1>1, <1>2, RunInvHolds, PTL DEF AttemptSpec

(* What an attempt leaves behind is earned: a fix runs once and is paid for, a
   stored result is backed by receipts, an intent is of a running attempt, the
   staging directory serves recovery, and only a refusal strands an attempt. *)
THEOREM AttemptsAreEarned ==
  ASSUME AttemptRunAssumption
  PROVE  AttemptSpec => AttemptIsEarned
<1>1. RunInv /\ Counted => AttemptTypeOK
  <2>1. ExecutionsFit => executions \in 0..5
    <3>1. Allowed(stage) \in 0..5
      BY AllowedValues
    <3>2. QED
      BY <3>1 DEF ExecutionsFit
  <2>2. TriesFit => inspections \in 0..MaxInspections
    BY DEF TriesFit, AttemptRunAssumption
  <2>3. QED
    BY <2>1, <2>2 DEF RunInv, Kept, Counted, CodeFits, LeaseFits, AttemptTypeOK
<1>2. QED
  BY <1>1, RunInvHolds, CountedHolds, FixesRunOnce, ReceiptsBackResults, StagingKeptForRecovery, StrandedOnlyByRefusals,
     IntentsOfRunning, PTL DEF AttemptIsEarned

-----------------------------------------------------------------------------
(***************************************************************************)
(* The staging directories.                                                *)
(***************************************************************************)
Halves == Nat \X Nat
StagingSteps == {"idle", "open", "head", "tail", "after", "empty", "compare", "failed", "next"}
Kinds == {"free", "regular", "other", "gone"}
Infos == BOOLEAN \X BOOLEAN \X Nat

Tasks ==
  [step : StagingSteps, dir : Dirs \cup {None}, inode : Inodes \cup {None},
   before : Infos \cup {None}, head : Nat, tail : Nat, was : SUBSET Halves,
   passes : Nat, attempt : Attempts \cup {None}, list : SUBSET Attempts]

StagingTypes ==
  /\ name \in [Attempts -> Dirs \cup {None}] /\ made \in [Attempts -> Dirs \cup {None}]
  /\ used \subseteq Dirs
  /\ holds \in [Dirs -> Inodes \cup {None}]
  /\ node \in [Inodes -> [kind : Kinds, links : Int, head : Nat, tail : Nat, stamp : Nat]]
  /\ status \in [Attempts -> {"none", "running", "terminal"}]
  /\ run \in [Attempts -> Tasks] /\ sweep \in Tasks
  /\ captured \in [Attempts -> {"none", "whole", "torn"}]
  /\ moves \in Nat /\ crashes \in Nat

(* A read under way holds what the file has, as long as its time has not moved. *)
ReadFits(r) ==
  /\ r.inode \in Inodes /\ node[r.inode].kind # "free"
  /\ r.before \in Infos /\ node[r.inode].stamp >= r.before[3]
  /\ node[r.inode].stamp = r.before[3] =>
       /\ <<node[r.inode].head, node[r.inode].tail>> \in r.was
       /\ r.step \in {"tail", "after"} => r.head = node[r.inode].head
       /\ r.step = "after" => r.tail = node[r.inode].tail

Reading == {"head", "tail", "after"}
Cleaning == {"empty", "compare", "failed"}

CaptureFits ==
  /\ \A a \in Attempts : captured[a] # "torn" /\ (run[a].step \in Reading => ReadFits(run[a]))
  /\ \A d \in Dirs : holds[d] # None => node[holds[d]].kind # "free"

(* A directory belongs to one attempt for good. *)
Of(a) == {name[a], made[a]} \cup (IF run[a].step = "idle" THEN {} ELSE {run[a].dir})
                            \cup (IF sweep.step \in Cleaning /\ sweep.attempt = a THEN {sweep.dir} ELSE {})

OwnDirs ==
  /\ \A a \in Attempts : Of(a) \subseteq used \cup {None}
  /\ \A a, b \in Attempts : a # b => Of(a) \cap Of(b) \subseteq {None}

TasksFit ==
  /\ \A a \in Attempts :
       /\ run[a] # Nobody => run[a].attempt = a /\ run[a].dir \in Dirs
       /\ run[a].step = "idle" => run[a] = Nobody
       /\ run[a].step \in Reading \cup {"open"} => status[a] = "running"
       /\ run[a].step \in Cleaning => status[a] = "terminal"
       /\ run[a].step # "next"
       /\ status[a] = "none" => name[a] = None /\ made[a] = None /\ run[a] = Nobody
  /\ sweep.step \in {"idle", "next"} \cup Cleaning
  /\ \A a \in sweep.list : status[a] = "terminal"
  /\ sweep.step \in Cleaning => sweep.attempt \in sweep.list /\ sweep.dir \in Dirs

StagingInv == StagingTypes /\ CaptureFits /\ OwnDirs /\ TasksFit

LEMMA NobodyIsATask ==
  ASSUME StagingAssumption
  PROVE  /\ Nobody \in Tasks /\ Nobody.step = "idle" /\ Nobody.dir = None /\ Nobody.attempt = None
         /\ Nobody.list = {} /\ None \notin Attempts \cup Dirs \cup Inodes
  BY DEF Nobody, Tasks, StagingSteps, StagingAssumption

LEMMA OpenStagingStep ==
  ASSUME StagingAssumption, StagingInv, NEW a \in Attempts, OpenStaging(a)
  PROVE  StagingInv'
<1> USE NobodyIsATask
<1>1. StagingTypes /\ CaptureFits /\ OwnDirs /\ TasksFit
  BY DEF StagingInv
<1>2. PICK d \in Unused :
        /\ name' = [name EXCEPT ![a] = d] /\ made' = [made EXCEPT ![a] = d] /\ used' = used \cup {d}
        /\ run' = [run EXCEPT ![a] = [Nobody EXCEPT !.step = "open", !.dir = d, !.attempt = a]]
  BY DEF OpenStaging
<1>3. /\ d \in Dirs /\ d \notin used /\ status[a] = "none" /\ status' = [status EXCEPT ![a] = "running"]
      /\ UNCHANGED <<holds, node, sweep, captured, moves, crashes>>
  BY DEF OpenStaging, Unused, files
<1>4. PICK t \in Tasks : t = [Nobody EXCEPT !.step = "open", !.dir = d, !.attempt = a]
  BY <1>3 DEF Tasks, StagingSteps
<1>5. t.step = "open" /\ t.dir = d /\ t.attempt = a
  BY <1>4 DEF Nobody
<1>6. run' = [run EXCEPT ![a] = t]
  BY <1>2, <1>4
<1>7. StagingTypes'
  BY <1>1, <1>2, <1>3, <1>6 DEF StagingTypes
<1>8. CaptureFits'
  BY <1>1, <1>3, <1>5, <1>6 DEF CaptureFits, ReadFits, StagingTypes, Reading
<1>9. Of(a)' \subseteq {d, None} /\ \A b \in Attempts \ {a} : Of(b)' = Of(b)
  BY <1>1, <1>2, <1>3, <1>5, <1>6 DEF StagingTypes, TasksFit, Of
<1>10. OwnDirs'
  BY <1>1, <1>2, <1>3, <1>9 DEF OwnDirs
<1>11. TasksFit'
  BY <1>1, <1>2, <1>3, <1>5, <1>6 DEF StagingTypes, TasksFit, Reading, Cleaning
<1>12. QED
  BY <1>7, <1>8, <1>10, <1>11 DEF StagingInv

LEMMA OpenExistingStep ==
  ASSUME StagingAssumption, StagingInv, NEW a \in Attempts, OpenExisting(a)
  PROVE  StagingInv'
<1> USE NobodyIsATask
<1>1. StagingTypes /\ CaptureFits /\ OwnDirs /\ TasksFit
  BY DEF StagingInv
<1>2. /\ name[a] \in Dirs /\ status[a] = "running"
      /\ run' = [run EXCEPT ![a] = [Nobody EXCEPT !.step = "open", !.dir = name[a], !.attempt = a]]
      /\ UNCHANGED <<name, made, used, moves, holds, node, status, sweep, captured, crashes>>
  BY <1>1 DEF OpenExisting, tree, files, StagingTypes
<1>3. PICK t \in Tasks : t = [Nobody EXCEPT !.step = "open", !.dir = name[a], !.attempt = a]
  BY <1>2 DEF Tasks, StagingSteps
<1>4. t.step = "open" /\ t.dir = name[a] /\ t.attempt = a
  BY <1>3 DEF Nobody
<1>5. run' = [run EXCEPT ![a] = t]
  BY <1>2, <1>3
<1>6. StagingTypes'
  BY <1>1, <1>2, <1>5 DEF StagingTypes
<1>7. CaptureFits'
  <2>1. \A b \in Attempts : run'[b] = IF b = a THEN t ELSE run[b]
    BY <1>1, <1>5 DEF StagingTypes
  <2>2. \A b \in Attempts : run'[b].step \in Reading => b # a
    BY <1>4, <2>1 DEF Reading
  <2>3. \A b \in Attempts : b # a /\ ReadFits(run[b]) => ReadFits(run[b])'
    BY <1>2, <2>1 DEF ReadFits
  <2>4. QED
    BY <1>1, <1>2, <2>1, <2>2, <2>3 DEF CaptureFits
<1>8. Of(a)' \subseteq Of(a) /\ \A b \in Attempts \ {a} : Of(b)' = Of(b)
  BY <1>1, <1>2, <1>4, <1>5 DEF StagingTypes, Of
<1>9. OwnDirs'
  BY <1>1, <1>2, <1>8 DEF OwnDirs
<1>10. TasksFit'
  BY <1>1, <1>2, <1>4, <1>5 DEF StagingTypes, TasksFit, Reading, Cleaning
<1>11. QED
  BY <1>6, <1>7, <1>9, <1>10 DEF StagingInv

LEMMA MoveStep ==
  ASSUME StagingAssumption, StagingInv, NEW a \in Attempts, MoveDirectory(a)
  PROVE  StagingInv'
<1> USE NobodyIsATask
<1>1. StagingTypes /\ CaptureFits /\ OwnDirs /\ TasksFit
  BY DEF StagingInv
<1>2. PICK d \in Unused \cup {None} :
        name' = [name EXCEPT ![a] = d] /\ used' = (used \cup {d}) \ {None}
  BY DEF MoveDirectory
<1>3. /\ d \in Dirs \cup {None} /\ d \notin used /\ None \notin used
  BY <1>1 DEF Unused, StagingTypes
<1>4. /\ name[a] # None /\ moves' = moves + 1
      /\ UNCHANGED <<made, holds, node, status, run, sweep, captured, crashes>>
  BY DEF MoveDirectory, files
<1>5. StagingTypes'
  BY <1>1, <1>2, <1>3, <1>4 DEF StagingTypes
<1>6. CaptureFits'
  BY <1>1, <1>4 DEF CaptureFits, ReadFits
<1>7. Of(a)' \subseteq Of(a) \cup {d} /\ \A b \in Attempts \ {a} : Of(b)' = Of(b)
  BY <1>1, <1>2, <1>4 DEF StagingTypes, Of
<1>8. OwnDirs'
  BY <1>1, <1>2, <1>3, <1>7 DEF OwnDirs
<1>9. TasksFit'
  BY <1>1, <1>2, <1>4 DEF StagingTypes, TasksFit
<1>10. QED
  BY <1>5, <1>6, <1>8, <1>9 DEF StagingInv

(* A step of one run that stays in its directory and is not cleaning. *)
LEMMA RunKeepsInv ==
  ASSUME StagingAssumption, StagingInv, NEW a \in Attempts, NEW t \in Tasks,
         run[a].step \in Reading \cup {"open"}, run' = [run EXCEPT ![a] = t],
         t.dir = run[a].dir, t.attempt = run[a].attempt, t.step \in Reading \cup {"open"},
         UNCHANGED <<name, made, used, moves, holds, node, status, sweep, crashes>>,
         captured' \in [Attempts -> {"none", "whole"}],
         t.step \in Reading => ReadFits(t)
  PROVE  StagingInv'
<1>1. StagingTypes /\ CaptureFits /\ OwnDirs /\ TasksFit
  BY DEF StagingInv
<1>2. StagingTypes'
  BY <1>1 DEF StagingTypes
<1>3. \A b \in Attempts : run'[b] = IF b = a THEN t ELSE run[b]
  BY <1>1 DEF StagingTypes
<1>4. CaptureFits'
  BY <1>1, <1>3 DEF CaptureFits, ReadFits
<1>5. \A b \in Attempts : Of(b)' = Of(b)
  BY <1>3 DEF Of, Reading
<1>6. OwnDirs'
  BY <1>1, <1>5 DEF OwnDirs
<1>7. TasksFit'
  BY <1>1, <1>3, NobodyIsATask DEF TasksFit, Reading, Cleaning
<1>8. QED
  BY <1>2, <1>4, <1>6, <1>7 DEF StagingInv

LEMMA InfoFields ==
  ASSUME StagingTypes, NEW i \in Inodes
  PROVE  Info(i) \in Infos /\ Info(i)[3] = node[i].stamp
<1>1. node[i].stamp \in Nat /\ (node[i].head > 0) \in BOOLEAN /\ (node[i].tail > 0) \in BOOLEAN
  BY DEF StagingTypes
<1>2. Info(i)[3] = node[i].stamp
  BY DEF Info
<1>3. Info(i) \in Infos
  BY <1>1, Zenon DEF Info, Infos
<1>4. QED
  BY <1>2, <1>3

LEMMA CaptureOpenStep ==
  ASSUME StagingAssumption, StagingInv, NEW a \in Attempts, CaptureOpen(a)
  PROVE  StagingInv'
<1> USE NobodyIsATask
<1>1. StagingTypes /\ CaptureFits /\ OwnDirs /\ TasksFit
  BY DEF StagingInv
<1>2. /\ run[a].step = "open" /\ run[a].dir \in Dirs /\ holds[run[a].dir] # None /\ captured' = captured
      /\ UNCHANGED <<name, made, used, moves, holds, node, status, sweep, crashes>>
  BY <1>1 DEF CaptureOpen, At, Shared, tree, files, TasksFit
<1>3. captured \in [Attempts -> {"none", "whole"}]
  BY <1>1 DEF StagingTypes, CaptureFits
<1>4. PICK i \in Inodes : i = holds[run[a].dir] /\ node[i].kind # "free"
  BY <1>1, <1>2 DEF StagingTypes, CaptureFits
<1>5. CASE run' = run
  <2>1. run' = [run EXCEPT ![a] = run[a]] /\ run[a] \in Tasks
    BY <1>1, <1>5 DEF StagingTypes
  <2>2. QED
    BY <1>2, <1>3, <2>1, RunKeepsInv DEF Reading
<1>6. CASE run' = [run EXCEPT ![a].step = "head", ![a].inode = i, ![a].before = Info(i),
                              ![a].was = {<<node[i].head, node[i].tail>>}]
  <2>1. Info(i) \in Infos /\ Info(i)[3] = node[i].stamp /\ {<<node[i].head, node[i].tail>>} \in SUBSET Halves
    BY <1>1, InfoFields DEF StagingTypes, Halves
  <2>2. PICK w : w = {<<node[i].head, node[i].tail>>}
    OBVIOUS
  <2>3. PICK f : f = Info(i)
    OBVIOUS
  <2>4. PICK t : t = [run[a] EXCEPT !.step = "head", !.inode = i, !.before = f, !.was = w]
    OBVIOUS
  <2>5. t \in Tasks /\ t.step = "head" /\ t.dir = run[a].dir /\ t.attempt = run[a].attempt
        /\ t.inode = i /\ t.before = f /\ t.was = w
    BY <1>1, <2>1, <2>2, <2>3, <2>4 DEF StagingTypes, Tasks, StagingSteps
  <2>6. run' = [run EXCEPT ![a] = t]
    BY <1>1, <1>6, <2>2, <2>3, <2>4 DEF StagingTypes
  <2>7. ReadFits(t)
    BY <1>1, <1>4, <2>1, <2>2, <2>3, <2>5 DEF ReadFits, StagingTypes, Infos
  <2>8. QED
    BY <1>2, <1>3, <2>5, <2>6, <2>7, RunKeepsInv DEF Reading
<1>7. QED
  BY <1>4, <1>5, <1>6 DEF CaptureOpen

LEMMA ReadStep ==
  ASSUME StagingAssumption, StagingInv, NEW a \in Attempts, ReadHead(a) \/ ReadTail(a)
  PROVE  StagingInv'
<1>1. StagingTypes /\ CaptureFits /\ OwnDirs /\ TasksFit /\ run[a] \in Tasks
  BY DEF StagingInv, StagingTypes
<1>2. /\ captured' = captured
      /\ UNCHANGED <<name, made, used, moves, holds, node, status, sweep, crashes>>
  BY DEF ReadHead, ReadTail, Shared, tree, files
<1>3. captured \in [Attempts -> {"none", "whole"}]
  BY <1>1 DEF StagingTypes, CaptureFits
<1>4. run[a].step \in Reading /\ ReadFits(run[a]) /\ node[run[a].inode].head \in Nat /\ node[run[a].inode].tail \in Nat
  BY <1>1 DEF CaptureFits, ReadFits, ReadHead, ReadTail, At, Reading, StagingTypes
<1>5. CASE ReadHead(a)
  <2>1. PICK h \in Nat : h = node[run[a].inode].head
    BY <1>4
  <2>2. PICK t : t = [run[a] EXCEPT !.step = "tail", !.head = h]
    OBVIOUS
  <2>3. /\ t \in Tasks /\ t.step = "tail" /\ t.dir = run[a].dir /\ t.attempt = run[a].attempt
        /\ t.inode = run[a].inode /\ t.before = run[a].before /\ t.was = run[a].was /\ t.head = h
    BY <1>1, <2>1, <2>2 DEF Tasks, StagingSteps
  <2>4. run' = [run EXCEPT ![a] = t]
    BY <1>1, <1>5, <2>1, <2>2 DEF ReadHead, StagingTypes
  <2>5. ReadFits(t)
    BY <1>4, <2>1, <2>3 DEF ReadFits
  <2>6. QED
    BY <1>2, <1>3, <1>4, <2>3, <2>4, <2>5, RunKeepsInv DEF Reading
<1>6. CASE ReadTail(a)
  <2>1. PICK h \in Nat : h = node[run[a].inode].tail
    BY <1>4
  <2>2. PICK t : t = [run[a] EXCEPT !.step = "after", !.tail = h]
    OBVIOUS
  <2>3. /\ t \in Tasks /\ t.step = "after" /\ t.dir = run[a].dir /\ t.attempt = run[a].attempt
        /\ t.inode = run[a].inode /\ t.before = run[a].before /\ t.was = run[a].was /\ t.tail = h
        /\ t.head = run[a].head
    BY <1>1, <2>1, <2>2 DEF Tasks, StagingSteps
  <2>4. run' = [run EXCEPT ![a] = t]
    BY <1>1, <1>6, <2>1, <2>2 DEF ReadTail, StagingTypes
  <2>5. run[a].step = "tail"
    BY <1>6 DEF ReadTail, At
  <2>6. ReadFits(t)
    BY <1>4, <2>1, <2>3, <2>5 DEF ReadFits
  <2>7. QED
    BY <1>2, <1>3, <1>4, <2>3, <2>4, <2>6, RunKeepsInv DEF Reading
<1>7. QED
  BY <1>5, <1>6

(* A capture that is returned was one state of the file: its time has not
   moved since it was opened. *)
LEMMA CaptureEndsStep ==
  ASSUME StagingAssumption, StagingInv, NEW a \in Attempts, CaptureEnds(a)
  PROVE  StagingInv'
<1>1. StagingTypes /\ CaptureFits /\ OwnDirs /\ TasksFit /\ run[a] \in Tasks
  BY DEF StagingInv, StagingTypes
<1>2. /\ run[a].step = "after" /\ ReadFits(run[a])
      /\ UNCHANGED <<name, made, used, moves, holds, node, status, sweep, crashes>>
  BY <1>1 DEF CaptureEnds, At, Shared, tree, files, CaptureFits, Reading
<1>3. Unchanged(run[a]) => <<run[a].head, run[a].tail>> \in run[a].was
  BY <1>1, <1>2, InfoFields DEF Unchanged, ReadFits
<1>4. captured \in [Attempts -> {"none", "whole"}]
  BY <1>1 DEF StagingTypes, CaptureFits
<1>5. captured' \in [Attempts -> {"none", "whole"}]
  BY <1>3, <1>4 DEF CaptureEnds
<1>6. PICK t : t = [run[a] EXCEPT !.step = "open", !.inode = None, !.before = None, !.head = 0, !.tail = 0, !.was = {}]
  OBVIOUS
<1>7. t \in Tasks /\ t.step = "open" /\ t.dir = run[a].dir /\ t.attempt = run[a].attempt
  BY <1>1, <1>6 DEF Tasks, StagingSteps
<1>8. run' = [run EXCEPT ![a] = t]
  BY <1>6 DEF CaptureEnds, Fails
<1>9. QED
  BY <1>2, <1>5, <1>7, <1>8, RunKeepsInv DEF Reading

LEMMA EndRunStep ==
  ASSUME StagingAssumption, StagingInv, NEW a \in Attempts, EndRun(a)
  PROVE  StagingInv'
<1> USE NobodyIsATask
<1>1. StagingTypes /\ CaptureFits /\ OwnDirs /\ TasksFit /\ run[a] \in Tasks
  BY DEF StagingInv, StagingTypes
<1>2. /\ run[a].step = "open" /\ run[a] # Nobody
      /\ UNCHANGED <<name, made, used, moves, holds, node, sweep, captured, crashes>>
  BY DEF EndRun, At, tree, files
<1>3. PICK preserve \in BOOLEAN, s \in {"running", "terminal"} :
        /\ ~preserve => s = "terminal"
        /\ status' = [status EXCEPT ![a] = s]
        /\ run' = [run EXCEPT ![a] = IF preserve THEN Nobody ELSE [@ EXCEPT !.step = "empty"]]
  BY DEF EndRun
<1>4. PICK e : e = [run[a] EXCEPT !.step = "empty"]
  OBVIOUS
<1>5. e \in Tasks /\ e.step = "empty" /\ e.dir = run[a].dir /\ e.attempt = run[a].attempt
  BY <1>1, <1>4 DEF Tasks, StagingSteps
<1>6. PICK t \in Tasks : t = IF preserve THEN Nobody ELSE e
  BY <1>5
<1>7. run' = [run EXCEPT ![a] = t]
  BY <1>3, <1>4, <1>6
<1>8. /\ \A b \in Attempts : run'[b] = IF b = a THEN t ELSE run[b]
      /\ \A b \in Attempts : status'[b] = IF b = a THEN s ELSE status[b]
      /\ t.step \in {"idle", "empty"}
  BY <1>1, <1>3, <1>5, <1>6, <1>7 DEF StagingTypes
<1>9. StagingTypes'
  BY <1>1, <1>2, <1>3, <1>7 DEF StagingTypes
<1>10. CaptureFits'
  BY <1>1, <1>2, <1>8 DEF CaptureFits, ReadFits, Reading
<1>11. \A b \in Attempts : Of(b)' \subseteq Of(b)
  BY <1>2, <1>5, <1>6, <1>8 DEF Of
<1>12. OwnDirs'
  BY <1>1, <1>2, <1>11 DEF OwnDirs
<1>13. TasksFit'
  <2>1. status[a] = "running"
    BY <1>1, <1>2 DEF TasksFit
  <2>2. \A b \in sweep.list : b # a /\ status'[b] = "terminal"
    BY <1>1, <1>8, <2>1 DEF TasksFit, StagingTypes, Tasks
  <2>3. sweep' = sweep /\ name' = name /\ made' = made
    BY <1>2
  <2>4. ASSUME NEW b \in Attempts
        PROVE  /\ run'[b] # Nobody => run'[b].attempt = b /\ run'[b].dir \in Dirs
               /\ run'[b].step = "idle" => run'[b] = Nobody
               /\ run'[b].step \in Reading \cup {"open"} => status'[b] = "running"
               /\ run'[b].step \in Cleaning => status'[b] = "terminal"
               /\ run'[b].step # "next"
               /\ status'[b] = "none" => name[b] = None /\ made[b] = None /\ run'[b] = Nobody
    <3>1. CASE b # a
      BY <1>1, <1>8, <3>1 DEF TasksFit
    <3>2. CASE b = a /\ preserve
      BY <1>6, <1>8, <3>2 DEF Reading, Cleaning
    <3>3. CASE b = a /\ ~preserve
      BY <1>1, <1>2, <1>3, <1>5, <1>6, <1>8, <3>3 DEF Reading, Cleaning, TasksFit
    <3>4. QED
      BY <3>1, <3>2, <3>3
  <2>5. QED
    BY <1>1, <2>2, <2>3, <2>4 DEF TasksFit
<1>14. QED
  BY <1>9, <1>10, <1>12, <1>13 DEF StagingInv

LEMMA CrashLeavesInv ==
  ASSUME StagingAssumption, StagingInv, Crash
  PROVE  StagingInv'
<1> USE NobodyIsATask
<1>1. StagingTypes /\ CaptureFits /\ OwnDirs /\ TasksFit
  BY DEF StagingInv
<1>2. /\ run' = [a \in Attempts |-> Nobody] /\ sweep' = Nobody /\ crashes' = crashes + 1
      /\ UNCHANGED <<name, made, used, moves, holds, node, captured>>
  BY DEF Crash, tree, files
<1>3. PICK lost \in SUBSET {a \in Attempts : status[a] = "running"} :
        status' = [a \in Attempts |-> IF a \in lost THEN "terminal" ELSE status[a]]
  BY DEF Crash
<1>4. StagingTypes'
  BY <1>1, <1>2, <1>3 DEF StagingTypes
<1>5. CaptureFits'
  BY <1>1, <1>2 DEF CaptureFits, Reading
<1>6. \A b \in Attempts : Of(b)' \subseteq Of(b)
  BY <1>2 DEF Of, Cleaning
<1>7. OwnDirs'
  BY <1>1, <1>2, <1>6 DEF OwnDirs
<1>8. TasksFit'
  BY <1>1, <1>2, <1>3 DEF TasksFit, Reading, Cleaning
<1>9. QED
  BY <1>4, <1>5, <1>7, <1>8 DEF StagingInv

-----------------------------------------------------------------------------
(* The files: what is there keeps its content, or gets a later time. *)
FilesKept == \A i \in Inodes : node[i].kind # "free" =>
          /\ node'[i].kind # "free" /\ node'[i].head = node[i].head
          /\ node'[i].tail = node[i].tail /\ node'[i].stamp = node[i].stamp

LEMMA KeptReads ==
  ASSUME CaptureFits, FilesKept, NEW a \in Attempts, run[a].step \in Reading, run'[a] = run[a]
  PROVE  ReadFits(run[a])'
<1>1. ReadFits(run[a])
  BY DEF CaptureFits
<1>2. run[a].inode \in Inodes /\ node[run[a].inode].kind # "free"
  BY <1>1 DEF ReadFits
<1>3. LET i == run[a].inode IN
      /\ node'[i].kind # "free" /\ node'[i].head = node[i].head
      /\ node'[i].tail = node[i].tail /\ node'[i].stamp = node[i].stamp
  BY <1>2 DEF FilesKept
<1>4. QED
  BY <1>1, <1>2, <1>3 DEF ReadFits

LEMMA FileStep ==
  ASSUME StagingAssumption, StagingInv,
         (\E d \in Dirs : Create(d)) \/ (\E i \in Inodes : HardLink(i))
  PROVE  StagingInv'
<1> USE NobodyIsATask
<1>1. StagingTypes /\ CaptureFits /\ OwnDirs /\ TasksFit
  BY DEF StagingInv
<1>2. UNCHANGED <<name, made, used, moves, status, run, sweep, captured, crashes>>
  BY DEF Create, HardLink, tree
<1>3. /\ holds' \in [Dirs -> Inodes \cup {None}]
      /\ node' \in [Inodes -> [kind : Kinds, links : Int, head : Nat, tail : Nat, stamp : Nat]]
      /\ FilesKept
      /\ \A d \in Dirs : holds'[d] # None => node'[holds'[d]].kind # "free"
  <2>1. CASE \E d \in Dirs : Create(d)
    <3>1. PICK d \in Dirs : Create(d)
      BY <2>1
    <3>2. PICK i \in Inodes, k \in {"regular", "other"}, t \in {0, 1} :
            /\ node[i].kind = "free" /\ holds' = [holds EXCEPT ![d] = i]
            /\ node' = [node EXCEPT ![i] = [kind |-> k, links |-> 1, head |-> 1, tail |-> t, stamp |-> 1]]
      BY <3>1 DEF Create, Free
    <3>3. [kind |-> k, links |-> 1, head |-> 1, tail |-> t, stamp |-> 1]
            \in [kind : Kinds, links : Int, head : Nat, tail : Nat, stamp : Nat]
      BY DEF Kinds
    <3>4. holds' \in [Dirs -> Inodes \cup {None}]
      BY <1>1, <3>2 DEF StagingTypes
    <3>5. node' \in [Inodes -> [kind : Kinds, links : Int, head : Nat, tail : Nat, stamp : Nat]]
      BY <1>1, <3>2, <3>3 DEF StagingTypes
    <3>6. \A j \in Inodes : j # i => node'[j] = node[j]
      BY <1>1, <3>2 DEF StagingTypes
    <3>7. node'[i].kind # "free"
      BY <1>1, <3>2 DEF StagingTypes
    <3>8. FilesKept
      BY <3>2, <3>6 DEF FilesKept
    <3>9. \A e \in Dirs : holds'[e] # None => node'[holds'[e]].kind # "free"
      BY <1>1, <3>2, <3>6, <3>7 DEF StagingTypes, CaptureFits
    <3>10. QED
      BY <3>4, <3>5, <3>8, <3>9
  <2>2. CASE \E i \in Inodes : HardLink(i)
    <3>1. PICK i \in Inodes : node' = [node EXCEPT ![i].links = 2] /\ holds' = holds
      BY <2>2 DEF HardLink
    <3>2. node' \in [Inodes -> [kind : Kinds, links : Int, head : Nat, tail : Nat, stamp : Nat]]
      BY <1>1, <3>1 DEF StagingTypes
    <3>3. \A j \in Inodes : /\ node'[j].kind = node[j].kind /\ node'[j].head = node[j].head
                            /\ node'[j].tail = node[j].tail /\ node'[j].stamp = node[j].stamp
      BY <1>1, <3>1 DEF StagingTypes
    <3>4. QED
      BY <1>1, <3>1, <3>2, <3>3 DEF FilesKept, StagingTypes, CaptureFits
  <2>3. QED
    BY <2>1, <2>2
<1>4. StagingTypes'
  BY <1>1, <1>2, <1>3 DEF StagingTypes
<1>5. CaptureFits'
  BY <1>1, <1>2, <1>3, KeptReads DEF CaptureFits
<1>6. OwnDirs' /\ TasksFit'
  BY <1>1, <1>2 DEF OwnDirs, Of, TasksFit
<1>7. QED
  BY <1>4, <1>5, <1>6 DEF StagingInv

LEMMA WriteHalfStep ==
  ASSUME StagingAssumption, StagingInv, NEW i \in Inodes, WriteHalf(i)
  PROVE  StagingInv'
<1> USE NobodyIsATask
<1>1. StagingTypes /\ CaptureFits /\ OwnDirs /\ TasksFit
  BY DEF StagingInv
<1>2. /\ node[i].kind = "regular"
      /\ UNCHANGED <<holds, name, made, used, moves, status, sweep, captured, crashes>>
  BY DEF WriteHalf, tree
<1>3. PICK half \in {"head", "tail"} :
        LET new == [node[i] EXCEPT ![half] = @ + 1, !.stamp = @ + 1] IN
        /\ node' = [node EXCEPT ![i] = new]
        /\ run' = [a \in Attempts |-> IF run[a].inode = i
                                      THEN [run[a] EXCEPT !.was = @ \cup {<<new.head, new.tail>>}] ELSE run[a]]
  BY DEF WriteHalf
<1>4. PICK new : new = [node[i] EXCEPT ![half] = @ + 1, !.stamp = @ + 1]
  OBVIOUS
<1>5. /\ new \in [kind : Kinds, links : Int, head : Nat, tail : Nat, stamp : Nat]
      /\ new.stamp = node[i].stamp + 1 /\ new.kind = node[i].kind
  <2>1. node[i] \in [kind : Kinds, links : Int, head : Nat, tail : Nat, stamp : Nat]
    BY <1>1 DEF StagingTypes
  <2>2. CASE half = "head"
    <3>1. new = [node[i] EXCEPT !["head"] = @ + 1, !["stamp"] = @ + 1]
      BY <1>4, <2>2
    <3>2. PICK x \in Nat, y \in Nat : x = node[i].head + 1 /\ y = node[i].stamp + 1
      BY <2>1
    <3>3. new = [node[i] EXCEPT !.head = x, !.stamp = y]
      BY <2>1, <3>1, <3>2
    <3>4. QED
      BY <2>1, <3>2, <3>3
  <2>3. CASE half = "tail"
    <3>1. new = [node[i] EXCEPT !["tail"] = @ + 1, !["stamp"] = @ + 1]
      BY <1>4, <2>3
    <3>2. PICK x \in Nat, y \in Nat : x = node[i].tail + 1 /\ y = node[i].stamp + 1
      BY <2>1
    <3>3. new = [node[i] EXCEPT !.tail = x, !.stamp = y]
      BY <2>1, <3>1, <3>2
    <3>4. QED
      BY <2>1, <3>2, <3>3
  <2>4. QED
    BY <2>2, <2>3
<1>6. PICK now \in Halves : now = <<new.head, new.tail>>
  BY <1>5 DEF Halves
<1>7. /\ node' = [node EXCEPT ![i] = new]
      /\ run' = [a \in Attempts |-> IF run[a].inode = i THEN [run[a] EXCEPT !.was = @ \cup {now}] ELSE run[a]]
  BY <1>3, <1>4, <1>6
<1>8. ASSUME NEW a \in Attempts
      PROVE  /\ run'[a] \in Tasks /\ run'[a].step = run[a].step /\ run'[a].dir = run[a].dir
             /\ run'[a].attempt = run[a].attempt /\ run'[a].inode = run[a].inode
             /\ run'[a].before = run[a].before
             /\ run[a].inode # i => run'[a] = run[a]
  <2>1. run[a] \in Tasks
    BY <1>1 DEF StagingTypes
  <2>2. run'[a] = IF run[a].inode = i THEN [run[a] EXCEPT !.was = @ \cup {now}] ELSE run[a]
    BY <1>7
  <2>3. QED
    BY <2>1, <2>2 DEF Tasks
<1>9. StagingTypes'
  <2>1. run' \in [Attempts -> Tasks]
    BY <1>7, <1>8
  <2>2. QED
    BY <1>1, <1>2, <1>5, <1>7, <2>1 DEF StagingTypes
<1>10. node'[i] = new /\ \A j \in Inodes \ {i} : node'[j] = node[j]
  BY <1>1, <1>7 DEF StagingTypes
<1>11. CaptureFits'
  <2>1. ASSUME NEW a \in Attempts, run[a].step \in Reading PROVE ReadFits(run[a])'
    <3>1. ReadFits(run[a]) /\ node[run[a].inode].stamp \in Nat
      BY <1>1, <2>1 DEF CaptureFits, ReadFits, StagingTypes
    <3>2. CASE run[a].inode = i
      <4>1. run[a].before[3] \in Nat
        BY <3>1 DEF ReadFits, Infos
      <4>2. node'[i].stamp \in Nat /\ node'[i].stamp > run[a].before[3] /\ node'[i].kind # "free"
        BY <1>2, <1>5, <1>10, <3>1, <3>2, <4>1 DEF ReadFits
      <4>3. run'[a].inode = i /\ run'[a].before = run[a].before /\ run[a].before \in Infos
        BY <1>8, <3>1, <3>2 DEF ReadFits
      <4>4. QED
        BY <4>1, <4>2, <4>3 DEF ReadFits
    <3>3. CASE run[a].inode # i
      BY <1>8, <1>10, <3>1, <3>3 DEF ReadFits
    <3>4. QED
      BY <3>2, <3>3
  <2>2. \A d \in Dirs : holds'[d] # None => node'[holds'[d]].kind # "free"
    BY <1>1, <1>2, <1>5, <1>10 DEF CaptureFits, StagingTypes
  <2>3. QED
    BY <1>1, <1>2, <1>8, <2>1, <2>2 DEF CaptureFits
<1>12. OwnDirs'
  <2>1. \A b \in Attempts : Of(b)' = Of(b)
    BY <1>2, <1>8 DEF Of
  <2>2. QED
    BY <1>1, <1>2, <2>1 DEF OwnDirs
<1>13. TasksFit'
  <2>1. \A a \in Attempts : run[a] = Nobody => run'[a] = Nobody
    BY <1>8 DEF Nobody
  <2>2. QED
    BY <1>1, <1>2, <1>8, <2>1 DEF TasksFit
<1>14. QED
  BY <1>9, <1>11, <1>12, <1>13 DEF StagingInv

-----------------------------------------------------------------------------
(* What a step of a cleanup leaves: only the name of its own attempt and the
   directory it has open can change. *)
LEMMA CleanupLeaves ==
  ASSUME StagingAssumption, StagingTypes, CaptureFits, NEW p \in Tasks, p.dir \in Dirs,
         p.attempt \in Attempts, CleanupStep(p)
  PROVE  /\ p.step \in {"empty", "compare"}
         /\ name' \in [Attempts -> Dirs \cup {None}]
         /\ \A b \in Attempts : name'[b] \in {name[b], None}
         /\ \A b \in Attempts : name'[b] # name[b] => /\ b = p.attempt /\ p.step = "compare"
                                                      /\ p.dir = name[b]
         /\ holds' \in [Dirs -> Inodes \cup {None}]
         /\ \A d \in Dirs : holds'[d] \in {holds[d], None}
         /\ \A d \in Dirs : holds'[d] # holds[d] => d = p.dir
         /\ node' \in [Inodes -> [kind : Kinds, links : Int, head : Nat, tail : Nat, stamp : Nat]]
         /\ FilesKept
         /\ Cleaned(p) \in Tasks /\ Cleaned(p).step \in Cleaning /\ Cleaned(p).dir = p.dir
         /\ Cleaned(p).attempt = p.attempt /\ Cleaned(p).list = p.list
<1> USE NobodyIsATask
<1>1. p.step \in {"empty", "compare"}
  BY DEF CleanupStep
<1>2. /\ name' \in [Attempts -> Dirs \cup {None}]
      /\ \A b \in Attempts : name'[b] \in {name[b], None}
      /\ \A b \in Attempts : name'[b] # name[b] => /\ b = p.attempt /\ p.step = "compare"
                                                   /\ p.dir = name[b]
  BY DEF CleanupStep, RemoveName, SameDirectory, StagingTypes
<1>3. /\ holds' \in [Dirs -> Inodes \cup {None}]
      /\ \A d \in Dirs : holds'[d] \in {holds[d], None}
      /\ \A d \in Dirs : holds'[d] # holds[d] => d = p.dir
      /\ node' \in [Inodes -> [kind : Kinds, links : Int, head : Nat, tail : Nat, stamp : Nat]]
      /\ FilesKept
  <2>1. CASE holds' = holds /\ node' = node
    BY <2>1 DEF StagingTypes, FilesKept
  <2>2. CASE p.step = "empty" /\ holds[p.dir] # None
    <3>1. PICK i \in Inodes : i = holds[p.dir]
      BY <2>2 DEF StagingTypes
    <3>2. holds' = [holds EXCEPT ![p.dir] = None]
      BY <2>2 DEF CleanupStep, CleanupPass
    <3>3. node' = [node EXCEPT ![i].links = @ - 1, ![i].kind = IF node[i].links = 1 THEN "gone" ELSE @]
      BY <2>2, <3>1 DEF CleanupStep, CleanupPass
    <3>4. PICK l \in Int, k \in Kinds : /\ l = node[i].links - 1
                                        /\ k = IF node[i].links = 1 THEN "gone" ELSE node[i].kind
      BY DEF StagingTypes, Kinds
    <3>5. node' = [node EXCEPT ![i] = [@ EXCEPT !.links = l, !.kind = k]]
      BY <3>3, <3>4 DEF StagingTypes
    <3>6. node' \in [Inodes -> [kind : Kinds, links : Int, head : Nat, tail : Nat, stamp : Nat]]
      <4>1. PICK n \in [kind : Kinds, links : Int, head : Nat, tail : Nat, stamp : Nat] : n = node[i]
        BY DEF StagingTypes
      <4>2. PICK x : x = [n EXCEPT !.links = l, !.kind = k]
        OBVIOUS
      <4>3. x \in [kind : Kinds, links : Int, head : Nat, tail : Nat, stamp : Nat]
        BY <4>1, <4>2
      <4>4. node' = [node EXCEPT ![i] = x]
        BY <3>5, <4>1, <4>2
      <4>5. QED
        BY <4>3, <4>4 DEF StagingTypes
    <3>7. /\ \A j \in Inodes \ {i} : node'[j] = node[j]
          /\ node'[i].kind = k /\ node'[i].head = node[i].head /\ node'[i].tail = node[i].tail
          /\ node'[i].stamp = node[i].stamp
      BY <3>5 DEF StagingTypes
    <3>8. FilesKept
      BY <3>4, <3>7 DEF FilesKept
    <3>9. QED
      BY <3>2, <3>6, <3>8 DEF StagingTypes
  <2>3. QED
    BY <2>1, <2>2 DEF CleanupStep, CleanupPass, files
<1>4. /\ Cleaned(p) \in Tasks /\ Cleaned(p).step \in Cleaning /\ Cleaned(p).dir = p.dir
      /\ Cleaned(p).attempt = p.attempt /\ Cleaned(p).list = p.list
  <2>1. Cleaned(p) \in {[p EXCEPT !.step = "failed"], [p EXCEPT !.step = "compare"], [p EXCEPT !.passes = @ + 1]}
    BY DEF Cleaned
  <2>2. QED
    BY <1>1, <2>1 DEF Tasks, StagingSteps, Cleaning, Cleaned
<1>5. QED
  BY <1>1, <1>2, <1>3, <1>4

LEMMA RunCleanupStep ==
  ASSUME StagingAssumption, StagingInv, NEW a \in Attempts, RunCleanup(a)
  PROVE  StagingInv'
<1> USE NobodyIsATask
<1>1. StagingTypes /\ CaptureFits /\ OwnDirs /\ TasksFit /\ run[a] \in Tasks
  BY DEF StagingInv, StagingTypes
<1>2. UNCHANGED <<made, used, moves, status, sweep, captured, crashes>>
  BY DEF RunCleanup
<1>3. /\ run[a].step \in Cleaning /\ run[a] # Nobody /\ run[a].dir \in Dirs /\ run[a].attempt = a
      /\ status[a] = "terminal"
  BY <1>1 DEF RunCleanup, CleanupStep, At, Cleaning, TasksFit
<1>4. PICK t \in Tasks :
        /\ run' = [run EXCEPT ![a] = t]
        /\ \/ t = Nobody
           \/ t # Nobody /\ t.step \in Cleaning /\ t.dir = run[a].dir /\ t.attempt = a
  <2>1. CASE CleanupStep(run[a]) /\ run' = [run EXCEPT ![a] = Cleaned(@)]
    <3>1. PICK t : t = Cleaned(run[a])
      OBVIOUS
    <3>2. t \in Tasks /\ t.step \in Cleaning /\ t.dir = run[a].dir /\ t.attempt = a
      BY <1>1, <1>3, <2>1, <3>1, CleanupLeaves
    <3>3. run' = [run EXCEPT ![a] = t] /\ t # Nobody
      BY <2>1, <3>1, <3>2 DEF Cleaning
    <3>4. QED
      BY <3>2, <3>3
  <2>2. CASE run' = [run EXCEPT ![a] = Nobody]
    BY <2>2
  <2>3. QED
    BY <2>1, <2>2 DEF RunCleanup
<1>5. /\ name' \in [Attempts -> Dirs \cup {None}] /\ \A b \in Attempts : name'[b] \in {name[b], None}
      /\ holds' \in [Dirs -> Inodes \cup {None}] /\ \A d \in Dirs : holds'[d] \in {holds[d], None}
      /\ node' \in [Inodes -> [kind : Kinds, links : Int, head : Nat, tail : Nat, stamp : Nat]]
      /\ FilesKept
  <2>1. CASE CleanupStep(run[a])
    BY <1>1, <1>3, <2>1, CleanupLeaves
  <2>2. CASE UNCHANGED <<name, files>>
    BY <1>1, <2>2 DEF StagingTypes, files, FilesKept
  <2>3. QED
    BY <2>1, <2>2 DEF RunCleanup
<1>6. \A b \in Attempts : run'[b] = IF b = a THEN t ELSE run[b]
  BY <1>1, <1>4 DEF StagingTypes
<1>7. StagingTypes'
  BY <1>1, <1>2, <1>4, <1>5 DEF StagingTypes
<1>8. CaptureFits'
  <2>1. \A d \in Dirs : holds'[d] # None => holds'[d] \in Inodes /\ node[holds'[d]].kind # "free"
    BY <1>1, <1>5 DEF CaptureFits, StagingTypes
  <2>2. \A b \in Attempts : run'[b].step \in Reading => b # a /\ run[b].step \in Reading /\ run'[b] = run[b]
    BY <1>4, <1>6 DEF Reading, Cleaning
  <2>3. QED
    BY <1>1, <1>2, <1>5, <2>1, <2>2, KeptReads DEF CaptureFits, FilesKept
<1>9. \A b \in Attempts : Of(b)' \subseteq Of(b) \cup {None}
  <2>1. \A b \in Attempts : run'[b].step # "idle" => run[b].step # "idle" /\ run'[b].dir = run[b].dir
    BY <1>3, <1>4, <1>6 DEF Cleaning
  <2>2. QED
    BY <1>2, <1>5, <2>1 DEF Of
<1>10. OwnDirs'
  BY <1>1, <1>2, <1>9 DEF OwnDirs
<1>11. TasksFit'
  <2>1. ASSUME NEW b \in Attempts
        PROVE  /\ run'[b] # Nobody => run'[b].attempt = b /\ run'[b].dir \in Dirs
               /\ run'[b].step = "idle" => run'[b] = Nobody
               /\ run'[b].step \in Reading \cup {"open"} => status[b] = "running"
               /\ run'[b].step \in Cleaning => status[b] = "terminal"
               /\ run'[b].step # "next"
               /\ status[b] = "none" => name'[b] = None /\ made[b] = None /\ run'[b] = Nobody
    <3>1. CASE b # a
      BY <1>1, <1>5, <1>6, <3>1 DEF TasksFit
    <3>2. CASE b = a
      BY <1>3, <1>4, <1>6, <3>2 DEF Reading, Cleaning
    <3>3. QED
      BY <3>1, <3>2
  <2>2. QED
    BY <1>1, <1>2, <2>1 DEF TasksFit
<1>12. QED
  BY <1>7, <1>8, <1>10, <1>11 DEF StagingInv

(* A step of the sweep, for a directory that a listed attempt's name leads to. *)
LEMMA SweepKeepsInv ==
  ASSUME StagingAssumption, StagingInv, sweep' \in Tasks,
         UNCHANGED <<made, used, moves, status, run, captured, crashes>>,
         name' \in [Attempts -> Dirs \cup {None}], \A b \in Attempts : name'[b] \in {name[b], None},
         holds' \in [Dirs -> Inodes \cup {None}], \A d \in Dirs : holds'[d] \in {holds[d], None},
         node' \in [Inodes -> [kind : Kinds, links : Int, head : Nat, tail : Nat, stamp : Nat]],
         FilesKept,
         sweep'.step \in {"idle", "next"} \cup Cleaning,
         \A b \in sweep'.list : status[b] = "terminal",
         sweep'.step \in Cleaning => /\ sweep'.attempt \in sweep'.list
                                     /\ sweep'.dir \in Dirs \cap Of(sweep'.attempt)
  PROVE  StagingInv'
<1>1. StagingTypes /\ CaptureFits /\ OwnDirs /\ TasksFit
  BY DEF StagingInv
<1>2. StagingTypes'
  BY <1>1 DEF StagingTypes
<1>3. CaptureFits'
  <2>1. \A d \in Dirs : holds'[d] # None => holds'[d] \in Inodes /\ node[holds'[d]].kind # "free"
    BY <1>1, NobodyIsATask DEF CaptureFits, StagingTypes
  <2>2. QED
    BY <1>1, <2>1, KeptReads DEF CaptureFits, FilesKept
<1>4. \A b \in Attempts : Of(b)' \subseteq Of(b) \cup {None}
  BY DEF Of
<1>5. OwnDirs'
  BY <1>1, <1>4 DEF OwnDirs
<1>6. TasksFit'
  BY <1>1 DEF TasksFit
<1>7. QED
  BY <1>2, <1>3, <1>5, <1>6 DEF StagingInv

LEMMA SweepStep ==
  ASSUME StagingAssumption, StagingInv, BeginSweep \/ SweepEntry \/ SweepCleanup
  PROVE  StagingInv'
<1> USE NobodyIsATask
<1>1. StagingTypes /\ CaptureFits /\ OwnDirs /\ TasksFit /\ sweep \in Tasks
  BY DEF StagingInv, StagingTypes
<1>2. ASSUME UNCHANGED <<name, files>>
      PROVE  /\ name' \in [Attempts -> Dirs \cup {None}] /\ \A b \in Attempts : name'[b] \in {name[b], None}
             /\ holds' \in [Dirs -> Inodes \cup {None}] /\ \A d \in Dirs : holds'[d] \in {holds[d], None}
             /\ node' \in [Inodes -> [kind : Kinds, links : Int, head : Nat, tail : Nat, stamp : Nat]]
             /\ FilesKept
  BY <1>1, <1>2 DEF StagingTypes, files, FilesKept
<1>3. CASE BeginSweep
  <2>1. PICK t : t = [Nobody EXCEPT !.step = "next", !.list = Sweepable]
    OBVIOUS
  <2>2. t \in Tasks /\ t.step = "next" /\ t.list = Sweepable
    BY <2>1 DEF Nobody, Tasks, StagingSteps, Sweepable
  <2>3. /\ sweep' = t /\ UNCHANGED <<name, files>>
        /\ UNCHANGED <<made, used, moves, status, run, captured, crashes>>
    BY <1>3, <2>1 DEF BeginSweep, tree
  <2>4. \A b \in t.list : status[b] = "terminal"
    BY <2>2 DEF Sweepable
  <2>5. t.step \notin Cleaning
    BY <2>2 DEF Cleaning
  <2>6. QED
    BY <1>2, <2>2, <2>3, <2>4, <2>5, SweepKeepsInv
<1>4. CASE SweepEntry
  <2>1. /\ sweep.step = "next" /\ UNCHANGED <<name, files>>
        /\ UNCHANGED <<made, used, moves, status, run, captured, crashes>>
    BY <1>4 DEF SweepEntry, tree
  <2>2. CASE sweep' = Nobody
    BY <1>2, <2>1, <2>2, SweepKeepsInv DEF Cleaning
  <2>3. CASE sweep' # Nobody
    <3>1. PICK a \in sweep.list :
            name[a] # None /\ sweep' = [sweep EXCEPT !.step = "empty", !.dir = name[a], !.attempt = a, !.passes = 0]
      BY <1>4, <2>3 DEF SweepEntry
    <3>2. a \in Attempts /\ name[a] \in Dirs /\ name[a] \in Of(a)
      BY <1>1, <3>1 DEF StagingTypes, Tasks, Of
    <3>3. /\ sweep' \in Tasks /\ sweep'.step = "empty" /\ sweep'.dir = name[a] /\ sweep'.attempt = a
          /\ sweep'.list = sweep.list
      BY <1>1, <3>1, <3>2 DEF Tasks, StagingSteps
    <3>4. \A b \in sweep.list : status[b] = "terminal"
      BY <1>1 DEF TasksFit
    <3>5. QED
      BY <1>2, <2>1, <3>1, <3>2, <3>3, <3>4, SweepKeepsInv DEF Cleaning
  <2>4. QED
    BY <2>2, <2>3
<1>5. CASE SweepCleanup
  <2>1. UNCHANGED <<made, used, moves, status, run, captured, crashes>>
    BY <1>5 DEF SweepCleanup
  <2>2. sweep.step \in Cleaning /\ sweep.attempt \in sweep.list /\ sweep.attempt \in Attempts /\ sweep.dir \in Dirs
    BY <1>1, <1>5 DEF SweepCleanup, CleanupStep, TasksFit, Cleaning, Tasks
  <2>3. sweep.dir \in Of(sweep.attempt)
    BY <2>2 DEF Of
  <2>4. \A b \in sweep.list : status[b] = "terminal"
    BY <1>1 DEF TasksFit
  <2>5. CASE CleanupStep(sweep) /\ sweep' = Cleaned(sweep)
    <3>1. /\ sweep' \in Tasks /\ sweep'.step \in Cleaning /\ sweep'.dir = sweep.dir
          /\ sweep'.attempt = sweep.attempt /\ sweep'.list = sweep.list
      BY <1>1, <2>2, <2>5, CleanupLeaves
    <3>2. /\ name' \in [Attempts -> Dirs \cup {None}] /\ \A b \in Attempts : name'[b] \in {name[b], None}
          /\ holds' \in [Dirs -> Inodes \cup {None}] /\ \A d \in Dirs : holds'[d] \in {holds[d], None}
          /\ node' \in [Inodes -> [kind : Kinds, links : Int, head : Nat, tail : Nat, stamp : Nat]]
          /\ FilesKept
      BY <1>1, <2>2, <2>5, CleanupLeaves
    <3>3. QED
      BY <2>1, <2>2, <2>3, <2>4, <3>1, <3>2, SweepKeepsInv
  <2>6. CASE UNCHANGED <<name, files>> /\ sweep' = Nobody
    BY <1>2, <2>1, <2>6, SweepKeepsInv DEF Cleaning
  <2>7. CASE /\ UNCHANGED <<name, files>>
             /\ sweep' = [sweep EXCEPT !.step = "next", !.list = @ \ {sweep.attempt}, !.dir = None, !.attempt = None]
    <3>1. sweep' \in Tasks /\ sweep'.step = "next" /\ sweep'.list \subseteq sweep.list
      BY <1>1, <2>7 DEF Tasks, StagingSteps
    <3>2. QED
      BY <1>2, <2>1, <2>4, <2>7, <3>1, SweepKeepsInv DEF Cleaning
  <2>8. QED
    BY <1>5, <2>5, <2>6, <2>7 DEF SweepCleanup
<1>6. QED
  BY <1>3, <1>4, <1>5

LEMMA StagingInvInit ==
  ASSUME StagingAssumption, StagingInit
  PROVE  StagingInv
<1> USE NobodyIsATask
<1>1. StagingTypes
  BY DEF StagingInit, StagingTypes, Kinds
<1>2. CaptureFits
  BY DEF StagingInit, CaptureFits, Reading
<1>3. \A a \in Attempts : Of(a) = {None}
  BY DEF StagingInit, Of, Cleaning
<1>4. OwnDirs
  BY <1>3 DEF OwnDirs
<1>5. TasksFit
  BY DEF StagingInit, TasksFit, Reading, Cleaning
<1>6. QED
  BY <1>1, <1>2, <1>4, <1>5 DEF StagingInv

LEMMA StagingInvNext ==
  ASSUME StagingAssumption, StagingInv, [StagingNext]_stagingVars
  PROVE  StagingInv'
<1>1. CASE \E a \in Attempts : OpenStaging(a) \/ OpenExisting(a) \/ MoveDirectory(a)
  BY <1>1, OpenStagingStep, OpenExistingStep, MoveStep
<1>2. CASE \E a \in Attempts : CaptureOpen(a) \/ ReadHead(a) \/ ReadTail(a) \/ CaptureEnds(a)
  BY <1>2, CaptureOpenStep, ReadStep, CaptureEndsStep
<1>3. CASE \E a \in Attempts : EndRun(a) \/ RunCleanup(a)
  BY <1>3, EndRunStep, RunCleanupStep
<1>4. CASE (\E d \in Dirs : Create(d)) \/ (\E i \in Inodes : WriteHalf(i) \/ HardLink(i))
  BY <1>4, FileStep, WriteHalfStep
<1>5. CASE BeginSweep \/ SweepEntry \/ SweepCleanup
  BY <1>5, SweepStep
<1>6. CASE Crash
  BY <1>6, CrashLeavesInv
<1>7. CASE UNCHANGED stagingVars
  <2>1. \A a \in Attempts : Of(a)' = Of(a)
    BY <1>7 DEF stagingVars, Of
  <2>2. QED
    BY <1>7, <2>1 DEF stagingVars, StagingInv, StagingTypes, CaptureFits, ReadFits, OwnDirs, TasksFit
<1>8. QED
  BY <1>1, <1>2, <1>3, <1>4, <1>5, <1>6, <1>7 DEF StagingNext

-----------------------------------------------------------------------------
THEOREM StagingInvHolds ==
  ASSUME StagingAssumption
  PROVE  StagingSpec => []StagingInv
<1>1. StagingInit => StagingInv
  BY StagingInvInit
<1>2. StagingInv /\ [StagingNext]_stagingVars => StagingInv'
  BY StagingInvNext
<1>3. QED
  BY <1>1, <1>2, PTL DEF StagingSpec

(* What a capture returns is one state the file really had while it was open. *)
THEOREM CapturesAreWhole ==
  ASSUME StagingAssumption
  PROVE  StagingSpec => []CaptureIsWhole
<1>1. StagingInv => CaptureIsWhole
  BY DEF StagingInv, CaptureFits, CaptureIsWhole
<1>2. QED
  BY <1>1, StagingInvHolds, PTL

(* Who takes a name away without a move, and who empties a directory. *)
LEMMA Removals ==
  ASSUME StagingAssumption, StagingInv, [StagingNext]_stagingVars, moves' = moves
  PROVE  /\ \A a \in Attempts : name[a] # None /\ name'[a] # name[a] =>
              \/ run[a].step = "compare" /\ run[a].dir = name[a]
              \/ sweep.step = "compare" /\ sweep.attempt = a /\ sweep.dir = name[a]
         /\ \A d \in Dirs : holds[d] # None /\ holds'[d] # holds[d] =>
              \/ \E b \in Attempts : run[b].step \in Cleaning /\ run[b].dir = d
              \/ sweep.step \in Cleaning /\ sweep.dir = d
<1> USE NobodyIsATask
<1>1. StagingTypes /\ CaptureFits /\ OwnDirs /\ TasksFit /\ sweep \in Tasks
  BY DEF StagingInv, StagingTypes
<1>2. CASE UNCHANGED <<name, holds>>
  BY <1>2
<1>3. CASE \E a \in Attempts : OpenStaging(a)
  <2>1. PICK a \in Attempts : OpenStaging(a)
    BY <1>3
  <2>2. holds' = holds /\ name[a] = None /\ \A b \in Attempts \ {a} : name'[b] = name[b]
    BY <1>1, <2>1 DEF OpenStaging, files, TasksFit, StagingTypes
  <2>3. QED
    BY <2>2
<1>4. CASE \E d \in Dirs : Create(d)
  BY <1>1, <1>4 DEF Create, tree, StagingTypes
<1>5. CASE \E a \in Attempts : RunCleanup(a)
  <2>1. PICK a \in Attempts : RunCleanup(a)
    BY <1>5
  <2>2. /\ run[a] \in Tasks /\ run[a].step \in Cleaning /\ run[a].dir \in Dirs /\ run[a].attempt = a
    BY <1>1, <2>1 DEF RunCleanup, CleanupStep, At, Cleaning, TasksFit, StagingTypes
  <2>3. CASE CleanupStep(run[a])
    BY <1>1, <2>2, <2>3, CleanupLeaves
  <2>4. CASE UNCHANGED <<name, files>>
    BY <2>4 DEF files
  <2>5. QED
    BY <2>1, <2>3, <2>4 DEF RunCleanup
<1>6. CASE SweepCleanup
  <2>1. sweep.step \in Cleaning /\ sweep.attempt \in Attempts /\ sweep.dir \in Dirs
    BY <1>1, <1>6 DEF SweepCleanup, CleanupStep, TasksFit, Cleaning, Tasks
  <2>2. CASE CleanupStep(sweep)
    BY <1>1, <2>1, <2>2, CleanupLeaves
  <2>3. CASE UNCHANGED <<name, files>>
    BY <2>3 DEF files
  <2>4. QED
    BY <1>6, <2>2, <2>3 DEF SweepCleanup
<1>7. CASE \E a \in Attempts : MoveDirectory(a)
  BY <1>1, <1>7 DEF MoveDirectory, StagingTypes
<1>8. QED
  <2>1. ~UNCHANGED <<name, holds>> =>
          \/ \E a \in Attempts : OpenStaging(a) \/ RunCleanup(a) \/ MoveDirectory(a)
          \/ \E d \in Dirs : Create(d)
          \/ SweepCleanup
    BY DEF StagingNext, stagingVars, OpenExisting, tree, files, CaptureOpen, ReadHead, ReadTail, CaptureEnds, Shared, EndRun,
       WriteHalf, HardLink, BeginSweep, SweepEntry, Crash
  <2>2. QED
    BY <1>2, <1>3, <1>4, <1>5, <1>6, <1>7, <2>1

(* A cleanup removes only a name that leads to the directory it opened. *)
THEOREM ReplacedDirectoriesStay ==
  ASSUME StagingAssumption
  PROVE  StagingSpec => ReplacedStays
<1> DEFINE Stays ==
      \A a \in Attempts :
        name[a] # None /\ name'[a] = None /\ moves' = moves
          => \/ run[a].step = "compare" /\ run[a].dir = name[a]
             \/ sweep.step = "compare" /\ sweep.attempt = a /\ sweep.dir = name[a]
<1>1. ASSUME StagingInv, [StagingNext]_stagingVars PROVE [Stays]_stagingVars
  BY <1>1, Removals
<1>2. QED
  BY <1>1, StagingInvHolds, PTL DEF StagingSpec, ReplacedStays

(* The directory of an attempt that runs keeps its name and what it holds. *)
THEOREM LivingDirectoriesStay ==
  ASSUME StagingAssumption
  PROVE  StagingSpec => LivingStagingStays
<1> DEFINE Stays ==
      \A a \in Attempts :
        status[a] = "running" /\ made[a] # None /\ name[a] = made[a] /\ moves' = moves
          => name'[a] = made[a] /\ (holds[made[a]] # None => holds'[made[a]] = holds[made[a]])
<1>1. ASSUME StagingInv, [StagingNext]_stagingVars PROVE [Stays]_stagingVars
  <2> USE NobodyIsATask
  <2>1. SUFFICES ASSUME NEW a \in Attempts, status[a] = "running", made[a] # None, name[a] = made[a], moves' = moves
                 PROVE  name'[a] = made[a] /\ (holds[made[a]] # None => holds'[made[a]] = holds[made[a]])
    OBVIOUS
  <2>2. StagingTypes /\ OwnDirs /\ TasksFit /\ made[a] \in Dirs /\ made[a] \in Of(a)
    BY <1>1, <2>1 DEF StagingInv, StagingTypes, Of
  <2>3. \A b \in Attempts : run[b].step \in Cleaning => run[b].dir # made[a]
    <3>1. ASSUME NEW b \in Attempts, run[b].step \in Cleaning PROVE run[b].dir # made[a]
      <4>1. status[b] = "terminal" /\ b # a
        BY <2>1, <2>2, <3>1 DEF TasksFit
      <4>2. run[b].dir \in Of(b)
        BY <3>1 DEF Of, Cleaning
      <4>3. QED
        BY <2>1, <2>2, <4>1, <4>2 DEF OwnDirs
    <3>2. QED
      BY <3>1
  <2>4. sweep.step \in Cleaning => sweep.dir # made[a]
    <3>1. ASSUME sweep.step \in Cleaning PROVE sweep.dir # made[a]
      <4>1. sweep.attempt \in Attempts /\ sweep.attempt # a
        BY <2>1, <2>2, <3>1 DEF TasksFit, StagingTypes, Tasks
      <4>2. sweep.dir \in Of(sweep.attempt)
        BY <3>1 DEF Of
      <4>3. QED
        BY <2>1, <2>2, <4>1, <4>2 DEF OwnDirs
    <3>2. QED
      BY <3>1
  <2>5. "compare" \in Cleaning
    BY DEF Cleaning
  <2>6. QED
    BY <1>1, <2>1, <2>2, <2>3, <2>4, <2>5, Removals
<1>2. QED
  BY <1>1, StagingInvHolds, PTL DEF StagingSpec, LivingStagingStays
=============================================================================
