------------------------- MODULE ResetCancellation -------------------------
(***************************************************************************)
(* Resetting a Case while an agent runs for it (ResetCaseWithOutcome and   *)
(* processResetRunnerCancellation in workflow_orchestrator.go, the outbox  *)
(* table reset_cancellation_operations in workflow_store.go).              *)
(*                                                                         *)
(* The reset commits first: the Case is archived, its running attempt is   *)
(* cancelled, a replacement Case exists and the outbox owes one runner     *)
(* cancellation.  The cancellation and the start of the replacement follow *)
(* outside the transaction, where the process may die, the database or the *)
(* executor may fail, and the same command may come back, in this process  *)
(* or in another one on the same store.                                    *)
(***************************************************************************)
EXTENDS Naturals, FiniteSets, CaseStatus

CONSTANTS Callers,      \* concurrent invocations of ResetCaseWithOutcome
          Processes,    \* processes on the store
          ProcessOf,    \* the process a caller belongs to
          Home,         \* the process that started the agent
          Keys,         \* idempotency keys of the reset requests
          None          \* no caller, no key

ASSUME ResetAssumption ==
    /\ ProcessOf \in [Callers -> Processes]
    /\ Home \in Processes
    /\ None \notin Callers \cup Keys

VARIABLES
    \* the old Case: its version, its current attempt, the key of its reset
    version, attempt, resetBy,
    \* the outbox row: status and the caller whose token holds the claim
    op, token,
    \* the replacement Case: status, a start event under the reset's key, a
    \* schedule-failed event under it, how often it left pending_investigation
    replacement, started, scheduleFailed, starts,
    \* the agent: alive, and known to the runner of Home; how many times the
    \* runner was asked to cancel it
    alive, active, cancels,
    \* the processes and their reset-case command locks
    up, lock,
    \* the version each key was first used with (0: not yet)
    expected,
    \* the calls: where each is, its key, what it has to report of the agent;
    \* those that replay a reset, that saw the runner stop the agent, and that
    \* report a failed start
    place, key, warning, replays, stopped, startFailed

caseVars   == <<version, attempt, resetBy>>
outboxVars == <<op, token>>
newVars    == <<replacement, started, scheduleFailed, starts>>
agentVars  == <<alive, active, cancels>>
notes      == <<key, warning, replays, stopped, startFailed>>
callVars   == <<place, notes>>
vars == <<caseVars, outboxVars, newVars, agentVars, up, lock, expected, callVars>>

OpStatus == {"none", "pending", "claimed", "succeeded", "failed"}

Init ==
    /\ version = 1 /\ attempt = "running" /\ resetBy = None
    /\ op = "none" /\ token = None
    /\ replacement = Absent /\ started = FALSE /\ scheduleFailed = FALSE /\ starts = 0
    /\ alive = TRUE /\ active = TRUE /\ cancels = 0
    /\ up = Processes
    /\ lock = [p \in Processes |-> None]
    /\ expected = [k \in Keys |-> 0]
    /\ place = [t \in Callers |-> "idle"]
    /\ key = [t \in Callers |-> None]
    /\ warning = [t \in Callers |-> "none"]
    /\ replays = {} /\ stopped = {} /\ startFailed = {}

-----------------------------------------------------------------------------

At(t, where) == place[t] = where /\ ProcessOf[t] \in up
Unlock(t) == lock' = [lock EXCEPT ![ProcessOf[t]] = None]

(* A call goes on; with a warning about the agent; returns, with or without *)
(* the report of a failed start.                                            *)
Move(t, where) == place' = [place EXCEPT ![t] = where]
GoTo(t, where) == Move(t, where) /\ UNCHANGED notes
Warn(t, w) ==
    /\ Move(t, "starting") /\ warning' = [warning EXCEPT ![t] = w]
    /\ UNCHANGED <<key, replays, stopped, startFailed>>
ReturnFailed(t) ==
    /\ Move(t, "returned") /\ Unlock(t) /\ startFailed' = startFailed \cup {t}
    /\ UNCHANGED <<key, warning, replays, stopped>>
Return(t) == GoTo(t, "returned") /\ Unlock(t)

(* A request names the version it was made for and keeps its key when it is *)
(* tried again.                                                             *)
Request(t) ==
    /\ ProcessOf[t] \in up /\ place[t] \in {"idle", "returned", "refused"}
    /\ \E k \in Keys :
          /\ expected' = [expected EXCEPT ![k] = IF @ = 0 THEN version ELSE @]
          /\ key' = [key EXCEPT ![t] = k]
    /\ Move(t, "waiting") /\ warning' = [warning EXCEPT ![t] = "none"]
    /\ replays' = replays \ {t} /\ stopped' = stopped \ {t}
    /\ startFailed' = startFailed \ {t}
    /\ UNCHANGED <<caseVars, outboxVars, newVars, agentVars, up, lock>>

AcquireLock(t) ==
    /\ At(t, "waiting") /\ lock[ProcessOf[t]] = None
    /\ lock' = [lock EXCEPT ![ProcessOf[t]] = t]
    /\ GoTo(t, "locked")
    /\ UNCHANGED <<caseVars, outboxVars, newVars, agentVars, up, expected>>

(* ResetCaseWithReplacement, the first time: one transaction. *)
CommitReset(t) ==
    /\ At(t, "locked")
    /\ resetBy = None /\ version = expected[key[t]]
    /\ resetBy' = key[t]
    /\ version' = version + 1
    /\ IF attempt = "running"
       THEN attempt' = "cancelled" /\ op' = "pending"
       ELSE UNCHANGED <<attempt, op>>
    /\ replacement' = "pending_investigation"
    /\ GoTo(t, "committed")
    /\ UNCHANGED <<token, started, scheduleFailed, starts, agentVars, up, lock, expected>>

(* The same key again finds the committed reset. *)
ReplayReset(t) ==
    /\ At(t, "locked") /\ resetBy = key[t]
    /\ Move(t, "committed") /\ replays' = replays \cup {t}
    /\ UNCHANGED <<key, warning, stopped, startFailed>>
    /\ UNCHANGED <<caseVars, outboxVars, newVars, agentVars, up, lock, expected>>

(* Mutant of RefuseReset: an early return that forgets the lock. *)
RefuseKeepingLock(t) ==
    /\ At(t, "locked")
    /\ GoTo(t, "refused")
    /\ UNCHANGED <<caseVars, outboxVars, newVars, agentVars, up, lock, expected>>

(* A stale version, an archived Case or a database error. *)
RefuseReset(t) ==
    /\ At(t, "locked")
    /\ GoTo(t, "refused") /\ Unlock(t)
    /\ UNCHANGED <<caseVars, outboxVars, newVars, agentVars, up, expected>>

-----------------------------------------------------------------------------

Warning(status) ==
    CASE status = "succeeded" -> "none"
      [] status = "failed"    -> "cancel_failed"
      [] status = "claimed"   -> "cancel_unknown"
      [] status = "pending"   -> "state_unavailable"

NothingToCancel(t) ==
    /\ At(t, "committed") /\ op = "none"
    /\ GoTo(t, "starting")
    /\ UNCHANGED <<caseVars, outboxVars, newVars, agentVars, up, lock, expected>>

(* Mutant of Claimable: a claim of a call that is gone may be taken over. *)
ClaimableAgain == op \in {"pending", "claimed"}

(* Mutant of Claimable: a reset that cancelled nothing has a claim as well. *)
ClaimableUnseen == op \in {"none", "pending"}

(* The conditional UPDATE of ClaimResetCancellation. *)
Claimable == op = "pending"

(* Whoever claims the row calls the runner, unless it cannot read its own   *)
(* claim back.                                                              *)
ClaimCancellation(t) ==
    /\ At(t, "committed") /\ Claimable
    /\ op' = "claimed" /\ token' = t
    /\ \/ GoTo(t, "claimed")
       \/ Warn(t, "state_unavailable")
    /\ UNCHANGED <<caseVars, newVars, agentVars, up, lock, expected>>

(* Somebody claimed it before, or the database did not answer. *)
ReportCancellation(t) ==
    /\ At(t, "committed") /\ op # "none"
    /\ \/ Warn(t, "state_unavailable")
       \/ op # "pending" /\ Warn(t, Warning(op))
    /\ UNCHANGED <<caseVars, outboxVars, newVars, agentVars, up, lock, expected>>

(* Mutant of Known: an agent the runner does not know is taken for stopped. *)
KnownAnywhere(t) == t \in Callers

(* runner.Cancel knows the runs of its own process only. *)
Known(t) == ProcessOf[t] = Home /\ active

(* The agent is a run of the runner that is asked. *)
Running(t) == ProcessOf[t] = Home /\ active
Kill == alive' = FALSE /\ active' = FALSE

(* cancelPhase: refused while all workers are busy, otherwise one call of   *)
(* runner.Cancel under a timeout.  A confirmed cancellation has killed the  *)
(* agent, one that failed or was too slow may have.                         *)
CancelPhase(t) ==
    /\ At(t, "claimed")
    /\ \/ UNCHANGED agentVars /\ GoTo(t, "cancelled")
       \/ /\ cancels' = cancels + 1
          /\ Known(t)
          /\ IF Running(t) THEN Kill ELSE UNCHANGED <<alive, active>>
          /\ Move(t, "cancelled") /\ stopped' = stopped \cup {t}
          /\ UNCHANGED <<key, warning, replays, startFailed>>
       \/ /\ cancels' = cancels + 1
          /\ (Running(t) /\ Kill) \/ UNCHANGED <<alive, active>>
          /\ GoTo(t, "cancelled")
    /\ UNCHANGED <<caseVars, outboxVars, newVars, up, lock, expected>>

(* The outcome goes to the row under the claim token; an outcome that could *)
(* not be written, or not be read back, is reported as unknown.             *)
CompleteCancellation(t) ==
    /\ At(t, "cancelled")
    /\ \/ /\ op = "claimed" /\ token = t
          /\ op' = IF t \in stopped THEN "succeeded" ELSE "failed"
          /\ \E w \in {Warning(op'), "cancel_unknown"} : Warn(t, w)
       \/ UNCHANGED op /\ Warn(t, "cancel_unknown")
    /\ UNCHANGED <<caseVars, token, newVars, agentVars, up, lock, expected>>

-----------------------------------------------------------------------------

(* A replay looks for the failed start first; a failed read goes on.        *)
ReportFailedStart(t) ==
    /\ At(t, "starting") /\ t \in replays /\ scheduleFailed
    /\ ReturnFailed(t)
    /\ UNCHANGED <<caseVars, outboxVars, newVars, agentVars, up, expected>>

CheckFailedStart(t) ==
    /\ At(t, "starting")
    /\ GoTo(t, "checked")
    /\ UNCHANGED <<caseVars, outboxVars, newVars, agentVars, up, lock, expected>>

(* Mutant of Startable: the key is looked at, the version is not. *)
StartableByKey == ~started

(* The version of a Case nobody touched since the reset created it. *)
Startable == ~started /\ replacement = "pending_investigation"

(* StartCase under the key <reset key>:start. *)
BeginReplacement(t) ==
    /\ At(t, "checked") /\ Startable
    /\ started' = TRUE /\ replacement' = "investigating" /\ starts' = starts + 1
    /\ GoTo(t, "launching")
    /\ UNCHANGED <<caseVars, outboxVars, scheduleFailed, agentVars, up, lock, expected>>

(* The same start again answers what it answered. *)
ReplayStart(t) ==
    /\ At(t, "checked") /\ started
    /\ Return(t)
    /\ UNCHANGED <<caseVars, outboxVars, newVars, agentVars, up, expected>>

(* A Case somebody else moved is a version conflict. *)
StartConflicts(t) ==
    /\ At(t, "checked") /\ ~started /\ ~Startable
    /\ ReturnFailed(t)
    /\ UNCHANGED <<caseVars, outboxVars, newVars, agentVars, up, expected>>

(* runner.Start; its failure is recorded unless the Case has moved on.      *)
LaunchReplacement(t) ==
    /\ At(t, "launching")
    /\ \/ /\ Return(t)
          /\ UNCHANGED <<replacement, scheduleFailed>>
       \/ /\ ReturnFailed(t)
          /\ IF replacement = "investigating"
             THEN replacement' = "waiting_evidence" /\ scheduleFailed' = TRUE
             ELSE UNCHANGED <<replacement, scheduleFailed>>
    /\ UNCHANGED <<caseVars, outboxVars, started, starts, agentVars, up, expected>>

-----------------------------------------------------------------------------

(* The attempt is settled by somebody else before the reset. *)
AttemptEnds ==
    /\ attempt = "running" /\ resetBy = None
    /\ attempt' = "ended" /\ version' = version + 1
    /\ UNCHANGED <<resetBy, outboxVars, newVars, agentVars, up, lock, expected, callVars>>

(* The agent ends on its own; its run is forgotten a moment later. *)
AgentEnds ==
    /\ alive \/ active
    /\ alive' = FALSE
    /\ active' = FALSE \/ UNCHANGED active
    /\ UNCHANGED <<caseVars, outboxVars, newVars, cancels, up, lock, expected, callVars>>

(* The user finds the replacement Case and starts it, or resets it again.   *)
UserStarts ==
    /\ replacement = "pending_investigation"
    /\ replacement' = "investigating" /\ starts' = starts + 1
    /\ UNCHANGED <<caseVars, outboxVars, started, scheduleFailed, agentVars, up, lock,
                   expected, callVars>>

UserResets ==
    /\ replacement # Absent /\ ~IsTerminalCaseStatus(replacement)
    /\ replacement' = "reset_archived"
    /\ UNCHANGED <<caseVars, outboxVars, started, scheduleFailed, starts, agentVars, up,
                   lock, expected, callVars>>

(* The agent is a process of its own and may outlive the studio. *)
Crash(p) ==
    /\ p \in up
    /\ up' = up \ {p}
    /\ lock' = [lock EXCEPT ![p] = None]
    /\ LET lost == {t \in Callers : ProcessOf[t] = p} IN
          /\ place' = [t \in Callers |-> IF t \in lost THEN "idle" ELSE place[t]]
          /\ key' = [t \in Callers |-> IF t \in lost THEN None ELSE key[t]]
          /\ warning' = [t \in Callers |-> IF t \in lost THEN "none" ELSE warning[t]]
          /\ replays' = replays \ lost /\ stopped' = stopped \ lost
          /\ startFailed' = startFailed \ lost
    /\ IF p = Home THEN active' = FALSE ELSE UNCHANGED active
    /\ UNCHANGED <<caseVars, outboxVars, newVars, alive, cancels, expected>>

Restart(p) ==
    /\ p \in Processes \ up
    /\ up' = up \cup {p}
    /\ UNCHANGED <<caseVars, outboxVars, newVars, agentVars, lock, expected, callVars>>

-----------------------------------------------------------------------------

Resetting(t) ==
    \/ CommitReset(t) \/ ReplayReset(t) \/ RefuseReset(t)
    \/ NothingToCancel(t) \/ ClaimCancellation(t) \/ ReportCancellation(t)
    \/ CancelPhase(t) \/ CompleteCancellation(t)
    \/ ReportFailedStart(t) \/ CheckFailedStart(t)
    \/ BeginReplacement(t) \/ ReplayStart(t) \/ StartConflicts(t)
    \/ LaunchReplacement(t)

Next ==
    \/ \E t \in Callers : Request(t) \/ AcquireLock(t) \/ Resetting(t)
    \/ AttemptEnds \/ AgentEnds \/ UserStarts \/ UserResets
    \/ \E p \in Processes : Crash(p) \/ Restart(p)

Spec == Init /\ [][Next]_vars

(* The steps of a call are goroutine steps with bounded timeouts; the lock  *)
(* is a sync.Mutex, which hands over to a waiter that starves.              *)
Fairness == \A t \in Callers : WF_vars(Resetting(t)) /\ SF_vars(AcquireLock(t))
FairSpec == Spec /\ Fairness

-----------------------------------------------------------------------------

Places == {"idle", "waiting", "refused", "locked", "committed", "claimed", "cancelled",
           "starting", "checked", "launching", "returned"}
Warnings == {"none", "cancel_failed", "cancel_unknown", "state_unavailable"}

(* Every variable holds what the columns and the Go types allow, and an     *)
(* outbox row exists for exactly the resets that cancelled an attempt.      *)
ResetTypeOK ==
    /\ version \in Nat /\ attempt \in {"running", "ended", "cancelled"}
    /\ resetBy \in Keys \cup {None}
    /\ op \in OpStatus /\ token \in Callers \cup {None}
    /\ op = "none" <=> attempt # "cancelled"
    /\ token = None <=> op \in {"none", "pending"}
    /\ replacement \in {Absent, "pending_investigation", "investigating",
                        "waiting_evidence", "reset_archived"}
    /\ replacement = Absent <=> resetBy = None
    /\ started \in BOOLEAN /\ scheduleFailed \in BOOLEAN
    /\ alive \in BOOLEAN /\ active \in BOOLEAN
    /\ starts \in Nat /\ cancels \in Nat
    /\ up \subseteq Processes
    /\ lock \in [Processes -> Callers \cup {None}]
    /\ expected \in [Keys -> Nat]
    /\ place \in [Callers -> Places]
    /\ key \in [Callers -> Keys \cup {None}]
    /\ warning \in [Callers -> Warnings]
    /\ replays \cup stopped \cup startFailed \subseteq Callers

(* The runner is asked to stop the old agent at most once, however often    *)
(* the reset is repeated, by however many processes, whatever is lost.      *)
CancelledAtMostOnce == cancels <= 1

(* A reset that cancelled an attempt and reports no warning about its agent *)
(* has stopped that agent: the workbench shows nothing else to the user.    *)
QuietResetMeansStopped ==
    \A t \in Callers :
        (place[t] = "returned" /\ warning[t] = "none" /\ attempt = "cancelled")
            => (op = "succeeded" /\ ~alive)

(* The replacement Case is started once: a repeated reset, a reset that     *)
(* lost its answer and a user who starts the Case by hand do not add up to  *)
(* two investigations.                                                      *)
ReplacementStartsOnce == starts <= 1

(* A reset call comes back, or its process dies.                            *)
ResetCallsReturn ==
    \A t \in Callers :
        place[t] = "waiting" ~> place[t] \in {"idle", "refused", "returned"}
=============================================================================
