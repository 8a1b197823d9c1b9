----------------------- MODULE ResetCancellationProofs -----------------------
(***************************************************************************)
(* Proofs about two components that work by steps of several calls side by *)
(* side, for every value of their constants: ResetCancellation and, in a   *)
(* section of its own, CodeIndexing.                                       *)
(*                                                                         *)
(* ResetInv follows a call through the steps after the commit: who stands  *)
(* before the runner holds the claim, and nobody called the runner before; *)
(* what a call or the outbox row says of the agent is true.                *)
(***************************************************************************)
EXTENDS ResetCancellation, CodeIndexing, FiniteSetTheorems, TLAPS

AfterCommit == {"committed", "claimed", "cancelled", "starting", "checked", "launching",
                "returned"}
AfterCancel == {"starting", "checked", "launching", "returned"}

(* A call past the commit knows of one. *)
CommitIsKnown == \A t \in Callers : place[t] \in AfterCommit => resetBy # None

(* A call has the key of its request. *)
KeyIsGiven == \A t \in Callers : place[t] # "idle" => key[t] \in Keys

(* Between claim and outcome a call owns the row. *)
ClaimIsHeld ==
    \A t \in Callers :
        place[t] \in {"claimed", "cancelled"} => op = "claimed" /\ token = t

(* The runner was not called before the claim, nor between the claim and    *)
(* the claimant's call.                                                     *)
RunnerUntouched ==
    /\ op \in {"none", "pending"} => cancels = 0
    /\ \A t \in Callers : place[t] = "claimed" => cancels = 0

(* Whoever says that the agent was stopped is right. *)
StoppedIsTrue ==
    /\ op = "succeeded" => ~alive
    /\ \A t \in Callers : t \in stopped => ~alive

(* No warning means that the row says so. *)
QuietMeansSucceeded ==
    \A t \in Callers :
        (place[t] \in AfterCancel /\ warning[t] = "none" /\ attempt = "cancelled")
            => op = "succeeded"

(* A replacement Case nobody started has no start. *)
FreshIsUnstarted == replacement \in {Absent, "pending_investigation"} => starts = 0

ResetInv ==
    /\ ResetTypeOK
    /\ CommitIsKnown /\ KeyIsGiven
    /\ ClaimIsHeld
    /\ RunnerUntouched /\ CancelledAtMostOnce
    /\ StoppedIsTrue
    /\ QuietMeansSucceeded
    /\ FreshIsUnstarted /\ ReplacementStartsOnce

USE DEF Absent

-----------------------------------------------------------------------------

(* ResetInv holds in the initial state. *)
LEMMA ResetInit == Init => ResetInv
  <1> SUFFICES ASSUME Init PROVE ResetInv
    OBVIOUS
  <1> USE ResetAssumption DEF Init
  <1>1. ResetTypeOK
    BY DEF ResetTypeOK, OpStatus, Places, Warnings
  <1>2. CommitIsKnown /\ KeyIsGiven /\ ClaimIsHeld /\ QuietMeansSucceeded
    BY DEF CommitIsKnown, AfterCommit, KeyIsGiven, ClaimIsHeld, QuietMeansSucceeded,
       AfterCancel
  <1>3. RunnerUntouched /\ CancelledAtMostOnce /\ StoppedIsTrue
    BY DEF RunnerUntouched, CancelledAtMostOnce, StoppedIsTrue
  <1>4. FreshIsUnstarted /\ ReplacementStartsOnce
    BY DEF FreshIsUnstarted, ReplacementStartsOnce
  <1> QED
    BY <1>1, <1>2, <1>3, <1>4 DEF ResetInv

(* A step of one call preserves ResetInv. *)
LEMMA CallPreserves ==
    ASSUME ResetInv, NEW t \in Callers, Request(t) \/ AcquireLock(t) \/ Resetting(t)
    PROVE  ResetInv'
  <1> USE ResetAssumption DEF ResetInv, ResetTypeOK, OpStatus, Places, Warnings,
     AfterCommit, AfterCancel
  <1> USE DEF At, Move, GoTo, Warn, Return, ReturnFailed, Unlock, notes, callVars,
     caseVars, outboxVars, newVars, agentVars
  <1>1. CASE Request(t)
    <2> USE <1>1 DEF Request
    <2>1. ResetTypeOK'
      BY DEF ClaimIsHeld, KeyIsGiven
    <2>2. (CommitIsKnown /\ KeyIsGiven /\ ClaimIsHeld)'
      BY DEF CommitIsKnown, KeyIsGiven, ClaimIsHeld
    <2>3. (RunnerUntouched /\ CancelledAtMostOnce)'
      BY DEF RunnerUntouched, CancelledAtMostOnce
    <2>4. StoppedIsTrue'
      BY DEF StoppedIsTrue
    <2>5. QuietMeansSucceeded'
      BY DEF CommitIsKnown, KeyIsGiven, ClaimIsHeld, QuietMeansSucceeded
    <2>6. (FreshIsUnstarted /\ ReplacementStartsOnce)'
      BY DEF FreshIsUnstarted, ReplacementStartsOnce
    <2> QED
      BY <2>1, <2>2, <2>3, <2>4, <2>5, <2>6
  <1>2. CASE AcquireLock(t)
    BY <1>2 DEF AcquireLock, CommitIsKnown, KeyIsGiven, ClaimIsHeld, RunnerUntouched,
       CancelledAtMostOnce, StoppedIsTrue, QuietMeansSucceeded, FreshIsUnstarted,
       ReplacementStartsOnce
  <1>3. CASE CommitReset(t)
    <2> USE <1>3 DEF CommitReset
    <2>1. ResetTypeOK'
      BY DEF ClaimIsHeld, KeyIsGiven
    <2>2. (CommitIsKnown /\ KeyIsGiven /\ ClaimIsHeld)'
      BY DEF CommitIsKnown, KeyIsGiven, ClaimIsHeld
    <2>3. (RunnerUntouched /\ CancelledAtMostOnce)'
      BY DEF RunnerUntouched, CancelledAtMostOnce
    <2>4. StoppedIsTrue'
      BY DEF StoppedIsTrue
    <2>5. QuietMeansSucceeded'
      BY DEF CommitIsKnown, KeyIsGiven, ClaimIsHeld, QuietMeansSucceeded
    <2>6. (FreshIsUnstarted /\ ReplacementStartsOnce)'
      BY DEF FreshIsUnstarted, ReplacementStartsOnce
    <2> QED
      BY <2>1, <2>2, <2>3, <2>4, <2>5, <2>6
  <1>4. CASE ReplayReset(t)
    <2> USE <1>4 DEF ReplayReset
    <2>1. ResetTypeOK'
      BY DEF ClaimIsHeld, KeyIsGiven
    <2>2. (CommitIsKnown /\ KeyIsGiven /\ ClaimIsHeld)'
      BY DEF CommitIsKnown, KeyIsGiven, ClaimIsHeld
    <2>3. (RunnerUntouched /\ CancelledAtMostOnce)'
      BY DEF RunnerUntouched, CancelledAtMostOnce
    <2>4. StoppedIsTrue'
      BY DEF StoppedIsTrue
    <2>5. QuietMeansSucceeded'
      BY DEF CommitIsKnown, KeyIsGiven, ClaimIsHeld, QuietMeansSucceeded
    <2>6. (FreshIsUnstarted /\ ReplacementStartsOnce)'
      BY DEF FreshIsUnstarted, ReplacementStartsOnce
    <2> QED
      BY <2>1, <2>2, <2>3, <2>4, <2>5, <2>6
  <1>5. CASE RefuseReset(t)
    BY <1>5 DEF RefuseReset, CommitIsKnown, KeyIsGiven, ClaimIsHeld, RunnerUntouched,
       CancelledAtMostOnce, StoppedIsTrue, QuietMeansSucceeded, FreshIsUnstarted,
       ReplacementStartsOnce
  <1>6. CASE NothingToCancel(t)
    BY <1>6 DEF NothingToCancel, CommitIsKnown, KeyIsGiven, ClaimIsHeld,
       RunnerUntouched, CancelledAtMostOnce, StoppedIsTrue, QuietMeansSucceeded,
       FreshIsUnstarted, ReplacementStartsOnce
  <1>7. CASE ClaimCancellation(t)
    <2> USE <1>7 DEF ClaimCancellation, Claimable
    <2>1. ResetTypeOK'
      BY DEF ClaimIsHeld, KeyIsGiven
    <2>2. (CommitIsKnown /\ KeyIsGiven /\ ClaimIsHeld)'
      BY DEF CommitIsKnown, KeyIsGiven, ClaimIsHeld
    <2>3. (RunnerUntouched /\ CancelledAtMostOnce)'
      BY DEF RunnerUntouched, CancelledAtMostOnce
    <2>4. StoppedIsTrue'
      BY DEF StoppedIsTrue
    <2>5. QuietMeansSucceeded'
      BY DEF CommitIsKnown, KeyIsGiven, ClaimIsHeld, QuietMeansSucceeded
    <2>6. (FreshIsUnstarted /\ ReplacementStartsOnce)'
      BY DEF FreshIsUnstarted, ReplacementStartsOnce
    <2> QED
      BY <2>1, <2>2, <2>3, <2>4, <2>5, <2>6
  <1>8. CASE ReportCancellation(t)
    <2> USE <1>8 DEF ReportCancellation, Warning
    <2>1. ResetTypeOK'
      BY DEF ClaimIsHeld, KeyIsGiven
    <2>2. (CommitIsKnown /\ KeyIsGiven /\ ClaimIsHeld)'
      BY DEF CommitIsKnown, KeyIsGiven, ClaimIsHeld
    <2>3. (RunnerUntouched /\ CancelledAtMostOnce)'
      BY DEF RunnerUntouched, CancelledAtMostOnce
    <2>4. StoppedIsTrue'
      BY DEF StoppedIsTrue
    <2>5. QuietMeansSucceeded'
      BY DEF CommitIsKnown, KeyIsGiven, ClaimIsHeld, QuietMeansSucceeded
    <2>6. (FreshIsUnstarted /\ ReplacementStartsOnce)'
      BY DEF FreshIsUnstarted, ReplacementStartsOnce
    <2> QED
      BY <2>1, <2>2, <2>3, <2>4, <2>5, <2>6
  <1>9. CASE CancelPhase(t)
    <2> USE <1>9 DEF CancelPhase, Known, Running, Kill
    <2>1. ResetTypeOK'
      <3>1. UNCHANGED <<alive, active>> \/ (alive' = FALSE /\ active' = FALSE)
        OBVIOUS
      <3>2. alive' \in BOOLEAN /\ active' \in BOOLEAN
        BY <3>1
      <3>3. stopped' \subseteq Callers /\ cancels' \in Nat /\ place' \in [Callers -> Places]
        OBVIOUS
      <3>4. UNCHANGED <<caseVars, outboxVars, newVars, up, lock, expected, key, warning,
                        replays, startFailed>>
        OBVIOUS
      <3> QED
        BY <3>2, <3>3, <3>4
    <2>2. (CommitIsKnown /\ KeyIsGiven /\ ClaimIsHeld)'
      BY DEF CommitIsKnown, KeyIsGiven, ClaimIsHeld, RunnerUntouched, StoppedIsTrue
    <2>3. (RunnerUntouched /\ CancelledAtMostOnce)'
      BY DEF ClaimIsHeld, RunnerUntouched, CancelledAtMostOnce, StoppedIsTrue
    <2>4. StoppedIsTrue'
      BY DEF ClaimIsHeld, RunnerUntouched, StoppedIsTrue
    <2>5. QuietMeansSucceeded'
      BY DEF CommitIsKnown, KeyIsGiven, ClaimIsHeld, RunnerUntouched, StoppedIsTrue,
         QuietMeansSucceeded
    <2>6. (FreshIsUnstarted /\ ReplacementStartsOnce)'
      BY DEF ClaimIsHeld, RunnerUntouched, StoppedIsTrue, FreshIsUnstarted,
         ReplacementStartsOnce
    <2> QED
      BY <2>1, <2>2, <2>3, <2>4, <2>5, <2>6
  <1>10. CASE CompleteCancellation(t)
    <2> USE <1>10 DEF CompleteCancellation, Warning
    <2>1. ResetTypeOK'
      BY DEF ClaimIsHeld, KeyIsGiven
    <2>2. (CommitIsKnown /\ KeyIsGiven /\ ClaimIsHeld)'
      BY DEF CommitIsKnown, KeyIsGiven, ClaimIsHeld, RunnerUntouched, StoppedIsTrue
    <2>3. (RunnerUntouched /\ CancelledAtMostOnce)'
      BY DEF ClaimIsHeld, RunnerUntouched, CancelledAtMostOnce, StoppedIsTrue
    <2>4. StoppedIsTrue'
      BY DEF ClaimIsHeld, RunnerUntouched, StoppedIsTrue
    <2>5. QuietMeansSucceeded'
      BY DEF CommitIsKnown, KeyIsGiven, ClaimIsHeld, RunnerUntouched, StoppedIsTrue,
         QuietMeansSucceeded
    <2>6. (FreshIsUnstarted /\ ReplacementStartsOnce)'
      BY DEF ClaimIsHeld, RunnerUntouched, StoppedIsTrue, FreshIsUnstarted,
         ReplacementStartsOnce
    <2> QED
      BY <2>1, <2>2, <2>3, <2>4, <2>5, <2>6
  <1>11. CASE ReportFailedStart(t)
    <2> USE <1>11 DEF ReportFailedStart
    <2>1. ResetTypeOK'
      BY DEF ClaimIsHeld, KeyIsGiven
    <2>2. (CommitIsKnown /\ KeyIsGiven /\ ClaimIsHeld)'
      BY DEF CommitIsKnown, KeyIsGiven, ClaimIsHeld
    <2>3. (RunnerUntouched /\ CancelledAtMostOnce)'
      BY DEF RunnerUntouched, CancelledAtMostOnce
    <2>4. StoppedIsTrue'
      BY DEF StoppedIsTrue
    <2>5. QuietMeansSucceeded'
      BY DEF CommitIsKnown, KeyIsGiven, ClaimIsHeld, QuietMeansSucceeded
    <2>6. (FreshIsUnstarted /\ ReplacementStartsOnce)'
      BY DEF FreshIsUnstarted, ReplacementStartsOnce
    <2> QED
      BY <2>1, <2>2, <2>3, <2>4, <2>5, <2>6
  <1>12. CASE CheckFailedStart(t)
    BY <1>12 DEF CheckFailedStart, CommitIsKnown, KeyIsGiven, ClaimIsHeld,
       RunnerUntouched, CancelledAtMostOnce, StoppedIsTrue, QuietMeansSucceeded,
       FreshIsUnstarted, ReplacementStartsOnce
  <1>13. CASE BeginReplacement(t)
    BY <1>13 DEF BeginReplacement, Startable, CommitIsKnown, KeyIsGiven, ClaimIsHeld,
       RunnerUntouched, CancelledAtMostOnce, StoppedIsTrue, QuietMeansSucceeded,
       FreshIsUnstarted, ReplacementStartsOnce
  <1>14. CASE ReplayStart(t)
    BY <1>14 DEF ReplayStart, CommitIsKnown, KeyIsGiven, ClaimIsHeld, RunnerUntouched,
       CancelledAtMostOnce, StoppedIsTrue, QuietMeansSucceeded, FreshIsUnstarted,
       ReplacementStartsOnce
  <1>15. CASE StartConflicts(t)
    <2> USE <1>15 DEF StartConflicts, Startable
    <2>1. ResetTypeOK'
      BY DEF ClaimIsHeld, KeyIsGiven
    <2>2. (CommitIsKnown /\ KeyIsGiven /\ ClaimIsHeld)'
      BY DEF CommitIsKnown, KeyIsGiven, ClaimIsHeld
    <2>3. (RunnerUntouched /\ CancelledAtMostOnce)'
      BY DEF RunnerUntouched, CancelledAtMostOnce
    <2>4. StoppedIsTrue'
      BY DEF StoppedIsTrue
    <2>5. QuietMeansSucceeded'
      BY DEF CommitIsKnown, KeyIsGiven, ClaimIsHeld, QuietMeansSucceeded
    <2>6. (FreshIsUnstarted /\ ReplacementStartsOnce)'
      BY DEF FreshIsUnstarted, ReplacementStartsOnce
    <2> QED
      BY <2>1, <2>2, <2>3, <2>4, <2>5, <2>6
  <1>16. CASE LaunchReplacement(t)
    <2> USE <1>16 DEF LaunchReplacement
    <2>1. ResetTypeOK'
      BY DEF ClaimIsHeld, KeyIsGiven
    <2>2. (CommitIsKnown /\ KeyIsGiven /\ ClaimIsHeld)'
      BY DEF CommitIsKnown, KeyIsGiven, ClaimIsHeld
    <2>3. (RunnerUntouched /\ CancelledAtMostOnce)'
      BY DEF RunnerUntouched, CancelledAtMostOnce
    <2>4. StoppedIsTrue'
      BY DEF StoppedIsTrue
    <2>5. QuietMeansSucceeded'
      BY DEF CommitIsKnown, KeyIsGiven, ClaimIsHeld, QuietMeansSucceeded
    <2>6. (FreshIsUnstarted /\ ReplacementStartsOnce)'
      BY DEF FreshIsUnstarted, ReplacementStartsOnce
    <2> QED
      BY <2>1, <2>2, <2>3, <2>4, <2>5, <2>6
  <1> QED
    BY <1>1, <1>2, <1>3, <1>4, <1>5, <1>6, <1>7, <1>8, <1>9, <1>10, <1>11, <1>12, <1>13,
       <1>14, <1>15, <1>16 DEF Resetting

(* So does a step of anybody else. *)
LEMMA OthersPreserve ==
    ASSUME ResetInv,
           AttemptEnds \/ AgentEnds \/ UserStarts \/ UserResets
             \/ \E p \in Processes : Crash(p) \/ Restart(p)
    PROVE  ResetInv'
  <1> USE ResetAssumption DEF ResetInv, ResetTypeOK, OpStatus, Places, Warnings,
     CommitIsKnown, KeyIsGiven, AfterCommit, ClaimIsHeld, RunnerUntouched,
     CancelledAtMostOnce, StoppedIsTrue, QuietMeansSucceeded, AfterCancel,
     FreshIsUnstarted, ReplacementStartsOnce
  <1> USE DEF notes, callVars, caseVars, outboxVars, newVars, agentVars
  <1>1. CASE AttemptEnds
    BY <1>1 DEF AttemptEnds
  <1>2. CASE AgentEnds
    BY <1>2 DEF AgentEnds
  <1>3. CASE UserStarts
    BY <1>3 DEF UserStarts
  <1>4. CASE UserResets
    BY <1>4 DEF UserResets
  <1>5. ASSUME NEW p \in Processes, Crash(p) PROVE ResetInv'
    BY <1>5 DEF Crash
  <1>6. ASSUME NEW p \in Processes, Restart(p) PROVE ResetInv'
    BY <1>6 DEF Restart
  <1> QED
    BY <1>1, <1>2, <1>3, <1>4, <1>5, <1>6

(* ResetInv holds in every reachable state.                                 *)
THEOREM ResetInvHolds == Spec => []ResetInv
  <1>1. ResetInv /\ [Next]_vars => ResetInv'
    <2> SUFFICES ASSUME ResetInv, [Next]_vars PROVE ResetInv'
      OBVIOUS
    <2>1. CASE Next
      BY <2>1, CallPreserves, OthersPreserve DEF Next
    <2>2. CASE UNCHANGED vars
      BY <2>2 DEF vars, notes, callVars, caseVars, outboxVars, newVars, agentVars,
         ResetInv, ResetTypeOK, OpStatus, Places, Warnings, CommitIsKnown, KeyIsGiven,
         AfterCommit, ClaimIsHeld, RunnerUntouched, CancelledAtMostOnce, StoppedIsTrue,
         QuietMeansSucceeded, AfterCancel, FreshIsUnstarted, ReplacementStartsOnce
    <2> QED
      BY <2>1, <2>2
  <1> QED
    BY <1>1, ResetInit, PTL DEF Spec

(* Type correctness of ResetCancellation.                                   *)
THEOREM ResetTypeCorrect == Spec => []ResetTypeOK
  <1>1. ResetInv => ResetTypeOK
    BY DEF ResetInv
  <1> QED
    BY <1>1, ResetInvHolds, PTL

(* However often a reset is repeated, and by however many processes, the    *)
(* runner is asked to cancel the old attempt at most once.                  *)
THEOREM OneCancellation == Spec => []CancelledAtMostOnce
  <1>1. ResetInv => CancelledAtMostOnce
    BY DEF ResetInv
  <1> QED
    BY <1>1, ResetInvHolds, PTL

(* A reset that returns without a warning about the agent has stopped it.   *)
THEOREM QuietResetsStopped == Spec => []QuietResetMeansStopped
  <1>1. ResetInv => QuietResetMeansStopped
    BY DEF ResetInv, QuietMeansSucceeded, QuietResetMeansStopped, StoppedIsTrue,
       AfterCancel
  <1> QED
    BY <1>1, ResetInvHolds, PTL

(* The replacement Case is started at most once.                            *)
THEOREM OneStart == Spec => []ReplacementStartsOnce
  <1>1. ResetInv => ReplacementStartsOnce
    BY DEF ResetInv
  <1> QED
    BY <1>1, ResetInvHolds, PTL

-----------------------------------------------------------------------------
(* CodeIndexing: IndexInv follows a call that runs alone: it has forgotten what
   was kept, so its answer is made of its own results, and what these call ready
   is complete in the index. *)
IndexStages == {"new", "forgot", "targets", "load", "index", "over"}
Results == [repo : Repos, status : {"ready", "warn"}]
Askings == [1..Cardinality(Repos) -> [repo : Repos, head : Checkouts]]

IndexTypes ==
  /\ pc \in [Calls -> IndexStages] /\ kind \in [Calls -> Kinds]
  /\ alone \in [Calls -> BOOLEAN] /\ failed \in [Calls -> BOOLEAN]
  /\ done \in [Calls -> Seq(Results)]
  /\ DOMAIN asked = Calls /\ DOMAIN answer = Calls /\ DOMAIN index = Repos
  /\ checkedOut \in [Repos -> Checkouts]

(* A call that has its targets has some; before it indexes it has no result. *)
StagesFit ==
  \A c \in Calls :
    /\ pc[c] \in {"targets", "load", "index", "over"} => asked[c] \in Askings
    /\ pc[c] \in {"new", "forgot", "targets", "load"} => done[c] = << >>
    /\ pc[c] = "forgot" => Retries(c)
    /\ pc[c] = "targets" => Investigates(c)

(* A report is about the repositories that it is kept under. *)
KeptFits ==
  \A k \in DOMAIN kept : \A x \in k : \E j \in DOMAIN kept[k] : kept[k][j].repo = x.repo

(* A call that runs alone has forgotten what was kept. *)
Forgot(c) == IF Retries(c) THEN pc[c] \in {"forgot", "load", "index"} ELSE Investigates(c) /\ pc[c] \in {"load", "index"}
AloneFits ==
  \A c \in Calls : alone[c] /\ c \in RunningCalls =>
    /\ RunningCalls = {c}
    /\ Forgot(c) => DOMAIN kept = {}

(* What a call calls ready is: as far as its commands worked, and, while it runs
   alone, in the index. *)
ResultsFit ==
  \A c \in Calls : \A i \in DOMAIN done[c] :
    /\ ~failed[c] => done[c][i].status = "ready"
    /\ alone[c] /\ pc[c] = "index" /\ done[c][i].status = "ready" => index[done[c][i].repo] = "complete"

IndexInv == IndexTypes /\ StagesFit /\ KeptFits /\ AloneFits /\ ResultsFit /\ FailuresAreRetried /\ AnswersFit

LEMMA IndexStarts == ASSUME CodeIndexingAssumption, IndexInit PROVE IndexInv
<1> USE DEF IndexInit
<1>1. IndexTypes
  BY DEF IndexTypes, IndexStages
<1>2. StagesFit
  BY DEF StagesFit
<1>3. DOMAIN kept = {} /\ KeptFits
  BY DEF KeptFits
<1>4. AloneFits
  BY DEF AloneFits, RunningCalls
<1>5. ResultsFit /\ FailuresAreRetried /\ AnswersFit
  BY DEF ResultsFit, FailuresAreRetried, AnswersFit, AnsweredCall
<1> QED
  BY <1>1, <1>2, <1>3, <1>4, <1>5 DEF IndexInv

LEMMA SomeRepository ==
  ASSUME CodeIndexingAssumption PROVE Cardinality(Repos) \in Nat /\ Cardinality(Repos) >= 1
BY FS_CardinalityType, FS_EmptySet DEF CodeIndexingAssumption

(* What a report says of a repository that it is about. *)
LEMMA ReorderedFits ==
  ASSUME NEW report, NEW q, \A i \in DOMAIN q : \E j \in DOMAIN report : report[j].repo = q[i].repo
  PROVE  /\ DOMAIN Reordered(report, q) = DOMAIN q
         /\ \A i \in DOMAIN q : /\ Reordered(report, q)[i].repo = q[i].repo
                                /\ \E j \in DOMAIN report : Reordered(report, q)[i] = report[j]
<1>1. ASSUME NEW i \in DOMAIN q
      PROVE  (CHOOSE j \in DOMAIN report : report[j].repo = q[i].repo) \in {j \in DOMAIN report : report[j].repo = q[i].repo}
  BY <1>1
<1> QED
  BY <1>1 DEF Reordered

(* The calls that run, when one of them takes a step. *)
LEMMA StepRuns ==
  ASSUME IndexTypes, NEW c \in Calls, NEW from, NEW to \in IndexStages, Step(c, from, to)
  PROVE  /\ pc' \in [Calls -> IndexStages] /\ pc'[c] = to /\ pc[c] = from
         /\ \A d \in Calls \ {c} : pc'[d] = pc[d]
         /\ RunningCalls' = IF to = "over" \/ to = "new" THEN RunningCalls \ {c} ELSE RunningCalls \cup {c}
<1>1. pc' = [pc EXCEPT ![c] = to] /\ pc[c] = from
  BY DEF Step, Set
<1>2. pc' \in [Calls -> IndexStages] /\ pc'[c] = to /\ \A d \in Calls \ {c} : pc'[d] = pc[d]
  BY <1>1 DEF IndexTypes
<1> QED
  BY <1>1, <1>2 DEF RunningCalls

(* A call takes its targets. *)
LEMMA TargetsKeepIndex ==
  ASSUME CodeIndexingAssumption, IndexInv, NEW c \in Calls, IndexTargets(c) PROVE IndexInv'
<1> USE DEF IndexInv
<1>1. PICK from \in {"new", "forgot"}, to \in {"targets", "load"} :
        /\ Step(c, from, to) /\ Alone(c, from) /\ from = (IF Retries(c) THEN "forgot" ELSE "new")
        /\ to = (IF Investigates(c) THEN "targets" ELSE "load")
  BY DEF IndexTargets
<1>2. /\ pc' \in [Calls -> IndexStages] /\ pc'[c] = to /\ pc[c] = from
      /\ \A d \in Calls \ {c} : pc'[d] = pc[d]
      /\ RunningCalls' = RunningCalls \cup {c}
  BY <1>1, StepRuns DEF IndexStages
<1>3. PICK q \in Orders : asked' = Set(asked, c, TargetsIn(q))
  BY DEF IndexTargets
<1>4. TargetsIn(q) \in Askings
  BY <1>3 DEF Orders, Askings, IndexTypes, TargetsIn
<1>5. asked'[c] \in Askings /\ (\A d \in Calls \ {c} : asked'[d] = asked[d]) /\ DOMAIN asked' = Calls
  BY <1>3, <1>4 DEF Set, IndexTypes
<1>6. UNCHANGED <<world, kept, kind, done, answer, failed>>
  BY DEF IndexTargets
<1>7. /\ alone' \in [Calls -> BOOLEAN]
      /\ from = "new" => \A d \in Calls : alone'[d] <=> IF d = c THEN RunningCalls = {} ELSE alone[d] /\ d \notin RunningCalls
      /\ from = "forgot" => \A d \in Calls : alone'[d] <=> alone[d]
  BY <1>1 DEF Alone, IndexTypes
<1>8. IndexTypes'
  BY <1>2, <1>5, <1>6, <1>7 DEF IndexTypes, world
<1>9. StagesFit'
  BY <1>1, <1>2, <1>5, <1>6 DEF StagesFit, Retries, Investigates
<1>10. KeptFits'
  BY <1>6 DEF KeptFits
<1>11. ASSUME NEW d \in Calls, alone'[d], d \in RunningCalls'
       PROVE  RunningCalls' = {d} /\ (Forgot(d)' => DOMAIN kept' = {})
  <2>1. CASE from = "new"
    <3>1. d = c /\ RunningCalls = {}
      BY <1>2, <1>7, <1>11, <2>1
    <3>2. ~Forgot(c)'
      BY <1>1, <1>2, <1>6, <2>1 DEF Forgot, Retries, Investigates
    <3> QED
      BY <1>2, <3>1, <3>2
  <2>2. CASE from = "forgot"
    <3>1. c \in RunningCalls /\ Retries(c)
      BY <1>1, <1>2, <2>2 DEF RunningCalls
    <3>2. RunningCalls = {d} /\ d = c
      BY <1>2, <1>7, <1>11, <2>2, <3>1 DEF AloneFits
    <3>3. DOMAIN kept = {}
      BY <1>2, <1>7, <1>11, <2>2, <3>1, <3>2 DEF AloneFits, Forgot
    <3> QED
      BY <1>2, <1>6, <3>2, <3>3
  <2> QED
    BY <2>1, <2>2
<1>12. ASSUME NEW d \in Calls PROVE alone'[d] => alone[d] \/ (d = c /\ pc'[c] # "over" /\ pc'[c] # "index")
  BY <1>2, <1>7
<1>13. ResultsFit'
  BY <1>2, <1>6, <1>12 DEF ResultsFit, world
<1>14. ASSUME NEW d \in Calls, pc'[d] = "over" PROVE d # c /\ pc[d] = "over" /\ asked'[d] = asked[d]
  BY <1>2, <1>5, <1>14
<1>15. FailuresAreRetried'
  BY <1>6, <1>12, <1>14 DEF FailuresAreRetried, AnsweredCall, Statuses, ForDeployment
<1>16. AnswersFit'
  BY <1>6, <1>14 DEF AnswersFit, AnsweredCall
<1> QED
  BY <1>8, <1>9, <1>10, <1>11, <1>13, <1>15, <1>16 DEF AloneFits

(* A call forgets what is kept. *)
LEMMA ForgetKeepsIndex ==
  ASSUME CodeIndexingAssumption, IndexInv, NEW c \in Calls, Forget(c) PROVE IndexInv'
<1> USE DEF IndexInv
<1>1. PICK from \in {"new", "targets"}, to \in {"forgot", "load"} :
        /\ Step(c, from, to) /\ Alone(c, from) /\ from = (IF Retries(c) THEN "new" ELSE "targets")
        /\ to = (IF Retries(c) THEN "forgot" ELSE "load")
  BY DEF Forget
<1>2. /\ pc' \in [Calls -> IndexStages] /\ pc'[c] = to /\ pc[c] = from
      /\ \A d \in Calls \ {c} : pc'[d] = pc[d]
      /\ RunningCalls' = RunningCalls \cup {c}
  BY <1>1, StepRuns DEF IndexStages
<1>3. UNCHANGED <<world, kind, asked, done, answer, failed>> /\ kept' = << >>
  BY DEF Forget, Forgets, IndexTypes, Kinds, Retries, Investigates, ForDeployment
<1>4. DOMAIN kept' = {}
  BY <1>3
<1>5. /\ alone' \in [Calls -> BOOLEAN]
      /\ from = "new" => \A d \in Calls : alone'[d] <=> IF d = c THEN RunningCalls = {} ELSE alone[d] /\ d \notin RunningCalls
      /\ from # "new" => \A d \in Calls : alone'[d] <=> alone[d]
  BY <1>1 DEF Alone, IndexTypes
<1>6. IndexTypes'
  BY <1>2, <1>3, <1>5 DEF IndexTypes, world
<1>7. pc[c] = "targets" => Investigates(c)
  BY DEF StagesFit
<1>8. ASSUME NEW d \in Calls, alone'[d], d \in RunningCalls' PROVE RunningCalls' = {d}
  <2>1. CASE from = "new"
    BY <1>2, <1>5, <1>8, <2>1
  <2>2. CASE from # "new"
    <3>1. c \in RunningCalls
      BY <1>1, <1>2, <2>2 DEF RunningCalls
    <3> QED
      BY <1>2, <1>5, <1>8, <2>2, <3>1 DEF AloneFits
  <2> QED
    BY <2>1, <2>2
<1>10. ASSUME NEW d \in Calls PROVE alone'[d] => alone[d] \/ (d = c /\ pc'[c] # "over" /\ pc'[c] # "index")
  BY <1>2, <1>5
<1>11. ResultsFit'
  BY <1>2, <1>3, <1>10 DEF ResultsFit, world
<1>12. FailuresAreRetried' /\ AnswersFit'
  BY <1>2, <1>3, <1>10 DEF FailuresAreRetried, AnswersFit, AnsweredCall, Statuses, ForDeployment
<1>13. StagesFit'
  BY <1>1, <1>2, <1>3, <1>7 DEF StagesFit, Retries, Investigates
<1> QED
  BY <1>4, <1>6, <1>8, <1>11, <1>12, <1>13 DEF AloneFits, KeptFits

(* A call that is not a deployment's, runs alone, and looks for a report or makes
   one, finds nothing kept. *)
LEMMA NothingKept ==
  ASSUME IndexInv, NEW c \in Calls, alone[c], ~ForDeployment(c), pc[c] \in {"load", "index"}
  PROVE  DOMAIN kept = {}
BY DEF IndexInv, IndexTypes, Kinds, AloneFits, Forgot, RunningCalls, ForDeployment, Retries, Investigates

(* A call finds a report, or none. *)
LEMMA LoadKeepsIndex ==
  ASSUME CodeIndexingAssumption, IndexInv, NEW c \in Calls, Load(c) PROVE IndexInv'
<1> USE DEF IndexInv
<1>1. pc[c] = "load" /\ UNCHANGED <<world, kept, kind, asked, done, alone, failed>> /\ asked[c] \in Askings /\ done[c] = << >>
  BY DEF Load, StagesFit
<1>2. PICK to \in {"index", "over"} : pc' = Set(pc, c, to)
  BY DEF Load
<1>3. /\ pc' \in [Calls -> IndexStages] /\ pc'[c] = to
      /\ \A d \in Calls \ {c} : pc'[d] = pc[d]
      /\ RunningCalls' = IF to = "over" THEN RunningCalls \ {c} ELSE RunningCalls \cup {c}
  BY <1>1, <1>2, StepRuns DEF Step, IndexStages
<1>4. c \in RunningCalls /\ DOMAIN answer' = Calls /\ \A d \in Calls \ {c} : answer'[d] = answer[d]
  BY <1>1 DEF Load, RunningCalls, Set, IndexTypes
<1>5. IndexTypes' /\ StagesFit' /\ KeptFits'
  BY <1>1, <1>3, <1>4 DEF IndexTypes, world, StagesFit, KeptFits, Retries, Investigates
<1>6. AloneFits'
  BY <1>1, <1>3, <1>4 DEF AloneFits, Forgot, Retries, Investigates
<1>7. ResultsFit'
  <2>1. ASSUME NEW d \in Calls, NEW i \in DOMAIN done'[d]
        PROVE  d # c /\ i \in DOMAIN done[d] /\ done'[d][i] = done[d][i] /\ pc'[d] = pc[d]
    BY <1>1, <1>3, <2>1
  <2> QED
    BY <1>1, <2>1 DEF ResultsFit, world
<1>8. ASSUME pc'[c] = "over"
      PROVE  /\ ~(alone[c] /\ ~ForDeployment(c))
             /\ DOMAIN answer'[c] = DOMAIN asked[c]
             /\ \A i \in DOMAIN asked[c] : answer'[c][i].repo = asked[c][i].repo
  <2>1. Key(c) \in DOMAIN kept /\ answer' = Set(answer, c, Reordered(kept[Key(c)], asked[c]))
    BY <1>1, <1>8 DEF Load, Set, IndexTypes
  <2>2. \A i \in DOMAIN asked[c] : \E j \in DOMAIN kept[Key(c)] : kept[Key(c)][j].repo = asked[c][i].repo
    BY <2>1 DEF KeptFits, Key
  <2>3. answer'[c] = Reordered(kept[Key(c)], asked[c])
    BY <2>1 DEF Set, IndexTypes
  <2>4. /\ DOMAIN Reordered(kept[Key(c)], asked[c]) = DOMAIN asked[c]
        /\ \A i \in DOMAIN asked[c] : Reordered(kept[Key(c)], asked[c])[i].repo = asked[c][i].repo
    BY <2>2, ReorderedFits
  <2> QED
    BY <1>1, <2>1, <2>3, <2>4, NothingKept
<1>9. FailuresAreRetried'
  <2>1. ASSUME NEW d \in Calls, pc'[d] = "over", alone'[d], ~failed'[d], ~ForDeployment(d)'
        PROVE  Statuses(d)' = {"ready"}
    <3>1. ForDeployment(d)' <=> ForDeployment(d)
      BY <1>1 DEF ForDeployment
    <3>2. d # c /\ answer'[d] = answer[d] /\ pc[d] = "over"
      BY <1>1, <1>3, <1>4, <1>8, <2>1, <3>1
    <3>3. Statuses(d)' = Statuses(d)
      BY <3>2 DEF Statuses
    <3> QED
      BY <1>1, <2>1, <3>1, <3>2, <3>3 DEF FailuresAreRetried, AnsweredCall
  <2> QED
    BY <2>1 DEF FailuresAreRetried, AnsweredCall
<1>10. AnswersFit'
  BY <1>1, <1>3, <1>4, <1>8 DEF AnswersFit, AnsweredCall
<1> QED
  BY <1>5, <1>6, <1>7, <1>9, <1>10

(* A call builds one index, or fails to. *)
LEMMA BuildKeepsIndex ==
  ASSUME CodeIndexingAssumption, IndexInv, NEW c \in Calls, Index(c) \/ IndexFails(c) PROVE IndexInv'
<1> USE DEF IndexInv
<1>1. /\ pc[c] = "index" /\ asked[c] \in Askings
      /\ UNCHANGED <<checkedOut, kept, kind, asked, answer, pc, alone, moves>>
  BY DEF Index, IndexFails, StagesFit
<1>2. PICK r \in Remaining(c), s \in {"ready", "warn"} :
        /\ done' = Set(done, c, Append(done[c], Result(r, s)))
        /\ failed' \in [Calls -> BOOLEAN] /\ (\A d \in Calls \ {c} : failed'[d] = failed[d])
        /\ ~failed'[c] => ~failed[c] /\ s = "ready"
        /\ \/ index' = index /\ s = "warn"
           \/ \E state \in {"partial", "complete"} : index' = Set(index, r, state) /\ (s = "ready" => state = "complete")
  <2>1. CASE Index(c)
    <3>1. PICK r \in Remaining(c), state \in {"partial", "complete"} :
            /\ done' = Set(done, c, Append(done[c], Result(r, IF Ready(state) THEN "ready" ELSE "warn")))
            /\ failed' = Set(failed, c, failed[c] \/ state = "partial")
            /\ index' = Set(index, r, state)
      BY <2>1 DEF Index
    <3>2. failed' \in [Calls -> BOOLEAN] /\ (\A d \in Calls \ {c} : failed'[d] = failed[d])
          /\ (failed'[c] <=> failed[c] \/ state = "partial")
      BY <3>1 DEF Set, IndexTypes
    <3> QED
      BY <3>1, <3>2 DEF Ready
  <2>2. CASE IndexFails(c)
    <3>1. PICK r \in Remaining(c) : done' = Set(done, c, Append(done[c], Result(r, "warn"))) /\ failed' = Set(failed, c, TRUE)
      BY <2>2 DEF IndexFails
    <3>2. failed' \in [Calls -> BOOLEAN] /\ (\A d \in Calls \ {c} : failed'[d] = failed[d]) /\ failed'[c] /\ index' = index
      BY <2>2, <3>1 DEF Set, IndexTypes, IndexFails
    <3> QED
      BY <3>1, <3>2
  <2> QED
    BY <2>1, <2>2
<1>3. r \in Repos /\ Result(r, s) \in Results /\ Result(r, s).repo = r /\ Result(r, s).status = s
      /\ \A i \in DOMAIN done[c] : done[c][i].repo # r
  BY <1>1, <1>2, Zenon DEF Remaining, Askings, Result, Results
<1>4. done[c] \in Seq(Results)
  BY DEF IndexTypes
<1>5. /\ done' \in [Calls -> Seq(Results)] /\ \A d \in Calls \ {c} : done'[d] = done[d]
      /\ done'[c] = Append(done[c], Result(r, s))
  BY <1>2, <1>3, <1>4 DEF IndexTypes, Set
<1>6. \A i \in DOMAIN done'[c] :
        (i \in DOMAIN done[c] /\ done'[c][i] = done[c][i]) \/ (done'[c][i].repo = r /\ done'[c][i].status = s)
  BY <1>3, <1>4, <1>5
<1>7. DOMAIN index' = Repos /\ (s = "ready" => index'[r] = "complete") /\ \A q \in Repos \ {r} : index'[q] = index[q]
  BY <1>2, <1>3 DEF Set, IndexTypes
<1>8. IndexTypes' /\ StagesFit' /\ KeptFits' /\ AloneFits'
  BY <1>1, <1>2, <1>5, <1>7 DEF IndexTypes, StagesFit, KeptFits, AloneFits, RunningCalls, Forgot, Retries, Investigates
<1>9. ASSUME NEW d \in Calls, NEW i \in DOMAIN done'[d]
      PROVE  /\ ~failed'[d] => done'[d][i].status = "ready"
             /\ alone'[d] /\ pc'[d] = "index" /\ done'[d][i].status = "ready" => index'[done'[d][i].repo] = "complete"
  <2>1. CASE d = c
    <3>1. CASE i \in DOMAIN done[c] /\ done'[c][i] = done[c][i]
      <4>1. done[c][i].repo \in Repos \ {r}
        <5>1. done[c][i] \in Results
          BY <1>4, <3>1
        <5> QED
          BY <1>3, <3>1, <5>1 DEF Results
      <4> QED
        BY <1>1, <1>2, <1>7, <2>1, <3>1, <4>1 DEF ResultsFit
    <3>2. CASE done'[c][i].repo = r /\ done'[c][i].status = s
      BY <1>2, <1>7, <2>1, <3>2
    <3> QED
      BY <1>6, <1>9, <2>1, <3>1, <3>2
  <2>2. CASE d # c
    <3>1. done'[d] = done[d] /\ failed'[d] = failed[d] /\ c \in RunningCalls
      BY <1>1, <1>2, <1>5, <2>2 DEF RunningCalls
    <3>2. ~(alone[d] /\ pc[d] = "index")
      BY <2>2, <3>1 DEF AloneFits, RunningCalls
    <3> QED
      BY <1>1, <1>9, <3>1, <3>2 DEF ResultsFit
  <2> QED
    BY <2>1, <2>2
<1>10. FailuresAreRetried' /\ AnswersFit'
  BY <1>1, <1>2, Zenon DEF FailuresAreRetried, AnswersFit, AnsweredCall, Statuses, ForDeployment
<1> QED
  BY <1>8, <1>9, <1>10 DEF ResultsFit

(* A call that has all its results answers with them, and keeps them. *)
LEMMA StoreKeepsIndex ==
  ASSUME CodeIndexingAssumption, IndexInv, NEW c \in Calls, Store(c)
  PROVE  /\ IndexInv'
         /\ pc[c] = "index" /\ DOMAIN answer'[c] = DOMAIN asked[c]
         /\ \A i \in DOMAIN asked[c] : \E j \in DOMAIN done[c] : answer'[c][i] = done[c][j]
<1> USE DEF IndexInv
<1> DEFINE report == Reordered(done[c], asked[c])
<1>1. pc[c] = "index" /\ UNCHANGED <<world, kind, asked, done, alone, failed>> /\ asked[c] \in Askings
      /\ Remaining(c) = {}
  BY DEF Store, StagesFit
<1>2. /\ pc' \in [Calls -> IndexStages] /\ pc'[c] = "over"
      /\ \A d \in Calls \ {c} : pc'[d] = pc[d]
      /\ RunningCalls' = RunningCalls \ {c}
  BY <1>1, StepRuns DEF Step, IndexStages, Store
<1>3. \A i \in DOMAIN asked[c] : \E j \in DOMAIN done[c] : done[c][j].repo = asked[c][i].repo
  BY <1>1 DEF Remaining
<1>4. /\ DOMAIN report = DOMAIN asked[c]
      /\ \A i \in DOMAIN asked[c] : report[i].repo = asked[c][i].repo /\ \E j \in DOMAIN done[c] : report[i] = done[c][j]
  BY <1>3, ReorderedFits
<1>5. /\ answer' = Set(answer, c, report)
      /\ kept' = [k \in (DOMAIN kept) \cup {Key(c)} |-> IF k = Key(c) THEN report ELSE kept[k]]
  BY DEF Store
<1> HIDE DEF report
<1>6. answer'[c] = report /\ DOMAIN answer' = Calls /\ \A d \in Calls \ {c} : answer'[d] = answer[d]
  BY <1>5 DEF Set, IndexTypes
<1>7. IndexTypes' /\ StagesFit'
  BY <1>1, <1>2, <1>6 DEF IndexTypes, world, StagesFit, Retries, Investigates
<1>8. KeptFits'
  <2>1. ASSUME NEW k \in DOMAIN kept', NEW x \in k PROVE \E j \in DOMAIN kept'[k] : kept'[k][j].repo = x.repo
    <3>1. CASE k = Key(c)
      <4>1. PICK i \in DOMAIN asked[c] : x = asked[c][i]
        BY <2>1, <3>1 DEF Key
      <4>2. kept'[k] = report
        BY <1>5, <3>1
      <4> QED
        BY <1>4, <4>1, <4>2
    <3>2. CASE k # Key(c)
      BY <1>5, <2>1, <3>2 DEF KeptFits
    <3> QED
      BY <3>1, <3>2
  <2> QED
    BY <2>1 DEF KeptFits
<1>9. AloneFits'
  <2>1. ASSUME NEW d \in Calls, alone[d], d \in RunningCalls' PROVE FALSE
    <3>1. d # c /\ d \in RunningCalls /\ c \in RunningCalls
      BY <1>1, <1>2, <2>1 DEF RunningCalls
    <3> QED
      BY <2>1, <3>1 DEF AloneFits
  <2> QED
    BY <1>1, <2>1 DEF AloneFits
<1>10. ResultsFit'
  BY <1>1, <1>2 DEF ResultsFit, world
<1>11. ASSUME ~failed[c] PROVE Statuses(c)' = {"ready"}
  <2>1. \A i \in DOMAIN report : report[i].status = "ready"
    BY <1>4, <1>11 DEF ResultsFit
  <2>2. 1 \in DOMAIN report
    BY <1>1, <1>4, SomeRepository DEF Askings
  <2>3. Statuses(c)' = {report[i].status : i \in DOMAIN report}
    BY <1>6 DEF Statuses
  <2> QED
    BY <2>1, <2>2, <2>3
<1>12. FailuresAreRetried'
  <2>1. ASSUME NEW d \in Calls, pc'[d] = "over", alone'[d], ~failed'[d], ~ForDeployment(d)'
        PROVE  Statuses(d)' = {"ready"}
    <3>1. CASE d = c
      BY <1>1, <1>11, <2>1, <3>1
    <3>2. CASE d # c
      <4>1. answer'[d] = answer[d] /\ pc[d] = "over" /\ alone[d] /\ ~failed[d] /\ ~ForDeployment(d)
        BY <1>1, <1>2, <1>6, <2>1, <3>2 DEF ForDeployment
      <4>2. Statuses(d)' = Statuses(d)
        BY <4>1 DEF Statuses
      <4> QED
        BY <4>1, <4>2 DEF FailuresAreRetried, AnsweredCall
    <3> QED
      BY <3>1, <3>2
  <2> QED
    BY <2>1 DEF FailuresAreRetried, AnsweredCall
<1>13. AnswersFit'
  BY <1>1, <1>2, <1>4, <1>6 DEF AnswersFit, AnsweredCall
<1> QED
  BY <1>1, <1>4, <1>6, <1>7, <1>8, <1>9, <1>10, <1>12, <1>13

LEMMA CheckoutKeepsIndex ==
  ASSUME IndexInv, (\E r \in Repos : Checkout(r)) \/ UNCHANGED indexVars PROVE IndexInv'
<1>1. /\ checkedOut' \in [Repos -> Checkouts]
      /\ UNCHANGED <<index, kept, kind, asked, done, answer, pc, alone, failed>>
  <2>1. checkedOut \in [Repos -> Checkouts]
    BY DEF IndexInv, IndexTypes
  <2>2. CASE UNCHANGED indexVars
    BY <2>1, <2>2 DEF indexVars
  <2>3. ASSUME NEW r \in Repos, Checkout(r)
        PROVE  /\ checkedOut' \in [Repos -> Checkouts]
               /\ UNCHANGED <<index, kept, kind, asked, done, answer, pc, alone, failed>>
    BY <2>1, <2>3 DEF Checkout, Set, ofCall
  <2> QED
    BY <2>2, <2>3
<1>2. IndexTypes' /\ StagesFit' /\ KeptFits'
  BY <1>1 DEF IndexInv, IndexTypes, StagesFit, KeptFits, Retries, Investigates
<1>3. AloneFits' /\ ResultsFit'
  BY <1>1 DEF IndexInv, AloneFits, Forgot, RunningCalls, ResultsFit, Retries, Investigates
<1>4. \A c \in Calls : Statuses(c)' = Statuses(c)
  BY <1>1 DEF Statuses
<1>5. FailuresAreRetried' /\ AnswersFit'
  BY <1>1, <1>4 DEF IndexInv, FailuresAreRetried, AnswersFit, AnsweredCall, ForDeployment
<1> QED
  BY <1>2, <1>3, <1>5 DEF IndexInv

LEMMA IndexStep ==
  ASSUME CodeIndexingAssumption, IndexInv, [IndexNext]_indexVars PROVE IndexInv'
<1>1. CASE \E c \in Calls : IndexTargets(c) \/ Forget(c) \/ Load(c) \/ Index(c) \/ IndexFails(c) \/ Store(c)
  BY <1>1, TargetsKeepIndex, ForgetKeepsIndex, LoadKeepsIndex, BuildKeepsIndex, StoreKeepsIndex
<1>2. CASE \E r \in Repos : Checkout(r)
  BY <1>2, CheckoutKeepsIndex
<1>3. CASE UNCHANGED indexVars
  BY <1>3, CheckoutKeepsIndex
<1> QED
  BY <1>1, <1>2, <1>3 DEF IndexNext

(* A failed index is built again by who asks alone, an answer is about what was
   asked, and an investigation that is alone is told of no index that is missing
   or half-built, for every set of repositories and calls. *)
THEOREM IndexesAreBuiltAgain ==
  ASSUME CodeIndexingAssumption PROVE IndexSpec => IndexesAreReady
<1>1. IndexInit => IndexInv
  BY IndexStarts
<1>2. IndexInv /\ [IndexNext]_indexVars => IndexInv'
  BY IndexStep
<1> DEFINE BuiltFor(c) ==
      (alone[c] /\ ~ForDeployment(c) /\ pc[c] # "over" /\ pc'[c] = "over") =>
         \A i \in DOMAIN answer'[c] :
           answer'[c][i].status = "ready" => index[answer'[c][i].repo] = "complete"
<1>3. ASSUME IndexInv, [IndexNext]_indexVars, NEW c \in Calls, alone[c], ~ForDeployment(c), pc[c] # "over", pc'[c] = "over"
      PROVE  \A i \in DOMAIN answer'[c] :
               answer'[c][i].status = "ready" => index[answer'[c][i].repo] = "complete"
  <2>1. CASE Store(c)
    <3>1. /\ pc[c] = "index" /\ DOMAIN answer'[c] = DOMAIN asked[c]
          /\ \A i \in DOMAIN asked[c] : \E j \in DOMAIN done[c] : answer'[c][i] = done[c][j]
      BY <1>3, <2>1, StoreKeepsIndex
    <3> QED
      BY <1>3, <3>1 DEF IndexInv, ResultsFit
  <2>2. CASE Load(c)
    <3>1. pc[c] = "load" /\ Key(c) \in DOMAIN kept
      BY <1>3, <2>2 DEF Load, Set, IndexInv, IndexTypes
    <3> QED
      BY <1>3, <3>1, NothingKept
  <2>3. ASSUME NEW d \in Calls, NEW from, NEW to \in IndexStages \ {"over"}, Step(d, from, to) PROVE FALSE
    BY <1>3, <2>3, StepRuns DEF IndexInv
  <2>4. ASSUME NEW d \in Calls, IndexTargets(d) PROVE FALSE
    BY <2>3, <2>4 DEF IndexTargets, IndexStages
  <2>5. ASSUME NEW d \in Calls, Forget(d) PROVE FALSE
    BY <2>3, <2>5 DEF Forget, IndexStages
  <2>6. ASSUME NEW d \in Calls \ {c}, Load(d) \/ Store(d) PROVE FALSE
    BY <1>3, <2>6 DEF Load, Store, Set, IndexInv, IndexTypes
  <2>7. ASSUME UNCHANGED pc PROVE FALSE
    BY <1>3, <2>7
  <2>8. CASE \E d \in Calls : Index(d) \/ IndexFails(d)
    BY <2>7, <2>8 DEF Index, IndexFails
  <2>9. CASE \E r \in Repos : Checkout(r)
    BY <2>7, <2>9 DEF Checkout
  <2>10. CASE UNCHANGED indexVars
    BY <2>7, <2>10 DEF indexVars
  <2> QED
    BY <1>3, <2>1, <2>2, <2>4, <2>5, <2>6, <2>8, <2>9, <2>10 DEF IndexNext
<1>4. IndexInv /\ [IndexNext]_indexVars => [\A c \in Calls : BuiltFor(c)]_indexVars
  BY <1>3
<1>5. IndexInv => FailuresAreRetried /\ AnswersFit
  BY DEF IndexInv
<1> QED
  BY <1>1, <1>2, <1>4, <1>5, PTL DEF IndexSpec, IndexesAreReady, ReadyIsComplete
=============================================================================
