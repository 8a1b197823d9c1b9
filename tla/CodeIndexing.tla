---------------------------- MODULE CodeIndexing ----------------------------
(***************************************************************************)
(* The CodeGraph indexes of a system's repositories (codegraph_index.go)   *)
(* and who asks for them: a deployment, the user's retry and every         *)
(* investigation.  A report is kept in memory under the system and the     *)
(* heads of its repositories; the retry and the investigation forget it    *)
(* first.  Calls run side by side, in one process.                         *)
(***************************************************************************)
EXTENDS Naturals, Sequences, FiniteSets

CONSTANTS
  Repos,      \* names; each has one directory
  Calls,      \* calls that are made
  Checkouts,  \* what a repository may have checked out
  MaxMoves,   \* bound: checkouts
  MaxFaults,  \* bound: commands that fail, time out or are cancelled
  NoIndex

CodeIndexingAssumption ==
  IsFiniteSet(Repos) /\ Repos # {} /\ NoIndex \notin {"partial", "complete"}

Kinds == {"deploy", "retry", "investigation"}
Orders == {q \in [1..Cardinality(Repos) -> Repos] : \A i, j \in DOMAIN q : i # j => q[i] # q[j]}

VARIABLES
  checkedOut,  \* what each repository has checked out
  index,   \* its index: NoIndex, "partial" or "complete"
  kept,    \* the reports in memory: by heads, a sequence of results
  kind,    \* of each call
  asked,   \* its targets: repositories in order, with their heads
  done,    \* the results it has so far
  answer,  \* its report; << >> while it has none
  pc,
  alone,   \* no other call ran beside it (history)
  failed,  \* a command of it failed (history)
  moves, faults

indexVars == <<checkedOut, index, kept, kind, asked, done, answer, pc, alone, failed, moves, faults>>
world == <<checkedOut, index, moves, faults>>
ofCall == <<kind, asked, done, answer, alone, failed>>

Set(f, c, v) == [f EXCEPT ![c] = v]
RunningCalls == {c \in Calls : pc[c] \notin {"new", "over"}}

IndexInit ==
  /\ checkedOut \in [Repos -> Checkouts] /\ index = [r \in Repos |-> NoIndex] /\ kept = << >>
  /\ kind \in [Calls -> Kinds] /\ asked = [c \in Calls |-> << >>]
  /\ done = [c \in Calls |-> << >>] /\ answer = [c \in Calls |-> << >>]
  /\ pc = [c \in Calls |-> "new"] /\ alone = [c \in Calls |-> TRUE]
  /\ failed = [c \in Calls |-> FALSE] /\ moves = 0 /\ faults = 0

(* The callers.  A deployment takes what is known, the other two forget it:
   the retry before it looks at the repositories, the investigation after. *)
ForDeployment(c) == kind[c] = "deploy"
Retries(c) == kind[c] = "retry"
Investigates(c) == kind[c] = "investigation"

Step(c, from, to) == pc[c] = from /\ pc' = Set(pc, c, to)
Alone(c, from) ==
  alone' = [d \in Calls |-> IF from # "new" THEN alone[d]
                            ELSE IF d = c THEN RunningCalls = {} ELSE alone[d] /\ d \notin RunningCalls]

(* BuildCodeGraphRepoTargets, in the order the configuration has by now. *)
TargetsIn(q) == [i \in DOMAIN q |-> [repo |-> q[i], head |-> checkedOut[q[i]]]]

IndexTargets(c) ==
  LET from == IF Retries(c) THEN "forgot" ELSE "new"
  IN  /\ Step(c, from, IF Investigates(c) THEN "targets" ELSE "load") /\ Alone(c, from)
      /\ \E q \in Orders : asked' = Set(asked, c, TargetsIn(q))
      /\ UNCHANGED <<world, kept, kind, done, answer, failed>>

(* The report is kept under what was asked, in any order. *)
Key(c) == {asked[c][i] : i \in DOMAIN asked[c]}

(* Mutant of Forgets: only who asks for it forgets. *)
ForgetsOnRetry(c) == Retries(c)

Forgets(c) == Retries(c) \/ Investigates(c)

(* InvalidateCodeGraphIndexCache. *)
Forget(c) ==
  LET from == IF Retries(c) THEN "new" ELSE "targets"
  IN  /\ ~ForDeployment(c) /\ Step(c, from, IF Retries(c) THEN "forgot" ELSE "load") /\ Alone(c, from)
      /\ kept' = IF Forgets(c) THEN << >> ELSE kept
      /\ UNCHANGED <<world, kind, asked, done, answer, failed>>

(* Mutant of Reordered: the report as it was kept. *)
ReorderedNot(report, q) == report

(* reorderCodeGraphIndexReport. *)
Reordered(report, q) ==
  [i \in DOMAIN q |-> report[CHOOSE j \in DOMAIN report : report[j].repo = q[i].repo]]

Load(c) ==
  /\ pc[c] = "load"
  /\ IF Key(c) \in DOMAIN kept
     THEN /\ pc' = Set(pc, c, "over")
          /\ answer' = Set(answer, c, Reordered(kept[Key(c)], asked[c]))
     ELSE pc' = Set(pc, c, "index") /\ UNCHANGED answer
  /\ UNCHANGED <<world, kept, kind, asked, done, alone, failed>>

Result(r, s) == [repo |-> r, status |-> s]
Remaining(c) == {asked[c][i].repo : i \in DOMAIN asked[c]} \ {x.repo : x \in {done[c][i] : i \in DOMAIN done[c]}}

(* Mutant of Ready: the command's exit code is believed. *)
ReadyByExit(state) == TRUE

(* codeGraphStatusReady. *)
Ready(state) == state = "complete"

(* prepareCodeGraphRepo: init or sync, then the status of the index. *)
Index(c) == \E r \in Remaining(c), state \in {"partial", "complete"} :
  /\ pc[c] = "index" /\ (state = "partial" => faults < MaxFaults)
  /\ index' = Set(index, r, state)
  /\ done' = Set(done, c, Append(done[c], Result(r, IF Ready(state) THEN "ready" ELSE "warn")))
  /\ failed' = Set(failed, c, failed[c] \/ state = "partial")
  /\ faults' = IF state = "partial" THEN faults + 1 ELSE faults
  /\ UNCHANGED <<checkedOut, kept, kind, asked, answer, pc, alone, moves>>

(* It fails, times out or its call is cancelled: the index is as it was. *)
IndexFails(c) == \E r \in Remaining(c) :
  /\ pc[c] = "index" /\ faults < MaxFaults /\ faults' = faults + 1
  /\ done' = Set(done, c, Append(done[c], Result(r, "warn"))) /\ failed' = Set(failed, c, TRUE)
  /\ UNCHANGED <<checkedOut, index, kept, kind, asked, answer, pc, alone, moves>>

(* The results, which came in any order, are those of the targets. *)
Store(c) ==
  /\ pc[c] = "index" /\ Remaining(c) = {}
  /\ LET report == Reordered(done[c], asked[c])
     IN  /\ answer' = Set(answer, c, report)
         /\ kept' = [k \in (DOMAIN kept) \cup {Key(c)} |-> IF k = Key(c) THEN report ELSE kept[k]]
  /\ pc' = Set(pc, c, "over")
  /\ UNCHANGED <<world, kind, asked, done, alone, failed>>

Checkout(r) == \E h \in Checkouts \ {checkedOut[r]} :
  /\ moves < MaxMoves /\ moves' = moves + 1 /\ checkedOut' = Set(checkedOut, r, h)
  /\ UNCHANGED <<index, kept, ofCall, pc, faults>>

IndexNext ==
  \/ \E c \in Calls : \/ IndexTargets(c) \/ Forget(c) \/ Load(c)
                      \/ Index(c) \/ IndexFails(c) \/ Store(c)
  \/ \E r \in Repos : Checkout(r)

IndexSpec == IndexInit /\ [][IndexNext]_indexVars

-----------------------------------------------------------------------------
AnsweredCall(c) == pc[c] = "over"
Statuses(c) == {answer[c][i].status : i \in DOMAIN answer[c]}

(* "A failed deploy-time report must not permanently poison later Cases":
   an investigation, or a retry, that ran by itself and whose commands
   worked finds every repository ready, whatever failed before. *)
FailuresAreRetried ==
  \A c \in Calls : AnsweredCall(c) /\ alone[c] /\ ~failed[c] /\ ~ForDeployment(c)
                     => Statuses(c) = {"ready"}

(* A report, kept or fresh, answers for the repositories that were asked
   about, in their order. *)
AnswersFit ==
  \A c \in Calls : AnsweredCall(c) =>
    /\ DOMAIN answer[c] = DOMAIN asked[c]
    /\ \A i \in DOMAIN asked[c] : answer[c][i].repo = asked[c][i].repo

(* An investigation that has the repositories to itself is told to use no
   index that is missing or was left half-built. *)
ReadyIsComplete ==
  [][\A c \in Calls :
       (alone[c] /\ ~ForDeployment(c) /\ pc[c] # "over" /\ pc'[c] = "over") =>
         \A i \in DOMAIN answer'[c] :
           answer'[c][i].status = "ready" => index[answer'[c][i].repo] = "complete"]_indexVars

(* IndexesAreReady: the three together: a failed index is built again, an answer
   fits its question, and ready is complete. *)
IndexesAreReady == [](FailuresAreRetried /\ AnswersFit) /\ ReadyIsComplete
=============================================================================
