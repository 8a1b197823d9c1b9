--------------------------- MODULE Investigations ---------------------------
(***************************************************************************)
(* The agents started from a ticket (bindings_bug_investigation.go,        *)
(* CodexInvestigator in codex_runner.go) and the file that lists them,     *)
(* runs.json (investigation.go), which the phases of the workflow also     *)
(* write as a projection.                                                  *)
(*                                                                         *)
(* A command reads the ticket, switches the local repositories to the      *)
(* branch of its environment and then starts an agent under the lock of    *)
(* the investigator.  Whether a ticket has an agent already is asked of    *)
(* runs.json - the newest run that has not ended - and of the memory of    *)
(* the investigator at hand: the fallback one, until the workflow is       *)
(* initialized, and from then on the workflow's.                           *)
(***************************************************************************)
EXTENDS Integers, FiniteSets

CONSTANTS
  Tickets,       \* the bugs of the inbox
  Legacy,        \* runs of agents started from a ticket
  Phases,        \* attempts of the workflow, projected into runs.json
  TicketOf,      \* the ticket of each attempt
  Bindings,      \* goroutines of bindings
  Void,          \* no status, no run
  MaxLines,      \* bound: telling lines of an agent's output
  MaxKills       \* bound: Studio killed

Terminal == {"succeeded", "failed", "cancelled"}

InvestigationsAssumption ==
  /\ Legacy \subseteq Nat /\ Phases \subseteq Nat /\ Legacy \cap Phases = {}
  /\ Tickets # {} /\ Void \notin {"running", "projected", "exited", "finished", "unregistered", "done"} \cup Terminal
  /\ MaxLines \in Nat /\ MaxKills \in Nat
  /\ TicketOf \in [Phases -> Tickets]

Ids == Legacy \cup Phases
Investigators == {"fallback", "workflow"}

VARIABLES
  runsFile,      \* runs.json: status, ticket and start of each run
  clock,         \* starts so far
  active,        \* the runs in the memory of each investigator
  investigator,  \* the investigator commands use
  agent,         \* the goroutine of each run
  pending,       \* what each caller does
  kills,
  swapped,       \* history: the fallback was replaced while it ran an agent
  overtaken      \* history: an attempt was projected beside a running agent

investigationsVars == <<runsFile, clock, active, investigator, agent, pending, kills, swapped, overtaken>>

NoRun == [status |-> Void, bug |-> CHOOSE b \in Tickets : TRUE, started |-> 0]
NoAgent == [pc |-> Void, inv |-> "fallback", killed |-> FALSE, verdict |-> Void]
NoCall == [pc |-> "idle", kind |-> "start", bug |-> CHOOSE b \in Tickets : TRUE, run |-> Void]

InvestigationsInit ==
  /\ runsFile = [r \in Ids |-> NoRun] /\ clock = 0
  /\ active = [i \in Investigators |-> {}]
  /\ investigator \in Investigators
  /\ agent = [r \in Ids |-> NoAgent]
  /\ pending = [u \in Bindings |-> NoCall]
  /\ kills = 0 /\ swapped = FALSE /\ overtaken = FALSE

Interruptions == <<kills, swapped, overtaken>>
Alive(r) == agent[r].pc \in {"running", "exited"}

(* InvestigationStore.ActiveRunForBug: the newest queued or running run. *)
ActiveRunForBug(b) ==
  LET running == {r \in Ids : runsFile[r].bug = b /\ runsFile[r].status = "running"}
  IN  {r \in running : \A q \in running : runsFile[q].started <= runsFile[r].started}

(* ListByBug(b)[0]. *)
Newest(b) ==
  LET known == {r \in Ids : runsFile[r].bug = b /\ runsFile[r].status # Void}
  IN  {r \in known : \A q \in known : runsFile[q].started <= runsFile[r].started}

(* InvestigationStore.Upsert of a new run, and Finish. *)
Upsert(f, r, b) == [f EXCEPT ![r] = [status |-> "running", bug |-> b, started |-> clock + 1]]
FinishRecord(f, r, s) == IF f[r].status = Void THEN f ELSE [f EXCEPT ![r].status = s]

-----------------------------------------------------------------------------
(* The commands. *)

(* StartBugInvestigation, ContinueBugInvestigation, StartBugFix: the ticket,
   its attachments, the agent's command line tool; any of them missing ends
   the command before it does anything. *)
Call(u, kind, b) ==
  /\ pending[u].pc = "idle"
  /\ kind # "start" => Newest(b) # {}
  /\ pending' = [pending EXCEPT ![u] = [NoCall EXCEPT !.pc = "checkout", !.kind = kind, !.bug = b]]
  /\ UNCHANGED <<runsFile, clock, active, investigator, agent, Interruptions>>

(* ensureRepoBranch switches each repository of the bot to the branch of the
   environment; a checkout that fails ends the command. *)
checkoutBugAgentEnvBranches(u) ==
  /\ pending[u].pc = "checkout"
  /\ pending' = [pending EXCEPT ![u].pc = "launch"] \/ pending' = [pending EXCEPT ![u] = NoCall]
  /\ UNCHANGED <<runsFile, clock, active, investigator, agent, Interruptions>>

(* A new run of the investigator at hand, for which a goroutine starts. *)
Launched(u, f, r) ==
  LET b == pending[u].bug IN
  /\ runsFile[r].status = Void /\ \A q \in Legacy : q < r => runsFile[q].status # Void
  /\ runsFile' = Upsert(f, r, b) /\ clock' = clock + 1
  /\ active' = [active EXCEPT ![investigator] = @ \cup {r}]
  /\ agent' = [agent EXCEPT ![r] = [NoAgent EXCEPT !.pc = "running", !.inv = investigator]]

(* Mutant: a run that is not over is given up, its agent in memory or not. *)
StartClearing(u) ==
  /\ pending[u].pc = "launch" /\ pending[u].kind = "start"
  /\ LET busy == ActiveRunForBug(pending[u].bug)
     IN  \E r \in Legacy :
           Launched(u, [q \in Ids |-> IF q \in busy THEN [runsFile[q] EXCEPT !.status = "failed"]
                                      ELSE runsFile[q]], r)
  /\ pending' = [pending EXCEPT ![u] = NoCall]
  /\ UNCHANGED <<investigator, Interruptions>>

(* CodexInvestigator.Start: an agent in memory is returned, a run without
   one is recorded as failed. *)
Start(u) ==
  /\ pending[u].pc = "launch" /\ pending[u].kind = "start"
  /\ LET busy == ActiveRunForBug(pending[u].bug)
         stale == busy \ active[investigator]
         cleared == [r \in Ids |-> IF r \in stale THEN [runsFile[r] EXCEPT !.status = "failed"]
                                   ELSE runsFile[r]]
     IN  IF busy # {} /\ stale = {} THEN UNCHANGED <<runsFile, clock, active, agent>>
         ELSE \E r \in Legacy : Launched(u, cleared, r)
  /\ pending' = [pending EXCEPT ![u] = NoCall]
  /\ UNCHANGED <<investigator, Interruptions>>

(* Mutant: a running agent keeps nobody from continuing. *)
ContinueBeside(u) ==
  /\ pending[u].pc = "launch" /\ pending[u].kind = "continue"
  /\ \E r \in Legacy : Launched(u, runsFile, r)
  /\ pending' = [pending EXCEPT ![u] = NoCall]
  /\ UNCHANGED <<investigator, Interruptions>>

(* Continue and StartFix refuse while the newest run has an agent in memory,
   and leave a run without one as it is; the previous run must exist. *)
ContinueRun(u) ==
  /\ pending[u].pc = "launch" /\ pending[u].kind = "continue"
  /\ IF ActiveRunForBug(pending[u].bug) \cap active[investigator] # {} \/ Newest(pending[u].bug) = {}
       THEN UNCHANGED <<runsFile, clock, active, agent>>
       ELSE \E r \in Legacy : Launched(u, runsFile, r)
  /\ pending' = [pending EXCEPT ![u] = NoCall]
  /\ UNCHANGED <<investigator, Interruptions>>

(* CancelBugInvestigation: an agent that is not in memory is not found;
   otherwise its context is cancelled, its process group killed and its
   goroutine waited for. *)
Cancel(u, r) ==
  /\ pending[u].pc = "idle" /\ r \in active[investigator]
  /\ agent' = [agent EXCEPT ![r].killed = TRUE]
  /\ pending' = [pending EXCEPT ![u] = [NoCall EXCEPT !.pc = "cancel", !.run = r]]
  /\ UNCHANGED <<runsFile, clock, active, investigator, Interruptions>>

(* Mutant: the command returns once the signal is sent. *)
CancelAtOnce(u) ==
  /\ pending[u].pc = "cancel"
  /\ pending' = [pending EXCEPT ![u] = NoCall]
  /\ UNCHANGED <<runsFile, clock, active, investigator, agent, Interruptions>>

(* Mutant: the command records what it asked for. *)
CancelRecords(u) ==
  /\ pending[u].pc = "cancel" /\ agent[pending[u].run].pc \in {"done", "unregistered"}
  /\ runsFile' = FinishRecord(runsFile, pending[u].run, "cancelled")
  /\ active' = [i \in Investigators |-> active[i] \ {pending[u].run}]
  /\ pending' = [pending EXCEPT ![u] = NoCall]
  /\ UNCHANGED <<clock, investigator, agent, Interruptions>>

CancelReturns(u) ==
  /\ pending[u].pc = "cancel" /\ agent[pending[u].run].pc \in {"done", "unregistered"}
  /\ active' = [i \in Investigators |-> IF i = agent[pending[u].run].inv
                                        THEN active[i] \ {pending[u].run} ELSE active[i]]
  /\ pending' = [pending EXCEPT ![u] = NoCall]
  /\ UNCHANGED <<runsFile, clock, investigator, agent, Interruptions>>

-----------------------------------------------------------------------------
(* A goroutine of a run. *)

OutputEvents == {"message", "turn_failed", "error", "turn_completed"}
Silence == [final |-> FALSE, terminal |-> FALSE, recoverable |-> FALSE]

(* updateAgentCommandFailure on one line of the agent's output: a failure is
   final if the agent says so (turn_failed, result), provisional otherwise;
   the end of a turn with a final message clears a provisional one. *)
updateAgentCommandFailure(out, event) ==
  CASE event = "message" -> [out EXCEPT !.final = TRUE]
    [] event = "turn_failed" -> [out EXCEPT !.terminal = TRUE]
    [] event = "error" -> [out EXCEPT !.recoverable = TRUE]
    [] event = "turn_completed" ->
         [out EXCEPT !.recoverable = @ /\ ~(out.final /\ ~out.terminal)]

(* runCommandStage and executePhaseCommand after Wait. *)
Verdict(out, killed, code) ==
  IF killed THEN "cancelled"
  ELSE IF out.terminal \/ out.recoverable \/ code # 0 \/ ~out.final THEN "failed"
  ELSE "succeeded"

(* What an agent may have said after at most n telling lines. *)
Outputs[n \in 0..MaxLines] ==
  IF n = 0 THEN {Silence}
  ELSE Outputs[n - 1]
         \cup {updateAgentCommandFailure(out, event) : out \in Outputs[n - 1], event \in OutputEvents}

Endings ==
  [killed \in BOOLEAN |->
     {Verdict(out, killed, code) : out \in Outputs[MaxLines], code \in 0..1}]

Exit(r) ==
  /\ agent[r].pc = "running"
  /\ \E v \in Endings[agent[r].killed] :
       agent' = [agent EXCEPT ![r].pc = "exited", ![r].verdict = v]
  /\ UNCHANGED <<runsFile, clock, active, investigator, pending, Interruptions>>

(* collectContinueRun: Finish, then the deferred removeActive and close. *)
FinishRun(r) ==
  /\ r \in Legacy /\ agent[r].pc = "exited"
  /\ runsFile' = FinishRecord(runsFile, r, agent[r].verdict)
  /\ agent' = [agent EXCEPT ![r].pc = "finished", ![r].verdict = Void]
  /\ UNCHANGED <<clock, active, investigator, pending, Interruptions>>

RemoveActive(r) ==
  /\ r \in Legacy /\ agent[r].pc = "finished"
  /\ active' = [active EXCEPT ![agent[r].inv] = @ \ {r}]
  /\ agent' = [agent EXCEPT ![r] = [NoAgent EXCEPT !.pc = "done", !.inv = agent[r].inv]]
  /\ UNCHANGED <<runsFile, clock, investigator, pending, Interruptions>>

(* A phase of the workflow: startLegacyProjection, then executePreparedPhase
   registers the attempt, whoever else works on the ticket. *)
startLegacyProjection(r) ==
  /\ r \in Phases /\ agent[r].pc = Void /\ runsFile[r].status = Void
  /\ investigator = "workflow"
  /\ runsFile' = Upsert(runsFile, r, TicketOf[r]) /\ clock' = clock + 1
  /\ agent' = [agent EXCEPT ![r].pc = "projected", ![r].inv = "workflow"]
  /\ overtaken' = (overtaken \/ \E q \in Legacy : Alive(q) /\ runsFile[q].bug = TicketOf[r])
  /\ UNCHANGED <<active, investigator, pending, kills, swapped>>

executePreparedPhase(r) ==
  /\ agent[r].pc = "projected"
  /\ active' = [active EXCEPT !["workflow"] = @ \cup {r}]
  /\ agent' = [agent EXCEPT ![r].pc = "running"]
  /\ UNCHANGED <<runsFile, clock, investigator, pending, Interruptions>>

(* The deferred close(done) and removeActive, then finishLegacy. *)
PhaseReturns(r) ==
  /\ r \in Phases /\ agent[r].pc = "exited"
  /\ active' = [active EXCEPT !["workflow"] = @ \ {r}]
  /\ agent' = [agent EXCEPT ![r].pc = "unregistered"]
  /\ UNCHANGED <<runsFile, clock, investigator, pending, Interruptions>>

FinishProjection(r) ==
  /\ agent[r].pc = "unregistered"
  /\ runsFile' = FinishRecord(runsFile, r, agent[r].verdict)
  /\ agent' = [agent EXCEPT ![r] = [NoAgent EXCEPT !.pc = "done", !.inv = agent[r].inv]]
  /\ UNCHANGED <<clock, active, investigator, pending, Interruptions>>

-----------------------------------------------------------------------------
(* initializeIncidentWorkflow succeeds at last: its investigator takes the
   place of the fallback, whose agents go on. *)
SwitchInvestigator ==
  /\ investigator = "fallback"
  /\ investigator' = "workflow"
  /\ swapped' = (swapped \/ active["fallback"] # {})
  /\ UNCHANGED <<runsFile, clock, active, agent, pending, kills, overtaken>>

(* Studio is killed and started again. *)
StudioKilled ==
  /\ kills < MaxKills
  /\ kills' = kills + 1
  /\ active' = [i \in Investigators |-> {}]
  /\ agent' = [r \in Ids |-> NoAgent]
  /\ pending' = [u \in Bindings |-> NoCall]
  /\ investigator' \in Investigators
  /\ UNCHANGED <<runsFile, clock, swapped, overtaken>>

InvestigationsNext ==
  \/ \E u \in Bindings :
       \/ \E kind \in {"start", "continue"}, b \in Tickets : Call(u, kind, b)
       \/ \E r \in Ids : Cancel(u, r)
       \/ checkoutBugAgentEnvBranches(u) \/ Start(u) \/ ContinueRun(u) \/ CancelReturns(u)
  \/ \E r \in Ids :
       \/ Exit(r) \/ FinishRun(r) \/ RemoveActive(r)
       \/ startLegacyProjection(r) \/ executePreparedPhase(r)
       \/ PhaseReturns(r) \/ FinishProjection(r)
  \/ SwitchInvestigator \/ StudioKilled

InvestigationsSpec == InvestigationsInit /\ [][InvestigationsNext]_investigationsVars

-----------------------------------------------------------------------------
TypeOK ==
  /\ clock \in Nat
  /\ runsFile \in [Ids -> [status : {Void, "running"} \cup Terminal, bug : Tickets, started : 0..clock]]
  /\ active \in [Investigators -> SUBSET Ids] /\ investigator \in Investigators
  /\ agent \in [Ids -> [pc : {Void, "projected", "running", "exited", "finished",
                              "unregistered", "done"},
                        inv : Investigators, killed : BOOLEAN,
                        verdict : {Void} \cup Terminal]]
  /\ pending \in [Bindings -> [pc : {"idle", "checkout", "launch", "cancel"},
                         kind : {"start", "continue"}, bug : Tickets, run : {Void} \cup Ids]]
  /\ kills \in 0..MaxKills /\ swapped \in BOOLEAN /\ overtaken \in BOOLEAN

(* However the commands of two callers meet, a ticket has one agent started
   from it at a time, restarts and stale runs included.  Not so when the
   fallback investigator was replaced under a running agent, nor when an
   attempt of the workflow was projected beside one: its younger run, not
   yet in memory, then hides the agent from Start. *)
OneAgentPerTicket ==
  swapped \/ overtaken \/
    \A b \in Tickets : Cardinality({r \in Legacy : Alive(r) /\ runsFile[r].bug = b}) <= 1

(* When CancelBugInvestigation of an agent returns, the agent's process has
   ended and its run is recorded as ended. *)
CancelWaits ==
  [][ \A u \in Bindings : pending[u].pc = "cancel" /\ pending'[u].pc = "idle" /\ pending[u].run \in Legacy
        /\ kills' = kills
        => /\ ~Alive(pending[u].run)
           /\ runsFile[pending[u].run].status \in Terminal ]_investigationsVars

(* The end of a run is recorded once: no later step of anyone changes how it
   ended (unless an investigator that did not know the run gave it up). *)
EndedForGood ==
  [][ \A r \in Legacy : ~swapped /\ ~overtaken /\ runsFile[r].status \in Terminal
        => runsFile'[r] = runsFile[r] ]_investigationsVars

(* A run of a living agent is never recorded as ended by a command for the
   same ticket; only its own goroutine ends it. *)
LivingRunStays ==
  swapped \/ overtaken \/ \A r \in Legacy : Alive(r) => runsFile[r].status = "running"

(* All of it: a ticket has one agent, and the run of a living agent is ended,
   once, by this agent. *)
TicketHasOneAgent ==
  /\ [](TypeOK /\ LivingRunStays /\ OneAgentPerTicket)
  /\ CancelWaits
  /\ EndedForGood
=============================================================================
