------------------------------ MODULE McpProbe -------------------------------
(***************************************************************************)
(* The self-test of the MCP servers of a bot in OpenCode                   *)
(* (self_test_mcp_probe.go, and its caller probeOpenCodeMCP): each server  *)
(* is started, or its URL called, and asked to initialize and to list its  *)
(* tools within thirty seconds.  A server writes what it likes to its      *)
(* standard output: banners, notifications, requests of its own with the   *)
(* numbers that the probe uses; it may die, and it may be slow.            *)
(*                                                                         *)
(* A line that is no JSON and a notification are both passed over: number  *)
(* 0.  Session and protocol version of HTTP are left out.                  *)
(***************************************************************************)
EXTENDS Naturals, Sequences, FiniteSets

CONSTANTS
  Servers,   \* entries of the bot in OpenCode's settings
  Explore,   \* codegraph_explore
  Other,     \* another tool
  MaxLines,  \* bound: lines a server writes
  None

McpProbeAssumption == Explore # Other

Tools == {Explore, Other}

VARIABLES
  spec,     \* of each server, its entry: [kind, graph, kafka]
  pc,       \* of each server, where its probe is
  alive,    \* its process runs
  late,     \* its thirty seconds are over
  out,      \* what it wrote and nobody read
  written,  \* how many lines it wrote
  asked,    \* the requests it received
  verdict,  \* None, "PASS", "WARN" or "FAIL"
  report,   \* what probeOpenCodeMCP returns: "running", "ok" or "error"
  told,     \* the lists of tools it answered tools/list with (history)
  fault     \* it did something wrong (history)

world == <<spec, alive, late, out, written, asked, told, fault>>
vars == <<world, pc, verdict, report>>

(* probeOpenCodeMCP and the head of probeMCPServersFromConfig: what an entry is. *)
Kinds == {"disabled", "local", "local without command", "remote", "remote without url"}
Specs == [kind : Kinds, graph : BOOLEAN, kafka : BOOLEAN]

Line(n, answer, T) == [id |-> n, answer |-> answer, tools |-> T]
Lines ==
  {Line(n, "none", {}) : n \in 0..2} \cup {Line(n, "error", {}) : n \in 1..2}
    \cup {Line(1, "result", {})} \cup {Line(2, "result", T) : T \in SUBSET Tools}

Init ==
  /\ spec \in [Servers -> Specs]
  /\ pc = [s \in Servers |-> "idle"] /\ verdict = [s \in Servers |-> None]
  /\ alive = [s \in Servers |-> FALSE] /\ late = [s \in Servers |-> FALSE]
  /\ out = [s \in Servers |-> << >>] /\ written = [s \in Servers |-> 0]
  /\ asked = [s \in Servers |-> {}] /\ report = "running"
  /\ told = [s \in Servers |-> {}] /\ fault = [s \in Servers |-> FALSE]

-----------------------------------------------------------------------------
(* Mutant of Transient: a timeout is a failure like any other. *)
TransientNever(err) == FALSE

(* isTransientMCPProbeStartupTimeout. *)
Transient(err) == err = "timeout"

(* shouldWarnMCPProbeFailure: Kafka started, and its broker may be out of reach. *)
BrokerOnly(s, err) == spec[s].kafka /\ err \in {"read", "timeout"}

(* Mutant of Lacks: the tools of CodeGraph are counted, not read. *)
LacksNothing(s, T) == FALSE

(* isCodeGraphMCP, containsMCPTool: "CodeGraph has one tool that matters". *)
Lacks(s, T) == spec[s].graph /\ spec[s].kind = "local" /\ Explore \notin T

(* What the report says of a server whose probe ended with an error or with tools. *)
Judged(s, err, T) ==
  IF err # "" THEN IF Transient(err) \/ (spec[s].kind = "local" /\ BrokerOnly(s, err)) THEN "WARN" ELSE "FAIL"
  ELSE IF Lacks(s, T) THEN "FAIL"
  ELSE IF T = {} THEN "WARN" ELSE "PASS"

(* The probe of s ends: its process group is killed. *)
Ends(s, err, T) ==
  /\ pc' = [pc EXCEPT ![s] = "over"]
  /\ verdict' = [verdict EXCEPT ![s] = Judged(s, err, T)]
  /\ alive' = [alive EXCEPT ![s] = FALSE]
  /\ UNCHANGED report

Goes(s, to) == pc' = [pc EXCEPT ![s] = to] /\ UNCHANGED <<verdict, report>>
Wrong(s, yes) == fault' = [fault EXCEPT ![s] = @ \/ yes]

-----------------------------------------------------------------------------
(* A local entry without a command ends the test before any probe. *)
Missing ==
  /\ report = "running" /\ \A s \in Servers : pc[s] = "idle"
  /\ \E s \in Servers : spec[s].kind = "local without command"
  /\ report' = "error" /\ UNCHANGED <<world, pc, verdict>>

(* Every other entry that is enabled gets a probe of its own. *)
Begin(s) ==
  /\ pc[s] = "idle" /\ report = "running"
  /\ \A t \in Servers : spec[t].kind # "local without command"
  /\ UNCHANGED <<spec, late, out, written, asked, told>>
  /\ CASE spec[s].kind = "disabled" -> Goes(s, "over") /\ UNCHANGED <<alive, fault>>
       [] spec[s].kind = "remote without url" ->
            /\ pc' = [pc EXCEPT ![s] = "over"]
            /\ verdict' = [verdict EXCEPT ![s] = IF spec[s].graph THEN "FAIL" ELSE "WARN"]
            /\ Wrong(s, TRUE) /\ UNCHANGED <<alive, report>>
       [] spec[s].kind = "remote" -> Goes(s, "post initialize") /\ UNCHANGED <<alive, fault>>
       [] OTHER ->
            \/ Goes(s, "initialize") /\ alive' = [alive EXCEPT ![s] = TRUE] /\ UNCHANGED fault
            \/ Ends(s, "start", {}) /\ Wrong(s, TRUE)

(* writeJSONLine: initialize, or the notification, whose error is dropped, and
   tools/list.  A process that died may still be written to. *)
Request == [initialize |-> 1, list |-> 2]
Send(s) ==
  /\ pc[s] \in DOMAIN Request
  /\ UNCHANGED <<spec, late, out, written, told, fault>>
  /\ \/ /\ Goes(s, IF pc[s] = "list" THEN "read list" ELSE "read initialize")
        /\ asked' = [asked EXCEPT ![s] = @ \cup (IF alive[s] THEN {Request[pc[s]]} ELSE {})]
        /\ UNCHANGED alive
     \/ ~alive[s] /\ Ends(s, "send", {}) /\ UNCHANGED asked

(* readMCPResponse: "Only consume the result/error for the request we actually
   sent". *)
Answers(l, n) == l.id = n /\ l.answer # "none"

Read(s) ==
  LET n == IF pc[s] = "read list" THEN 2 ELSE 1
      l == Head(out[s])
  IN
  /\ pc[s] \in {"read initialize", "read list"} /\ out[s] # << >>
  /\ out' = [out EXCEPT ![s] = Tail(@)]
  /\ UNCHANGED <<spec, late, written, asked, told, fault>>
  /\ IF ~Answers(l, n) THEN UNCHANGED <<pc, alive, verdict, report>>
     ELSE IF l.answer = "error" THEN Ends(s, "rpc", {})
     ELSE IF n = 1 THEN Goes(s, "list") /\ UNCHANGED alive
     ELSE Ends(s, "", l.tools)

(* Nothing more comes: the end of the output, or of the time.  At the deadline
   the process is killed too, and a reader that was not waiting may see either. *)
Unanswered(s, err) ==
  /\ pc[s] \in {"read initialize", "read list"}
  /\ IF err = "timeout" THEN late[s] ELSE err = "read" /\ ~alive[s] /\ out[s] = << >>
  /\ Ends(s, err, {}) /\ UNCHANGED <<spec, late, out, written, asked, told, fault>>

(* doProbeMCPHTTPServer: one of the three calls and what comes of it.  "odd" is
   an object with neither a result nor an error, taken where no stream is sent. *)
Posts == {"post initialize", "post initialized", "post list"}
Post(s, reply, T) ==
  /\ pc[s] \in Posts
  /\ T # {} => pc[s] = "post list" /\ reply = "result"
  /\ pc[s] = "post initialized" => reply \in {"refused", "timeout", "result"}
  /\ UNCHANGED <<spec, late, out, written, asked>>
  /\ told' = [told EXCEPT ![s] = @ \cup (IF pc[s] = "post list" /\ reply = "result" THEN {T} ELSE {})]
  /\ Wrong(s, reply \in {"refused", "error"})
  /\ CASE reply = "timeout" -> Ends(s, "timeout", {})
       [] reply = "refused" -> Ends(s, "read", {})
       [] reply = "error" -> Ends(s, "rpc", {})
       [] pc[s] = "post list" -> Ends(s, "", T)
       [] OTHER -> /\ Goes(s, IF pc[s] = "post initialize" THEN "post initialized" ELSE "post list")
                   /\ UNCHANGED alive

(* After wg.Wait: whatever is not a PASS fails the installation. *)
Finish ==
  /\ report = "running" /\ \A s \in Servers : pc[s] = "over"
  /\ report' = IF \A s \in Servers : verdict[s] \in {None, "PASS"} THEN "ok" ELSE "error"
  /\ UNCHANGED <<world, pc, verdict>>

-----------------------------------------------------------------------------
(* A server answers only what it was asked; everything else it may say any time. *)
Speak(s, l) ==
  /\ alive[s] /\ written[s] < MaxLines
  /\ l.answer # "none" => l.id \in asked[s]
  /\ out' = [out EXCEPT ![s] = Append(@, l)] /\ written' = [written EXCEPT ![s] = @ + 1]
  /\ told' = [told EXCEPT ![s] = @ \cup (IF l.id = 2 /\ l.answer = "result" THEN {l.tools} ELSE {})]
  /\ Wrong(s, l.answer = "error")
  /\ UNCHANGED <<spec, pc, alive, late, asked, verdict, report>>

(* It dies, or is killed when its time is over. *)
Die(s) ==
  /\ alive[s] /\ alive' = [alive EXCEPT ![s] = FALSE] /\ Wrong(s, TRUE)
  /\ UNCHANGED <<spec, pc, late, out, written, asked, verdict, report, told>>

Deadline(s) ==
  /\ pc[s] \notin {"idle", "over"} /\ spec[s].kind = "local" /\ ~late[s]
  /\ late' = [late EXCEPT ![s] = TRUE]
  /\ UNCHANGED <<spec, pc, alive, out, written, asked, verdict, report, told, fault>>

Next ==
  \/ Missing \/ Finish
  \/ \E s \in Servers :
       \/ Begin(s) \/ Send(s) \/ Read(s) \/ Die(s) \/ Deadline(s)
       \/ \E err \in {"read", "timeout"} : Unanswered(s, err)
       \/ \E reply \in {"timeout", "refused", "error", "odd", "result"}, T \in SUBSET Tools : Post(s, reply, T)
       \/ \E l \in Lines : Speak(s, l)

Spec == Init /\ [][Next]_vars
-----------------------------------------------------------------------------
(* Nothing that a server said before it was asked, of its own accord or twice
   passes for its tools: when the test passes, each server that is enabled has
   itself listed tools in answer to tools/list, and CodeGraph its one tool. *)
ReadyIsProven ==
  report = "ok" =>
    \A s \in Servers : spec[s].kind # "disabled" =>
      /\ 2 \in asked[s] \/ spec[s].kind = "remote"
      /\ \E T \in told[s] : T # {} /\ ~(spec[s].graph /\ spec[s].kind = "local" /\ Explore \notin T)

(* "A timeout is a WARN, so that the state of this machine is not taken for a
   broken bot" (self_test_mcp_probe.go:419): who is called a failure did not start,
   died, refused, answered with an error or is CodeGraph without its tool. *)
FailIsEarned ==
  \A s \in Servers : verdict[s] = "FAIL" =>
    fault[s] \/ \E T \in told[s] : spec[s].graph /\ Explore \notin T

(* No server outlives its probe. *)
NothingRuns == report # "running" => \A s \in Servers : ~alive[s]
=============================================================================
