----------------------------- MODULE AgentStream ----------------------------
(***************************************************************************)
(* How Studio reads what an agent's program prints while it works on a     *)
(* phase (codex_events.go, cursor_events.go, opencode_events.go and the    *)
(* loop of executePhaseCommand).  Each of the four programs has a stream   *)
(* of its own, and each lets text pass that is not yet, or never, the      *)
(* result: commentary before a tool, echoes of the prompt, progress        *)
(* markers.  A step reads one line; the last one is the end of the         *)
(* process.                                                                *)
(*                                                                         *)
(* A text is a sequence of messages: <<m>> is one message, << >> is blank. *)
(***************************************************************************)
EXTENDS Naturals, Sequences, SequencesExt, FiniteSets

CONSTANTS
  Messages,  \* what an agent may say
  Step,      \* a progress line of Studio's protocol
  MaxLines   \* bound: lines of a process

AgentStreamAssumption == Step \notin Messages /\ MaxLines \in Nat

VARIABLES
  agent,        \* whose program it is: bot.Target
  lines,        \* the lines it printed
  text,         \* the parser's lastMessage, lastAssistant or text
  finished,     \* OpenCode's parser has seen the confirming line
  sum,          \* the tokens OpenCode's parser has added up
  final,        \* result.FinalYAML
  terminal,     \* terminalFailure # ""
  recoverable,  \* recoverableFailure # ""
  usage,        \* result.Usage
  outcome       \* "starting", "running", then what ExecutePhase returns

parser == <<text, finished, sum>>
vars == <<agent, lines, text, finished, sum, final, terminal, recoverable, usage, outcome>>

Blank == << >>
Said == {<<m>> : m \in Messages}
Texts == Said \cup {<<Step>>}
ToolUse == <<"tool_use">>  \* a message of the assistant that only uses a tool

Line(kind, t) == [kind |-> kind, text |-> t, tokens |-> 0]
Kinds(K) == {Line(k, Blank) : k \in K}
Counted(l) == [l EXCEPT !.tokens = 1]

(* parsePhaseStepMessage: a marker of the fixed protocol. *)
IsStep(t) == t = <<Step>>

(* claudeMessageText: the text blocks of a message. *)
TextOf(l) == SelectSeq(l.text, LAMBDA b : b # ToolUse[1])

(* What the assistant said: Cursor's terminal result glues it together. *)
Spoken == FlattenSeq([i \in DOMAIN lines |->
            IF lines[i].kind = "assistant" THEN TextOf(lines[i]) ELSE Blank])

-----------------------------------------------------------------------------
(* The lines each program prints. *)
CodexLines ==
  Kinds({"turn.started", "turn.completed", "turn.failed", "error"}) \cup {Counted(Line("turn.completed", Blank))}
    \cup {Line("message", t) : t \in Texts} \cup {Line("begun", t) : t \in Said}

ClaudeLines ==
  {Line("assistant", t) : t \in Texts \cup {ToolUse}} \cup {Line("user", t) : t \in Said}
    \cup {Counted(Line("result", t)) : t \in Texts \cup {Blank}} \cup Kinds({"result error", "error"})

CursorLines ==
  {Line("assistant", t) : t \in Texts \cup {ToolUse}} \cup {Line("user", t) : t \in Said}
    \cup {Counted(Line("result", t)) : t \in Said \cup {Blank, Spoken}} \cup Kinds({"result error", "error"})

OpenCodeLines ==
  Kinds({"step_start", "error", "tool_use"}) \cup {Line("text", t) : t \in Texts}
    \cup {Counted(Line(k, Blank)) : k \in {"finish tool-calls", "finish stop", "finish length"}}

LinesOf(a) == CASE a = "codex" -> CodexLines [] a = "claude-code" -> ClaudeLines
                [] a = "cursor" -> CursorLines [] OTHER -> OpenCodeLines

-----------------------------------------------------------------------------
(* What a parser makes of a line: the event's type where anybody asks for it,
   the final text, whether it reports a failure, the tokens in what it passes
   on raw, and what it keeps. *)
Parsed(type, result, failed, kept) ==
  [type |-> type, final |-> result, failed |-> failed,
   text |-> kept, finished |-> finished, sum |-> sum, tokens |-> 0]
Passed == Parsed("", Blank, FALSE, text)
Failure(type) == Parsed(type, Blank, TRUE, text)

(* ParseCodexJSONLEvent: every line is passed on raw. *)
CodexEvent(l) ==
  LET type == CASE l.kind \in {"message", "begun"} -> IF IsStep(l.text) THEN "phase_step" ELSE "agent_message"
                [] l.kind = "turn.started" -> "turn_started"
                [] l.kind = "turn.completed" -> "turn_completed"
                [] l.kind = "turn.failed" -> "turn_failed"
                [] OTHER -> l.kind
  IN  [Parsed(type, Blank, type \in {"turn_failed", "error"}, text) EXCEPT !.tokens = l.tokens]

(* newCodexStreamJSONParser: "Only a completed turn can authorize its last message". *)
Codex(l) ==
  LET e == CodexEvent(l)
  IN  CASE e.type = "agent_message" /\ l.kind = "message" /\ l.text # Blank -> [e EXCEPT !.text = l.text]
        [] e.type = "turn_started" -> [e EXCEPT !.text = Blank]
        [] e.type = "turn_completed" -> [e EXCEPT !.final = text]
        [] OTHER -> e

(* ParseClaudeStreamJSONEvent. *)
Claude(l) ==
  LET e == CASE l.kind = "result" -> Parsed("result", l.text, FALSE, text)
             [] l.kind = "result error" -> Failure("result")
             [] l.kind = "error" -> Failure("error")
             [] OTHER -> Passed
  IN  [e EXCEPT !.tokens = l.tokens]

(* ParseCursorStreamJSONEvent: nothing is passed on raw. *)
CursorEvent(l) ==
  CASE l.kind = "assistant" -> IF IsStep(TextOf(l)) THEN Passed ELSE Parsed("agent_message", Blank, FALSE, text)
    [] l.kind = "result" -> Parsed("result", l.text, FALSE, text)
    [] l.kind = "result error" -> Failure("result")
    [] l.kind = "error" -> Failure("turn_failed")
    [] OTHER -> Passed

(* Mutant of Confirmed: the result as it comes. *)
ConfirmedGlued(t) == t

(* Cursor's result is all its messages in a row: the last one, where the
   result confirms it. *)
Confirmed(t) == IF t # Blank /\ text # Blank /\ IsSuffix(text, t) THEN text ELSE t

(* newCursorStreamJSONParser. *)
Cursor(l) ==
  LET e == CursorEvent(l)
  IN  CASE e.type = "agent_message" /\ TextOf(l) # Blank -> [e EXCEPT !.text = TextOf(l)]
        [] e.type = "result" /\ ~e.failed -> [e EXCEPT !.final = Confirmed(l.text)]
        [] OTHER -> e

(* Mutant of Spent: the tokens of this step alone. *)
SpentLast(p, l) == [p EXCEPT !.tokens = l.tokens]

Spent(p, l) == [p EXCEPT !.sum = sum + l.tokens, !.tokens = sum + l.tokens]

(* newOpenCodeStreamJSONParser: "text is provisional, step_finish/stop confirms it". *)
OpenCode(l) ==
  CASE l.kind = "error" -> Failure("turn_failed")
    [] l.kind = "step_start" ->
         IF finished THEN Failure("turn_failed") ELSE Parsed("thread_started", Blank, FALSE, Blank)
    [] l.kind = "text" -> Parsed(IF IsStep(l.text) THEN "phase_step" ELSE "agent_message", Blank, FALSE, l.text)
    [] l.kind = "finish tool-calls" -> Spent(Parsed("usage", Blank, FALSE, Blank), l)
    [] l.kind = "finish length" \/ (l.kind = "finish stop" /\ text = Blank) ->
         [Failure("turn_failed") EXCEPT !.sum = sum + l.tokens]
    [] l.kind = "finish stop" -> Spent([Parsed("result", text, FALSE, text) EXCEPT !.finished = TRUE], l)
    [] OTHER -> Passed

(* buildCommandLocked: each program has a parser, and no other is started. *)
Known == {"codex", "claude-code", "cursor", "opencode"}

Parse(l) == CASE agent = "codex" -> Codex(l) [] agent = "claude-code" -> Claude(l)
              [] agent = "cursor" -> Cursor(l) [] OTHER -> OpenCode(l)

-----------------------------------------------------------------------------
Init ==
  /\ agent \in Known \cup {"other"}
  /\ lines = << >> /\ outcome = "starting"
  /\ text = Blank /\ finished = FALSE /\ sum = 0
  /\ final = Blank /\ terminal = FALSE /\ recoverable = FALSE /\ usage = 0

(* Mutant of Fatal: every failure may be taken back. *)
FatalNever(p) == FALSE

Fatal(p) == p.failed /\ p.type \in {"turn_failed", "result"}

(* Mutant of Heals: what failed stays failed. *)
HealsNever(p, done) == FALSE

(* updateAgentCommandFailure: a terminal success takes back what the stream
   reported before, never an explicit failure. *)
Heals(p, done) == ~terminal /\ done # Blank /\ p.type \in {"turn_completed", "result"} /\ ~p.failed

(* ExecutePhase: the command is built and its process started, or the phase ends. *)
Start ==
  /\ outcome = "starting" /\ outcome' \in {"running", "failed", "cancelled"}
  /\ agent \notin Known => outcome' = "failed"
  /\ UNCHANGED <<agent, lines, parser, final, terminal, recoverable, usage>>

(* mergeUsageFromRaw: the most that a line tells, of input and output alike. *)
Used(p) == IF p.tokens > usage THEN p.tokens ELSE usage

(* One line of standard output. *)
Read ==
  \E l \in LinesOf(agent) :
    LET p == Parse(l)
        done == IF p.final # Blank THEN p.final ELSE final
    IN  /\ outcome = "running" /\ Len(lines) < MaxLines
        /\ lines' = Append(lines, l)
        /\ text' = p.text /\ finished' = p.finished /\ sum' = p.sum
        /\ usage' = Used(p)
        /\ final' = done
        /\ terminal' = (terminal \/ Fatal(p))
        /\ recoverable' = ((recoverable \/ (p.failed /\ ~Fatal(p))) /\ ~Heals(p, done))
        /\ UNCHANGED <<agent, outcome>>

(* The end: a cancelled phase, a line no buffer holds, an exit code. *)
End(cancelled, unread, exit) ==
  /\ outcome = "running"
  /\ outcome' = IF cancelled THEN "cancelled"
                ELSE IF terminal \/ unread \/ recoverable \/ exit # 0 \/ final = Blank THEN "failed"
                ELSE "done"
  /\ terminal' = (terminal \/ unread)
  /\ UNCHANGED <<agent, lines, parser, final, recoverable, usage>>

Next ==
  \/ Start
  \/ Read
  \/ \E cancelled, unread \in BOOLEAN, exit \in {0, 1} : End(cancelled, unread, exit)

Spec == Init /\ [][Next]_vars

-----------------------------------------------------------------------------
(* The same told by the lines alone, whatever the parsers keep. *)
Before(i, K) == {j \in 1..(i - 1) : lines[j].kind \in K}
LastOf(S) == CHOOSE i \in S : \A j \in S : j <= i

(* The text that line i confirms as a result; blank where it confirms none. *)
CodexConfirms(i) ==
  LET said == {j \in Before(i, {"message"}) :
                 lines[j].text # <<Step>> /\ \A k \in Before(i, {"turn.started"}) : k < j}
  IN  IF lines[i].kind = "turn.completed" /\ said # {} THEN lines[LastOf(said)].text ELSE Blank

OpenCodeConfirms(i) ==
  LET said == {j \in Before(i, {"text"}) :
                 \A k \in Before(i, {"step_start", "finish tool-calls"}) : k < j}
  IN  IF lines[i].kind = "finish stop" /\ said # {} THEN lines[LastOf(said)].text ELSE Blank

CursorConfirms(i) ==
  LET said == {j \in Before(i, {"assistant"}) : lines[j].text \notin {<<Step>>, ToolUse}}
      last == IF said = {} THEN Blank ELSE lines[LastOf(said)].text
  IN  IF lines[i].kind # "result" THEN Blank
      ELSE IF last # Blank /\ IsSuffix(last, lines[i].text) THEN last ELSE lines[i].text

Confirms(i) ==
  CASE agent = "codex" -> CodexConfirms(i)
    [] agent = "opencode" -> OpenCodeConfirms(i)
    [] agent = "cursor" -> CursorConfirms(i)
    [] OTHER -> IF lines[i].kind = "result" THEN lines[i].text ELSE Blank

Confirming == {i \in DOMAIN lines : Confirms(i) # Blank}

Failed == {"turn.failed", "result error", "finish length"}
Succeeded == {"turn.completed", "result"}

(* Where the stream reported an error, a success of the same process came
   after it, with a result in hand. *)
Healed == \A i \in DOMAIN lines : lines[i].kind = "error" =>
            /\ agent \in {"codex", "claude-code"}
            /\ \E j \in DOMAIN lines : /\ j > i /\ lines[j].kind \in Succeeded
                                      /\ \E k \in Confirming : k <= j

(* A phase that succeeded hands on what the program confirmed last: no
   commentary, no echo of the prompt, nothing of a turn that was abandoned,
   and of Cursor's glued messages only the last. *)
ResultIsConfirmed ==
  outcome = "done" => Confirming # {} /\ final = Confirms(LastOf(Confirming))

(* "Explicit terminal failures remain fatal even if malformed output
   follows" (codex_runner.go:1443), and an error nothing healed fails the
   phase, however the process ends. *)
NoFailureHidden ==
  outcome = "done" => (\A i \in DOMAIN lines : lines[i].kind \notin Failed) /\ Healed

(* A program that lost its connection for a while and then finished has not
   failed: its result is not discarded (codex_runner.go:1439-1442).  OpenCode
   reports no passing errors. *)
GoodEndSucceeds ==
  [][(/\ End(FALSE, FALSE, 0) /\ Confirming # {} /\ Healed
      /\ agent # "opencode" /\ \A i \in DOMAIN lines : lines[i].kind \notin Failed)
       => outcome' = "done"]_vars

(* The tokens of an OpenCode phase are those of all its steps; Codex and Claude
   tell the total themselves, and Cursor's are not known. *)
UsageIsTotal ==
  outcome = "done" =>
    LET told == {i \in DOMAIN lines : lines[i].tokens = 1}
    IN  usage = CASE agent = "opencode" -> Cardinality(told)
                  [] agent = "cursor" -> 0
                  [] OTHER -> Cardinality({lines[i].tokens : i \in told})
=============================================================================
