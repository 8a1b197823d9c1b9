----------------------------- MODULE PhaseResults ---------------------------
(***************************************************************************)
(* What Studio makes of an agent's final report (workflow_phase_runner.go, *)
(* workflow_fix.go).  A report is decoded and judged when the attempt      *)
(* ends, its encoding is stored, and the stored result is judged again     *)
(* when the user approves it, perhaps by a later version of Studio; a      *)
(* completion command is judged once more before it is made durable.  A    *)
(* step is one of these readings; the reports are all those the bounds     *)
(* allow.                                                                  *)
(*                                                                         *)
(* A text is "" (blank), "ok" or, where its size is limited, "huge".       *)
(***************************************************************************)
EXTENDS Integers, Sequences, FiniteSets

CONSTANT MaxLines   \* bound: lines of a final message

PhaseResultsAssumption == MaxLines \in Nat

VARIABLES
  part,    \* which of the readings: "message", "plan", "hops", "fix"
  report,  \* what the agent sent
  stored,  \* what was made of it; NoResult is an error
  again    \* what is made of the stored result, or of the command, later

vars == <<part, report, stored, again>>

NoResult == [rejected |-> TRUE]
Unread == [read |-> FALSE]

-----------------------------------------------------------------------------
(* decodeStrictYAML, on the lines of a message: "step" is a progress line,
   "open" and "close" are the fences of a block, "sep" starts a document. *)
Tokens == {"step", "prose", "open", "close", "yaml", "sep"}
Messages == UNION {[1..n -> Tokens] : n \in 0..MaxLines}

Fences(d) == Cardinality({i \in DOMAIN d : d[i] \in {"open", "close"}})
Ends(d, t) == d # <<>> /\ d[Len(d)] = t

StripSteps(d) ==
  LET body == {i \in DOMAIN d : d[i] # "step"}
  IN  IF body = {} THEN <<>> ELSE SubSeq(d, CHOOSE i \in body : \A j \in body : i <= j, Len(d))

(* Mutant of DropSummary: of several blocks the last is taken. *)
DropToLast(d) ==
  LET opens == {i \in DOMAIN d : d[i] = "open"}
  IN  IF Ends(d, "close") /\ opens # {}
      THEN SubSeq(d, CHOOSE i \in opens : \A j \in opens : j <= i, Len(d)) ELSE d

(* A summary before the one fenced block is dropped. *)
DropSummary(d) ==
  LET opens == {i \in DOMAIN d : i > 1 /\ d[i] = "open"}
  IN  IF Ends(d, "close") /\ Fences(d) = 2 /\ opens # {}
      THEN SubSeq(d, CHOOSE i \in opens : TRUE, Len(d)) ELSE d

DropFence(d) ==
  IF Len(d) > 1 /\ d[1] = "open" /\ Ends(d, "close") THEN SubSeq(d, 2, Len(d) - 1) ELSE d

Decode(d) ==
  LET s == StripSteps(d)
      e == DropFence(DropSummary(s))
  IN  e = <<"yaml">> \/ e = <<"sep", "yaml">>

-----------------------------------------------------------------------------
(* validateRemediationPlan *)
Required(type) ==
  CASE type = "code" -> "code_change"
    [] type \in {"data", "configuration", "infrastructure", "network"} -> "operator_action"
    [] type = "external_dependency" -> "external_recovery"
    [] type = "transient" -> "observe_only"
    [] OTHER -> "none"

(* Mutant of ValidPlan: the mode need not fit the type. *)
ValidPlanAnyMode(type, plan) ==
  /\ plan.text = "ok"
  /\ plan.mode = "operator_action" => plan.rollback = "ok"
  /\ plan.rollback # "huge"

ValidPlan(type, plan) ==
  /\ plan.mode = Required(type)
  /\ plan.text = "ok"
  /\ plan.mode = "operator_action" => plan.rollback = "ok"
  /\ plan.rollback # "huge"
  /\ \A i, j \in DOMAIN plan.repos : plan.repos[i] # "" /\ (plan.repos[i] = plan.repos[j] => i = j)
  /\ plan.mode # "code_change" => plan.repos = <<>>

LegacyPlan(r) == [mode |-> "code_change", text |-> r.cause, rollback |-> "", repos |-> <<>>]

(* What the fields of a hop prove. *)
Located(h) == h.repo /\ h.revision /\ h.evidence
Mapped(h) == Located(h) /\ h.file /\ h.line > 0

(* Mutant of Precision: the first line of a file is no line. *)
PrecisionEager(h) ==
  IF h.precision = "source_mapped" /\ Mapped(h) /\ h.line > 1 THEN "source_mapped"
  ELSE IF h.precision \in {"source_mapped", "deployed_revision"} /\ Located(h) THEN "deployed_revision"
  ELSE IF h.precision \in {"source_mapped", "deployed_revision"} /\ h.evidence THEN "static_candidate"
  ELSE IF ~h.evidence /\ h.precision # "exact" THEN "unavailable"
  ELSE h.precision

(* normalizeInvestigationCallChainPrecision, of one hop. *)
Precision(h) ==
  IF h.precision = "source_mapped" /\ Mapped(h) THEN "source_mapped"
  ELSE IF h.precision \in {"source_mapped", "deployed_revision"} /\ Located(h) THEN "deployed_revision"
  ELSE IF h.precision \in {"source_mapped", "deployed_revision"} /\ h.evidence THEN "static_candidate"
  ELSE IF h.precision \in {"source_mapped", "deployed_revision", "runtime_verified", "static_candidate"}
            /\ ~h.evidence THEN "unavailable"
  ELSE h.precision

ValidHop(h) ==
  /\ h.named
  /\ h.precision \in {"source_mapped", "deployed_revision", "static_candidate", "runtime_verified", "unavailable"}
  /\ h.line >= 0
  /\ h.precision = "source_mapped" => Mapped(h)
  /\ h.precision = "deployed_revision" => Located(h)
  /\ h.precision \in {"runtime_verified", "static_candidate"} => h.evidence

(* Mutant of OpenGaps: what an old report left open is not carried over. *)
OwnGaps(r) == r.gaps

(* The gaps of old reports' validation phase count as gaps. *)
OpenGaps(r) == r.gaps \cup r.legacyGaps

Normalised(r) ==
  LET hops == [i \in DOMAIN r.hops |-> [r.hops[i] EXCEPT !.precision = Precision(r.hops[i])]]
  IN  [r EXCEPT !.hops = hops, !.gaps = OpenGaps(r), !.legacyGaps = {},
                !.unchecked = r.unchecked \cup (IF hops # r.hops THEN {"downgraded"} ELSE {})]

(* A premature terminal declaration becomes a request for evidence. *)
Tentative(r) == r.confidence # "high" \/ r.gaps # {}

(* Mutant of Settled: an old report keeps its unchecked scopes. *)
SettledOld(r) ==
  IF r.status # "root_cause_ready" THEN r
  ELSE IF Tentative(r)
  THEN [r EXCEPT !.status = "insufficient_info",
                 !.gaps = IF r.gaps = {} THEN {"confidence"} ELSE r.gaps]
  ELSE IF r.type = "" /\ r.plan.mode = ""
  THEN [r EXCEPT !.type = "code", !.plan = LegacyPlan(r)]
  ELSE [r EXCEPT !.unchecked = {}]

Settled(r) ==
  IF r.status # "root_cause_ready" THEN r
  ELSE IF Tentative(r)
  THEN [r EXCEPT !.status = "insufficient_info",
                 !.gaps = IF r.gaps = {} THEN {"confidence"} ELSE r.gaps]
  ELSE IF r.type = "" /\ r.plan.mode = ""
  THEN [r EXCEPT !.type = "code", !.plan = LegacyPlan(r), !.unchecked = {}]
  ELSE [r EXCEPT !.unchecked = {}]

(* ParseInvestigationResult *)
ParseInvestigation(r) ==
  LET s == Settled(Normalised(r))
  IN  IF /\ r.status \in {"root_cause_ready", "insufficient_info"}
         /\ r.status = "root_cause_ready" => r.cause # ""
         /\ r.environment # "" /\ r.confidence \in {"high", "medium", "low"}
         /\ s.status = "root_cause_ready" => ValidPlan(s.type, s.plan)
         /\ Len(s.hops) <= 64 /\ \A i \in DOMAIN s.hops : ValidHop(s.hops[i])
      THEN s ELSE NoResult

(* validatedRootCauseResult: what an approval accepts of a stored result. *)
Approvable(s) ==
  LET r == ParseInvestigation(s)
  IN  r # NoResult /\ r.status = "root_cause_ready" /\ r.confidence = "high" /\ r.gaps = {}

-----------------------------------------------------------------------------
(* ParseFixResult, for a result whose other fields are there. *)
Of(s, repo) == SelectSeq(s, LAMBDA t : t.repo = repo)
BranchOf(f, repo) == CHOOSE b \in {f.branches[i] : i \in DOMAIN f.branches} : b.repo = repo
ReposOf(s) == {s[i].repo : i \in DOMAIN s}

(* Mutant of ValidPushed: tests may be of any commit. *)
ValidPushedLax(f) ==
  /\ f.branches # <<>>
  /\ \A i \in DOMAIN f.branches : f.branches[i].complete
  /\ ReposOf(f.changes) = ReposOf(f.branches) /\ ReposOf(f.tests) = ReposOf(f.branches)

(* validateFixedPushedResult *)
ValidPushed(f) ==
  /\ f.branches # <<>>
  /\ \A i, j \in DOMAIN f.branches :
       /\ f.branches[i].complete /\ f.branches[i].branch \notin {"source", "environment"}
       /\ f.branches[i].repo = f.branches[j].repo => i = j
  /\ ReposOf(f.changes) = ReposOf(f.branches)
  /\ \A i \in DOMAIN f.tests :
       /\ f.tests[i].repo \in ReposOf(f.branches)
       /\ f.tests[i].commit = BranchOf(f, f.tests[i].repo).commit
       /\ f.tests[i].result \in {"passed", "skipped with a reason"}
  /\ ReposOf(f.tests) = ReposOf(f.branches)

ParseFix(f) ==
  IF \/ f.status = "fixed_pushed" /\ ValidPushed(f)
     \/ f.status \in {"blocked", "failed"} /\ f.blocked # ""
  THEN f ELSE NoResult

(* ParsePhaseResult: the completion command of a fix. *)
Command(f) ==
  [outcome |-> IF f.status = "fixed_pushed" THEN "fix_pushed" ELSE "fix_failed",
   output |-> f,
   changes |-> IF f.status # "fixed_pushed" THEN <<>>
               ELSE [i \in DOMAIN f.branches |->
                       [repo |-> f.branches[i].repo, branch |-> f.branches[i].branch,
                        commit |-> f.branches[i].commit, pushed |-> TRUE,
                        tests |-> Of(f.tests, f.branches[i].repo)]]]

(* Mutant of ValidPayload: only the repositories are compared. *)
ValidPayloadRepos(c) ==
  IF c.outcome # "fix_pushed" THEN c.changes = <<>>
  ELSE ParseFix(c.output) # NoResult /\ ReposOf(c.changes) = ReposOf(c.output.branches)

(* validateFixCompletionPayload *)
ValidPayload(c) ==
  IF c.outcome # "fix_pushed" THEN c.changes = <<>>
  ELSE /\ c.changes # <<>>
       /\ ParseFix(c.output) # NoResult /\ c.output.status = "fixed_pushed"
       /\ Len(c.changes) = Len(c.output.branches)
       /\ \A i, j \in DOMAIN c.changes : c.changes[i].repo = c.changes[j].repo => i = j
       /\ \A i \in DOMAIN c.changes :
            LET x == c.changes[i]
            IN  /\ x.repo \in ReposOf(c.output.branches)
                /\ x.branch = BranchOf(c.output, x.repo).branch
                /\ x.commit = BranchOf(c.output, x.repo).commit /\ x.pushed
                /\ x.tests = Of(c.output.tests, x.repo)

(* Commands that claim something else than their output. *)
Tampered(c) ==
  LET n == Len(c.changes)
  IN  {c, [c EXCEPT !.outcome = "fix_failed"], [c EXCEPT !.outcome = "fix_pushed"], [c EXCEPT !.changes = <<>>]}
      \cup UNION {{[c EXCEPT !.changes[i].branch = "g"], [c EXCEPT !.changes[i].commit = 2],
                   [c EXCEPT !.changes[i].pushed = FALSE], [c EXCEPT !.changes[i].tests = <<>>],
                   [c EXCEPT !.changes[i].repo = "r2"],
                   [c EXCEPT !.changes = SubSeq(c.changes, 1, n - 1)],
                   [c EXCEPT !.changes = Append(c.changes, c.changes[i])]} : i \in 1..n}

-----------------------------------------------------------------------------
(* The reports within the bounds. *)
Seqs(S, n) == UNION {[1..k -> S] : k \in 0..n}
NoHop == <<>>
SomePlans == [mode : {"", "code_change", "operator_action", "observe_only"}, text : {"", "ok", "huge"},
              rollback : {"", "ok", "huge"}, repos : {<<>>, <<"r1">>, <<"r1", "r1">>}]
GoodPlan == [mode |-> "code_change", text |-> "ok", rollback |-> "", repos |-> <<"r1">>]
Hops == [named : BOOLEAN, precision : {"source_mapped", "deployed_revision", "static_candidate",
           "runtime_verified", "unavailable", "exact"},
         repo : BOOLEAN, revision : BOOLEAN, file : BOOLEAN, evidence : BOOLEAN, line : {-1, 0, 1}]
Investigations ==
  [status : {"root_cause_ready", "insufficient_info", "done"}, cause : {"", "ok", "huge"},
   environment : {"", "test"}, confidence : {"high", "low", "sure"},
   gaps : {{}, {"g"}}, legacyGaps : {{}, {"v"}}, unchecked : {{}, {"u"}}]
Investigated(base, type, plan, hops) ==
  [status |-> base.status, cause |-> base.cause, environment |-> base.environment,
   confidence |-> base.confidence, gaps |-> base.gaps, legacyGaps |-> base.legacyGaps,
   unchecked |-> base.unchecked, type |-> type, plan |-> plan, hops |-> hops]
Usual == [status |-> "root_cause_ready", cause |-> "ok", environment |-> "test", confidence |-> "high",
          gaps |-> {}, legacyGaps |-> {}, unchecked |-> {"u"}]
Fixes ==
  [status : {"fixed_pushed", "blocked", "done"}, blocked : {""},
   branches : Seqs({b \in [repo : {"r1", "r2"}, branch : {"f", "source"}, commit : {1}, complete : BOOLEAN] :
                      b.branch = "f" \/ b.complete}, 2),
   changes : Seqs([repo : {"r1", "r2"}], 2),
   tests : Seqs({t \in [repo : {"r1", "r2"}, commit : {1, 2}, result : {"passed", "failed"}] :
                   t.commit = 1 \/ t.result = "passed"}, 2)]

Init ==
  /\ stored = Unread /\ again = Unread
  /\ \/ part = "message" /\ report \in Messages
     \/ part = "plan" /\ \E base \in Investigations, type \in {"", "code", "data", "transient", "odd"}, plan \in {GoodPlan, [GoodPlan EXCEPT !.mode = ""]} :
          report = Investigated(base, type, plan, NoHop)
     \/ part = "plan" /\ \E type \in {"", "code", "data", "transient", "odd"}, plan \in SomePlans :
          report = Investigated(Usual, type, plan, NoHop)
     \/ part = "hops" /\ \E h \in Hops, status \in {"root_cause_ready", "insufficient_info"} :
          report = Investigated([Usual EXCEPT !.status = status], "code", GoodPlan, <<h>>)
     \/ part = "fix" /\ report \in Fixes

(* The attempt ends. *)
Read ==
  /\ stored = Unread
  /\ stored' = CASE part = "message" -> [rejected |-> ~Decode(report)]
                 [] part = "fix" -> IF ParseFix(report) = NoResult THEN NoResult ELSE Command(report)
                 [] OTHER -> ParseInvestigation(report)
  /\ UNCHANGED <<part, report, again>>

(* Its stored result is read again, or a command about it comes in. *)
ReadAgain ==
  /\ stored # Unread /\ stored # NoResult /\ again = Unread /\ part # "message"
  /\ IF part = "fix" THEN \E c \in Tampered(stored) : again' = [command |-> c, ok |-> ValidPayload(c)]
                     ELSE again' = ParseInvestigation(stored)
  /\ UNCHANGED <<part, report, stored>>

Next == Read \/ ReadAgain

Spec == Init /\ [][Next]_vars

-----------------------------------------------------------------------------
(* Properties. *)

IsInvestigation == part \in {"plan", "hops"} /\ stored \notin {Unread, NoResult}

(* A result that was stored is read the same at every later time: normalising
   it again changes nothing and refuses nothing, so what the user approves is
   what the attempt reported. *)
RereadSame == (IsInvestigation /\ again # Unread) => again = stored

(* Nothing passes the remediation gate unproven: a stored result is ready only
   with high confidence, no gap of the present or of a removed phase, and a
   plan whose mode fits the cause; anything else asks for evidence and says
   what is missing. *)
GateIsProven ==
  IsInvestigation =>
    /\ Approvable(stored) <=> stored.status = "root_cause_ready"
    /\ stored.status = "root_cause_ready" =>
         /\ report.confidence = "high" /\ report.gaps = {} /\ report.legacyGaps = {}
         /\ stored.plan.mode = Required(stored.type)
    /\ (stored.status = "insufficient_info" /\ report.status = "root_cause_ready") => stored.gaps # {}

Rank == [unavailable |-> 0, runtime_verified |-> 1, static_candidate |-> 1, deployed_revision |-> 2, source_mapped |-> 3]

(* A stored hop claims no location its fields do not prove, and less than the
   agent claimed only when they do not. *)
NoStrongerClaim ==
  IsInvestigation =>
    \A i \in DOMAIN stored.hops :
      LET h == stored.hops[i]
          said == report.hops[i].precision
      IN  /\ Rank[h.precision] <= Rank[said]
          /\ Rank[h.precision] = 3 => h.file /\ h.line > 0
          /\ Rank[h.precision] >= 2 => h.repo /\ h.revision
          /\ Rank[h.precision] >= 1 => h.evidence
          /\ h.precision # said => ~ValidHop(report.hops[i])

(* The command derived from a report is accepted, and of the commands about
   its output no other is, but for a failure that claims no changes. *)
PayloadIsOutput ==
  (part = "fix" /\ again # Unread) =>
    (again.ok <=> \/ again.command.changes = Command(again.command.output).changes
                       /\ again.command.outcome = Command(again.command.output).outcome
                  \/ again.command.outcome # "fix_pushed" /\ again.command.changes = <<>>)

(* A pushed fix covers exactly its repositories: each with one branch of its
   own, a change, and a test or an explained skip of the very commit pushed. *)
PushedIsCovered ==
  (part = "fix" /\ stored \notin {Unread, NoResult} /\ stored.outcome = "fix_pushed") =>
    /\ Len(report.branches) = Cardinality(ReposOf(report.branches)) /\ report.branches # <<>>
    /\ \A i \in DOMAIN stored.changes :
         LET x == stored.changes[i]
         IN  /\ x.branch # "source" /\ x.tests # <<>> /\ x.repo \in ReposOf(report.changes)
             /\ \A k \in DOMAIN x.tests : x.tests[k].commit = x.commit /\ x.tests[k].result # "failed"
    /\ ReposOf(report.tests) \cup ReposOf(report.changes) \subseteq ReposOf(report.branches)

(* The form of a final message, as a grammar: progress lines, then the report
   alone, or one fenced report with any summary before it. *)
Report(d) == d = <<"yaml">> \/ d = <<"sep", "yaml">>
Grammatical(d) ==
  \E k \in 0..Len(d) :
    /\ \A i \in 1..k : d[i] = "step"
    /\ LET e == SubSeq(d, k + 1, Len(d))
       IN  \/ Report(e)
           \/ \E o \in DOMAIN e :
                /\ e[o] = "open" /\ Ends(e, "close") /\ o < Len(e)
                /\ \A i \in 1..(o - 1) : e[i] \notin {"open", "close"}
                /\ Report(SubSeq(e, o + 1, Len(e) - 1))

(* A message is read as a report when and only when it holds exactly one, with
   nothing after it. *)
OneReport == (part = "message" /\ stored # Unread) => (stored.rejected <=> ~Grammatical(report))
=============================================================================
