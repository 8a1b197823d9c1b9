------------------------------ MODULE FixRework -----------------------------
(***************************************************************************)
(* Changing an approved plan (workflow_reassessment.go,                    *)
(* workflow_root_cause_dispute.go): the user proposes another remediation, *)
(* rejects a pushed fix, or disputes the root cause.  Each opens a new     *)
(* investigation attempt, and what it is to do is written nowhere but in   *)
(* its input: the runner reads the kind of the attempt from it, the        *)
(* parser the locked root cause, a later fix the branch it must leave.     *)
(*                                                                         *)
(* One Case of one cycle, in a single repository.  An attempt's output is  *)
(* its root cause and plan, or its pushed branch.                          *)
(***************************************************************************)
EXTENDS Naturals, Sequences

CONSTANTS
  Causes,       \* root causes an investigation may come to
  Plans,        \* remediation plans
  Stems,        \* branch names without their -rework-v suffix
  Unset,
  MaxAttempts   \* bound: attempts of the Case

Branches == [stem : Stems, suffix : 0..(3 * MaxAttempts)]

(* Unset is neither an attempt nor the rework of a fix. *)
ASSUME FixReworkAssumption ==
  /\ MaxAttempts \in Nat \ {0}
  /\ Unset \notin Nat /\ Unset \notin [fix : Nat, left : Branches, suffix : Nat]

VARIABLES
  status,    \* incident_cases.status
  version,   \* incident_cases.version
  current,   \* incident_cases.current_attempt_id
  attempts,  \* phase_attempts in order of creation
  commands   \* transition_events by key: the Reconsider commands committed

reworkVars == <<status, version, current, attempts, commands>>

-----------------------------------------------------------------------------
Fresh == [assess |-> Unset, rework |-> Unset, dispute |-> Unset]

NewAttempt(phase, input, parent) ==
  [phase |-> phase, input |-> input, parent |-> parent, state |-> "running", out |-> Unset]

(* remediationReassessmentFromInput *)
Assessment(input) == input.assess

(* fixReworkFromInput *)
Rework(input) == input.rework

(* Mutant of ApprovedRework: the rework stays behind with the assessment. *)
ForgetRework(rootInput) == Fresh

(* withApprovedFixReworkContext: the fix inherits the branch to leave and the
   suffix to use. *)
ApprovedRework(rootInput) ==
  LET a == Assessment(rootInput)
  IN  IF a = Unset \/ a.fix = 0 THEN Fresh
      ELSE [Fresh EXCEPT !.rework = [fix |-> a.fix, left |-> a.left, suffix |-> a.suffix]]

(* Mutant of AcceptsBranch: the suffix is enough. *)
SuffixOnly(input, b) == Rework(input) # Unset => b.suffix = Rework(input).suffix

(* validateFixReworkResult *)
AcceptsBranch(input, b) ==
  LET r == Rework(input)
  IN  r # Unset => b.suffix = r.suffix /\ b # r.left

(* Mutant of AssessPlan: the assessment's answer is parsed as an ordinary
   investigation. *)
AssessAnew(input, cause, plan) == [cause |-> cause, plan |-> plan]

(* parseRemediationReassessmentResult, ParsePhaseResult: of the answer to a
   proposal only the plan counts; the rest of the result is the one kept in
   the input. *)
AssessPlan(input, cause, plan) ==
  LET a == Assessment(input)
  IN  IF a = Unset THEN [cause |-> cause, plan |-> plan]
      ELSE [a.previous EXCEPT !.plan = plan]

(* validateReassessmentRoot *)
IsRoot(a) ==
  a # 0 /\ attempts[a].phase = "investigation" /\ attempts[a].state = "succeeded" /\ attempts[a].out # Unset

(* validatedFixReworkSource *)
IsPushedFix(f, root) ==
  /\ f # 0 /\ attempts[f].phase = "fix" /\ attempts[f].state = "succeeded" /\ attempts[f].out # Unset
  /\ attempts[f].parent = root

Open(phase, input, parent, to, steps) ==
  /\ Len(attempts) < MaxAttempts
  /\ attempts' = Append(attempts, NewAttempt(phase, input, parent))
  /\ current' = Len(attempts) + 1
  /\ status' = to
  /\ version' = version + steps

-----------------------------------------------------------------------------
ReworkInit ==
  /\ status = "investigating" /\ version = 1 /\ current = 1 /\ commands = {}
  /\ attempts = <<NewAttempt("investigation", Fresh, 0)>>

(* buildRemediationReassessmentMutation: the proposal replaces an earlier one
   in the input of the root cause. *)
Propose(input, root, fix, at) ==
  [input EXCEPT !.assess =
     [source |-> root, previous |-> attempts[root].out, fix |-> fix,
      left |-> IF fix = 0 THEN Unset ELSE attempts[fix].out,
      suffix |-> IF fix = 0 THEN 0 ELSE at]]

(* ReconsiderRemediation: of a plan awaiting approval, or of a pushed fix
   awaiting its merge. *)
Reconsider(root, fix) ==
  /\ IsRoot(root)
  /\ \/ status = "waiting_fix_approval" /\ current = root /\ fix = 0
     \/ status = "waiting_merge_approval" /\ current = fix /\ IsPushedFix(fix, root)
  /\ commands' = commands \cup {[root |-> root, at |-> version, fix |-> fix, made |-> Len(attempts) + 1]}
  /\ Open("investigation", Propose(attempts[root].input, root, fix, version), root, "investigating", 1)

(* Mutant of Rebuilt: from the Case as it is now. *)
RebuiltNow(c) == Propose(attempts[c.root].input, c.root, c.fix, version)

(* replayRemediationReassessment: what a command sent again builds, to be
   compared with what was committed; Unset is a conflict. *)
Rebuilt(c) ==
  IF ~IsRoot(c.root) \/ (c.fix # 0 /\ ~IsPushedFix(c.fix, c.root)) THEN Unset
  ELSE Propose(attempts[c.root].input, c.root, c.fix, c.at)

(* Mutant of Disputed: the proposal stays in the input. *)
DisputedKept(input, root) == [input EXCEPT !.dispute = root]

(* buildRootCauseDisputeMutation: the reopened attempt must not look like
   another assessment of a plan. *)
Disputed(input, root) == [input EXCEPT !.assess = Unset, !.dispute = root]

(* DisputeRootCause: an audit step in the present status, then the reopening. *)
Dispute(root) ==
  /\ status = "waiting_fix_approval" /\ current = root /\ IsRoot(root)
  /\ Open("investigation", Disputed(attempts[root].input, root), root, "investigating", 2)
  /\ UNCHANGED commands

(* ApproveFix *)
ApproveFix(root) ==
  /\ status = "waiting_fix_approval" /\ current = root /\ IsRoot(root)
  /\ Open("fix", ApprovedRework(attempts[root].input), root, "fixing", 1)
  /\ UNCHANGED commands

(* ContinueWithEvidence: an investigation starts from what the user sends, a
   fix again from the input that was approved. *)
Continue ==
  /\ \/ status = "waiting_evidence" /\ Open("investigation", Fresh, current, "investigating", 1)
     \/ /\ status = "fix_failed"
        /\ Open("fix", attempts[current].input, attempts[current].parent, "fixing", 1)
  /\ UNCHANGED commands

Settle(out, state, to) ==
  /\ attempts' = [attempts EXCEPT ![current].out = out, ![current].state = state]
  /\ status' = to
  /\ version' = version + 1
  /\ UNCHANGED <<current, commands>>

(* CompleteAttempt of an investigation: a root cause, or none. *)
FinishInvestigation(cause, plan) ==
  /\ status = "investigating"
  /\ \/ Settle(AssessPlan(attempts[current].input, cause, plan), "succeeded", "waiting_fix_approval")
     \/ Settle(Unset, "failed", "waiting_evidence")

(* CompleteAttempt of a fix; validateFixReworkCompletion checks the branch once
   more against the input. *)
FinishFix(b) ==
  /\ status = "fixing"
  /\ \/ AcceptsBranch(attempts[current].input, b) /\ Settle(b, "succeeded", "waiting_merge_approval")
     \/ Settle(Unset, "failed", "fix_failed")

ReworkNext ==
  \/ \E root, fix \in 0..Len(attempts) : Reconsider(root, fix)
  \/ \E root \in 1..Len(attempts) : Dispute(root) \/ ApproveFix(root)
  \/ Continue
  \/ \E cause \in Causes, plan \in Plans : FinishInvestigation(cause, plan)
  \/ \E b \in [stem : Stems, suffix : {0, version + 1} \cup {c.at : c \in commands}] : FinishFix(b)

ReworkSpec == ReworkInit /\ [][ReworkNext]_reworkVars

-----------------------------------------------------------------------------
(* Properties. *)

ReworkTypeOK ==
  /\ status \in {"investigating", "waiting_evidence", "waiting_fix_approval", "fixing",
                 "fix_failed", "waiting_merge_approval"}
  /\ current \in 1..Len(attempts) /\ Len(attempts) <= MaxAttempts
  /\ \A a \in DOMAIN attempts :
       /\ attempts[a].state \in {"running", "succeeded", "failed"}
       /\ attempts[a].phase = "fix" => attempts[a].out \in Branches \cup {Unset}

(* The rejections of pushed fixes that still stand for attempt f: the chain of
   assessments it descends from begins at one. *)
RejectedFor(f) ==
  LET root == attempts[f].parent
      a == Assessment(attempts[root].input)
  IN  IF a = Unset THEN 0 ELSE a.fix

(* A user who rejects a pushed fix gets another branch: the fix approved on
   the assessment of the rejection, retried or not, never comes back with the
   branch that was rejected. *)
RejectedBranchLeft ==
  \A f \in DOMAIN attempts :
    (attempts[f].phase = "fix" /\ attempts[f].out # Unset /\ RejectedFor(f) # 0)
      => attempts[f].out # attempts[RejectedFor(f)].out

(* A proposal cannot rewrite the root cause: along assessments the cause is
   that of the investigation which found it, whatever the agent answered. *)
ProposalKeepsCause ==
  \A a \in DOMAIN attempts :
    LET r == Assessment(attempts[a].input)
    IN  (attempts[a].phase = "investigation" /\ attempts[a].out # Unset /\ r # Unset)
          => /\ attempts[a].out.cause = attempts[r.source].out.cause
             /\ r.source = attempts[a].parent

(* A disputed root cause is investigated again: the attempt opened by a
   dispute is no assessment, even when the disputed result came out of one. *)
DisputeInvestigates ==
  \A a \in DOMAIN attempts :
    (attempts[a].phase = "investigation" /\ attempts[a].input.dispute = attempts[a].parent
       /\ attempts[a].parent # 0)
      => Assessment(attempts[a].input) = Unset

(* A Reconsider command sent again, at whatever later time, builds the very
   input it was committed with: the repetition is recognised, never refused
   and never a second assessment. *)
RepetitionRecognised ==
  \A c \in commands : Rebuilt(c) = attempts[c.made].input

(* Rejected fixes and disputed causes: a rejected branch does not come back, an
   assessment keeps the cause it is about, a dispute looks at evidence anew, and
   a repeated command is recognised as the one committed. *)
ReworkKeepsCause ==
  ReworkTypeOK /\ RejectedBranchLeft /\ ProposalKeepsCause /\ DisputeInvestigates /\ RepetitionRecognised
=============================================================================
