----------------------------- MODULE CaseStatus -----------------------------
(***************************************************************************)
(* The statuses of an incident Case and the table of the transitions that  *)
(* the store lets a mutation take (internal/bughub/workflow_transition.go  *)
(* and workflow_types.go), with the two maps from the phase of an attempt  *)
(* to a status.  Constant-level: every other module shares it.             *)
(***************************************************************************)

(* A Case identity that no mutation has created yet is "absent". *)
Absent == "absent"

Status == { "pending_investigation", "waiting_evidence", "investigating",
            "root_cause_ready", "waiting_fix_approval", "waiting_remediation",
            "fixing", "fix_failed", "fix_pushed", "waiting_merge_approval",
            "merging", "merge_conflict", "submitted", "remediation_recorded",
            "reset_archived" }

IsTerminalCaseStatus(s) ==
    s \in {"submitted", "remediation_recorded", "reset_archived"}

(* allowedCaseTransitions: reset archives every status that is not terminal. *)
AllowedCaseTransitions ==
    { <<"pending_investigation", "investigating">>,
      <<"waiting_evidence", "investigating">>,
      <<"investigating", "root_cause_ready">>,
      <<"investigating", "waiting_evidence">>,
      <<"root_cause_ready", "waiting_fix_approval">>,
      <<"root_cause_ready", "waiting_remediation">>,
      <<"waiting_fix_approval", "investigating">>,
      <<"waiting_fix_approval", "fixing">>,
      <<"waiting_remediation", "investigating">>,
      <<"waiting_remediation", "remediation_recorded">>,
      <<"fixing", "fix_pushed">>,
      <<"fixing", "fix_failed">>,
      <<"fix_failed", "fixing">>,
      <<"fix_pushed", "waiting_merge_approval">>,
      <<"waiting_merge_approval", "investigating">>,
      <<"waiting_merge_approval", "merging">>,
      <<"merging", "submitted">>,
      <<"merging", "merge_conflict">>,
      <<"merging", "waiting_merge_approval">>,
      <<"merge_conflict", "waiting_merge_approval">> }
    \cup { <<s, "reset_archived">> :
             s \in { t \in Status : ~IsTerminalCaseStatus(t) } }

CanTransition(from, to) == <<from, to>> \in AllowedCaseTransitions

Phase == {"investigation", "fix"}

StatusForPhase(p) == IF p = "fix" THEN "fixing" ELSE "investigating"

FailureStateForPhase(p) == IF p = "fix" THEN "fix_failed" ELSE "waiting_evidence"

-----------------------------------------------------------------------------

(***************************************************************************)
(* One mutation may take several steps of the table and commits only the   *)
(* last status.  The statuses below are only ever passed through.          *)
(***************************************************************************)
PassedThrough == {"root_cause_ready", "fix_pushed"}

(* The status changes one mutation can commit. *)
Walk(from, to) ==
    \/ CanTransition(from, to) /\ to \notin PassedThrough
    \/ \E via \in PassedThrough :
          CanTransition(from, via) /\ CanTransition(via, to) /\ to # "reset_archived"
    \/ /\ from = "investigating"           \* an interrupted attempt and its retry
       /\ to = "investigating"
=============================================================================
