-------------------------- MODULE MCMergeAndPhase --------------------------
(***************************************************************************)
(* Small instances for TLC of what has to end in a Case, side by side:     *)
(* each behaviour is one of the component that part names, the other one   *)
(* rests.                                                                  *)
(*                                                                         *)
(*   merge   one approval after the other, a branch and its baseline       *)
(*           (MergeWorkflow)                                               *)
(*   phase   two attempts of one Case beside another (PhaseWorkflow)       *)
(***************************************************************************)
EXTENDS MergeWorkflow

VARIABLES
  part,  \* the component that this behaviour is of
  s1, s2, s3, s4, s5, s6, s7, s8, s9, s10, s11, s12, s13, s14, s15, s16, s17, s18, s19, s20, s21,
  s22, s23, s24, s25, s26, s27  \* the variables of PhaseWorkflow

slots == <<s1, s2, s3, s4, s5, s6, s7, s8, s9, s10, s11, s12, s13, s14, s15, s16, s17, s18, s19,
           s20, s21, s22, s23, s24, s25, s26, s27>>
partVars == <<part, vars, slots>>

CONSTANTS a1, a2

Phases == INSTANCE PhaseWorkflow WITH
  Cases <- {1, 2}, Attempts <- {a1, a2}, CaseOf <- [a \in {a1, a2} |-> 1], NoAttempt <- None,
  status <- s1, version <- s2, current <- s3, phase <- s4, parent <- s5, astatus <- s6,
  output <- s7, claim <- s8, checkpoint <- s9, approved <- s10, inspected <- s11,
  manifest <- s12, pushed <- s13, orphan <- s14, up <- s15, serving <- s16, initErr <- s17,
  gate <- s18, worker <- s19, begun <- s20, seen <- s21, cancelled <- s22, cancelling <- s23,
  recovering <- s24, todo <- s25, recErr <- s26, recoveryStarted <- s27

ASSUME Phases!PhaseWorkflowAssumption

PartInit ==
  /\ part \in {"merge", "phase"}
  /\ Init /\ (part = "phase" => clash = [b \in Branches |-> FALSE])
  /\ Phases!Init

InMerge(A) == part = "merge" /\ A
InPhase(A) == part = "phase" /\ A
MergeStep(A) == InMerge(A) /\ UNCHANGED <<part, slots>>
PhaseStep(A) == InPhase(A) /\ UNCHANGED <<part, vars>>

PartNext == MergeStep(Next) \/ PhaseStep(Phases!Next)

(* The fairness of each component's specification; of MergeWorkflow's less is
   enough, a remote need not take a push.  The part never changes, so strong
   fairness of "a step of one or a step of the other" is that of each. *)
PartFairness ==
  /\ WF_vars(InMerge(Restart)) /\ WF_vars(InMerge(RecoverMerge))
  /\ WF_vars(InMerge(NothingToRecover))
  /\ \A t \in Threads :
       WF_vars(InMerge(Merging(t))) /\ WF_vars(InMerge(t \in Commands /\ ReserveMerge(t)))
  /\ WF_slots(InPhase(Phases!Restart)) /\ WF_slots(InPhase(Phases!BeginRecovery))
  /\ WF_slots(InPhase(Phases!EndRecovery))
  /\ \A a \in {a1, a2} :
       /\ WF_slots(InPhase(Phases!Scheduling(a))) /\ WF_slots(InPhase(Phases!Running(a)))
       /\ WF_slots(InPhase(Phases!Recovery(a)))
       /\ SF_slots(InPhase(Phases!RecoverIntent(a)))
       /\ \A t \in IF a = a1 THEN Commands ELSE {Pass} :
            SF_partVars(PhaseStep(Phases!RecoverFix(a)) \/ MergeStep(Resume(t)))

PartSpec == PartInit /\ [][PartNext]_partVars /\ PartFairness
-----------------------------------------------------------------------------
(* PhaseWorkflow's: under fairness, once the process stays up every running
   attempt settles. *)
RunningAttemptsSettle == Phases!RunningAttemptsSettle
=============================================================================
