----------------------------- MODULE MCCaseParts -----------------------------
(***************************************************************************)
(* Small instances for TLC of the merge of a fix and of what lies beneath  *)
(* the workflow of a Case: components that do not meet, side by side.      *)
(* Each behaviour is one of the component that part names.  The modules    *)
(* extended here bring variables of their own; the others share s1, s2,    *)
(* ..., and those that a component does not use are None.                  *)
(*                                                                         *)
(*   race       two approvals, one repository without a baseline           *)
(*   repos      one approval, two repositories (both MergeWorkflow)        *)
(*   attempt    an attempt in the phase runner (AttemptRun)                *)
(*   results    what is made of an agent's last message (PhaseResults)     *)
(*   stream     what is made of its output (AgentStream)                   *)
(*   evidence   what an investigation is given (InvestigationEvidence)     *)
(*   rework     rejected fixes and disputed causes (FixRework)             *)
(*   workspace  the workspace of a fix in two repositories (FixWorkspace)  *)
(*   staging    the staging directory of a fix (StagingDirectory)          *)
(*   opening    two instances open one database (StoreOpening)             *)
(***************************************************************************)
EXTENDS FixRework, FixWorkspace, StoreOpening, AttemptRun, TLC

CONSTANTS u1, u2, u3, x1, x2, r1, a1, Pass

Symmetry == Permutations({u1, u2})

(* Two repositories get directories of their own, or one name for both. *)
Directories == {[r \in {x1, x2} |-> 1], (x1 :> 1) @@ (x2 :> 2)}

(* The branch of x2 is never chosen. *)
Asked == {q \in AllRequests : q.repos # {x2} /\ (x2 \in DOMAIN q.asked => q.asked[x2] = "")}
Judged == AllVerdicts

(* StoreOpening: both runs are of one ticket. *)
ThisTicket == [r \in {1, 2} |-> 1]

VARIABLES
  part,  \* the component that this behaviour is of
  s1, s2, s3, s4, s5, s6, s7, s8, s9, s10, s11, s12, s13, s14  \* its variables

slots == <<s1, s2, s3, s4, s5, s6, s7, s8, s9, s10, s11, s12, s13, s14>>
vars == <<part, slots, reworkVars, workspaceVars, openingVars, attemptVars>>

Race == INSTANCE MergeWorkflow WITH
  Repos <- {1}, Dual <- {}, Commands <- {u1, u2}, MaxHead <- 1, MaxVersion <- 2, status <- s1,
  version <- s2, approvals <- s3, events <- s4, commit <- s5, head <- s6, fixed <- s7,
  clash <- s8, studio <- s9, worktree <- s10, up <- s11, serving <- s12, mutex <- s13,
  run <- s14

Two == INSTANCE MergeWorkflow WITH
  Repos <- {1, 2}, Dual <- {1}, Commands <- {u3}, MaxHead <- 1, MaxVersion <- 2, status <- s1,
  version <- s2, approvals <- s3, events <- s4, commit <- s5, head <- s6, fixed <- s7,
  clash <- s8, studio <- s9, worktree <- s10, up <- s11, serving <- s12, mutex <- s13,
  run <- s14

Reports == INSTANCE PhaseResults WITH
  MaxLines <- 4, part <- s1, report <- s2, stored <- s3, again <- s4

Stream == INSTANCE AgentStream WITH
  Messages <- {x1}, Step <- x2, MaxLines <- 4, agent <- s1, lines <- s2, text <- s3,
  finished <- s4, sum <- s5, final <- s6, terminal <- s7, recoverable <- s8, usage <- s9,
  outcome <- s10

Evidence == INSTANCE InvestigationEvidence WITH
  Own <- 3, MaxFaults <- 1, attempt <- s1, artifact <- s2, input <- s3, pc <- s4,
  evidence <- s5, files <- s6, manifest <- s7, faults <- s8

Staging == INSTANCE StagingDirectory WITH
  Attempts <- {a1}, Dirs <- {x1, x2}, Inodes <- {1}, MaxStamp <- 3, MaxPasses <- 2,
  MaxMoves <- 1, MaxCrashes <- 1, name <- s1, made <- s2, used <- s3, holds <- s4, node <- s5,
  status <- s6, run <- s7, sweep <- s8, captured <- s9, moves <- s10, crashes <- s11

ASSUME
  /\ Race!MergeAssumption
  /\ AttemptRunAssumption
  /\ Reports!PhaseResultsAssumption
  /\ Stream!AgentStreamAssumption
  /\ Evidence!InvestigationEvidenceAssumption
  /\ Staging!StagingAssumption
  /\ StoreOpeningAssumption

SlotsInit ==
  \/ part = "race" /\ Race!Init
  \/ part = "repos" /\ Two!Init
  \/ part = "results" /\ Reports!Init
     /\ s5 = None /\ s6 = None /\ s7 = None /\ s8 = None /\ s9 = None /\ s10 = None /\ s11 = None
     /\ s12 = None /\ s13 = None /\ s14 = None
  \/ part = "stream" /\ Stream!Init
     /\ s11 = None /\ s12 = None /\ s13 = None /\ s14 = None
  \/ part = "evidence" /\ Evidence!Init
     /\ s9 = None /\ s10 = None /\ s11 = None /\ s12 = None /\ s13 = None /\ s14 = None
  \/ part = "staging" /\ Staging!StagingInit
     /\ s12 = None /\ s13 = None /\ s14 = None
  \/ part \in {"rework", "workspace", "opening", "attempt"}
     /\ s1 = None /\ s2 = None /\ s3 = None /\ s4 = None /\ s5 = None /\ s6 = None /\ s7 = None
     /\ s8 = None /\ s9 = None /\ s10 = None /\ s11 = None /\ s12 = None /\ s13 = None
     /\ s14 = None

(* A component that is not the behaviour's own rests in one of its initial states. *)
Resting == CHOOSE d \in Databases :
  /\ d.version = workflowStoreSchemaVersion
  /\ \A r \in Resets : d.audit[r] = "none" /\ d.bound[r]

Init ==
  /\ SlotsInit
  /\ part = "opening" \/ (db = Resting /\ file = [runs |-> Nowhere, partial |-> FALSE])
  /\ part = "attempt" \/ setting = CHOOSE x \in Settings : TRUE
  /\ OpeningInit /\ AttemptInit /\ ReworkInit
  /\ WorkspaceInit /\ (part # "workspace" => \A r, q \in Repos : Dir[r] = Dir[q] => r = q)

Next ==
  /\ UNCHANGED part
  /\ part # "rework" => UNCHANGED reworkVars
  /\ part # "workspace" => UNCHANGED workspaceVars
  /\ part # "opening" => UNCHANGED openingVars
  /\ part # "attempt" => UNCHANGED attemptVars
  /\ CASE part = "race" -> Race!Next
       [] part = "repos" -> Two!Next
       [] part = "results" -> Reports!Next /\ UNCHANGED <<s5, s6, s7, s8, s9, s10, s11, s12, s13, s14>>
       [] part = "stream" -> Stream!Next /\ UNCHANGED <<s11, s12, s13, s14>>
       [] part = "evidence" -> Evidence!Next /\ UNCHANGED <<s9, s10, s11, s12, s13, s14>>
       [] part = "staging" -> Staging!StagingNext /\ UNCHANGED <<s12, s13, s14>>
       [] part = "rework" -> ReworkNext /\ UNCHANGED slots
       [] part = "workspace" -> WorkspaceNext /\ UNCHANGED slots
       [] part = "opening" -> OpeningNext /\ UNCHANGED slots
       [] part = "attempt" -> AttemptNext /\ UNCHANGED slots

Spec == Init /\ [][Next]_vars
-----------------------------------------------------------------------------
(* What each component promises: its own properties, under the names they have in
   its module; P!1 is the action [A]_v of a property P == [][A]_v.  What the
   extended modules promise is stated there: ReworkKeepsCause (FixRework),
   FixStartsWhereApproved (FixWorkspace), OpenedStoreIsWhole (StoreOpening) and AttemptIsEarned (AttemptRun). *)

(* The merge of a fix (MergeWorkflow): whatever approvals, replays, crashes and
   the pushes of others meet, no branch gets the merge twice, every status
   change is in the transition table, baselines come before targets, and a
   submitted Case is merged in every repository. *)
MergeIsKept ==
  /\ [](part = "repos" => Two!SubmittedIsMerged)
  /\ [][ /\ part = "race" => Race!PushedOnce!1 /\ Race!MergeWalksTable!1
         /\ part = "repos" => Two!BaselinesFirst!1 ]_vars

(* What an agent is given, and what is made of its output, of its last message and
   of what it leaves behind (InvestigationEvidence, AgentStream, PhaseResults,
   StagingDirectory): evidence is given whole, and only what belongs to the
   investigation; the result is a text that the agent confirmed by its end, no
   failure that it reported is hidden by what follows, an end in order succeeds,
   the tokens of all turns are counted; a stored report reads the same again, a
   settled one has no gap and no claim stronger than its evidence, the payload of
   a pushed fix is what the agent put out and covers every repository, one of
   several blocks is the report, and its commits are a line on the locked base
   (FixWorkspace); a captured file is one version of it, and neither a cleanup
   nor the sweep at the start takes the directory of a living attempt or one
   that was put in its place. *)
ReportIsProven ==
  /\ [](/\ part = "evidence" => Evidence!EvidenceIsOwn /\ Evidence!ManifestIsWhole
        /\ part = "stream" =>
            /\ Stream!ResultIsConfirmed
            /\ Stream!NoFailureHidden
            /\ Stream!UsageIsTotal
        /\ part = "results" =>
            /\ Reports!RereadSame
            /\ Reports!GateIsProven
            /\ Reports!NoStrongerClaim
            /\ Reports!PayloadIsOutput
            /\ Reports!PushedIsCovered
            /\ Reports!OneReport
        /\ part = "workspace" => AcceptedIsLinear
        /\ part = "staging" => Staging!CaptureIsWhole)
  /\ [][ /\ part = "stream" => Stream!GoodEndSucceeds!1
         /\ part = "staging" => Staging!LivingStagingStays!1 /\ Staging!ReplacedStays!1 ]_vars
=============================================================================
