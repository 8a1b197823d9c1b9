------------------------ MODULE InvestigationEvidence ------------------------
(***************************************************************************)
(* What an investigation is given to read                                  *)
(* (workflow_investigation_evidence.go): artifacts that the user uploaded, *)
(* named by their identity, and references that an older request or a      *)
(* dispute quotes.  Each is bound to the attempts of this investigation or *)
(* compared with its row, read, and copied into the staging directory;     *)
(* the manifest of all of them comes last.  A step reads or writes one     *)
(* artifact.                                                               *)
(*                                                                         *)
(* Attempt Own investigates.  Rows of attempts and artifacts never change, *)
(* their files may be lost or changed at any time.                         *)
(***************************************************************************)
EXTENDS Naturals, Sequences, FiniteSets

CONSTANTS
  Own,       \* the attempt that investigates, the youngest of 1..Own
  MaxFaults  \* bound: reads and writes that fail

InvestigationEvidenceAssumption == Own \in Nat \ {0} /\ MaxFaults \in Nat

AttemptIds == 1..Own

VARIABLES
  attempt,   \* the rows of the attempts: [case, cycle, parent], parent 0 = none
  artifact,  \* the rows of two artifacts: [attempt, env, typed], env "" = not known
  input,     \* the request: [legacy, uploads, dispute]; uploads names artifact 1,
             \* the others quote artifact 2 as references [artifact, same]
  pc,        \* "bind", "write", then what came of it: "none", "given" or "failed"
  evidence,  \* manifest.Evidence
  files,     \* the copies in the staging directory
  manifest,  \* the manifest file: "none", "partial" or "whole"
  faults

rows == <<attempt, artifact, input>>
vars == <<rows, pc, evidence, files, manifest, faults>>

(* A parent is older, of the same Case, and of this cycle or an earlier one. *)
Families ==
  {f \in [AttemptIds -> [case : 1..2, cycle : 1..2, parent : 0..(Own - 1)]] :
     /\ f[Own].case = 1
     /\ \A a \in AttemptIds : LET p == f[a].parent IN
          p # 0 => p < a /\ f[p].case = f[a].case /\ f[p].cycle <= f[a].cycle}

(* An upload of any attempt, and what is quoted of the Case. *)
Rows ==
  {r \in [1..2 -> [attempt : AttemptIds, env : {"", "own", "other"}, typed : BOOLEAN]] :
     r[2] = [attempt |-> Own, env |-> "own", typed |-> TRUE]}

Quotations == {<< >>, <<[artifact |-> 2, same |-> TRUE]>>, <<[artifact |-> 2, same |-> FALSE]>>}
Inputs == [legacy : Quotations, uploads : {<< >>, <<1>>}, dispute : Quotations]
Quoted == input.legacy \o input.dispute

(* The references of an older request are in the manifest from the start. *)
Init ==
  /\ attempt \in Families /\ artifact \in Rows /\ input \in Inputs
  /\ pc = "bind" /\ evidence = input.legacy /\ files = << >> /\ manifest = "none" /\ faults = 0

-----------------------------------------------------------------------------
Fault == faults < MaxFaults /\ faults' = faults + 1
Fail == pc' = "failed" /\ UNCHANGED <<rows, evidence, files>>

(* ReadEvidenceArtifactFromRoot: an artifact of another Case is not read. *)
Readable(a) == attempt[artifact[a].attempt].case = attempt[Own].case

(* Mutant of Current: the cycle is not compared. *)
CurrentCase(p) == attempt[p].case = attempt[Own].case

Current(p) == attempt[p].case = attempt[Own].case /\ attempt[p].cycle = attempt[Own].cycle

(* The attempts that the walk from parent to parent meets: it ends where there
   is no parent and at the first attempt of another Case or cycle. *)
Met ==
  LET walk[n \in 0..Own] ==
        IF n = 0 THEN {Own}
        ELSE walk[n - 1] \cup {p \in {attempt[a].parent : a \in walk[n - 1]} \ {0} : Current(p)}
  IN  walk[Own]

Belongs(a) == artifact[a].attempt \in Met /\ artifact[a].env \in {"", "own"}

(* An uploaded artifact is read and bound; its reference is its row. *)
Bind ==
  LET i == Len(evidence) - Len(input.legacy) + 1 IN
  /\ pc = "bind" /\ i <= Len(input.uploads)
  /\ UNCHANGED manifest
  /\ \/ Fault /\ Fail
     \/ /\ UNCHANGED faults
        /\ IF Readable(input.uploads[i]) /\ Belongs(input.uploads[i])
           THEN /\ evidence' = Append(evidence, [artifact |-> input.uploads[i], same |-> TRUE])
                /\ UNCHANGED <<rows, pc, files>>
           ELSE Fail

(* What the dispute quotes is added as it is, and the directory for the copies
   is made. *)
Quote ==
  /\ pc = "bind" /\ Len(evidence) = Len(input.legacy) + Len(input.uploads)
  /\ UNCHANGED manifest
  /\ LET all == evidence \o input.dispute IN
       \/ /\ pc' = IF all = << >> THEN "none" ELSE "write"
          /\ evidence' = all /\ UNCHANGED <<rows, files, faults>>
       \/ all # << >> /\ Fault /\ Fail

(* Mutant of Matches: what is quoted is not compared with the row. *)
MatchesAny(r) == TRUE

(* Every field of the reference is that of the row. *)
Matches(r) == r.same

(* The copy, which must not be there yet; a write that fails may leave a part. *)
Write ==
  LET r == evidence[Len(files) + 1] IN
  /\ pc = "write" /\ Len(files) < Len(evidence)
  /\ UNCHANGED manifest
  /\ \/ Fault /\ Fail
     \/ /\ UNCHANGED faults
        /\ IF Readable(r.artifact) /\ Matches(r) /\ artifact[r.artifact].typed
           THEN files' = Append(files, r.artifact) /\ UNCHANGED <<rows, pc, evidence>>
           ELSE Fail

(* Mutant of Publish: the manifest names what was bound, copied or not. *)
PublishEarly ==
  /\ pc = "write" /\ pc' = "given" /\ manifest' = "whole"
  /\ UNCHANGED <<rows, evidence, files, faults>>

(* The manifest, and the section of the prompt that points to it. *)
Publish ==
  /\ pc = "write" /\ Len(files) = Len(evidence)
  /\ \/ pc' = "given" /\ manifest' = "whole" /\ UNCHANGED <<rows, evidence, files, faults>>
     \/ Fault /\ Fail /\ manifest' \in {"none", "partial"}

Next == Bind \/ Quote \/ Write \/ Publish

Spec == Init /\ [][Next]_vars
-----------------------------------------------------------------------------
(* Every set of attempts that has Own and, with an attempt, its parent of the same
   Case and cycle has a: the same told without a walk. *)
Ancestor(a) ==
  \A S \in SUBSET AttemptIds :
    /\ Own \in S
    /\ \A x \in S : LET p == attempt[x].parent IN
         p # 0 /\ attempt[p].case = attempt[Own].case /\ attempt[p].cycle = attempt[Own].cycle => p \in S
    => a \in S

(* An agent is never given an upload of another Case, cycle, branch of attempts
   or environment, nor a quotation that no longer is what it quotes ("supplied
   evidence no longer matches its durable investigation binding"). *)
EvidenceIsOwn ==
  pc = "given" =>
    /\ \A i \in DOMAIN input.uploads : LET a == artifact[input.uploads[i]] IN
         Ancestor(a.attempt) /\ a.env # "other"
    /\ \A i \in DOMAIN Quoted : Quoted[i].same

(* Whoever is pointed to the manifest finds in it, and beside it, all that was
   supplied; what fails on the way is never half given, and supplied evidence is
   never silently left out. *)
ManifestIsWhole ==
  /\ pc = "given" => /\ manifest = "whole" /\ Len(files) = Len(evidence)
                     /\ Len(evidence) = Len(input.uploads) + Len(Quoted)
                     /\ \A i \in DOMAIN files : files[i] = evidence[i].artifact
  /\ pc = "none" => input.uploads = << >> /\ Quoted = << >>
  /\ manifest = "whole" => pc = "given"
=============================================================================
