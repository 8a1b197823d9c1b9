------------------------------- MODULE FixProofs -------------------------------
(***************************************************************************)
(* Proofs about FixRework, for every set of causes, plans and branches and *)
(* every number of attempts, and about FixWorkspace, for every set of      *)
(* repositories, requests and attempts, every way the directory names come *)
(* out, and every bound.                                                   *)
(*                                                                         *)
(* Rework: what a fix has to leave and what an assessment has to keep is   *)
(* copied from input to input, so the properties rest on what the copies   *)
(* say of the attempts they were made from.  ReworkInv states that of      *)
(* every attempt when it is opened: its assessment quotes a root cause and *)
(* a pushed fix, its rework is the one its root cause was assessed with.   *)
(* Both stay true because an attempt that succeeded never changes.         *)
(*                                                                         *)
(* Workspace: that a locked commit is fresh rests on the tracking ref: it  *)
(* is between the tip when the preparation began and the tip now from the  *)
(* fetch on, whoever else fetches.  That a lease covers the approval rests *)
(* on what is left: the repositories still to prepare, the one in hand and *)
(* those bound are always the approved ones.  WorkspaceInv pairs the three *)
(* with the directories on disk.                                           *)
(*                                                                         *)
(* The last section is about PlatformSession, for every number of          *)
(* callers, sessions and polls of the browser.                             *)
(***************************************************************************)
EXTENDS FixRework, FixWorkspace, PlatformSession, SequenceTheorems, TLAPS

USE FixReworkAssumption

Answers == [cause : Causes, plan : Plans]
Reworks == [fix : Nat, left : Branches, suffix : Nat]
Assessments ==
  [source : Nat, previous : Answers, fix : Nat, left : Branches \cup {Unset}, suffix : Nat]
Inputs ==
  [assess : Assessments \cup {Unset}, rework : Reworks \cup {Unset}, dispute : Nat \cup {Unset}]
AttemptRecords ==
  [phase : {"investigation", "fix"}, input : Inputs, parent : Nat,
   state : {"running", "succeeded", "failed"}, out : Answers \cup Branches \cup {Unset}]

Running == {"investigating", "fixing"}

(* The Case is on its newest attempt, which runs while its status says so. *)
CaseFits ==
  /\ attempts \in Seq(AttemptRecords)
  /\ Len(attempts) <= MaxAttempts /\ current = Len(attempts) /\ current \in Nat \ {0}
  /\ status \in Running \cup {"waiting_evidence", "waiting_fix_approval", "fix_failed",
                              "waiting_merge_approval"}
  /\ status \in Running => attempts[current].state = "running"
  /\ status = "investigating" => attempts[current].phase = "investigation"
  /\ status \in {"fixing", "fix_failed"} => attempts[current].phase = "fix"
  /\ version \in Nat
  /\ version + 2 <= 3 * Len(attempts) + (IF status \in Running THEN 0 ELSE 1)

(* An assessment quotes the result of its root cause, and the branch of the *)
(* pushed fix that it rejects.                                              *)
Quotes(a) ==
  LET r == attempts[a].input.assess IN
    r # Unset =>
      /\ r.source \in 1..(a - 1) /\ IsRoot(r.source) /\ r.previous = attempts[r.source].out
      /\ r.fix # 0 => /\ r.fix \in 1..(a - 1) /\ IsPushedFix(r.fix, r.source)
                      /\ r.left = attempts[r.fix].out

(* What the kind of an attempt means for its input and its output.         *)
InvestigationFits(a) ==
  LET i == attempts[a] IN
    /\ i.out \in Answers \cup {Unset}
    /\ i.input.dispute # Unset => i.input.dispute \in 1..(a - 1)
    /\ i.input.assess # Unset =>
         /\ i.input.assess.source = i.parent
         /\ i.input.dispute # i.parent
         /\ i.out # Unset => i.out.cause = i.input.assess.previous.cause

FixFits(a) ==
  LET f == attempts[a] IN
    /\ f.out \in Branches \cup {Unset}
    /\ f.parent \in 1..(a - 1) /\ IsRoot(f.parent)
    /\ f.input = ApprovedRework(attempts[f.parent].input)
    /\ f.out # Unset => AcceptsBranch(f.input, f.out)

AttemptFits(a) ==
  /\ Quotes(a)
  /\ attempts[a].phase = "investigation" => InvestigationFits(a)
  /\ attempts[a].phase = "fix" => FixFits(a)

(* A committed command names a root cause and a pushed fix, and the attempt *)
(* that it opened got what it asks for.                                     *)
CommandFits(c) ==
  /\ c.root \in 1..Len(attempts) /\ c.made \in 1..Len(attempts) /\ c.fix \in 0..Len(attempts)
  /\ c.at \in Nat /\ c.at <= version
  /\ IsRoot(c.root) /\ (c.fix # 0 => IsPushedFix(c.fix, c.root))
  /\ attempts[c.made].input = Propose(attempts[c.root].input, c.root, c.fix, c.at)

ReworkInv ==
  /\ CaseFits
  /\ \A a \in 1..Len(attempts) : AttemptFits(a)
  /\ \A c \in commands : CommandFits(c)

-----------------------------------------------------------------------------
(***************************************************************************)
(* What an attempt that succeeded says never changes.                      *)
(***************************************************************************)

(* Attempts are added, and what was settled of the earlier ones stays.     *)
Keeps ==
  /\ Len(attempts) <= Len(attempts')
  /\ \A a \in 1..Len(attempts) :
       /\ attempts'[a].input = attempts[a].input
       /\ attempts'[a].phase = attempts[a].phase
       /\ attempts'[a].parent = attempts[a].parent
       /\ attempts[a].state = "succeeded" => attempts'[a] = attempts[a]

LEMMA ReferencesStay ==
  ASSUME CaseFits, Keeps, NEW root \in 1..Len(attempts), IsRoot(root)
  PROVE  /\ IsRoot(root)' /\ attempts'[root] = attempts[root]
         /\ \A f \in 1..Len(attempts) : IsPushedFix(f, root) =>
               IsPushedFix(f, root)' /\ attempts'[f] = attempts[f]
BY DEF IsRoot, IsPushedFix, Keeps, CaseFits

LEMMA RowTypes ==
  ASSUME CaseFits, NEW a \in 1..Len(attempts)
  PROVE  attempts[a] \in AttemptRecords /\ attempts[a].input \in Inputs
<1>1. attempts[a] \in AttemptRecords
  BY DEF CaseFits
<1>2. QED
  BY <1>1 DEF AttemptRecords

(* An attempt that a step leaves as it is still fits.                      *)
LEMMA QuotesStay ==
  ASSUME CaseFits, Keeps, NEW a \in 1..Len(attempts), Quotes(a)
  PROVE  Quotes(a)'
<1> DEFINE r == attempts[a].input.assess
<1>1. SUFFICES ASSUME r # Unset  PROVE Quotes(a)'
  BY DEF Keeps, Quotes
<1>2. r.source \in 1..Len(attempts) /\ IsRoot(r.source) /\ attempts'[a].input.assess = r
  BY <1>1 DEF Keeps, Quotes, CaseFits
<1>3. r.fix # 0 => r.fix \in 1..Len(attempts) /\ IsPushedFix(r.fix, r.source)
  BY <1>1 DEF Quotes, CaseFits
<1>4. QED
  BY <1>1, <1>2, <1>3, ReferencesStay DEF Quotes

LEMMA UnchangedStaysFit ==
  ASSUME CaseFits, Keeps, NEW a \in 1..Len(attempts), AttemptFits(a), attempts'[a] = attempts[a]
  PROVE  AttemptFits(a)'
<1>1. Quotes(a)'
  BY QuotesStay DEF AttemptFits
<1>2. attempts[a].phase = "investigation" => InvestigationFits(a)'
  BY DEF AttemptFits, InvestigationFits
<1>3. ASSUME attempts[a].phase = "fix"  PROVE FixFits(a)'
  <2>1. FixFits(a) /\ attempts[a].parent \in 1..Len(attempts) /\ IsRoot(attempts[a].parent)
    BY <1>3 DEF AttemptFits, FixFits, CaseFits
  <2>2. QED
    BY <2>1, ReferencesStay DEF FixFits
<1>4. QED
  BY <1>1, <1>2, <1>3 DEF AttemptFits

LEMMA CommandStays ==
  ASSUME CaseFits, Keeps, NEW c, CommandFits(c), version \in Nat, version' \in Nat,
         version <= version'
  PROVE  CommandFits(c)'
<1>1. /\ IsRoot(c.root)' /\ attempts'[c.root] = attempts[c.root]
      /\ c.fix # 0 => IsPushedFix(c.fix, c.root)' /\ attempts'[c.fix] = attempts[c.fix]
  BY ReferencesStay DEF CommandFits, CaseFits
<1>2. /\ c.root \in 1..Len(attempts') /\ c.made \in 1..Len(attempts') /\ c.fix \in 0..Len(attempts')
      /\ c.at \in Nat /\ c.at <= version'
  BY DEF CommandFits, Keeps, CaseFits
<1>3. attempts'[c.made].input = attempts[c.made].input
  BY DEF CommandFits, Keeps
<1>4. attempts'[c.made].input = Propose(attempts[c.root].input, c.root, c.fix, c.at)'
  BY <1>1, <1>3 DEF CommandFits, Propose
<1>5. QED
  BY <1>1, <1>2, <1>4 DEF CommandFits

-----------------------------------------------------------------------------
(***************************************************************************)
(* The steps.                                                              *)
(***************************************************************************)

(* Opening an attempt from a settled Case, whose input fits.               *)
LEMMA OpenKeepsInv ==
  ASSUME ReworkInv, status \notin Running,
         NEW phase \in {"investigation", "fix"}, NEW input \in Inputs, NEW parent \in Nat,
         NEW steps \in {1, 2},
         Open(phase, input, parent, IF phase = "fix" THEN "fixing" ELSE "investigating", steps),
         AttemptFits(Len(attempts))',
         \A c \in commands' \ commands : CommandFits(c)'
  PROVE  ReworkInv'
<1> DEFINE n == Len(attempts)
           new == NewAttempt(phase, input, parent)
<1>1. attempts \in Seq(AttemptRecords) /\ n \in Nat
  BY DEF ReworkInv, CaseFits
<1>2. new \in AttemptRecords
  BY DEF NewAttempt, AttemptRecords
<1>3. /\ attempts' \in Seq(AttemptRecords) /\ Len(attempts') = n + 1
      /\ attempts'[n + 1] = new
      /\ \A a \in 1..n : attempts'[a] = attempts[a]
  BY <1>1, <1>2 DEF Open
<1>4. Keeps
  BY <1>1, <1>3 DEF Keeps
<1>5. CaseFits'
  <2>1. /\ n < MaxAttempts /\ current' = n + 1
        /\ status' = IF phase = "fix" THEN "fixing" ELSE "investigating"
        /\ version' = version + steps
    BY DEF Open
  <2>2. attempts'[current'].state = "running" /\ attempts'[current'].phase = phase
    BY <1>3, <2>1 DEF NewAttempt
  <2>3. version \in Nat /\ version + 2 <= 3 * n + 1
    BY DEF ReworkInv, CaseFits
  <2>4. version' + 2 <= 3 * Len(attempts')
    BY <1>1, <1>3, <2>1, <2>3
  <2>5. status' \in Running /\ version' \in Nat /\ n + 1 <= MaxAttempts /\ n + 1 \in Nat \ {0}
    BY <1>1, <2>1, <2>3 DEF Running
  <2>6. QED
    BY <1>3, <2>1, <2>2, <2>4, <2>5 DEF CaseFits, Running
<1>6. ASSUME NEW a \in 1..Len(attempts')  PROVE AttemptFits(a)'
  <2>1. CASE a = n + 1
    BY <1>3, <2>1
  <2>2. CASE a # n + 1
    <3>1. a \in 1..n
      BY <1>1, <1>3, <2>2
    <3>2. QED
      BY <1>3, <1>4, <3>1, UnchangedStaysFit DEF ReworkInv
  <2>3. QED
    BY <2>1, <2>2
<1>7. ASSUME NEW c \in commands'  PROVE CommandFits(c)'
  <2>1. version \in Nat /\ version' \in Nat /\ version <= version'
    BY DEF ReworkInv, CaseFits, Open
  <2>2. CASE c \in commands
    BY <1>4, <2>1, <2>2, CommandStays DEF ReworkInv
  <2>3. QED
    BY <2>2
<1>8. QED
  BY <1>5, <1>6, <1>7 DEF ReworkInv

(* The new attempt is the last one; what it was opened with is in its row. *)
LEMMA OpenedRow ==
  ASSUME CaseFits, NEW phase, NEW input, NEW parent, NEW to, NEW steps,
         Open(phase, input, parent, to, steps)
  PROVE  /\ Len(attempts') = Len(attempts) + 1
         /\ attempts'[Len(attempts')] = NewAttempt(phase, input, parent)
         /\ \A a \in 1..Len(attempts) : attempts'[a] = attempts[a]
BY DEF Open, CaseFits

LEMMA ReconsiderKeepsInv ==
  ASSUME ReworkInv, NEW root \in 0..Len(attempts), NEW fix \in 0..Len(attempts),
         Reconsider(root, fix)
  PROVE  ReworkInv'
<1> PICK n \in Nat : n = Len(attempts)
  BY DEF ReworkInv, CaseFits
<1> PICK at \in Nat : at = version
  BY DEF ReworkInv, CaseFits
<1> DEFINE input == Propose(attempts[root].input, root, fix, at)
           made == [root |-> root, at |-> at, fix |-> fix, made |-> n + 1]
<1>1. /\ IsRoot(root) /\ root \in 1..n /\ status \notin Running
      /\ fix # 0 => IsPushedFix(fix, root)
      /\ Open("investigation", input, root, "investigating", 1)
      /\ commands' = commands \cup {made}
  BY DEF Reconsider, IsRoot, Running, ReworkInv, CaseFits
<1>2. /\ attempts[root] \in AttemptRecords /\ n = Len(attempts) /\ at = version
      /\ fix # 0 => fix \in 1..n /\ attempts[fix].phase = "fix"
  BY <1>1 DEF ReworkInv, CaseFits, IsPushedFix
<1>3. attempts[root].out \in Answers
  BY <1>1 DEF IsRoot, ReworkInv, AttemptFits, InvestigationFits
<1>4. fix # 0 => attempts[fix].out \in Branches
  BY <1>1, <1>2 DEF IsPushedFix, ReworkInv, AttemptFits, FixFits
<1>5. /\ attempts[root].input \in Inputs
      /\ input = [attempts[root].input EXCEPT !.assess =
                    [source |-> root, previous |-> attempts[root].out, fix |-> fix,
                     left |-> IF fix = 0 THEN Unset ELSE attempts[fix].out,
                     suffix |-> IF fix = 0 THEN 0 ELSE at]]
  BY <1>2 DEF AttemptRecords, Propose
<1>6. [source |-> root, previous |-> attempts[root].out, fix |-> fix,
       left |-> IF fix = 0 THEN Unset ELSE attempts[fix].out,
       suffix |-> IF fix = 0 THEN 0 ELSE at] \in Assessments
  BY <1>2, <1>3, <1>4 DEF Assessments
<1>7. /\ input \in Inputs
      /\ input.assess = [source |-> root, previous |-> attempts[root].out, fix |-> fix,
                         left |-> IF fix = 0 THEN Unset ELSE attempts[fix].out,
                         suffix |-> IF fix = 0 THEN 0 ELSE at]
      /\ input.dispute = attempts[root].input.dispute
  BY <1>5, <1>6 DEF Inputs
<1> HIDE DEF input
<1>8. /\ Len(attempts') = n + 1
      /\ attempts'[n + 1] = NewAttempt("investigation", input, root)
      /\ \A a \in 1..n : attempts'[a] = attempts[a]
  BY <1>1, OpenedRow DEF ReworkInv
<1>9. Keeps
  BY <1>2, <1>8 DEF Keeps
<1>10. /\ IsRoot(root)' /\ attempts'[root] = attempts[root]
       /\ fix # 0 => IsPushedFix(fix, root)' /\ attempts'[fix] = attempts[fix]
  BY <1>1, <1>2, <1>9, ReferencesStay DEF ReworkInv
<1>11. Quotes(n + 1)'
  BY <1>1, <1>2, <1>7, <1>8, <1>10 DEF Quotes, NewAttempt
<1>12. InvestigationFits(n + 1)'
  <2>1. /\ attempts[root].input.dispute # Unset => attempts[root].input.dispute \in 1..(root - 1)
        /\ root \in Nat /\ root # Unset
    BY <1>1, <1>2 DEF IsRoot, ReworkInv, AttemptFits, InvestigationFits
  <2>2. input.dispute # Unset => input.dispute \in 1..(root - 1) /\ input.dispute \in 1..n
    BY <1>1, <1>2, <1>7, <2>1
  <2>3. /\ attempts'[n + 1].out = Unset /\ attempts'[n + 1].parent = root
        /\ attempts'[n + 1].input = input
    BY <1>8 DEF NewAttempt
  <2>4. input.dispute # root /\ input.assess.source = root
    BY <1>7, <2>1, <2>2
  <2>5. (n + 1) - 1 = n
    BY <1>2
  <2>6. QED
    BY <2>2, <2>3, <2>4, <2>5 DEF InvestigationFits
<1>13. AttemptFits(Len(attempts))'
  BY <1>8, <1>11, <1>12 DEF AttemptFits, NewAttempt
<1>14. CommandFits(made)'
  <2>1. /\ root \in 1..Len(attempts') /\ n + 1 \in 1..Len(attempts') /\ fix \in 0..Len(attempts')
        /\ at <= version'
    BY <1>1, <1>2, <1>8 DEF Open
  <2>2. attempts'[n + 1].input = Propose(attempts[root].input, root, fix, at)'
    BY <1>8, <1>10 DEF NewAttempt, Propose, input
  <2>3. QED
    BY <1>2, <1>10, <2>1, <2>2 DEF CommandFits, Propose
<1>15. QED
  BY <1>1, <1>2, <1>7, <1>13, <1>14, OpenKeepsInv

LEMMA DisputeKeepsInv ==
  ASSUME ReworkInv, NEW root \in 1..Len(attempts), Dispute(root)  PROVE ReworkInv'
<1> PICK n \in Nat : n = Len(attempts)
  BY DEF ReworkInv, CaseFits
<1> DEFINE input == Disputed(attempts[root].input, root)
<1>1. /\ status \notin Running
      /\ Open("investigation", input, root, "investigating", 2)
      /\ UNCHANGED commands
  BY DEF Dispute, Running
<1>2. attempts[root].input \in Inputs
  BY RowTypes DEF ReworkInv
<1>3. input \in Inputs /\ input.assess = Unset /\ input.dispute = root
  <2>1. input = [attempts[root].input EXCEPT !.assess = Unset, !.dispute = root]
    BY DEF Disputed
  <2>2. root \in Nat
    OBVIOUS
  <2> HIDE DEF input
  <2>3. QED
    BY <1>2, <2>1, <2>2 DEF Inputs
<1> HIDE DEF input
<1>4. /\ Len(attempts') = n + 1
      /\ attempts'[n + 1] = NewAttempt("investigation", input, root)
  BY <1>1, OpenedRow DEF ReworkInv
<1>5. AttemptFits(Len(attempts))'
  BY <1>3, <1>4 DEF AttemptFits, Quotes, InvestigationFits, NewAttempt
<1>6. QED
  BY <1>1, <1>3, <1>5, OpenKeepsInv

(* The rework that a root cause was assessed with names a pushed branch.   *)
LEMMA AssessedRework ==
  ASSUME ReworkInv, NEW root \in 1..Len(attempts),
         attempts[root].input.assess # Unset, attempts[root].input.assess.fix # 0
  PROVE  LET a == attempts[root].input.assess
             rework == [fix |-> a.fix, left |-> a.left, suffix |-> a.suffix]
         IN  rework \in Reworks /\ rework # Unset
<1> DEFINE a == attempts[root].input.assess
<1>1. a \in Assessments
  BY RowTypes DEF ReworkInv, Inputs
<1>2. /\ a.fix \in 1..Len(attempts) /\ a.left = attempts[a.fix].out
      /\ attempts[a.fix].phase = "fix" /\ attempts[a.fix].out # Unset
  BY DEF ReworkInv, AttemptFits, Quotes, IsPushedFix, CaseFits
<1>3. a.left \in Branches
  BY <1>2 DEF ReworkInv, AttemptFits, FixFits
<1>4. [fix |-> a.fix, left |-> a.left, suffix |-> a.suffix] \in Reworks
  BY <1>1, <1>3 DEF Reworks, Assessments
<1>5. QED
  BY <1>4 DEF Reworks

LEMMA ApprovedReworkFits ==
  ASSUME ReworkInv, NEW root \in 1..Len(attempts)
  PROVE  /\ ApprovedRework(attempts[root].input) \in Inputs
         /\ ApprovedRework(attempts[root].input).assess = Unset
<1> DEFINE a == attempts[root].input.assess
           rework == [fix |-> a.fix, left |-> a.left, suffix |-> a.suffix]
<1>1. a # Unset /\ a.fix # 0 => rework \in Reworks
  BY AssessedRework
<1>2. Fresh \in Inputs /\ Fresh.assess = Unset
  BY DEF Fresh, Inputs
<1>3. ASSUME a # Unset, a.fix # 0
      PROVE  /\ [Fresh EXCEPT !.rework = rework] \in Inputs
             /\ [Fresh EXCEPT !.rework = rework].assess = Unset
  BY <1>1, <1>3 DEF Fresh, Inputs
<1>4. QED
  BY <1>2, <1>3 DEF ApprovedRework, Assessment

LEMMA ApproveFixKeepsInv ==
  ASSUME ReworkInv, NEW root \in 1..Len(attempts), ApproveFix(root)  PROVE ReworkInv'
<1> PICK n \in Nat : n = Len(attempts)
  BY DEF ReworkInv, CaseFits
<1> DEFINE input == ApprovedRework(attempts[root].input)
<1>1. /\ status \notin Running /\ IsRoot(root)
      /\ Open("fix", input, root, "fixing", 1)
      /\ UNCHANGED commands
  BY DEF ApproveFix, Running
<1>2. input \in Inputs /\ input.assess = Unset
  BY ApprovedReworkFits
<1>3. /\ Len(attempts') = n + 1
      /\ attempts'[n + 1] = NewAttempt("fix", input, root)
      /\ \A a \in 1..n : attempts'[a] = attempts[a]
  BY <1>1, OpenedRow DEF ReworkInv
<1>4. Keeps
  BY <1>3 DEF Keeps
<1>5. IsRoot(root)' /\ attempts'[root] = attempts[root]
  BY <1>1, <1>4, ReferencesStay DEF ReworkInv
<1>6. attempts'[n + 1].input = ApprovedRework(attempts'[root].input)
  BY <1>3, <1>5 DEF NewAttempt
<1> HIDE DEF input
<1>7. FixFits(n + 1)'
  BY <1>3, <1>5, <1>6 DEF FixFits, NewAttempt
<1>8. Quotes(n + 1)'
  BY <1>2, <1>3 DEF Quotes, NewAttempt
<1>9. AttemptFits(Len(attempts))'
  BY <1>3, <1>7, <1>8 DEF AttemptFits, NewAttempt
<1>10. QED
  BY <1>1, <1>2, <1>9, OpenKeepsInv

LEMMA ContinueKeepsInv ==
  ASSUME ReworkInv, Continue  PROVE ReworkInv'
<1> PICK n \in Nat : n = Len(attempts)
  BY DEF ReworkInv, CaseFits
<1>1. UNCHANGED commands /\ current = n /\ n \in 1..Len(attempts)
  BY DEF Continue, ReworkInv, CaseFits
<1>2. CASE status = "waiting_evidence" /\ Open("investigation", Fresh, current, "investigating", 1)
  <2>1. Fresh \in Inputs /\ Fresh.assess = Unset /\ Fresh.dispute = Unset
    BY DEF Fresh, Inputs
  <2>2. /\ Len(attempts') = n + 1
        /\ attempts'[n + 1] = NewAttempt("investigation", Fresh, n)
    BY <1>1, <1>2, OpenedRow DEF ReworkInv
  <2>3. AttemptFits(Len(attempts))'
    BY <2>1, <2>2 DEF AttemptFits, Quotes, InvestigationFits, NewAttempt
  <2>4. QED
    BY <1>1, <1>2, <2>1, <2>3, OpenKeepsInv DEF Running
<1>3. CASE status = "fix_failed"
           /\ Open("fix", attempts[current].input, attempts[current].parent, "fixing", 1)
  <2>1. PICK input \in Inputs, parent \in 1..(n - 1) :
           input = attempts[n].input /\ parent = attempts[n].parent
    <3>1. attempts[n].input \in Inputs /\ attempts[n].phase = "fix"
      BY <1>1, <1>3, RowTypes DEF ReworkInv, CaseFits
    <3>2. attempts[n].parent \in 1..(n - 1)
      BY <1>1, <3>1 DEF ReworkInv, AttemptFits, FixFits
    <3>3. QED
      BY <3>1, <3>2
  <2>2. FixFits(n) /\ Quotes(n)
    BY <1>1, <1>3 DEF ReworkInv, CaseFits, AttemptFits
  <2>3. /\ Len(attempts') = n + 1
        /\ attempts'[n + 1] = NewAttempt("fix", input, parent)
        /\ \A a \in 1..n : attempts'[a] = attempts[a]
    BY <1>1, <1>3, <2>1, OpenedRow DEF ReworkInv
  <2>4. Keeps
    BY <2>3 DEF Keeps
  <2>5. IsRoot(parent)' /\ attempts'[parent] = attempts[parent]
    BY <2>1, <2>2, <2>4, ReferencesStay DEF ReworkInv, FixFits
  <2>6. input = ApprovedRework(attempts'[parent].input)
    BY <2>1, <2>2, <2>5 DEF FixFits
  <2>7. FixFits(n + 1)'
    BY <2>1, <2>3, <2>5, <2>6 DEF FixFits, NewAttempt
  <2>8. Quotes(n)'
    BY <1>1, <2>2, <2>4, QuotesStay DEF ReworkInv
  <2>9. Quotes(n + 1)'
    <3>1. attempts'[n + 1].input = attempts'[n].input
      BY <1>1, <2>1, <2>3 DEF NewAttempt
    <3>2. QED
      BY <2>8, <3>1 DEF Quotes
  <2>10. AttemptFits(Len(attempts))'
    BY <2>3, <2>7, <2>9 DEF AttemptFits, NewAttempt
  <2>11. Open("fix", input, parent, "fixing", 1) /\ parent \in Nat /\ status \notin Running
    BY <1>1, <1>3, <2>1 DEF Running
  <2>12. QED
    BY <1>1, <2>10, <2>11, OpenKeepsInv
<1>4. QED
  BY <1>2, <1>3 DEF Continue

(* Settling the running attempt with an output that its input allows.      *)
LEMMA SettleKeepsInv ==
  ASSUME ReworkInv, status \in Running,
         NEW out \in Answers \cup Branches \cup {Unset}, NEW state \in {"succeeded", "failed"},
         NEW to \in {"waiting_evidence", "waiting_fix_approval", "fix_failed",
                     "waiting_merge_approval"},
         to = "fix_failed" => status = "fixing",
         Settle(out, state, to),
         LET i == attempts[current] IN
           /\ i.phase = "investigation" =>
                /\ out \in Answers \cup {Unset}
                /\ i.input.assess # Unset /\ out # Unset => out.cause = i.input.assess.previous.cause
           /\ i.phase = "fix" =>
                /\ out \in Branches \cup {Unset}
                /\ out # Unset => AcceptsBranch(i.input, out)
  PROVE  ReworkInv'
<1> PICK n \in Nat : n = Len(attempts)
  BY DEF ReworkInv, CaseFits
<1>1. /\ current = n /\ n \in 1..Len(attempts) /\ attempts[n].state = "running"
      /\ attempts \in Seq(AttemptRecords) /\ attempts[n] \in AttemptRecords
  BY DEF ReworkInv, CaseFits
<1> DEFINE done == [attempts[n] EXCEPT !.out = out, !.state = state]
<1>2. /\ done \in AttemptRecords /\ done.input = attempts[n].input /\ done.phase = attempts[n].phase
      /\ done.parent = attempts[n].parent /\ done.out = out /\ done.state = state
  BY <1>1 DEF AttemptRecords
<1>3. attempts' = [attempts EXCEPT ![n] = done]
  BY <1>1 DEF Settle
<1> HIDE DEF done
<1>4. /\ attempts' \in Seq(AttemptRecords) /\ Len(attempts') = n /\ attempts'[n] = done
      /\ \A a \in 1..n : a # n => attempts'[a] = attempts[a]
  BY <1>1, <1>2, <1>3
<1>5. Keeps
  BY <1>1, <1>2, <1>4 DEF Keeps
<1>6. version' = version + 1 /\ status' = to /\ UNCHANGED <<current, commands>>
  BY DEF Settle
<1>7. CaseFits'
  <2>1. /\ status = "fixing" => attempts[n].phase = "fix"
        /\ version + 2 <= 3 * n /\ version \in Nat /\ n <= MaxAttempts
    BY <1>1 DEF ReworkInv, CaseFits
  <2>2. version' + 2 <= 3 * n + 1 /\ version' \in Nat
    BY <1>6, <2>1
  <2>3. QED
    BY <1>1, <1>2, <1>4, <1>6, <2>1, <2>2 DEF CaseFits, Running
<1>8. ASSUME NEW a \in 1..Len(attempts')  PROVE AttemptFits(a)'
  <2>1. CASE a # n
    BY <1>4, <1>5, <2>1, UnchangedStaysFit DEF ReworkInv
  <2>2. CASE a = n
    <3>1. AttemptFits(n) /\ Quotes(n)'
      BY <1>1, <1>5, QuotesStay DEF ReworkInv, AttemptFits
    <3>2. attempts[n].phase = "investigation" => InvestigationFits(n)'
      BY <1>1, <1>2, <1>4, <3>1 DEF AttemptFits, InvestigationFits
    <3>3. ASSUME attempts[n].phase = "fix"  PROVE FixFits(n)'
      <4>1. PICK root \in 1..(n - 1) : root = attempts[n].parent
        BY <3>1, <3>3 DEF AttemptFits, FixFits
      <4>2. /\ root \in 1..Len(attempts) /\ IsRoot(root)
            /\ attempts[n].input = ApprovedRework(attempts[root].input)
        BY <1>1, <3>1, <3>3, <4>1 DEF AttemptFits, FixFits
      <4>3. IsRoot(root)' /\ attempts'[root] = attempts[root]
        BY <1>5, <4>2, ReferencesStay DEF ReworkInv
      <4>4. /\ done.out \in Branches \cup {Unset}
            /\ done.out # Unset => AcceptsBranch(done.input, done.out)
        BY <1>1, <1>2, <3>3
      <4>5. attempts'[n].parent = root /\ attempts'[n].input = ApprovedRework(attempts'[root].input)
        BY <1>2, <1>4, <4>1, <4>2, <4>3
      <4>6. QED
        BY <1>4, <4>1, <4>3, <4>4, <4>5 DEF FixFits
    <3>4. QED
      BY <1>2, <1>4, <2>2, <3>1, <3>2, <3>3 DEF AttemptFits
  <2>3. QED
    BY <2>1, <2>2
<1>9. ASSUME NEW c \in commands'  PROVE CommandFits(c)'
  BY <1>5, <1>6, <1>9, CommandStays DEF ReworkInv, CaseFits
<1>10. QED
  BY <1>7, <1>8, <1>9 DEF ReworkInv

LEMMA FinishInvestigationKeepsInv ==
  ASSUME ReworkInv, NEW cause \in Causes, NEW plan \in Plans, FinishInvestigation(cause, plan)
  PROVE  ReworkInv'
<1> PICK i \in AttemptRecords : i = attempts[current]
  BY RowTypes DEF ReworkInv, CaseFits
<1> DEFINE answer == AssessPlan(i.input, cause, plan)
<1>1. /\ i.phase = "investigation" /\ status \in Running
      /\ current \in 1..Len(attempts) /\ i.input \in Inputs
  BY RowTypes DEF FinishInvestigation, Running, ReworkInv, CaseFits
<1>2. answer \in Answers /\ (i.input.assess # Unset => answer.cause = i.input.assess.previous.cause)
  <2>1. CASE i.input.assess = Unset
    BY <2>1 DEF AssessPlan, Assessment, Answers
  <2>2. CASE i.input.assess # Unset
    <3>1. i.input.assess.previous \in Answers
      BY <1>1, <2>2 DEF Inputs, Assessments
    <3>2. answer = [i.input.assess.previous EXCEPT !.plan = plan]
      BY <2>2 DEF AssessPlan, Assessment
    <3> HIDE DEF answer
    <3>3. QED
      BY <3>1, <3>2 DEF Answers
  <2>3. QED
    BY <2>1, <2>2
<1>3. \/ Settle(answer, "succeeded", "waiting_fix_approval")
      \/ Settle(Unset, "failed", "waiting_evidence")
  BY DEF FinishInvestigation
<1> HIDE DEF answer
<1>4. QED
  BY <1>1, <1>2, <1>3, SettleKeepsInv

LEMMA FinishFixKeepsInv ==
  ASSUME ReworkInv,
         NEW b \in [stem : Stems, suffix : {0, version + 1} \cup {c.at : c \in commands}],
         FinishFix(b)
  PROVE  ReworkInv'
<1> PICK f \in AttemptRecords : f = attempts[current]
  BY RowTypes DEF ReworkInv, CaseFits
<1>1. f.phase = "fix" /\ status = "fixing" /\ status \in Running
  BY DEF FinishFix, Running, ReworkInv, CaseFits
<1>2. b \in Branches
  <2>1. version \in Nat /\ version + 2 <= 3 * MaxAttempts
    BY <1>1 DEF ReworkInv, CaseFits
  <2>2. \A c \in commands : c.at \in Nat /\ c.at <= version
    BY DEF ReworkInv, CommandFits
  <2>3. b.suffix \in 0..(3 * MaxAttempts)
    BY <2>1, <2>2
  <2>4. QED
    BY <2>3 DEF Branches
<1>3. \/ AcceptsBranch(f.input, b) /\ Settle(b, "succeeded", "waiting_merge_approval")
      \/ Settle(Unset, "failed", "fix_failed")
  BY DEF FinishFix
<1>4. QED
  BY <1>1, <1>2, <1>3, SettleKeepsInv

-----------------------------------------------------------------------------
LEMMA InitHasInv == ReworkInit => ReworkInv
<1> SUFFICES ASSUME ReworkInit  PROVE ReworkInv
  OBVIOUS
<1> DEFINE first == NewAttempt("investigation", Fresh, 0)
<1>1. first \in AttemptRecords
  BY DEF NewAttempt, Fresh, AttemptRecords, Inputs
<1>2. /\ attempts = <<first>> /\ status = "investigating" /\ version = 1 /\ current = 1
      /\ commands = {}
  BY DEF ReworkInit
<1>3. first.state = "running" /\ first.phase = "investigation"
  BY DEF NewAttempt
<1>4. AttemptFits(1)
  BY <1>2 DEF AttemptFits, Quotes, InvestigationFits, NewAttempt, Fresh
<1> HIDE DEF first
<1>5. attempts \in Seq(AttemptRecords) /\ Len(attempts) = 1 /\ attempts[1] = first
  BY <1>1, <1>2
<1>6. CaseFits
  BY <1>2, <1>3, <1>5 DEF CaseFits, Running
<1>7. QED
  BY <1>2, <1>4, <1>5, <1>6 DEF ReworkInv

LEMMA StepKeepsInv == ReworkInv /\ [ReworkNext]_reworkVars => ReworkInv'
<1> SUFFICES ASSUME ReworkInv, [ReworkNext]_reworkVars  PROVE ReworkInv'
  OBVIOUS
<1>1. CASE UNCHANGED reworkVars
  <2>1. UNCHANGED <<status, version, current, attempts, commands>>
    BY <1>1 DEF reworkVars
  <2>2. CaseFits'
    BY <2>1 DEF ReworkInv, CaseFits
  <2>3. Keeps
    BY <2>1 DEF Keeps, ReworkInv, CaseFits
  <2>4. ASSUME NEW a \in 1..Len(attempts)  PROVE AttemptFits(a)'
    BY <2>1, <2>3, UnchangedStaysFit DEF ReworkInv
  <2>5. ASSUME NEW c \in commands  PROVE CommandFits(c)'
    BY <2>1, <2>3, CommandStays DEF ReworkInv, CaseFits
  <2>6. QED
    BY <2>1, <2>2, <2>4, <2>5 DEF ReworkInv
<1>2. QED
  BY <1>1, ReconsiderKeepsInv, DisputeKeepsInv, ApproveFixKeepsInv, ContinueKeepsInv,
     FinishInvestigationKeepsInv, FinishFixKeepsInv DEF ReworkNext

(* Every attempt keeps quoting what it was opened from.                    *)
THEOREM ReworkInvHolds == ReworkSpec => []ReworkInv
BY InitHasInv, StepKeepsInv, PTL DEF ReworkSpec

(* A rejected branch does not come back, however often the fix is retried, *)
(* and however many assessments, disputes and approvals lie in between; an *)
(* assessment keeps the root cause whatever the agent answers; a dispute   *)
(* opens no assessment; and a command sent again, at any later time,       *)
(* builds what it was committed with.                                      *)
THEOREM CausesAreKept == ReworkSpec => []ReworkKeepsCause
<1>1. ASSUME ReworkInv  PROVE ReworkKeepsCause
  <2>1. ReworkTypeOK
    <3>1. \A a \in 1..Len(attempts) : attempts[a] \in AttemptRecords
      BY <1>1, RowTypes DEF ReworkInv
    <3>2. \A a \in 1..Len(attempts) :
             /\ attempts[a].state \in {"running", "succeeded", "failed"}
             /\ attempts[a].phase = "fix" => attempts[a].out \in Branches \cup {Unset}
      BY <1>1, <3>1 DEF ReworkInv, AttemptFits, FixFits, AttemptRecords
    <3>3. QED
      BY <1>1, <3>2 DEF ReworkTypeOK, ReworkInv, CaseFits, Running
  <2>2. RejectedBranchLeft
    <3>1. SUFFICES ASSUME NEW f \in 1..Len(attempts), attempts[f].phase = "fix",
                          attempts[f].out # Unset, RejectedFor(f) # 0
                   PROVE  attempts[f].out # attempts[RejectedFor(f)].out
      BY <1>1 DEF RejectedBranchLeft, ReworkInv, CaseFits
    <3> DEFINE root == attempts[f].parent
               a == attempts[root].input.assess
               rework == [fix |-> a.fix, left |-> a.left, suffix |-> a.suffix]
    <3>2. /\ root \in 1..Len(attempts) /\ AcceptsBranch(attempts[f].input, attempts[f].out)
          /\ attempts[f].input = ApprovedRework(attempts[root].input)
      BY <1>1, <3>1 DEF ReworkInv, CaseFits, AttemptFits, FixFits
    <3>3. a # Unset /\ a.fix # 0 /\ RejectedFor(f) = a.fix
      BY <3>1 DEF RejectedFor, Assessment
    <3>4. a.left = attempts[a.fix].out
      BY <1>1, <3>2, <3>3 DEF ReworkInv, AttemptFits, Quotes
    <3>5. attempts[f].input.rework = rework
      BY <3>2, <3>3 DEF ApprovedRework, Assessment, Fresh
    <3>6. rework # Unset
      BY <1>1, <3>2, <3>3, AssessedRework
    <3>7. rework.left = a.left
      OBVIOUS
    <3> HIDE DEF rework
    <3>8. attempts[f].out # rework.left
      BY <3>2, <3>5, <3>6 DEF AcceptsBranch, Rework
    <3>9. QED
      BY <3>3, <3>4, <3>7, <3>8
  <2>3. ProposalKeepsCause
    BY <1>1 DEF ProposalKeepsCause, Assessment, ReworkInv, CaseFits, AttemptFits,
       InvestigationFits, Quotes
  <2>4. DisputeInvestigates
    BY <1>1 DEF DisputeInvestigates, Assessment, ReworkInv, CaseFits, AttemptFits,
       InvestigationFits
  <2>5. RepetitionRecognised
    BY <1>1 DEF RepetitionRecognised, Rebuilt, ReworkInv, CommandFits
  <2>6. QED
    BY <2>1, <2>2, <2>3, <2>4, <2>5 DEF ReworkKeepsCause
<1>2. QED
  BY <1>1, ReworkInvHolds, PTL

-----------------------------------------------------------------------------
(***************************************************************************)
(* The workspace of a fix.                                                 *)
(***************************************************************************)
USE FixWorkspaceAssumption

Bindings == [repo : Repos, base : 1..MaxTip]
Preparations ==
  [pc : {"none", "next", "fetched", "cloned", "ready", "closed", "failed", "dead"},
   left : SUBSET Repos, targets : SUBSET Repos, repo : Repos \cup {None}, base : 0..MaxTip, bound : SUBSET Bindings]
Clones == [dir : {Dir[r] : r \in Repos}, repo : Repos, head : 0..MaxTip]

Types ==
  /\ Dir \in Dirs /\ branch \in BranchMaps
  /\ tip \in [Repos -> 1..MaxTip] /\ tracking \in [Repos -> 1..MaxTip]
  /\ request \in [Attempts -> Approvals \cup {None}]
  /\ approved = [a \in Attempts |-> approved[a]]
  /\ prep \in [Attempts -> Preparations]
  /\ disk \in [Attempts -> SUBSET Clones]
  /\ since \in [Attempts -> [Repos -> 0..MaxTip]]
  /\ changes \in 0..MaxChanges /\ crashes \in 0..MaxCrashes

NeverAhead == \A r \in Repos : tracking[r] <= tip[r]

(* An approval is what its request resolved to under the map of that time.  *)
ApprovalFits(a) ==
  /\ request[a] = None <=> approved[a] = None
  /\ request[a] # None =>
       /\ approved[a] = ResolveRemediation(request[a].req, request[a].map)
       /\ changes = 0 => request[a].map = branch
       /\ request[a].refused => changes > 0

Bound(a) == {b.repo : b \in prep[a].bound}
InHand(a) == IF prep[a].pc \in {"fetched", "cloned"} THEN {prep[a].repo} ELSE {}
Leased == {"next", "fetched", "cloned", "ready"}

LeaseFits(a) ==
  /\ prep[a].pc # "none" => approved[a] # None /\ \A r \in Repos : since[a][r] <= tip[r]
  /\ prep[a].pc \in {"fetched", "cloned"} => prep[a].repo \in Repos \ (prep[a].left \cup Bound(a))
  /\ prep[a].left \cap Bound(a) = {}
  /\ prep[a].pc = "ready" => prep[a].left = {}
  /\ prep[a].pc \in Leased /\ DOMAIN approved[a] # {} =>
       prep[a].left \cup InHand(a) \cup Bound(a) = DOMAIN approved[a]

BasesFit(a) ==
  /\ prep[a].pc = "fetched" => since[a][prep[a].repo] <= tracking[prep[a].repo]
  /\ prep[a].pc = "cloned" => /\ prep[a].base \in 1..MaxTip
                              /\ since[a][prep[a].repo] <= prep[a].base
                              /\ prep[a].base <= tip[prep[a].repo]
  /\ \A b \in prep[a].bound : since[a][b.repo] <= b.base /\ b.base <= tip[b.repo]

DiskFits(a) ==
  /\ \A d \in disk[a] : d.dir = Dir[d.repo]
  /\ \A d, e \in disk[a] : d.dir = e.dir => d = e
  /\ prep[a].pc \in {"none", "failed", "closed"} => disk[a] = {}
  /\ prep[a].pc \in {"next", "fetched", "ready"} => \A d \in disk[a] : d.repo \in Bound(a)
  /\ prep[a].pc = "cloned" => /\ \A d \in disk[a] : d.repo \in Bound(a) \cup {prep[a].repo}
                              /\ \E d \in disk[a] : d.repo = prep[a].repo
  /\ prep[a].pc \in Leased =>
       \A b \in prep[a].bound : \E d \in disk[a] : d.repo = b.repo /\ d.head = b.base
  /\ prep[a].pc \in {"none", "failed"} => prep[a].bound = {}

AttemptInv(a) == ApprovalFits(a) /\ LeaseFits(a) /\ BasesFit(a) /\ DiskFits(a)

WorkspaceInv == Types /\ NeverAhead /\ \A a \in Attempts : AttemptInv(a)

-----------------------------------------------------------------------------
(* What an approval settles on: the repositories of the remediation, each   *)
(* on the branch asked for or the one of the map.                           *)
AsAsked(req, map, res) ==
  /\ DOMAIN res \subseteq Repos
  /\ req.repos # {} => DOMAIN res = req.repos
  /\ DOMAIN req.asked # {} => DOMAIN req.asked = DOMAIN res
  /\ \A r \in DOMAIN res :
       res[r] = IF r \in DOMAIN req.asked /\ req.asked[r] # "" THEN req.asked[r] ELSE map[r]

LEMMA ResolvesAsAsked ==
  ASSUME NEW req \in AllRequests, NEW map \in BranchMaps, ResolveRemediation(req, map) # None
  PROVE  AsAsked(req, map, ResolveRemediation(req, map))
<1> PICK res : res = ResolveRemediation(req, map)
  OBVIOUS
<1> USE DEF AsAsked
<1>1. DOMAIN map \subseteq Repos
  BY DEF BranchMaps
<1>2. req.repos \subseteq Repos /\ DOMAIN req.asked \subseteq Repos
  BY DEF AllRequests, FixRepositories, RemediationPlans
<1>3. CASE req.repos = {} /\ DOMAIN req.asked = {}
  BY <1>1, <1>3 DEF ResolveRemediation, ResolveSourceBaselines
<1>4. CASE req.repos = {} /\ DOMAIN req.asked # {}
  BY <1>2, <1>4 DEF ResolveRemediation, ResolveSourceBaselines
<1>5. CASE req.repos # {} /\ DOMAIN req.asked = {}
  BY <1>2, <1>5 DEF ResolveRemediation, ResolveSourceBaselines
<1>6. CASE req.repos # {} /\ DOMAIN req.asked # {}
  BY <1>2, <1>6 DEF ResolveRemediation, ResolveSourceBaselines
<1>7. QED
  BY <1>3, <1>4, <1>5, <1>6

(* The baselines that a preparation resolves are of the approved            *)
(* repositories, or, if nothing was approved by name, of those in the map.  *)
LEMMA BasesOfApproval ==
  ASSUME NEW asked, NEW map \in BranchMaps, DOMAIN asked \subseteq Repos,
         ResolveSourceBaselines(asked, map) # None
  PROVE  /\ DOMAIN ResolveSourceBaselines(asked, map) \subseteq Repos
         /\ DOMAIN asked # {} => DOMAIN ResolveSourceBaselines(asked, map) = DOMAIN asked
<1>1. DOMAIN map \subseteq Repos
  BY DEF BranchMaps
<1>2. CASE DOMAIN asked = {}
  BY <1>1, <1>2 DEF ResolveSourceBaselines
<1>3. CASE DOMAIN asked # {}
  BY <1>3 DEF ResolveSourceBaselines
<1>4. QED
  BY <1>2, <1>3

LEMMA ApprovedRepos ==
  ASSUME Types, NEW a \in Attempts, ApprovalFits(a), request[a] # None
  PROVE  DOMAIN approved[a] \subseteq Repos
<1>1. request[a].req \in AllRequests /\ request[a].map \in BranchMaps
  BY DEF Types, Approvals
<1>2. QED
  BY <1>1, ResolvesAsAsked DEF ApprovalFits, AsAsked

(* Refs only move forward, so an attempt that a step leaves alone still     *)
(* fits.                                                                    *)
Forward == \A r \in Repos : tip[r] <= tip'[r] /\ tracking[r] <= tracking'[r]

LEMMA OtherStays ==
  ASSUME Types, Types', NEW a \in Attempts, AttemptInv(a), Forward,
         request'[a] = request[a], approved'[a] = approved[a], prep'[a] = prep[a],
         disk'[a] = disk[a], since'[a] = since[a], UNCHANGED <<Dir, branch, changes>>
  PROVE  AttemptInv(a)'
<1>1. ApprovalFits(a)'
  BY DEF AttemptInv, ApprovalFits
<1>2. \A r \in Repos : since[a][r] <= tip[r] => since[a][r] <= tip'[r]
  BY DEF Types, Forward
<1>3. LeaseFits(a)'
  BY <1>2 DEF AttemptInv, LeaseFits, Bound, InHand
<1>4. BasesFit(a)'
  <2>1. prep[a] \in Preparations /\ \A b \in prep[a].bound : b \in Bindings
    BY DEF Types, Preparations
  <2>2. prep[a].pc = "fetched" => since[a][prep[a].repo] <= tracking'[prep[a].repo]
    BY DEF AttemptInv, BasesFit, LeaseFits, Types, Forward
  <2>3. prep[a].pc = "cloned" => prep[a].base <= tip'[prep[a].repo]
    BY DEF AttemptInv, BasesFit, LeaseFits, Types, Forward
  <2>4. \A b \in prep[a].bound : b.base <= tip'[b.repo]
    BY <2>1 DEF AttemptInv, BasesFit, Bindings, Types, Forward
  <2>5. QED
    BY <2>2, <2>3, <2>4 DEF AttemptInv, BasesFit
<1>5. DiskFits(a)'
  BY DEF AttemptInv, DiskFits, Bound
<1>6. QED
  BY <1>1, <1>3, <1>4, <1>5 DEF AttemptInv

LEMMA StepOfOne ==
  ASSUME WorkspaceInv, Types', NeverAhead', Forward, NEW a \in Attempts, AttemptInv(a)',
         \A b \in Attempts \ {a} :
            /\ request'[b] = request[b] /\ approved'[b] = approved[b] /\ prep'[b] = prep[b]
            /\ disk'[b] = disk[b] /\ since'[b] = since[b],
         UNCHANGED <<Dir, branch, changes>>
  PROVE  WorkspaceInv'
BY OtherStays DEF WorkspaceInv

LEMMA StillForward ==
  ASSUME Types, NeverAhead, UNCHANGED <<tip, tracking>>  PROVE NeverAhead' /\ Forward
BY DEF Types, NeverAhead, Forward

LEMMA ApproveBaselinesInv ==
  ASSUME WorkspaceInv, NEW a \in Attempts, NEW req \in FixRequests, ApproveBaselines(a, req)
  PROVE  WorkspaceInv'
<1> PICK entry \in Approvals : entry = [req |-> req, map |-> branch, refused |-> FALSE]
  BY DEF WorkspaceInv, Types, Approvals
<1> PICK res : res = ResolveRemediation(req, branch)
  OBVIOUS
<1>1. /\ request[a] = None /\ res # None
      /\ request' = [request EXCEPT ![a] = entry] /\ approved' = [approved EXCEPT ![a] = res]
      /\ UNCHANGED <<branch, tip, tracking, prep, disk, since, Dir, changes, crashes>>
  BY DEF ApproveBaselines, gitVars, boundVars
<1>2. Types' /\ request'[a] = entry /\ approved'[a] = res
  <2>1. Clones' = Clones
    BY <1>1 DEF Clones
  <2>2. /\ request' \in [Attempts -> Approvals \cup {None}] /\ request'[a] = entry
        /\ approved' = [b \in Attempts |-> approved'[b]] /\ approved'[a] = res
    BY <1>1 DEF WorkspaceInv, Types
  <2>3. QED
    BY <1>1, <2>1, <2>2 DEF WorkspaceInv, Types
<1>3. NeverAhead' /\ Forward
  BY <1>1, StillForward DEF WorkspaceInv
<1>4. ApprovalFits(a)'
  <2>1. entry.req = req /\ entry.map = branch /\ entry.refused = FALSE /\ entry # None
    OBVIOUS
  <2>2. QED
    BY <1>1, <1>2, <2>1 DEF ApprovalFits
<1>5. prep[a].pc = "none" /\ AttemptInv(a)
  BY <1>1 DEF WorkspaceInv, AttemptInv, ApprovalFits, LeaseFits
<1>6. LeaseFits(a)' /\ BasesFit(a)' /\ DiskFits(a)'
  BY <1>1, <1>5 DEF AttemptInv, LeaseFits, BasesFit, DiskFits, Bound, InHand, Leased
<1>7. QED
  BY <1>1, <1>2, <1>3, <1>4, <1>6, StepOfOne DEF AttemptInv, WorkspaceInv, Types

LEMMA ReplayFixApprovalInv ==
  ASSUME WorkspaceInv, NEW a \in Attempts, ReplayFixApproval(a)  PROVE WorkspaceInv'
<1> PICK again \in BOOLEAN : again = (ResolveRemediation(request[a].req, branch) # approved[a])
  OBVIOUS
<1>1. /\ approved[a] # None /\ request' = [request EXCEPT ![a].refused = again]
      /\ UNCHANGED <<branch, tip, tracking, approved, prep, disk, since, Dir, changes, crashes>>
  BY DEF ReplayFixApproval, gitVars, boundVars
<1>2. request[a] \in Approvals /\ request[a] # None /\ request \in [Attempts -> Approvals \cup {None}]
  BY <1>1 DEF WorkspaceInv, AttemptInv, ApprovalFits, Types
<1>3. /\ request'[a] \in Approvals /\ request'[a].req = request[a].req
      /\ request'[a].map = request[a].map /\ request'[a].refused = again
      /\ \A b \in Attempts \ {a} : request'[b] = request[b]
      /\ request' \in [Attempts -> Approvals \cup {None}]
  BY <1>1, <1>2 DEF Approvals
<1>4. Types'
  <2>1. Clones' = Clones
    BY <1>1 DEF Clones
  <2>2. QED
    BY <1>1, <1>3, <2>1 DEF WorkspaceInv, Types
<1>5. NeverAhead' /\ Forward
  BY <1>1, StillForward DEF WorkspaceInv
<1>6. ApprovalFits(a)'
  <2>1. ApprovalFits(a) /\ changes \in Nat
    BY DEF WorkspaceInv, AttemptInv, Types
  <2>2. again => changes > 0
    <3>1. ASSUME changes = 0  PROVE ~again
      <4>1. request[a].map = branch /\ approved[a] = ResolveRemediation(request[a].req, request[a].map)
        BY <1>2, <2>1, <3>1 DEF ApprovalFits
      <4>2. QED
        BY <4>1
    <3>2. QED
      BY <2>1, <3>1
  <2>3. request'[a] # None
    BY <1>3
  <2>4. QED
    BY <1>1, <1>2, <1>3, <2>1, <2>2, <2>3 DEF ApprovalFits
<1>7. LeaseFits(a)' /\ BasesFit(a)' /\ DiskFits(a)'
  BY <1>1 DEF WorkspaceInv, AttemptInv, LeaseFits, BasesFit, DiskFits, Bound, InHand
<1>8. QED
  BY <1>1, <1>3, <1>4, <1>5, <1>6, <1>7, StepOfOne DEF AttemptInv

(* What the steps of a preparation leave alone.                             *)
LEMMA PrepareStep ==
  ASSUME WorkspaceInv, NEW a \in Attempts, NEW p \in Preparations,
         prep' = [prep EXCEPT ![a] = p],
         disk' \in [Attempts -> SUBSET Clones], \A b \in Attempts \ {a} : disk'[b] = disk[b],
         since' \in [Attempts -> [Repos -> 0..MaxTip]],
         \A b \in Attempts \ {a} : since'[b] = since[b],
         tracking' \in [Repos -> 1..MaxTip],
         \A r \in Repos : tracking'[r] = tracking[r] \/ tracking'[r] = tip[r],
         UNCHANGED <<branch, tip, request, approved, Dir, changes, crashes>>,
         LeaseFits(a)', BasesFit(a)', DiskFits(a)'
  PROVE  WorkspaceInv'
<1>1. Types'
  <2>1. Clones' = Clones
    BY DEF Clones
  <2>2. prep' \in [Attempts -> Preparations]
    BY DEF WorkspaceInv, Types
  <2>3. QED
    BY <2>1, <2>2 DEF WorkspaceInv, Types
<1>2. NeverAhead' /\ Forward
  <2>1. \A r \in Repos : /\ tip[r] \in 1..MaxTip /\ tracking[r] \in 1..MaxTip
                         /\ tracking[r] <= tip[r] /\ tip'[r] = tip[r]
    BY DEF WorkspaceInv, Types, NeverAhead
  <2>2. QED
    BY <2>1 DEF NeverAhead, Forward
<1>3. ApprovalFits(a)'
  BY DEF WorkspaceInv, AttemptInv, ApprovalFits
<1>4. QED
  BY <1>1, <1>2, <1>3, StepOfOne DEF AttemptInv, WorkspaceInv, Types

LEMMA NoPrepType ==
  /\ \A pc \in {"none", "next", "failed", "dead"} : [NoPrep EXCEPT !.pc = pc] \in Preparations
  /\ \A left, targets \in SUBSET Repos :
       [NoPrep EXCEPT !.pc = "next", !.left = left, !.targets = targets] \in Preparations
<1>1. NoPrep \in Preparations
  BY DEF NoPrep, Preparations
<1>2. QED
  BY <1>1 DEF Preparations

LEMMA PrepareInv ==
  ASSUME WorkspaceInv, NEW a \in Attempts, Prepare(a)  PROVE WorkspaceInv'
<1> PICK bases : bases = ResolveSourceBaselines(approved[a], branch)
  OBVIOUS
<1>1. /\ approved[a] # None /\ prep[a].pc = "none" /\ since' = [since EXCEPT ![a] = tip]
      /\ UNCHANGED <<branch, tip, tracking, request, approved, disk, Dir, changes, crashes>>
  BY DEF Prepare, gitVars, boundVars
<1>2. /\ Types /\ AttemptInv(a) /\ disk[a] = {}
      /\ DOMAIN approved[a] \subseteq Repos
  BY <1>1, ApprovedRepos DEF WorkspaceInv, AttemptInv, ApprovalFits, DiskFits
<1>3. since'[a] = tip /\ since' \in [Attempts -> [Repos -> 0..MaxTip]]
  BY <1>1, <1>2 DEF Types
<1>4. CASE /\ bases # None
           /\ prep' = [prep EXCEPT ![a] = [NoPrep EXCEPT !.pc = "next", !.left = DOMAIN bases,
                                                         !.targets = DOMAIN branch]]
  <2>1. DOMAIN bases \subseteq Repos /\ (DOMAIN approved[a] # {} => DOMAIN bases = DOMAIN approved[a])
    BY <1>2, <1>4, BasesOfApproval DEF Types
  <2>2. PICK left \in SUBSET Repos : left = DOMAIN bases
    BY <2>1
  <2> PICK targets \in SUBSET Repos : targets = DOMAIN branch
    BY <1>2 DEF Types, BranchMaps
  <2> PICK p \in Preparations : p = [NoPrep EXCEPT !.pc = "next", !.left = left, !.targets = targets]
    BY NoPrepType
  <2>3. prep'[a] = p /\ p.pc = "next" /\ p.left = left /\ p.bound = {}
    BY <1>2, <1>4, <2>2 DEF Types, NoPrep
  <2>4. LeaseFits(a)' /\ BasesFit(a)' /\ DiskFits(a)'
    BY <1>1, <1>2, <1>3, <2>1, <2>2, <2>3
       DEF LeaseFits, BasesFit, DiskFits, Bound, InHand, Leased, Types
  <2>5. QED
    BY <1>1, <1>2, <1>3, <1>4, <2>2, <2>4, PrepareStep DEF Types
<1>5. CASE prep' = [prep EXCEPT ![a] = [NoPrep EXCEPT !.pc = "failed"]]
  <2> PICK p \in Preparations : p = [NoPrep EXCEPT !.pc = "failed"]
    BY NoPrepType
  <2>1. prep'[a] = p /\ p.pc = "failed" /\ p.left = {} /\ p.bound = {}
    BY <1>2, <1>5 DEF Types, NoPrep
  <2>2. LeaseFits(a)' /\ BasesFit(a)' /\ DiskFits(a)'
    BY <1>1, <1>2, <1>3, <2>1
       DEF LeaseFits, BasesFit, DiskFits, Bound, InHand, Leased, Types
  <2>3. QED
    BY <1>1, <1>2, <1>3, <1>5, <2>2, PrepareStep DEF Types
<1>6. QED
  BY <1>4, <1>5 DEF Prepare

(* A failure at any step leaves no clone.                                   *)
LEMMA FailInv ==
  ASSUME WorkspaceInv, NEW a \in Attempts, prep[a].pc \in Leased, Fail(a),
         UNCHANGED <<branch, tip, request, approved, since, Dir, changes, crashes>>
  PROVE  WorkspaceInv'
<1> PICK p \in Preparations : p = [NoPrep EXCEPT !.pc = "failed"]
  BY NoPrepType
<1>1. /\ prep' = [prep EXCEPT ![a] = p] /\ disk' = [disk EXCEPT ![a] = {}]
      /\ UNCHANGED tracking /\ Types /\ AttemptInv(a)
  BY DEF Fail, WorkspaceInv
<1>2. prep'[a] = p /\ p.pc = "failed" /\ p.left = {} /\ p.bound = {} /\ disk'[a] = {}
  BY <1>1 DEF Types, NoPrep
<1>3. LeaseFits(a)' /\ BasesFit(a)' /\ DiskFits(a)'
  BY <1>1, <1>2 DEF AttemptInv, LeaseFits, BasesFit, DiskFits, Bound, InHand, Leased
<1>4. QED
  BY <1>1, <1>3, PrepareStep DEF Types

LEMMA FetchInv ==
  ASSUME WorkspaceInv, NEW a \in Attempts, Fetch(a)  PROVE WorkspaceInv'
<1>1. /\ prep[a].pc = "next" /\ Types /\ AttemptInv(a) /\ prep[a] \in Preparations
      /\ UNCHANGED <<branch, tip, request, approved, since, Dir, changes, crashes>>
  BY DEF Fetch, boundVars, WorkspaceInv, Types
<1>2. ASSUME NEW r \in prep[a].left, tracking' = [tracking EXCEPT ![r] = tip[r]],
             prep' = [prep EXCEPT ![a].pc = "fetched", ![a].repo = r, ![a].left = @ \ {r}],
             UNCHANGED disk
      PROVE  WorkspaceInv'
  <2>1. r \in Repos /\ prep[a].left \subseteq Repos
    BY <1>1 DEF Preparations
  <2> PICK p : p = [prep[a] EXCEPT !.pc = "fetched", !.repo = r, !.left = @ \ {r}]
    OBVIOUS
  <2>2. /\ p \in Preparations /\ p.pc = "fetched" /\ p.repo = r /\ p.left = prep[a].left \ {r}
        /\ p.bound = prep[a].bound
    BY <1>1, <2>1 DEF Preparations
  <2>3. prep' = [prep EXCEPT ![a] = p]
    BY <1>2
  <2>4. prep'[a] = p
    BY <1>1, <2>3 DEF Types
  <2>5. tracking'[r] = tip[r] /\ since[a][r] <= tip[r]
    BY <1>1, <1>2, <2>1 DEF AttemptInv, LeaseFits, Types
  <2>6. LeaseFits(a)'
    BY <1>1, <2>1, <2>2, <2>4 DEF AttemptInv, LeaseFits, Bound, InHand, Leased
  <2>7. BasesFit(a)' /\ DiskFits(a)'
    <3>1. BasesFit(a)'
      BY <1>1, <2>2, <2>4, <2>5 DEF AttemptInv, BasesFit
    <3>2. DiskFits(a)'
      BY <1>1, <1>2, <2>2, <2>4 DEF AttemptInv, DiskFits, Bound, Leased
    <3>3. QED
      BY <3>1, <3>2
  <2>8. /\ tracking' \in [Repos -> 1..MaxTip]
        /\ \A q \in Repos : tracking'[q] = tracking[q] \/ tracking'[q] = tip[q]
    BY <1>1, <1>2, <2>1 DEF Types
  <2>9. QED
    BY <1>1, <1>2, <2>2, <2>3, <2>6, <2>7, <2>8, PrepareStep DEF Types
<1>3. QED
  BY <1>1, <1>2, FailInv DEF Fetch, Leased

LEMMA CloneInv ==
  ASSUME WorkspaceInv, NEW a \in Attempts, Clone(a)  PROVE WorkspaceInv'
<1> PICK r : r = prep[a].repo
  OBVIOUS
<1>1. /\ prep[a].pc = "fetched" /\ Types /\ AttemptInv(a) /\ prep[a] \in Preparations
      /\ UNCHANGED <<branch, tip, request, approved, since, Dir, changes, crashes>>
  BY DEF Clone, boundVars, WorkspaceInv, Types
<1>2. r \in Repos \ (prep[a].left \cup Bound(a)) /\ since[a][r] <= tracking[r]
  BY <1>1 DEF AttemptInv, LeaseFits, BasesFit
<1>3. ASSUME ~Occupied(a, r), UNCHANGED tracking,
             prep' = [prep EXCEPT ![a].pc = "cloned", ![a].base = tracking[r]],
             disk' = [disk EXCEPT ![a] = @ \cup {[dir |-> Dir[r], repo |-> r, head |-> 0]}]
      PROVE  WorkspaceInv'
  <2> PICK base \in 1..MaxTip : base = tracking[r]
    BY <1>1, <1>2 DEF Types
  <2> PICK p : p = [prep[a] EXCEPT !.pc = "cloned", !.base = base]
    OBVIOUS
  <2>1. /\ p \in Preparations /\ p.pc = "cloned" /\ p.repo = r /\ p.left = prep[a].left
        /\ p.bound = prep[a].bound /\ p.base = base
    <3>1. base \in 0..MaxTip
      OBVIOUS
    <3>2. p \in Preparations
      BY <1>1, <3>1 DEF Preparations
    <3>3. QED
      BY <1>1, <3>2 DEF Preparations
  <2>2. prep' = [prep EXCEPT ![a] = p]
    BY <1>3
  <2>3. prep'[a] = p
    BY <1>1, <2>2 DEF Types
  <2> PICK c : c = [dir |-> Dir[r], repo |-> r, head |-> 0]
    OBVIOUS
  <2>4. c \in Clones /\ c.dir = Dir[r] /\ c.repo = r
    BY <1>2 DEF Clones
  <2>5. /\ disk' \in [Attempts -> SUBSET Clones] /\ disk'[a] = disk[a] \cup {c}
        /\ \A b \in Attempts \ {a} : disk'[b] = disk[b]
    BY <1>1, <1>3, <2>4 DEF Types
  <2>6. LeaseFits(a)'
    BY <1>1, <1>2, <2>1, <2>3 DEF AttemptInv, LeaseFits, Bound, InHand, Leased
  <2>7. BasesFit(a)'
    <3>1. tracking[r] <= tip[r]
      BY <1>2 DEF WorkspaceInv, NeverAhead
    <3>2. QED
      BY <1>1, <1>2, <2>1, <2>3, <3>1 DEF AttemptInv, BasesFit
  <2>8. DiskFits(a)'
    <3>1. \A d \in disk[a] : d.dir # c.dir
      BY <1>3, <2>4 DEF Occupied
    <3>2. QED
      BY <1>1, <2>1, <2>3, <2>4, <2>5, <3>1 DEF AttemptInv, DiskFits, Bound, Leased
  <2>9. QED
    BY <1>1, <1>3, <2>1, <2>2, <2>5, <2>6, <2>7, <2>8, PrepareStep DEF Types
<1>4. QED
  BY <1>1, <1>3, FailInv DEF Clone, Leased

(* The clone in hand holds the directory of its repository, so the locked   *)
(* commit that replaces it there is alone in it.                            *)
LEMMA ImportLockedInv ==
  ASSUME WorkspaceInv, NEW a \in Attempts, ImportLocked(a)  PROVE WorkspaceInv'
<1> PICK r : r = prep[a].repo
  OBVIOUS
<1>1. /\ prep[a].pc = "cloned" /\ Types /\ AttemptInv(a) /\ prep[a] \in Preparations
      /\ UNCHANGED <<branch, tip, request, approved, since, Dir, changes, crashes>>
  BY DEF ImportLocked, boundVars, WorkspaceInv, Types
<1> PICK base : base = prep[a].base
  OBVIOUS
<1>2. /\ r \in Repos \ (prep[a].left \cup Bound(a)) /\ base \in 1..MaxTip
      /\ since[a][r] <= base /\ base <= tip[r]
  BY <1>1 DEF AttemptInv, LeaseFits, BasesFit
<1>3. ASSUME tracking[r] = base, UNCHANGED tracking,
             prep' = [prep EXCEPT ![a].pc = "next", ![a].repo = None, ![a].base = 0,
                        ![a].bound = @ \cup {[repo |-> r, base |-> base]}],
             disk' = [disk EXCEPT ![a] =
                        {d \in @ : d.repo # r} \cup {[dir |-> Dir[r], repo |-> r, head |-> tracking[r]]}]
      PROVE  WorkspaceInv'
  <2> PICK lock : lock = [repo |-> r, base |-> base]
    OBVIOUS
  <2>1. lock \in Bindings /\ lock.repo = r /\ lock.base = base
    BY <1>2 DEF Bindings
  <2> PICK p : p = [prep[a] EXCEPT !.pc = "next", !.repo = None, !.base = 0, !.bound = @ \cup {lock}]
    OBVIOUS
  <2>2. /\ p \in Preparations /\ p.pc = "next" /\ p.left = prep[a].left
        /\ p.bound = prep[a].bound \cup {lock}
    <3>1. prep[a].bound \cup {lock} \in SUBSET Bindings /\ 0 \in 0..MaxTip
      BY <1>1, <2>1 DEF Preparations
    <3>2. p \in Preparations
      BY <1>1, <3>1 DEF Preparations
    <3>3. QED
      BY <1>1, <3>2 DEF Preparations
  <2>3. prep' = [prep EXCEPT ![a] = p]
    BY <1>3
  <2>4. prep'[a] = p
    BY <1>1, <2>3 DEF Types
  <2> PICK c : c = [dir |-> Dir[r], repo |-> r, head |-> base]
    OBVIOUS
  <2>5. c \in Clones /\ c.dir = Dir[r] /\ c.repo = r /\ c.head = base
    BY <1>2 DEF Clones
  <2>6. /\ disk' \in [Attempts -> SUBSET Clones] /\ disk'[a] = {d \in disk[a] : d.repo # r} \cup {c}
        /\ \A b \in Attempts \ {a} : disk'[b] = disk[b]
    BY <1>1, <1>3, <2>5 DEF Types
  <2>7. Bound(a)' = Bound(a) \cup {r}
    BY <2>1, <2>2, <2>4 DEF Bound
  <2>8. LeaseFits(a)'
    BY <1>1, <1>2, <2>2, <2>4, <2>7 DEF AttemptInv, LeaseFits, InHand, Leased
  <2>9. BasesFit(a)'
    BY <1>1, <1>2, <2>1, <2>2, <2>4 DEF AttemptInv, BasesFit
  <2>10. DiskFits(a)'
    <3>1. \A d \in disk[a] : d.dir = c.dir => d.repo = r
      BY <1>1, <2>5 DEF AttemptInv, DiskFits
    <3>2. \A d, e \in disk'[a] : d.dir = e.dir => d = e
      BY <1>1, <2>5, <2>6, <3>1 DEF AttemptInv, DiskFits
    <3>3. \A d \in disk'[a] : d.dir = Dir[d.repo] /\ d.repo \in Bound(a)'
      BY <1>1, <2>5, <2>6, <2>7 DEF AttemptInv, DiskFits
    <3>4. \A b \in p.bound : \E d \in disk'[a] : d.repo = b.repo /\ d.head = b.base
      <4>1. ASSUME NEW b \in prep[a].bound
            PROVE  \E d \in disk'[a] : d.repo = b.repo /\ d.head = b.base
        <5>1. b.repo # r
          BY <1>2, <4>1 DEF Bound
        <5>2. QED
          BY <1>1, <2>6, <4>1, <5>1 DEF AttemptInv, DiskFits, Leased
      <4>2. QED
        BY <2>1, <2>2, <2>5, <2>6, <4>1
    <3>5. QED
      BY <1>1, <2>2, <2>4, <3>2, <3>3, <3>4 DEF DiskFits, Leased
  <2>11. QED
    BY <1>1, <1>3, <2>2, <2>3, <2>6, <2>8, <2>9, <2>10, PrepareStep DEF Types
<1>4. QED
  BY <1>1, <1>3, FailInv DEF ImportLocked, Leased

LEMMA PreparedInv ==
  ASSUME WorkspaceInv, NEW a \in Attempts, Prepared(a)  PROVE WorkspaceInv'
<1>1. /\ prep[a].pc = "next" /\ prep[a].left = {} /\ Types /\ AttemptInv(a) /\ prep[a] \in Preparations
      /\ UNCHANGED <<branch, tip, tracking, request, approved, disk, since, Dir, changes, crashes>>
  BY DEF Prepared, gitVars, boundVars, WorkspaceInv, Types
<1> PICK p : p = [prep[a] EXCEPT !.pc = "ready", !.targets = {}]
  OBVIOUS
<1>2. p \in Preparations /\ p.pc = "ready" /\ p.left = {} /\ p.bound = prep[a].bound
  BY <1>1 DEF Preparations
<1>3. prep' = [prep EXCEPT ![a] = p]
  BY DEF Prepared
<1>4. prep'[a] = p
  BY <1>1, <1>3 DEF Types
<1>5. LeaseFits(a)' /\ BasesFit(a)' /\ DiskFits(a)'
  BY <1>1, <1>2, <1>4 DEF AttemptInv, LeaseFits, BasesFit, DiskFits, Bound, InHand, Leased
<1>6. QED
  BY <1>1, <1>2, <1>3, <1>5, PrepareStep DEF Types

(* Every directory of a lease is the clone of a bound repository, so closing *)
(* it leaves none.                                                           *)
LEMMA CloseInv ==
  ASSUME WorkspaceInv, NEW a \in Attempts, Close(a)  PROVE WorkspaceInv'
<1>1. /\ prep[a].pc = "ready" /\ Types /\ AttemptInv(a) /\ prep[a] \in Preparations
      /\ UNCHANGED <<branch, tip, tracking, request, approved, since, Dir, changes, crashes>>
  BY DEF Close, gitVars, boundVars, WorkspaceInv, Types
<1> PICK p : p = [prep[a] EXCEPT !.pc = "closed"]
  OBVIOUS
<1>2. p \in Preparations /\ p.pc = "closed" /\ p.left = {} /\ p.bound = prep[a].bound
  BY <1>1 DEF Preparations, AttemptInv, LeaseFits
<1>3. prep' = [prep EXCEPT ![a] = p]
  BY DEF Close
<1>4. prep'[a] = p
  BY <1>1, <1>3 DEF Types
<1>5. {d \in disk[a] : \A b \in prep[a].bound : d.repo # b.repo} = {}
  BY <1>1 DEF AttemptInv, DiskFits, Bound
<1>6. /\ disk' \in [Attempts -> SUBSET Clones] /\ disk'[a] = {}
      /\ \A b \in Attempts \ {a} : disk'[b] = disk[b]
  BY <1>1, <1>5 DEF Close, Types
<1>7. LeaseFits(a)' /\ BasesFit(a)' /\ DiskFits(a)'
  BY <1>1, <1>2, <1>4, <1>6 DEF AttemptInv, LeaseFits, BasesFit, DiskFits, Bound, InHand, Leased
<1>8. QED
  BY <1>1, <1>2, <1>3, <1>6, <1>7, PrepareStep DEF Types

(* The steps that touch no attempt: reports, pushes and fetches elsewhere.  *)
LEMMA NoAttemptStep ==
  ASSUME WorkspaceInv, Types', NeverAhead', Forward,
         UNCHANGED <<Dir, branch, request, approved, prep, disk, since, changes>>
  PROVE  WorkspaceInv'
<1>1. \A a \in Attempts : AttemptInv(a)'
  BY OtherStays DEF WorkspaceInv
<1>2. QED
  BY <1>1 DEF WorkspaceInv

LEMMA ReportInv ==
  ASSUME WorkspaceInv, NEW a \in Attempts, Report(a)  PROVE WorkspaceInv'
<1>1. UNCHANGED <<Dir, branch, tip, tracking, request, approved, prep, disk, since, changes, crashes>>
  BY DEF Report, gitVars, boundVars
<1>2. Types'
  BY <1>1 DEF WorkspaceInv, Types, Clones
<1>3. QED
  BY <1>1, <1>2, StillForward, NoAttemptStep DEF WorkspaceInv

LEMMA PushInv ==
  ASSUME WorkspaceInv, NEW r \in Repos, Push(r)  PROVE WorkspaceInv'
<1>1. /\ tip[r] < MaxTip /\ tip' = [tip EXCEPT ![r] = tip[r] + 1]
      /\ UNCHANGED <<Dir, branch, tracking, request, approved, prep, disk, since, changes, crashes>>
  BY DEF Push, boundVars
<1>2. /\ tip' \in [Repos -> 1..MaxTip] /\ tip'[r] = tip[r] + 1
      /\ \A q \in Repos \ {r} : tip'[q] = tip[q]
  BY <1>1 DEF WorkspaceInv, Types
<1>3. Types'
  BY <1>1, <1>2 DEF WorkspaceInv, Types, Clones
<1>4. NeverAhead' /\ Forward
  BY <1>1, <1>2 DEF WorkspaceInv, Types, NeverAhead, Forward
<1>5. QED
  BY <1>1, <1>3, <1>4, NoAttemptStep

LEMMA FetchElsewhereInv ==
  ASSUME WorkspaceInv, NEW r \in Repos, FetchElsewhere(r)  PROVE WorkspaceInv'
<1>1. /\ tracking' = [tracking EXCEPT ![r] = tip[r]]
      /\ UNCHANGED <<Dir, branch, tip, request, approved, prep, disk, since, changes, crashes>>
  BY DEF FetchElsewhere, boundVars
<1>2. /\ tracking' \in [Repos -> 1..MaxTip] /\ tracking'[r] = tip[r]
      /\ \A q \in Repos \ {r} : tracking'[q] = tracking[q]
  BY <1>1 DEF WorkspaceInv, Types
<1>3. Types'
  BY <1>1, <1>2 DEF WorkspaceInv, Types, Clones
<1>4. NeverAhead' /\ Forward
  BY <1>1, <1>2 DEF WorkspaceInv, Types, NeverAhead, Forward
<1>5. QED
  BY <1>1, <1>3, <1>4, NoAttemptStep

LEMMA DeployInv ==
  ASSUME WorkspaceInv, Deploy  PROVE WorkspaceInv'
<1>1. /\ changes' = changes + 1 /\ changes' \in 0..MaxChanges /\ branch' \in BranchMaps
      /\ UNCHANGED <<Dir, tip, tracking, request, approved, prep, disk, since, crashes>>
  BY DEF Deploy, gitVars, WorkspaceInv, Types, BranchMaps
<1>2. Types'
  BY <1>1 DEF WorkspaceInv, Types, Clones
<1>3. changes' > 0 /\ changes' # 0
  BY <1>1 DEF WorkspaceInv, Types
<1>4. ASSUME NEW a \in Attempts  PROVE AttemptInv(a)'
  BY <1>1, <1>3 DEF WorkspaceInv, AttemptInv, ApprovalFits, LeaseFits, BasesFit, DiskFits, Bound, InHand
<1>5. NeverAhead'
  BY <1>1 DEF WorkspaceInv, NeverAhead
<1>6. QED
  BY <1>2, <1>4, <1>5 DEF WorkspaceInv

(* A death frees nothing and loses every lease.                             *)
LEMMA CrashInv ==
  ASSUME WorkspaceInv, Crash  PROVE WorkspaceInv'
<1> PICK dead \in Preparations : dead = [NoPrep EXCEPT !.pc = "dead"]
  BY NoPrepType
<1>1. /\ crashes' \in 0..MaxCrashes
      /\ prep' = [a \in Attempts |-> IF prep[a].pc \in Leased THEN dead ELSE prep[a]]
      /\ UNCHANGED <<Dir, branch, tip, tracking, request, approved, disk, since, changes>>
  BY DEF Crash, gitVars, Leased, WorkspaceInv, Types
<1>2. Types'
  BY <1>1 DEF WorkspaceInv, Types, Clones
<1>3. dead.pc = "dead" /\ dead.left = {} /\ dead.bound = {}
  BY DEF NoPrep
<1>4. NeverAhead' /\ Forward
  BY <1>1, StillForward DEF WorkspaceInv
<1>5. ASSUME NEW a \in Attempts  PROVE AttemptInv(a)'
  <2>1. CASE prep[a].pc \in Leased
    <3>1. prep'[a] = dead
      BY <1>1, <2>1
    <3>2. ApprovalFits(a)'
      BY <1>1 DEF WorkspaceInv, AttemptInv, ApprovalFits
    <3>3. LeaseFits(a)' /\ BasesFit(a)' /\ DiskFits(a)'
      BY <1>1, <1>3, <2>1, <3>1
         DEF WorkspaceInv, AttemptInv, LeaseFits, BasesFit, DiskFits, Bound, InHand, Leased
    <3>4. QED
      BY <3>2, <3>3 DEF AttemptInv
  <2>2. CASE prep[a].pc \notin Leased
    <3>1. prep'[a] = prep[a]
      BY <1>1, <2>2
    <3>2. QED
      BY <1>1, <1>2, <1>4, <3>1, OtherStays DEF WorkspaceInv
  <2>3. QED
    BY <2>1, <2>2
<1>6. QED
  BY <1>2, <1>4, <1>5 DEF WorkspaceInv

LEMMA WorkspaceInvInit ==
  WorkspaceInit => WorkspaceInv
<1> SUFFICES ASSUME WorkspaceInit  PROVE WorkspaceInv
  OBVIOUS
<1>1. NoPrep \in Preparations /\ branch \in BranchMaps /\ [r \in Repos |-> 0] \in [Repos -> 0..MaxTip]
  BY DEF WorkspaceInit, NoPrep, Preparations, BranchMaps
<1>2. Types
  BY <1>1 DEF WorkspaceInit, Types
<1>3. NeverAhead
  BY DEF WorkspaceInit, NeverAhead
<1>4. ASSUME NEW a \in Attempts  PROVE AttemptInv(a)
  BY <1>4 DEF WorkspaceInit, NoPrep, AttemptInv, ApprovalFits, LeaseFits, BasesFit, DiskFits,
              Bound, InHand, Leased
<1>5. QED
  BY <1>2, <1>3, <1>4 DEF WorkspaceInv

LEMMA WorkspaceInvNext ==
  WorkspaceInv /\ [WorkspaceNext]_workspaceVars => WorkspaceInv'
<1> SUFFICES ASSUME WorkspaceInv, [WorkspaceNext]_workspaceVars  PROVE WorkspaceInv'
  OBVIOUS
<1>1. ASSUME NEW a \in Attempts, NEW req \in FixRequests, ApproveBaselines(a, req)
      PROVE  WorkspaceInv'
  BY <1>1, ApproveBaselinesInv
<1>2. ASSUME NEW a \in Attempts,
             ReplayFixApproval(a) \/ Prepare(a) \/ Fetch(a) \/ Clone(a) \/ ImportLocked(a)
      PROVE  WorkspaceInv'
  BY <1>2, ReplayFixApprovalInv, PrepareInv, FetchInv, CloneInv, ImportLockedInv
<1>3. ASSUME NEW a \in Attempts, Prepared(a) \/ Report(a) \/ Close(a)  PROVE WorkspaceInv'
  BY <1>3, PreparedInv, ReportInv, CloseInv
<1>4. ASSUME NEW r \in Repos, Push(r) \/ FetchElsewhere(r)  PROVE WorkspaceInv'
  BY <1>4, PushInv, FetchElsewhereInv
<1>5. CASE Deploy \/ Crash
  BY <1>5, DeployInv, CrashInv
<1>6. CASE UNCHANGED workspaceVars
  <2>1. Types' /\ UNCHANGED <<Dir, branch, tip, tracking, request, approved, prep, disk, since, changes>>
    BY <1>6 DEF workspaceVars, WorkspaceInv, Types, Clones
  <2>2. QED
    BY <2>1, StillForward, NoAttemptStep DEF WorkspaceInv
<1>7. QED
  BY <1>1, <1>2, <1>3, <1>4, <1>5, <1>6 DEF WorkspaceNext

(* What was judged.  A result is accepted for the repositories that are      *)
(* bound, which for a lease that is ready are the approved ones.             *)
JudgedInv == judged = [a \in Attempts |-> judged[a]] /\ AcceptedIsWhole

LEMMA JudgedInvNext ==
  WorkspaceInv /\ JudgedInv /\ [WorkspaceNext]_workspaceVars => JudgedInv'
<1> SUFFICES ASSUME WorkspaceInv, JudgedInv, [WorkspaceNext]_workspaceVars  PROVE JudgedInv'
  OBVIOUS
<1>1. ASSUME NEW a \in Attempts, Report(a)  PROVE JudgedInv'
  <2>1. PICK changed \in SUBSET Repos, sameScope \in BOOLEAN, verdict \in Verdicts,
             accepted \in BOOLEAN, all \in BOOLEAN :
          /\ accepted = ValidateResult(a, changed, sameScope, verdict)
          /\ all = (DOMAIN approved[a] # {} => changed = DOMAIN approved[a])
          /\ judged' = [judged EXCEPT ![a] = [accepted |-> accepted, chain |-> verdict.chain, all |-> all]]
    <3>1. PICK changed \in SUBSET Repos, sameScope \in BOOLEAN, verdict \in Verdicts :
            judged' = [judged EXCEPT ![a] =
                        [accepted |-> ValidateResult(a, changed, sameScope, verdict), chain |-> verdict.chain,
                         all |-> DOMAIN approved[a] # {} => changed = DOMAIN approved[a]]]
      BY <1>1 DEF Report
    <3>2. ValidateResult(a, changed, sameScope, verdict) \in BOOLEAN
      BY DEF ValidateResult, AllVerdicts, LinearAncestry
    <3>3. (DOMAIN approved[a] # {} => changed = DOMAIN approved[a]) \in BOOLEAN
      OBVIOUS
    <3>4. QED
      BY <3>1, <3>2, <3>3
  <2>2. prep[a].pc = "ready" /\ LeaseFits(a)
    BY <1>1 DEF Report, WorkspaceInv, AttemptInv
  <2>3. accepted => all
    BY <2>1, <2>2 DEF ValidateResult, LeaseFits, InHand, Bound, Leased
  <2>4. judged' = [b \in Attempts |-> IF b = a THEN [accepted |-> accepted, chain |-> verdict.chain, all |-> all]
                                      ELSE judged[b]]
    BY <2>1 DEF JudgedInv
  <2>5. QED
    BY <2>3, <2>4 DEF JudgedInv, AcceptedIsWhole
<1>2. CASE UNCHANGED judged
  BY <1>2 DEF JudgedInv, AcceptedIsWhole
<1>3. QED
  BY <1>1, <1>2 DEF WorkspaceNext, workspaceVars, ApproveBaselines, ReplayFixApproval, Prepare, Fetch, Clone,
     ImportLocked, Prepared, Close, Push, FetchElsewhere, Deploy, Crash

(* Every reachable state fits: approvals, leases, bases and directories, and *)
(* what was accepted.                                                        *)
THEOREM WorkspaceInvHolds ==
  WorkspaceSpec => [](WorkspaceInv /\ JudgedInv)
<1>1. WorkspaceInit => WorkspaceInv /\ JudgedInv
  BY WorkspaceInvInit DEF WorkspaceInit, JudgedInv, AcceptedIsWhole
<1>2. WorkspaceInv /\ JudgedInv /\ [WorkspaceNext]_workspaceVars => WorkspaceInv' /\ JudgedInv'
  BY WorkspaceInvNext, JudgedInvNext
<1>3. QED
  BY <1>1, <1>2, PTL DEF WorkspaceSpec

LEMMA InvGivesTypes ==
  WorkspaceInv => WorkspaceTypeOK
<1> SUFFICES ASSUME WorkspaceInv  PROVE WorkspaceTypeOK
  OBVIOUS
<1>1. DOMAIN branch \subseteq Repos
  BY DEF WorkspaceInv, Types, BranchMaps
<1>2. ASSUME NEW a \in Attempts
      PROVE  /\ request[a] = None <=> approved[a] = None
             /\ approved[a] # None => DOMAIN approved[a] \subseteq Repos
    BY ApprovedRepos DEF WorkspaceInv, AttemptInv, ApprovalFits
<1>3. ASSUME NEW a \in Attempts
      PROVE  /\ prep[a].pc \in {"none", "next", "fetched", "cloned", "ready", "closed", "failed", "dead"}
             /\ prep[a].bound \subseteq [repo : Repos, base : 1..MaxTip]
             /\ \A d \in disk[a] : d.repo \in Repos /\ d.head \in 0..MaxTip
  <2>1. prep[a] \in Preparations /\ disk[a] \subseteq Clones
    BY DEF WorkspaceInv, Types
  <2>2. QED
    BY <2>1 DEF Preparations, Bindings, Clones
<1>4. QED
  BY <1>1, <1>2, <1>3 DEF WorkspaceInv, Types, WorkspaceTypeOK

LEMMA InvGivesApproved ==
  WorkspaceInv => LeaseIsApproved
<1> SUFFICES ASSUME WorkspaceInv, NEW a \in Attempts, approved[a] # None
             PROVE  LET req == request[a].req IN
                      /\ prep[a].pc = "ready" /\ DOMAIN approved[a] # {} =>
                           {b.repo : b \in prep[a].bound} = DOMAIN approved[a]
                      /\ req.repos # {} => DOMAIN approved[a] = req.repos
                      /\ DOMAIN req.asked # {} => DOMAIN req.asked = DOMAIN approved[a]
                      /\ \A r \in DOMAIN approved[a] :
                           approved[a][r] = IF r \in DOMAIN req.asked /\ req.asked[r] # "" THEN req.asked[r]
                                            ELSE request[a].map[r]
  BY DEF LeaseIsApproved
<1>1. /\ ApprovalFits(a) /\ LeaseFits(a) /\ request[a] # None
      /\ request[a].req \in AllRequests /\ request[a].map \in BranchMaps
  BY DEF WorkspaceInv, AttemptInv, ApprovalFits, Types, Approvals
<1>2. prep[a].pc = "ready" /\ DOMAIN approved[a] # {} =>
        {b.repo : b \in prep[a].bound} = DOMAIN approved[a]
  BY <1>1 DEF LeaseFits, InHand, Bound, Leased
<1>3. approved[a] = ResolveRemediation(request[a].req, request[a].map)
  BY <1>1 DEF ApprovalFits
<1> PICK req \in AllRequests : req = request[a].req
  BY <1>1
<1> PICK map \in BranchMaps : map = request[a].map
  BY <1>1
<1> PICK res : res = approved[a]
  OBVIOUS
<1>4. AsAsked(req, map, res)
  BY <1>3, ResolvesAsAsked
<1>5. QED
  BY <1>2, <1>4 DEF AsAsked

(* A fix starts from the baselines that were approved, fresh, each           *)
(* repository in a directory of its own, and leaves nothing on disk (Prepare *)
(* and Close of workflow_fix_workspace.go, ApproveFix).                      *)
THEOREM FixesStartWhereApproved ==
  WorkspaceSpec => []FixStartsWhereApproved
<1>1. WorkspaceInv => LockedBaseIsFresh
  BY DEF WorkspaceInv, AttemptInv, BasesFit, DiskFits, Leased, LockedBaseIsFresh, Types, Preparations
<1>2. WorkspaceInv => DirectoriesApart /\ NothingLeft
  BY DEF WorkspaceInv, AttemptInv, DiskFits, DirectoriesApart, NothingLeft
<1>3. WorkspaceInv => ReplayAgrees
  BY DEF WorkspaceInv, AttemptInv, ApprovalFits, ReplayAgrees
<1>4. WorkspaceInv /\ JudgedInv => FixStartsWhereApproved
  BY <1>1, <1>2, <1>3, InvGivesTypes, InvGivesApproved DEF FixStartsWhereApproved, JudgedInv
<1>5. QED
  BY <1>4, WorkspaceInvHolds, PTL

-----------------------------------------------------------------------------
(* PlatformSession: SessionInv follows the login of the ticket platform while no two
   operations overlap.  From the refusal on, what is saved is a session that the
   platform accepts no longer (NoneAlive), whatever the browser brings meanwhile;
   what a save of the form writes keeps the session it has read. *)
SessionOps ==
  [pc : {"idle", "request", "capture", "clear", "set", "upsert", "delete", "write", "fill"},
   kind : {"none", "sync", "keepalive", "login", "logout", "save", "delete"},
   copy : SUBSET Platform, got : 0..Sessions,
   window : {"opening", "open", "closed"}, seen : BOOLEAN, ticks : 0..MaxTicks,
   img : SUBSET Platform, then : {"idle", "capture", "request"}]

SessionTypes ==
  /\ saved \in SUBSET Platform /\ op \in [Procs -> SessionOps]
  /\ minted \in 0..Sessions /\ alive \in SUBSET (1..minted) /\ raced \in BOOLEAN

OneAtWork == ~raced => \A p, q \in Procs : Busy(p) /\ Busy(q) => p = q

(* At most one platform, with a session that was opened. *)
Sound(S) == (\A x, y \in S : x = y) /\ \A x \in S : x.header <= minted

(* The platform accepts no session that is saved. *)
NoneAlive == \A pl \in saved : pl.header \notin alive

Recovers(o) == o.kind \in {"sync", "keepalive"}

(* A recovery has read what is saved; from the refusal on the saved session is dead,
   or it is the one that the recovery has put there.  A saving keeps the header. *)
RecoveryFits(o) ==
  Recovers(o) =>
    /\ o.pc \in {"request", "capture", "clear", "set", "write", "fill"}
    /\ o.pc = "request" /\ o.got = NoHeader => o.copy = saved /\ saved # {}
    /\ o.pc = "request" /\ o.got # NoHeader => \A pl \in saved : pl.header = o.got
    /\ o.pc \in {"capture", "clear", "set", "write"} => NoneAlive
    /\ o.pc \in {"write", "fill"} => o.then # "capture"
    /\ o.pc \in {"write", "fill"} /\ o.then = "request" =>
         o.got # NoHeader /\ \A pl \in o.img : pl.header = o.got
    /\ o.pc = "set" => o.got # NoHeader

WorkFits(o) ==
  o.pc # "idle" =>
    /\ o.kind # "none" /\ o.got <= minted
    /\ o.pc \in {"write", "fill"} => Sound(o.img)
    /\ o.pc = "upsert" => o.kind = "save"
    /\ RecoveryFits(o)
    /\ o.kind = "save" => o.pc \in {"upsert", "write", "fill"}
    /\ o.kind = "save" /\ o.pc \in {"write", "fill"} => o.then = "idle"
    /\ o.kind = "save" /\ o.pc = "write" => \A pl \in saved : \E x \in o.img : x.header = pl.header

SessionInv ==
  /\ SessionTypes /\ OneAtWork
  /\ ~raced => Sound(saved) /\ \A p \in Procs : WorkFits(op[p])

-----------------------------------------------------------------------------
LEMMA IdleSession == ASSUME PlatformSessionAssumption PROVE Idle \in SessionOps /\ Idle.pc = "idle"
BY DEF Idle, SessionOps, NoHeader, PlatformSessionAssumption

LEMMA SessionStarts == ASSUME PlatformSessionAssumption, Init PROVE SessionInv
<1>1. op \in [Procs -> SessionOps] /\ \A p \in Procs : op[p].pc = "idle"
  BY IdleSession DEF Init
<1>2. saved \in SUBSET Platform /\ \A x \in saved : x.header = 0
  BY DEF Init, Platform, Modes, NoHeader, PlatformSessionAssumption
<1>3. minted = 0 /\ alive = {} /\ raced = FALSE
  BY DEF Init
<1>4. SessionTypes
  <2>1. minted \in 0..Sessions
    BY <1>3 DEF PlatformSessionAssumption
  <2>2. alive \in SUBSET (1..minted) /\ raced \in BOOLEAN
    BY <1>3
  <2> QED
    BY <1>1, <1>2, <2>1, <2>2 DEF SessionTypes
<1>5. Sound(saved)
  BY <1>2, <1>3 DEF Sound, Init
<1> QED
  BY <1>1, <1>4, <1>5 DEF SessionInv, OneAtWork, Busy, WorkFits

LEMMA SessionMove ==
  ASSUME SessionInv, NEW p \in Procs, NEW o \in SessionOps, op' = [op EXCEPT ![p] = o],
         saved' \in SUBSET Platform, minted' \in 0..Sessions, alive' \in SUBSET (1..minted'), raced' \in BOOLEAN,
         ~raced' => ~raced /\ \A q \in Procs \ {p} : ~Busy(q),
         ~raced' => Sound(saved)' /\ WorkFits(o)'
  PROVE  SessionInv'
<1> USE DEF SessionInv
<1>1. op' \in [Procs -> SessionOps] /\ op'[p] = o /\ \A q \in Procs \ {p} : op'[q] = op[q]
  BY DEF SessionTypes
<1>2. ~raced' => \A q \in Procs \ {p} : op'[q].pc = "idle"
  BY <1>1 DEF Busy
<1>3. OneAtWork'
  BY <1>2 DEF OneAtWork, Busy
<1>4. ASSUME ~raced', NEW q \in Procs PROVE WorkFits(op[q])'
  <2>1. CASE q # p
    BY <1>2, <1>4, <2>1 DEF WorkFits
  <2>2. CASE q = p
    <3>1. op'[q] = o /\ WorkFits(o)'
      BY <1>1, <1>4, <2>2
    <3> QED
      BY <3>1 DEF WorkFits, RecoveryFits, Recovers, Sound, NoneAlive
  <2> QED
    BY <2>1, <2>2
<1> QED
  BY <1>1, <1>3, <1>4 DEF SessionTypes

LEMMA OneAlone ==
  ASSUME SessionInv, NEW p \in Procs, Busy(p)
  PROVE  ~raced => \A q \in Procs \ {p} : ~Busy(q)
BY DEF SessionInv, OneAtWork

LEMMA WorkStays ==
  ASSUME NEW o, UNCHANGED <<saved, alive, minted>> PROVE (WorkFits(o)' <=> WorkFits(o)) /\ (Sound(saved)' <=> Sound(saved))
BY DEF WorkFits, RecoveryFits, Recovers, Sound, NoneAlive

(* A step of an operation that touches neither the file nor the sessions. *)
LEMMA QuietMove ==
  ASSUME SessionInv, NEW p \in Procs, NEW o \in SessionOps, op' = [op EXCEPT ![p] = o], Busy(p),
         UNCHANGED <<saved, alive, minted, raced>>,
         ~raced => WorkFits(o)
  PROVE  SessionInv'
<1>1. /\ saved' \in SUBSET Platform /\ minted' \in 0..Sessions /\ alive' \in SUBSET (1..minted')
      /\ raced' \in BOOLEAN
  BY DEF SessionInv, SessionTypes
<1>2. ~raced' => Sound(saved)' /\ WorkFits(o)'
  BY WorkStays DEF SessionInv
<1>3. ~raced' => ~raced /\ \A q \in Procs \ {p} : ~Busy(q)
  BY OneAlone
<1> QED
  BY <1>1, <1>2, <1>3, SessionMove

-----------------------------------------------------------------------------
(* An operation begins by reading the platform. *)
LEMMA BeginsFit ==
  ASSUME PlatformSessionAssumption, SessionInv, NEW p \in Procs,
         NEW kind \in {"sync", "keepalive", "login", "logout", "save", "delete"},
         NEW pc \in {"request", "clear", "upsert", "delete"}, Begin(p, kind, pc),
         pc = "request" <=> kind \in {"sync", "keepalive"}, pc = "upsert" <=> kind = "save",
         pc = "request" => saved # {}
  PROVE  SessionInv'
<1> USE DEF SessionInv
<1>1. PICK o : o = [Idle EXCEPT !.pc = pc, !.kind = kind, !.copy = saved]
  OBVIOUS
<1>2. o \in SessionOps /\ o.pc = pc /\ o.kind = kind /\ o.copy = saved /\ o.got = 0
  BY <1>1, IdleSession DEF SessionTypes, SessionOps, Idle, NoHeader
<1>3. op' = [op EXCEPT ![p] = o] /\ UNCHANGED <<saved, alive, minted>>
  BY <1>1 DEF Begin
<1>4. /\ saved' \in SUBSET Platform /\ minted' \in 0..Sessions /\ alive' \in SUBSET (1..minted')
  BY <1>3 DEF SessionTypes
<1>5. raced' \in BOOLEAN /\ (~raced' => ~raced /\ \A q \in Procs \ {p} : ~Busy(q))
  BY DEF SessionTypes, Begin
<1>6. WorkFits(o)
  BY <1>2 DEF WorkFits, RecoveryFits, Recovers, SessionTypes, NoHeader
<1>7. ~raced' => Sound(saved)' /\ WorkFits(o)'
  BY <1>3, <1>5, <1>6, WorkStays
<1> QED
  BY <1>2, <1>3, <1>4, <1>5, <1>7, SessionMove

LEMMA StartsFit ==
  ASSUME PlatformSessionAssumption, SessionInv, NEW p \in Procs, Start(p) PROVE SessionInv'
<1>1. CASE Sync(p)
  BY <1>1, BeginsFit DEF Sync
<1>2. CASE KeepAlive(p)
  BY <1>2, BeginsFit DEF KeepAlive
<1>3. CASE LoginBugPlatform(p) \/ ClearBugPlatformLogin(p)
  BY <1>3, BeginsFit DEF LoginBugPlatform, ClearBugPlatformLogin
<1>4. CASE SaveBugPlatform(p)
  BY <1>4, BeginsFit DEF SaveBugPlatform
<1>5. CASE DeleteBugPlatform(p)
  BY <1>5, BeginsFit DEF DeleteBugPlatform
<1> QED
  BY <1>1, <1>2, <1>3, <1>4, <1>5 DEF Start

-----------------------------------------------------------------------------
(* What an operation goes on to do. *)
LEMMA WorkOf ==
  ASSUME SessionInv, NEW p \in Procs
  PROVE  /\ op[p] \in SessionOps /\ saved \in SUBSET Platform
         /\ minted \in 0..Sessions /\ alive \in SUBSET (1..minted) /\ raced \in BOOLEAN
         /\ ~raced => Sound(saved) /\ WorkFits(op[p])
BY DEF SessionInv, SessionTypes

LEMMA EndsFit ==
  ASSUME PlatformSessionAssumption, SessionInv, NEW p \in Procs, Busy(p), Step(p, Idle),
         UNCHANGED <<saved, alive, minted, raced>>
  PROVE  SessionInv'
<1>1. Idle \in SessionOps /\ WorkFits(Idle)
  BY IdleSession DEF WorkFits
<1> QED
  BY <1>1, QuietMove DEF Step

LEMMA CapturingWorks ==
  ASSUME PlatformSessionAssumption, SessionInv, NEW p \in Procs, Busy(p),
         ~raced => op[p].kind # "save",
         ~raced /\ Recovers(op[p]) => NoneAlive
  PROVE  Capturing(p) \in SessionOps /\ (~raced => WorkFits(Capturing(p)))
<1>1. PICK o : o = Capturing(p)
  OBVIOUS
<1>2. op[p] \in SessionOps /\ (~raced => WorkFits(op[p]))
  BY WorkOf
<1>3. o \in SessionOps /\ o.pc = "capture" /\ o.kind = op[p].kind /\ o.got = op[p].got
  <2>1. 0 \in 0..MaxTicks
    BY DEF PlatformSessionAssumption
  <2> QED
    BY <1>1, <1>2, <2>1 DEF SessionOps, Capturing
<1>4. ~raced => o.kind # "none" /\ o.got <= minted /\ o.kind # "save"
  BY <1>2, <1>3 DEF WorkFits, Busy
<1>5. ~raced => RecoveryFits(o)
  BY <1>3 DEF RecoveryFits, Recovers
<1> QED
  BY <1>1, <1>3, <1>4, <1>5 DEF WorkFits

(* A recovery goes on to clear the refused session. *)
LEMMA ClearingWorks ==
  ASSUME SessionInv, NEW p \in Procs, Busy(p), NEW o \in SessionOps,
         o.pc = "clear", o.kind = op[p].kind, o.got = op[p].got,
         ~raced => op[p].kind # "save",
         ~raced /\ Recovers(op[p]) => NoneAlive
  PROVE  ~raced => WorkFits(o)
<1>1. ~raced => WorkFits(op[p])
  BY WorkOf
<1>2. ~raced => o.kind # "none" /\ o.got <= minted /\ o.kind # "save"
  BY <1>1 DEF WorkFits, Busy
<1>3. ~raced => RecoveryFits(o)
  BY DEF RecoveryFits, Recovers
<1> QED
  BY <1>2, <1>3 DEF WorkFits

LEMMA RequestFits ==
  ASSUME PlatformSessionAssumption, SessionInv, NEW p \in Procs, Request(p) PROVE SessionInv'
<1>1. /\ op[p].pc = "request" /\ Busy(p) /\ op[p] \in SessionOps
      /\ UNCHANGED <<saved, alive, minted, raced>>
      /\ ~raced => Sound(saved) /\ WorkFits(op[p])
  BY WorkOf DEF Request, Busy, Rest
<1>2. ~raced => op[p].kind # "save" /\ (Recovers(op[p]) => RecoveryFits(op[p]))
  BY <1>1 DEF WorkFits
<1>3. \/ Step(p, Idle)
      \/ op[p].got = NoHeader /\ Copy(p).header \notin alive /\ Step(p, Capturing(p))
      \/ op[p].got # NoHeader /\ op[p].got \notin alive /\ Step(p, [op[p] EXCEPT !.pc = "clear"])
  BY DEF Request
<1>4. CASE Step(p, Idle)
  BY <1>1, <1>4, EndsFit
<1>5. CASE op[p].got = NoHeader /\ Copy(p).header \notin alive /\ Step(p, Capturing(p))
  <2>1. ~raced /\ Recovers(op[p]) => NoneAlive
    <3>1. SUFFICES ASSUME ~raced, Recovers(op[p]) PROVE NoneAlive
      OBVIOUS
    <3>2. op[p].copy = saved /\ saved # {} /\ \A x, y \in saved : x = y
      BY <1>1, <1>2, <1>5, <3>1 DEF RecoveryFits, Sound
    <3>3. Copy(p) \in saved
      BY <3>2 DEF Copy
    <3> QED
      BY <1>5, <3>2, <3>3 DEF NoneAlive
  <2>2. Capturing(p) \in SessionOps /\ (~raced => WorkFits(Capturing(p)))
    BY <1>1, <1>2, <2>1, CapturingWorks
  <2> QED
    BY <1>1, <1>5, <2>2, QuietMove DEF Step
<1>6. CASE op[p].got # NoHeader /\ op[p].got \notin alive /\ Step(p, [op[p] EXCEPT !.pc = "clear"])
  <2>1. ~raced /\ Recovers(op[p]) => NoneAlive
    BY <1>1, <1>2, <1>6 DEF RecoveryFits, NoneAlive
  <2>2. PICK o : o = [op[p] EXCEPT !.pc = "clear"]
    OBVIOUS
  <2>3. o \in SessionOps /\ o.pc = "clear" /\ o.kind = op[p].kind /\ o.got = op[p].got
    BY <1>1, <2>2 DEF SessionOps
  <2>4. ~raced => WorkFits(o)
    BY <1>1, <1>2, <2>1, <2>3, ClearingWorks
  <2> QED
    BY <1>1, <1>6, <2>2, <2>3, <2>4, QuietMove DEF Step
<1> QED
  BY <1>3, <1>4, <1>5, <1>6

LEMMA UnreachableFits ==
  ASSUME PlatformSessionAssumption, SessionInv, NEW p \in Procs, Unreachable(p) PROVE SessionInv'
BY EndsFit DEF Unreachable, Busy, Rest

(* A capture: the window, the polls, and what the last of them brings. *)
LEMMA CaptureGoesOn ==
  ASSUME PlatformSessionAssumption, SessionInv, NEW p \in Procs, op[p].pc = "capture",
         NEW o \in SessionOps, o.pc = "capture", o.kind = op[p].kind, o.got = op[p].got,
         Step(p, o), UNCHANGED <<saved, alive, minted, raced>>
  PROVE  SessionInv'
<1>1. Busy(p) /\ (~raced => WorkFits(op[p]))
  BY WorkOf DEF Busy
<1>2. ~raced => WorkFits(o)
  BY <1>1 DEF WorkFits, RecoveryFits, Recovers
<1> QED
  BY <1>1, <1>2, QuietMove DEF Step

LEMMA CaptureFailsFit ==
  ASSUME PlatformSessionAssumption, SessionInv, NEW p \in Procs, op[p].pc = "capture",
         Step(p, CaptureFailed(p)), UNCHANGED <<saved, alive, minted, raced>>
  PROVE  SessionInv'
<1>1. Busy(p) /\ op[p] \in SessionOps /\ (~raced => WorkFits(op[p]))
  BY WorkOf DEF Busy
<1>2. CASE op[p].kind = "login"
  BY <1>1, <1>2, EndsFit DEF CaptureFailed
<1>3. CASE op[p].kind # "login"
  <2>1. PICK o : o = [op[p] EXCEPT !.pc = "clear", !.window = "closed"]
    OBVIOUS
  <2>2. o \in SessionOps /\ o.pc = "clear" /\ o.kind = op[p].kind /\ o.got = op[p].got
    BY <1>1, <2>1 DEF SessionOps
  <2>3. ~raced => op[p].kind # "save" /\ (Recovers(op[p]) => NoneAlive)
    BY <1>1 DEF WorkFits, RecoveryFits
  <2>4. ~raced => WorkFits(o)
    BY <1>1, <2>2, <2>3, ClearingWorks
  <2>5. op' = [op EXCEPT ![p] = o]
    BY <1>3, <2>1 DEF CaptureFailed, Step
  <2> QED
    BY <1>1, <2>2, <2>4, <2>5, QuietMove
<1> QED
  BY <1>2, <1>3

LEMMA WindowFits ==
  ASSUME PlatformSessionAssumption, SessionInv, NEW p \in Procs, Window(p) PROVE SessionInv'
<1>1. PICK w \in {"open", "closed"} : Step(p, [op[p] EXCEPT !.window = w])
  BY DEF Window
<1>2. PICK o : o = [op[p] EXCEPT !.window = w]
  OBVIOUS
<1>3. op[p] \in SessionOps /\ op[p].pc = "capture" /\ UNCHANGED <<saved, alive, minted, raced>>
  BY WorkOf DEF Window, Rest
<1>4. o \in SessionOps /\ o.pc = "capture" /\ o.kind = op[p].kind /\ o.got = op[p].got
  BY <1>2, <1>3 DEF SessionOps
<1> QED
  BY <1>1, <1>2, <1>3, <1>4, CaptureGoesOn

(* The platform opens a session: what is saved is not that one. *)
LEMMA OpensFit ==
  ASSUME PlatformSessionAssumption, SessionInv, NEW p \in Procs, op[p].pc = "capture", minted < Sessions,
         minted' = minted + 1, alive' = alive \cup {minted + 1},
         Step(p, [op[p] EXCEPT !.pc = "set", !.got = minted + 1, !.window = "closed"]),
         UNCHANGED <<saved, raced>>
  PROVE  SessionInv'
<1>1. /\ Busy(p) /\ op[p] \in SessionOps /\ saved \in SUBSET Platform /\ raced \in BOOLEAN
      /\ minted \in 0..Sessions /\ alive \in SUBSET (1..minted)
      /\ ~raced => Sound(saved) /\ WorkFits(op[p])
  BY WorkOf DEF Busy
<1>2. PICK n : n = minted + 1
  OBVIOUS
<1>3. n \in 1..Sessions /\ minted' = n /\ alive' = alive \cup {n} /\ n \notin alive
  BY <1>1, <1>2 DEF PlatformSessionAssumption
<1>4. PICK o : o = [op[p] EXCEPT !.pc = "set", !.got = n, !.window = "closed"]
  OBVIOUS
<1>5. o \in SessionOps /\ o.pc = "set" /\ o.kind = op[p].kind /\ o.got = n /\ n # 0
  <2>1. n \in 0..Sessions /\ n # 0
    BY <1>3
  <2> QED
    BY <1>1, <1>4, <2>1 DEF SessionOps
<1>6. op' = [op EXCEPT ![p] = o]
  BY <1>2, <1>4 DEF Step
<1>7. saved' \in SUBSET Platform /\ minted' \in 0..Sessions /\ alive' \in SUBSET (1..minted') /\ raced' \in BOOLEAN
  BY <1>1, <1>2, <1>3 DEF PlatformSessionAssumption
<1>8. ~raced' => ~raced /\ \A q \in Procs \ {p} : ~Busy(q)
  BY <1>1, OneAlone
<1>9. ~raced' => Sound(saved)' /\ WorkFits(o)'
  <2>1. SUFFICES ASSUME ~raced PROVE Sound(saved)' /\ WorkFits(o)'
    OBVIOUS
  <2>2. \A x \in saved : x.header <= minted /\ x.header \in 0..Sessions
    BY <1>1, <2>1 DEF Sound, Platform
  <2>3. Sound(saved)'
    BY <1>1, <1>2, <1>3, <2>1, <2>2 DEF Sound
  <2>4. Recovers(op[p]) => NoneAlive'
    <3>1. Recovers(op[p]) => NoneAlive
      BY <1>1, <2>1 DEF WorkFits, RecoveryFits
    <3>2. \A x \in saved : x.header # n
      BY <1>1, <1>2, <2>2
    <3> QED
      BY <1>3, <3>1, <3>2 DEF NoneAlive
  <2>5. RecoveryFits(o)'
    BY <1>5, <2>4 DEF RecoveryFits, Recovers, NoHeader
  <2>6. o.kind # "none" /\ o.kind # "save" /\ o.got <= minted'
    BY <1>1, <1>3, <1>5, <2>1 DEF WorkFits, PlatformSessionAssumption
  <2> QED
    BY <1>5, <2>3, <2>5, <2>6 DEF WorkFits
<1> QED
  BY <1>5, <1>6, <1>7, <1>8, <1>9, SessionMove

LEMMA CapturePollFits ==
  ASSUME PlatformSessionAssumption, SessionInv, NEW p \in Procs, CapturePoll(p) PROVE SessionInv'
<1>1. op[p].pc = "capture" /\ UNCHANGED <<saved, raced>> /\ op[p] \in SessionOps
  BY WorkOf DEF CapturePoll, Rest
<1>2. CASE /\ minted < Sessions /\ minted' = minted + 1 /\ alive' = alive \cup {minted + 1}
           /\ Step(p, [op[p] EXCEPT !.pc = "set", !.got = minted + 1, !.window = "closed"])
  BY <1>1, <1>2, OpensFit
<1>3. CASE Step(p, CaptureFailed(p)) /\ UNCHANGED <<alive, minted>>
  BY <1>1, <1>3, CaptureFailsFit
<1>4. CASE /\ ~(op[p].ticks >= MaxTicks) /\ UNCHANGED <<alive, minted>>
           /\ Step(p, [op[p] EXCEPT !.ticks = @ + 1, !.seen = (@ \/ op[p].window = "open")])
  <2>1. PICK b : b = (op[p].seen \/ op[p].window = "open")
    OBVIOUS
  <2>2. PICK t : t = op[p].ticks + 1
    OBVIOUS
  <2>3. b \in BOOLEAN
    BY <1>1, <2>1 DEF SessionOps
  <2>4. t \in 0..MaxTicks
    BY <1>1, <1>4, <2>2 DEF SessionOps, PlatformSessionAssumption
  <2>5. PICK o : o = [op[p] EXCEPT !.ticks = t, !.seen = b]
    OBVIOUS
  <2>6. o \in SessionOps /\ o.pc = "capture" /\ o.kind = op[p].kind /\ o.got = op[p].got
    BY <1>1, <2>3, <2>4, <2>5 DEF SessionOps
  <2>7. Step(p, o)
    BY <1>4, <2>1, <2>2, <2>5 DEF Step
  <2> QED
    BY <1>1, <1>4, <2>6, <2>7, CaptureGoesOn
<1> QED
  BY <1>2, <1>3, <1>4 DEF CapturePoll

-----------------------------------------------------------------------------
(* The store. *)
LEMMA RewriteFits ==
  ASSUME SessionInv, NEW p \in Procs, Busy(p), NEW img \in SUBSET Platform, NEW then \in {"idle", "capture", "request"},
         Rewrite(p, img, then), UNCHANGED <<saved, alive, minted, raced>>,
         ~raced => Sound(img),
         ~raced /\ Recovers(op[p]) =>
           /\ NoneAlive /\ then # "capture"
           /\ then = "request" => op[p].got # NoHeader /\ \A pl \in img : pl.header = op[p].got,
         ~raced /\ op[p].kind = "save" =>
           then = "idle" /\ \A pl \in saved : \E x \in img : x.header = pl.header
  PROVE  SessionInv'
<1>1. op[p] \in SessionOps /\ (~raced => WorkFits(op[p]))
  BY WorkOf
<1>2. PICK o : o = [op[p] EXCEPT !.pc = "write", !.img = img, !.then = then]
  OBVIOUS
<1>3. /\ o \in SessionOps /\ o.pc = "write" /\ o.kind = op[p].kind /\ o.got = op[p].got
      /\ o.img = img /\ o.then = then
  BY <1>1, <1>2 DEF SessionOps
<1>4. op' = [op EXCEPT ![p] = o]
  BY <1>2 DEF Rewrite, Step
<1>5. ~raced => RecoveryFits(o)
  BY <1>3 DEF RecoveryFits, Recovers
<1>6. ~raced => o.kind # "none" /\ o.got <= minted
  BY <1>1, <1>3 DEF WorkFits, Busy
<1>7. ~raced => WorkFits(o)
  BY <1>3, <1>5, <1>6 DEF WorkFits
<1> QED
  BY <1>3, <1>4, <1>7, QuietMove

LEMMA ClearFits ==
  ASSUME PlatformSessionAssumption, SessionInv, NEW p \in Procs, ClearSessionHeader(p) PROVE SessionInv'
<1>1. /\ op[p].pc = "clear" /\ Busy(p) /\ op[p] \in SessionOps /\ saved \in SUBSET Platform
      /\ UNCHANGED <<saved, alive, minted, raced>> /\ alive \in SUBSET (1..minted) /\ minted \in 0..Sessions
      /\ ~raced => Sound(saved) /\ WorkFits(op[p])
  BY WorkOf DEF ClearSessionHeader, Busy, Rest
<1>2. ~raced => op[p].kind # "save" /\ (Recovers(op[p]) => NoneAlive)
  BY <1>1 DEF WorkFits, RecoveryFits
<1>3. CASE saved = {} /\ op[p].kind = "login"
  <2>1. ~Recovers(op[p])
    BY <1>3 DEF Recovers
  <2>2. Capturing(p) \in SessionOps /\ (~raced => WorkFits(Capturing(p)))
    BY <1>1, <1>2, <2>1, CapturingWorks
  <2>3. Step(p, Capturing(p))
    BY <1>1, <1>3 DEF ClearSessionHeader, AfterFailure
  <2> QED
    BY <1>1, <2>2, <2>3, QuietMove DEF Step
<1>4. CASE saved = {} /\ op[p].kind # "login"
  <2>1. Step(p, Idle)
    BY <1>1, <1>4 DEF ClearSessionHeader, AfterFailure
  <2> QED
    BY <1>1, <2>1, EndsFit
<1>5. CASE saved # {}
  <2>1. PICK img : img = {[pl EXCEPT !.header = NoHeader] : pl \in saved}
    OBVIOUS
  <2>2. PICK then : then = IF op[p].kind = "login" THEN "capture" ELSE "idle"
    OBVIOUS
  <2>3. \A x \in img : x \in Platform /\ x.header = 0
    BY <1>1, <2>1 DEF Platform, NoHeader, PlatformSessionAssumption
  <2>4. ~raced => Sound(img)
    <3>1. ~raced => \A x, y \in img : x = y
      BY <1>1, <2>1 DEF Sound
    <3> QED
      BY <1>1, <2>3, <3>1 DEF Sound
  <2>5. then \in {"idle", "capture", "request"} /\ then # "request" /\ (Recovers(op[p]) => then = "idle")
    BY <2>2 DEF Recovers
  <2>6. Rewrite(p, img, then)
    BY <1>5, <2>1, <2>2 DEF ClearSessionHeader
  <2>7. img \in SUBSET Platform
    BY <2>3
  <2> QED
    BY <1>1, <1>2, <2>4, <2>5, <2>6, <2>7, RewriteFits
<1> QED
  BY <1>3, <1>4, <1>5

LEMMA SetFits ==
  ASSUME PlatformSessionAssumption, SessionInv, NEW p \in Procs, SetSessionHeader(p) PROVE SessionInv'
<1>1. /\ op[p].pc = "set" /\ Busy(p) /\ op[p] \in SessionOps /\ saved \in SUBSET Platform
      /\ UNCHANGED <<saved, alive, minted, raced>>
      /\ ~raced => Sound(saved) /\ WorkFits(op[p])
  BY WorkOf DEF SetSessionHeader, Busy, Rest
<1>2. ~raced => /\ op[p].kind # "save" /\ op[p].got <= minted
                /\ Recovers(op[p]) => NoneAlive /\ op[p].got # NoHeader
  BY <1>1 DEF WorkFits, RecoveryFits
<1>3. CASE Step(p, Idle)
  BY <1>1, <1>3, EndsFit
<1>4. CASE saved = {} /\ op[p].kind # "login" /\ Step(p, AfterFailure(p))
  <2>1. PICK o : o = [op[p] EXCEPT !.pc = "clear"]
    OBVIOUS
  <2>2. o \in SessionOps /\ o.pc = "clear" /\ o.kind = op[p].kind /\ o.got = op[p].got
    BY <1>1, <2>1 DEF SessionOps
  <2>3. ~raced => WorkFits(o)
    BY <1>1, <1>2, <2>2, ClearingWorks
  <2>4. op' = [op EXCEPT ![p] = o]
    BY <1>1, <1>4, <2>1 DEF AfterFailure, Step
  <2> QED
    BY <1>1, <2>2, <2>3, <2>4, QuietMove
<1>5. CASE Rewrite(p, {[mode |-> "feishu_sso", header |-> op[p].got] : pl \in saved},
                   IF op[p].kind = "sync" THEN "request" ELSE "idle")
  <2>1. PICK img : img = {[mode |-> "feishu_sso", header |-> op[p].got] : pl \in saved}
    OBVIOUS
  <2>2. PICK then : then = IF op[p].kind = "sync" THEN "request" ELSE "idle"
    OBVIOUS
  <2>3. \A x \in img : x = [mode |-> "feishu_sso", header |-> op[p].got]
    BY <2>1
  <2>4. \A x \in img : x \in Platform /\ x.header = op[p].got
    BY <1>1, <2>3 DEF Platform, Modes, SessionOps
  <2>5. ~raced => Sound(img)
    BY <1>2, <2>3, <2>4 DEF Sound
  <2>6. then \in {"idle", "capture", "request"} /\ then # "capture"
    BY <2>2
  <2>7. Rewrite(p, img, then)
    BY <1>5, <2>1, <2>2
  <2>8. img \in SUBSET Platform
    BY <2>4
  <2> QED
    BY <1>1, <1>2, <2>4, <2>5, <2>6, <2>7, <2>8, RewriteFits
<1>6. CASE saved = {} /\ op[p].kind = "login" /\ Step(p, AfterFailure(p))
  BY <1>1, <1>6, EndsFit DEF AfterFailure
<1> QED
  BY <1>3, <1>4, <1>5, <1>6 DEF SetSessionHeader

LEMMA UpsertFits ==
  ASSUME PlatformSessionAssumption, SessionInv, NEW p \in Procs, Upsert(p) PROVE SessionInv'
<1>1. /\ op[p].pc = "upsert" /\ Busy(p) /\ op[p] \in SessionOps /\ saved \in SUBSET Platform
      /\ UNCHANGED <<saved, alive, minted, raced>> /\ minted \in 0..Sessions
      /\ ~raced => Sound(saved) /\ WorkFits(op[p])
  BY WorkOf DEF Upsert, Busy, Rest
<1>2. ~raced => ~Recovers(op[p])
  BY <1>1 DEF WorkFits, Recovers
<1>3. PICK m \in Modes : Rewrite(p, IF saved = {} THEN {[mode |-> m, header |-> NoHeader]}
                                   ELSE {[pl EXCEPT !.mode = m] : pl \in saved}, "idle")
  BY DEF Upsert
<1>4. PICK img : img = IF saved = {} THEN {[mode |-> m, header |-> NoHeader]}
                       ELSE {[pl EXCEPT !.mode = m] : pl \in saved}
  OBVIOUS
<1>5. \A x \in img : x \in Platform
  BY <1>1, <1>3, <1>4 DEF Platform, NoHeader, PlatformSessionAssumption
<1>6. \A x \in img : x.header = 0 \/ \E pl \in saved : x.header = pl.header
  BY <1>1, <1>4 DEF Platform, NoHeader
<1>7. \A pl \in saved : \E x \in img : x.header = pl.header
  <2>1. SUFFICES ASSUME NEW pl \in saved PROVE \E x \in img : x.header = pl.header
    OBVIOUS
  <2>2. [pl EXCEPT !.mode = m] \in img /\ [pl EXCEPT !.mode = m].header = pl.header
    BY <1>1, <1>4, <2>1 DEF Platform
  <2> QED
    BY <2>2
<1>8. ~raced => Sound(img)
  <2>1. ~raced => \A x, y \in img : x = y
    BY <1>1, <1>4 DEF Sound
  <2>2. ~raced => \A x \in img : x.header <= minted
    BY <1>1, <1>6 DEF Sound
  <2> QED
    BY <2>1, <2>2 DEF Sound
<1> QED
  BY <1>1, <1>2, <1>3, <1>4, <1>5, <1>7, <1>8, RewriteFits

LEMMA DeleteFits ==
  ASSUME PlatformSessionAssumption, SessionInv, NEW p \in Procs, Delete(p) PROVE SessionInv'
<1>1. /\ op[p].pc = "delete" /\ Busy(p) /\ UNCHANGED <<saved, alive, minted, raced>>
      /\ ~raced => WorkFits(op[p])
  BY WorkOf DEF Delete, Busy, Rest
<1>2. CASE Step(p, Idle)
  BY <1>1, <1>2, EndsFit
<1>3. CASE Rewrite(p, {}, "idle")
  <2>1. ~raced => op[p].kind # "save" /\ ~Recovers(op[p])
    BY <1>1 DEF WorkFits, RecoveryFits
  <2>2. Sound({})
    BY DEF Sound
  <2> QED
    BY <1>1, <1>3, <2>1, <2>2, RewriteFits
<1> QED
  BY <1>2, <1>3 DEF Delete

LEMMA TruncateFits ==
  ASSUME PlatformSessionAssumption, SessionInv, NEW p \in Procs, Truncate(p) PROVE SessionInv'
<1>1. /\ op[p].pc = "write" /\ Busy(p) /\ op[p] \in SessionOps /\ raced \in BOOLEAN
      /\ saved' = {} /\ UNCHANGED <<alive, minted, raced>>
      /\ minted \in 0..Sessions /\ alive \in SUBSET (1..minted)
      /\ ~raced => WorkFits(op[p])
  BY WorkOf DEF Truncate, Busy, Rest
<1>2. PICK o : o = [op[p] EXCEPT !.pc = "fill"]
  OBVIOUS
<1>3. /\ o \in SessionOps /\ o.pc = "fill" /\ o.kind = op[p].kind /\ o.got = op[p].got
      /\ o.img = op[p].img /\ o.then = op[p].then
  BY <1>1, <1>2 DEF SessionOps
<1>4. op' = [op EXCEPT ![p] = o]
  BY <1>2 DEF Truncate, Step
<1>5. ~raced' => ~raced /\ \A q \in Procs \ {p} : ~Busy(q)
  BY <1>1, OneAlone
<1>6. ~raced => Sound(saved)' /\ WorkFits(o)'
  <2>1. SUFFICES ASSUME ~raced PROVE Sound(saved)' /\ WorkFits(o)'
    OBVIOUS
  <2>2. Sound(saved)' /\ (Sound(op[p].img) => Sound(o.img)')
    BY <1>1, <1>3 DEF Sound
  <2>3. RecoveryFits(o)'
    BY <1>1, <1>3, <2>1 DEF WorkFits, RecoveryFits, Recovers
  <2> QED
    BY <1>1, <1>3, <2>1, <2>2, <2>3 DEF WorkFits
<1> QED
  BY <1>1, <1>3, <1>4, <1>5, <1>6, SessionMove

LEMMA FillFits ==
  ASSUME PlatformSessionAssumption, SessionInv, NEW p \in Procs, Fill(p) PROVE SessionInv'
<1>1. /\ op[p].pc = "fill" /\ Busy(p) /\ op[p] \in SessionOps /\ raced \in BOOLEAN
      /\ saved' = op[p].img /\ UNCHANGED <<alive, minted, raced>>
      /\ minted \in 0..Sessions /\ alive \in SUBSET (1..minted)
      /\ ~raced => WorkFits(op[p])
  BY WorkOf DEF Fill, Busy, Rest
<1>2. /\ saved' \in SUBSET Platform /\ minted' \in 0..Sessions /\ alive' \in SUBSET (1..minted')
      /\ raced' \in BOOLEAN
  BY <1>1 DEF SessionOps
<1>3. ~raced' => ~raced /\ \A q \in Procs \ {p} : ~Busy(q)
  BY <1>1, OneAlone
<1>4. ~raced => Sound(saved)'
  BY <1>1 DEF WorkFits, Sound
<1>5. ~raced => op[p].kind # "none" /\ op[p].got <= minted
  BY <1>1 DEF WorkFits
<1>6. PICK o : o = CASE op[p].then = "idle" -> Idle
                     [] op[p].then = "capture" -> Capturing(p)
                     [] op[p].then = "request" -> [op[p] EXCEPT !.pc = "request", !.img = {}]
  OBVIOUS
<1>7. op' = [op EXCEPT ![p] = o]
  BY <1>6 DEF Fill, Step
<1>8. o \in SessionOps /\ (~raced => WorkFits(o)')
  <2>1. CASE op[p].then = "idle"
    BY <1>6, <2>1, IdleSession DEF WorkFits
  <2>2. CASE op[p].then = "capture"
    <3>1. o = Capturing(p)
      BY <1>6, <2>2
    <3>2. o \in SessionOps /\ o.pc = "capture" /\ o.kind = op[p].kind /\ o.got = op[p].got
      <4>1. 0 \in 0..MaxTicks
        BY DEF PlatformSessionAssumption
      <4> QED
        BY <1>1, <3>1, <4>1 DEF SessionOps, Capturing
    <3>3. ~raced => op[p].kind # "save" /\ ~Recovers(op[p])
      BY <1>1, <2>2 DEF WorkFits, RecoveryFits
    <3> QED
      BY <1>1, <1>5, <3>2, <3>3 DEF WorkFits, RecoveryFits, Recovers
  <2>3. CASE op[p].then = "request"
    <3>1. o = [op[p] EXCEPT !.pc = "request", !.img = {}]
      BY <1>6, <2>3
    <3>2. o \in SessionOps /\ o.pc = "request" /\ o.kind = op[p].kind /\ o.got = op[p].got
      BY <1>1, <3>1 DEF SessionOps
    <3>3. ~raced => op[p].kind # "save"
      BY <1>1, <2>3 DEF WorkFits
    <3>4. ~raced => RecoveryFits(o)'
      BY <1>1, <2>3, <3>2 DEF WorkFits, RecoveryFits, Recovers
    <3> QED
      BY <1>1, <1>5, <3>2, <3>3, <3>4 DEF WorkFits
  <2> QED
    BY <1>1, <2>1, <2>2, <2>3 DEF SessionOps
<1> QED
  BY <1>1, <1>2, <1>3, <1>4, <1>7, <1>8, SessionMove

LEMMA ExpireFits ==
  ASSUME PlatformSessionAssumption, SessionInv, Expire PROVE SessionInv'
<1>1. /\ UNCHANGED <<saved, op, minted, raced>> /\ alive' \subseteq alive
  BY DEF Expire
<1>2. NoneAlive => NoneAlive'
  BY <1>1 DEF NoneAlive
<1>3. ASSUME NEW p \in Procs, WorkFits(op[p]) PROVE WorkFits(op[p])'
  BY <1>1, <1>2, <1>3 DEF WorkFits, RecoveryFits, Recovers, Sound
<1>4. Sound(saved) => Sound(saved)'
  BY <1>1 DEF Sound
<1>5. SessionTypes' /\ OneAtWork'
  BY <1>1 DEF SessionInv, SessionTypes, OneAtWork, Busy
<1> QED
  BY <1>1, <1>3, <1>4, <1>5 DEF SessionInv

LEMMA SessionStep ==
  ASSUME PlatformSessionAssumption, SessionInv, [Next]_vars PROVE SessionInv'
<1>1. CASE UNCHANGED vars
  BY <1>1 DEF vars, SessionInv, SessionTypes, OneAtWork, Busy, WorkFits, RecoveryFits, Recovers, Sound, NoneAlive
<1>2. CASE Expire
  BY <1>2, ExpireFits
<1>3. ASSUME NEW p \in Procs, Start(p) \/ Proceed(p) \/ Window(p) \/ Unreachable(p) PROVE SessionInv'
  BY <1>3, StartsFit, RequestFits, CapturePollFits, ClearFits, SetFits, UpsertFits, DeleteFits, TruncateFits,
     FillFits, WindowFits, UnreachableFits DEF Proceed
<1> QED
  BY <1>1, <1>2, <1>3 DEF Next

-----------------------------------------------------------------------------
(* SessionsAreKept: alone, a recovery never throws away a session that the platform
   still accepts; only a login, a logout or the deletion of the platform gives one up. *)
THEOREM SessionsAreKept ==
  ASSUME PlatformSessionAssumption PROVE Spec => WorkingSessionKept
<1>1. Init => SessionInv
  BY SessionStarts
<1>2. SessionInv /\ [Next]_vars => SessionInv'
  BY SessionStep
<1>3. SessionInv /\ [Next]_vars => [WorkingSessionKept!1]_vars
  <2>1. ASSUME SessionInv, NEW s \in alive, ~raced, Header = s, NEW p \in Procs,
               op[p].pc = "write", \A pl \in op[p].img : pl.header # s
        PROVE  op[p].kind \in {"login", "logout", "delete"} /\ Busy(p)
    <3>1. op[p] \in SessionOps /\ WorkFits(op[p]) /\ Sound(saved) /\ alive \in SUBSET (1..minted) /\ Busy(p)
      BY <2>1, WorkOf DEF Busy
    <3>2. PICK pl \in saved : pl.header = s
      BY <2>1, <3>1 DEF Header, NoHeader
    <3>3. ~NoneAlive
      BY <2>1, <3>2 DEF NoneAlive
    <3>4. op[p].kind # "none" /\ ~Recovers(op[p]) /\ op[p].kind # "save"
      BY <2>1, <3>1, <3>2, <3>3 DEF WorkFits, RecoveryFits
    <3> QED
      BY <3>1, <3>4 DEF SessionOps, Recovers
  <2> QED
    BY <2>1
<1> QED
  BY <1>1, <1>2, <1>3, PTL DEF Spec, WorkingSessionKept
=============================================================================
