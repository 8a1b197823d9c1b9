---------------------------- MODULE HistoryProofs ----------------------------
(***************************************************************************)
(* Theorems about the histories on disk: the evidence files of Cases       *)
(* (EvidenceFiles) for any numbers of Cases, contents, registrations and   *)
(* directories, and the runs of tickets in runs.json with their agents     *)
(* (Investigations) for any sets of tickets, runs, attempts and callers.   *)
(*                                                                         *)
(* EvidenceInv is the inductive invariant of the evidence files, RunsInv   *)
(* the one of the runs: as long as nothing has overtaken it, a living      *)
(* agent is found by whoever asks for the agent of its ticket, since its   *)
(* run is the youngest that has not ended and is in memory (Found).        *)
(***************************************************************************)
EXTENDS EvidenceFiles, Investigations, FiniteSetTheorems, TLAPS

(* At most one registration at a time is past the publication lock of a     *)
(* content of a Case.                                                       *)
Exclusive ==
    \A u, v \in Callers :
        /\ reg[u].at \in Holding /\ reg[v].at \in Holding
        /\ SameContent(reg[u].row, reg[v].row)
        => u = v

(* A descriptor leads to a directory that was made for the Case; a cleanup  *)
(* is about a file of its own.                                              *)
DescriptorsFit ==
    \A u \in Callers :
        /\ reg[u].at \in {"linking", "recording", "cleaning"} =>
              /\ reg[u].dir \in Dirs
              /\ owner[reg[u].dir] = reg[u].row.case
              /\ where[reg[u].dir] # "unused"
        /\ reg[u].at = "cleaning" => reg[u].created

(* What the deletion has moved is in the tombstone and belongs to the Cases *)
(* it listed; when it removes them, their rows are gone.                    *)
DeletionFits ==
    /\ deletion.todo \subseteq deletion.listed
    /\ deletion.at = "deleting" => deletion.todo = {}
    /\ \A d \in deletion.moved : where[d] = "tomb" /\ owner[d] \in deletion.listed
    /\ deletion.at = "removing" => \A c \in deletion.listed : incident[c] = "deleted"

(* A row has a file that no registration is about to clean up. *)
Keeps(d, r) ==
    /\ owner[d] = r.case /\ where[d] \in {"root", "tomb"} /\ r.digest \in files[d]
    /\ \A u \in Callers :
          InFlight(u) /\ reg[u].dir = d => reg[u].row.digest # r.digest

RowsAreKept == \A r \in rows : \E d \in Dirs : Keeps(d, r)

(* Files without a row, and files with one. *)
Underway(d, x) ==
    \/ \E u \in Callers : InFlight(u) /\ reg[u].dir = d /\ reg[u].row.digest = x
    \/ <<d, x>> \in stray
Recorded(d, x) == \E r \in rows : r.case = owner[d] /\ r.digest = x

(* Every file in place, or one that a deletion may put back, is accounted   *)
(* for; once a Case is staged, no row accounts for what is in its place.    *)
FilesAccounted ==
    /\ \A d \in Dirs : where[d] = "unused" => files[d] = {}
    /\ \A d \in Dirs : \A x \in files[d] :
          where[d] = "root" \/ (d \in deletion.moved /\ deletion.at # "removing")
          => Underway(d, x) \/ Recorded(d, x)
    /\ deletion.at \in {"staging", "deleting"} =>
          \A d \in Dirs : \A x \in files[d] :
              where[d] = "root" /\ owner[d] \in deletion.listed \ deletion.todo
              => Underway(d, x)

EvidenceInv ==
    /\ EvidenceTypeOK /\ Exclusive /\ DescriptorsFit /\ DeletionFits
    /\ RowsAreKept /\ FilesAccounted
-----------------------------------------------------------------------------
(* What staging the directory of a Case does, field by field. *)
LEMMA Staged ==
    ASSUME EvidenceInv, NEW c \in Cases, StageCaseArtifacts(c)
    PROVE  /\ UNCHANGED <<incident, rows, owner, files, reg, stray>>
           /\ c \in deletion.listed
           /\ deletion.at = "staging" /\ deletion'.at = "staging"
           /\ deletion'.listed = deletion.listed
           /\ deletion'.todo = deletion.todo \ {c}
           /\ deletion' \in [at : {"idle", "staging", "deleting", "restoring", "removing"},
                             listed : SUBSET Cases, todo : SUBSET Cases, moved : SUBSET Dirs]
           /\ \/ /\ Homeless(c)
                 /\ where' = where /\ deletion'.moved = deletion.moved
              \/ \E d \in Dirs :
                    /\ IsHome(d, c)
                    /\ where' = [where EXCEPT ![d] = "tomb"]
                    /\ deletion'.moved = deletion.moved \cup {d}
<1>1. /\ UNCHANGED <<incident, rows, owner, files, reg, stray>>
      /\ c \in deletion.todo /\ deletion.at = "staging"
  BY DEF StageCaseArtifacts, dbVars
<1>2. /\ c \in deletion.listed
      /\ deletion \in [at : {"idle", "staging", "deleting", "restoring", "removing"},
                       listed : SUBSET Cases, todo : SUBSET Cases, moved : SUBSET Dirs]
  BY <1>1 DEF EvidenceInv, EvidenceTypeOK, DeletionFits
<1>3. CASE /\ Homeless(c)
           /\ deletion' = [deletion EXCEPT !.todo = @ \ {c}]
           /\ where' = where
  BY <1>1, <1>2, <1>3
<1>4. CASE \E d \in Dirs :
             /\ IsHome(d, c)
             /\ where' = [where EXCEPT ![d] = "tomb"]
             /\ deletion' = [deletion EXCEPT !.todo = @ \ {c},
                                             !.moved = deletion.moved \cup {d}]
  <2>1. PICK d \in Dirs :
             /\ IsHome(d, c)
             /\ where' = [where EXCEPT ![d] = "tomb"]
             /\ deletion' = [deletion EXCEPT !.todo = @ \ {c},
                                             !.moved = deletion.moved \cup {d}]
    BY <1>4
  <2>2. /\ deletion'.at = "staging" /\ deletion'.listed = deletion.listed
        /\ deletion'.todo = deletion.todo \ {c}
        /\ deletion'.moved = deletion.moved \cup {d}
    BY <1>1, <1>2, <2>1
  <2>3. deletion' \in [at : {"idle", "staging", "deleting", "restoring", "removing"},
                       listed : SUBSET Cases, todo : SUBSET Cases, moved : SUBSET Dirs]
    BY <1>2, <2>1
  <2> QED BY <1>1, <1>2, <2>1, <2>2, <2>3
<1> QED BY <1>3, <1>4 DEF StageCaseArtifacts

(* The initial states satisfy the invariant. *)
LEMMA InitInv == Init => EvidenceInv
<1> SUFFICES ASSUME Init PROVE EvidenceInv
  OBVIOUS
<1>1. owner \in [Dirs -> Cases]
  BY EvidenceAssumption DEF Init
<1>2. EvidenceTypeOK
  BY <1>1 DEF Init, EvidenceTypeOK, Idle, NoDeletion, Row, IsHome
<1>3. Exclusive /\ DescriptorsFit
  BY DEF Init, Exclusive, DescriptorsFit, Idle, Holding
<1>4. DeletionFits /\ RowsAreKept
  BY DEF Init, DeletionFits, RowsAreKept, NoDeletion
<1>5. FilesAccounted
  BY DEF Init, FilesAccounted, NoDeletion
<1> QED BY <1>2, <1>3, <1>4, <1>5 DEF EvidenceInv

(* Type correctness, one directory in place for a path, and rows of         *)
(* existing Cases.                                                          *)
LEMMA EvidenceTypeOKStep ==
    ASSUME EvidenceInv, Next PROVE EvidenceTypeOK'
<1>1. ASSUME NEW u \in Callers, RegisterArtifact(u) PROVE EvidenceTypeOK'
  BY <1>1, SMTT(20) DEF DatabaseFree, DescriptorsFit, EvidenceInv,
     EvidenceTypeOK, Holding, Idle, IsHome, RegisterArtifact, Registration,
     Row, dbVars, fsVars
<1>2. ASSUME NEW u \in Callers, LockArtifactPublication(u) PROVE EvidenceTypeOK'
  BY <1>2, SMTT(20) DEF DescriptorsFit, EvidenceInv, EvidenceTypeOK, Go,
     Holding, Idle, IsHome, LockArtifactPublication, PublicationFree,
     Registration, Row, SameContent, dbVars, fsVars
<1>3. ASSUME NEW u \in Callers, GetEvidenceArtifact(u) PROVE EvidenceTypeOK'
  BY <1>3, SMTT(20) DEF DatabaseFree, DescriptorsFit, EvidenceInv,
     EvidenceTypeOK, Finish, GetEvidenceArtifact, Go, Holding, Idle, IsHome,
     Registration, Row, dbVars, fsVars
<1>4. ASSUME NEW u \in Callers, OpenDirectory(u) PROVE EvidenceTypeOK'
  <2>1. /\ reg[u] \in Registration /\ reg[u].row.case \in Cases
        /\ UNCHANGED <<incident, rows, files, deletion, stray>>
    BY <1>4 DEF OpenDirectory, EvidenceInv, EvidenceTypeOK, Idle, Registration, Row, dbVars
  <2>2. PICK d \in Dirs :
          /\ \/ IsHome(d, reg[u].row.case) /\ UNCHANGED <<where, owner>>
             \/ /\ Homeless(reg[u].row.case)
                /\ where' = [where EXCEPT ![d] = "root"]
                /\ owner' = [owner EXCEPT ![d] = reg[u].row.case]
          /\ reg' = [reg EXCEPT ![u].at = "linking", ![u].dir = d]
    BY <1>4 DEF OpenDirectory
  <2>3. reg' \in [Callers -> {Idle} \cup Registration]
    <3>1. [reg[u] EXCEPT !.at = "linking", !.dir = d] \in Registration
      BY <2>1 DEF Registration, Holding
    <3>2. reg' = [reg EXCEPT ![u] = [reg[u] EXCEPT !.at = "linking", !.dir = d]]
      BY <2>2
    <3> QED BY <3>1, <3>2 DEF EvidenceInv, EvidenceTypeOK
  <2>4. /\ where' \in [Dirs -> {"unused", "root", "tomb", "removed"}]
        /\ owner' \in [Dirs -> Cases]
    BY <2>1, <2>2 DEF EvidenceInv, EvidenceTypeOK
  <2>5. \A e, f \in Dirs : where'[e] = "root" /\ IsHome(f, owner[e])' => e = f
    BY <2>1, <2>2 DEF EvidenceInv, EvidenceTypeOK, IsHome, Homeless
  <2> QED BY <2>1, <2>3, <2>4, <2>5 DEF EvidenceInv, EvidenceTypeOK, Registration, Row, IsHome
<1>5. ASSUME NEW u \in Callers, PublishArtifact(u) PROVE EvidenceTypeOK'
  <2> DEFINE d == reg[u].dir
             x == reg[u].row.digest
             b == x \notin files[d]
  <2>1. /\ reg[u] \in Registration /\ d \in Dirs /\ x \in Digests
        /\ UNCHANGED <<incident, rows, where, owner, deletion, stray>>
    BY <1>5 DEF PublishArtifact, EvidenceInv, EvidenceTypeOK, DescriptorsFit, Idle,
             Registration, Row, dbVars
  <2>2. /\ files' = [files EXCEPT ![d] = @ \cup {x}]
        /\ reg' = [reg EXCEPT ![u].at = "recording", ![u].created = b]
    BY <1>5 DEF PublishArtifact
  <2>3. b \in BOOLEAN
    OBVIOUS
  <2> HIDE DEF b
  <2>4. [reg[u] EXCEPT !.at = "recording", !.created = b] \in Registration
    BY <2>1, <2>3 DEF Registration, Holding
  <2>5. reg' = [reg EXCEPT ![u] = [reg[u] EXCEPT !.at = "recording", !.created = b]]
    BY <2>2
  <2>6. reg' \in [Callers -> {Idle} \cup Registration]
    BY <2>4, <2>5 DEF EvidenceInv, EvidenceTypeOK
  <2>7. files' \in [Dirs -> SUBSET Digests]
    BY <2>1, <2>2 DEF EvidenceInv, EvidenceTypeOK
  <2> QED BY <2>1, <2>6, <2>7 DEF EvidenceInv, EvidenceTypeOK, Registration, Row, IsHome
<1>6. ASSUME NEW u \in Callers, PublicationFails(u) PROVE EvidenceTypeOK'
  BY <1>6, SMTT(20) DEF DescriptorsFit, EvidenceInv, EvidenceTypeOK, Finish,
     Holding, Idle, IsHome, PublicationFails, Registration, Row, dbVars,
     fsVars
<1>7. ASSUME NEW u \in Callers, LeavesFile(u) PROVE EvidenceTypeOK'
  BY <1>7, SMTT(20) DEF DescriptorsFit, EvidenceInv, EvidenceTypeOK, Finish,
     Holding, Idle, IsHome, LeavesFile, Registration, Row, dbVars
<1>8. ASSUME NEW u \in Callers, RecordEvidenceArtifact(u) PROVE EvidenceTypeOK'
  BY <1>8, SMTT(20) DEF DatabaseFree, DescriptorsFit, EvidenceInv,
     EvidenceTypeOK, Finish, Holding, Idle, IsHome, RecordEvidenceArtifact,
     Registration, Row, Verified, fsVars
<1>9. ASSUME NEW u \in Callers, RecordFails(u) PROVE EvidenceTypeOK'
  BY <1>9, SMTT(20) DEF AfterRollback, DatabaseFree, DescriptorsFit,
     EvidenceInv, EvidenceTypeOK, Finish, Go, Holding, Idle, IsHome,
     RecordFails, Registration, Row, dbVars, fsVars
<1>10. ASSUME NEW u \in Callers, Cleanup(u) PROVE EvidenceTypeOK'
  BY <1>10, SMTT(20) DEF Cleanup, DescriptorsFit, EvidenceInv,
     EvidenceTypeOK, Finish, Holding, Idle, IsHome, Registration, Row, dbVars
<1>11. ASSUME BeginDeletion PROVE EvidenceTypeOK'
  BY <1>11, SMTT(20) DEF BeginDeletion, DescriptorsFit, EvidenceInv,
     EvidenceTypeOK, Existing, Holding, Idle, IsHome, Registration, Row,
     dbVars, fsVars
<1>12. ASSUME NEW c \in Cases, StageCaseArtifacts(c) PROVE EvidenceTypeOK'
  BY <1>12, Staged DEF DescriptorsFit, EvidenceInv, EvidenceTypeOK, Holding,
     Idle, IsHome, Registration, Row
<1>13. ASSUME DeleteRows PROVE EvidenceTypeOK'
  BY <1>13, SMTT(20) DEF DeleteRows, DescriptorsFit, EvidenceInv,
     EvidenceTypeOK, Holding, Idle, IsHome, Registration, Row, dbVars, fsVars
<1>14. ASSUME DeletionFails PROVE EvidenceTypeOK'
  BY <1>14, SMTT(20) DEF DeletionFails, DescriptorsFit, EvidenceInv,
     EvidenceTypeOK, Holding, Idle, IsHome, Registration, Row, dbVars, fsVars
<1>15. ASSUME NEW d \in Dirs, RestoreDirectory(d) PROVE EvidenceTypeOK'
  BY <1>15, SMTT(20) DEF DescriptorsFit, EvidenceInv, EvidenceTypeOK,
     Holding, Homeless, Idle, IsHome, Registration, Restorable,
     RestoreDirectory, Row, dbVars
<1>16. ASSUME RollBack PROVE EvidenceTypeOK'
  BY <1>16, SMTT(20) DEF DescriptorsFit, EvidenceInv, EvidenceTypeOK,
     Holding, Idle, IsHome, NoDeletion, Registration, RollBack, Row, dbVars,
     fsVars
<1>17. ASSUME CommitDeletion PROVE EvidenceTypeOK'
  BY <1>17, SMTT(20) DEF CommitDeletion, DescriptorsFit, EvidenceInv,
     EvidenceTypeOK, Holding, Idle, IsHome, Registration, Row, fsVars
<1>18. ASSUME RemoveStaged PROVE EvidenceTypeOK'
  BY <1>18, SMTT(20) DEF DescriptorsFit, EvidenceInv, EvidenceTypeOK,
     Holding, Idle, IsHome, NoDeletion, Registration, RemoveStaged, Row,
     dbVars
<1>19. ASSUME NEW c \in Cases, SettleCase(c) PROVE EvidenceTypeOK'
  BY <1>19, SMTT(20) DEF DatabaseFree, DescriptorsFit, EvidenceInv,
     EvidenceTypeOK, Holding, Idle, IsHome, Registration, Row, SettleCase,
     fsVars
<1>20. ASSUME Crash PROVE EvidenceTypeOK'
  BY <1>20, SMTT(20) DEF Crash, DescriptorsFit, EvidenceInv, EvidenceTypeOK,
     Holding, Idle, InFlight, IsHome, NoDeletion, Registration, Row, dbVars,
     fsVars
<1> QED
  BY <1>1, <1>2, <1>3, <1>4, <1>5, <1>6, <1>7, <1>8, <1>9, <1>10, <1>11,
     <1>12, <1>13, <1>14, <1>15, <1>16, <1>17, <1>18, <1>19, <1>20 DEF Next,
     Registering, Deleting

(* The publication lock.                                                    *)
LEMMA ExclusiveStep ==
    ASSUME EvidenceInv, Next PROVE Exclusive'
<1>1. ASSUME NEW u \in Callers, RegisterArtifact(u) PROVE Exclusive'
  BY <1>1, SMTT(20) DEF DatabaseFree, EvidenceInv, EvidenceTypeOK, Exclusive,
     Holding, Idle, IsHome, RegisterArtifact, Registration, Row, SameContent,
     dbVars, fsVars
<1>2. ASSUME NEW u \in Callers, LockArtifactPublication(u) PROVE Exclusive'
  BY <1>2, SMTT(20) DEF EvidenceInv, EvidenceTypeOK, Exclusive, Go, Holding,
     Idle, IsHome, LockArtifactPublication, PublicationFree, Registration,
     Row, SameContent, dbVars, fsVars
<1>3. ASSUME NEW u \in Callers, GetEvidenceArtifact(u) PROVE Exclusive'
  BY <1>3, SMTT(20) DEF DatabaseFree, EvidenceInv, EvidenceTypeOK, Exclusive,
     Finish, GetEvidenceArtifact, Go, Holding, Idle, IsHome, Registration,
     Row, SameContent, dbVars, fsVars
<1>4. ASSUME NEW u \in Callers, OpenDirectory(u) PROVE Exclusive'
  BY <1>4, SMTT(20) DEF EvidenceInv, EvidenceTypeOK, Exclusive, Holding,
     Homeless, Idle, IsHome, OpenDirectory, Registration, Row, SameContent,
     dbVars
<1>5. ASSUME NEW u \in Callers, PublishArtifact(u) PROVE Exclusive'
  BY <1>5, SMTT(20) DEF EvidenceInv, EvidenceTypeOK, Exclusive, Holding,
     Idle, IsHome, PublishArtifact, Registration, Row, SameContent, dbVars
<1>6. ASSUME NEW u \in Callers, PublicationFails(u) PROVE Exclusive'
  BY <1>6, SMTT(20) DEF EvidenceInv, EvidenceTypeOK, Exclusive, Finish,
     Holding, Idle, IsHome, PublicationFails, Registration, Row, SameContent,
     dbVars, fsVars
<1>7. ASSUME NEW u \in Callers, LeavesFile(u) PROVE Exclusive'
  BY <1>7, SMTT(20) DEF EvidenceInv, EvidenceTypeOK, Exclusive, Finish,
     Holding, Idle, IsHome, LeavesFile, Registration, Row, SameContent,
     dbVars
<1>8. ASSUME NEW u \in Callers, RecordEvidenceArtifact(u) PROVE Exclusive'
  BY <1>8, SMTT(20) DEF DatabaseFree, EvidenceInv, EvidenceTypeOK, Exclusive,
     Finish, Holding, Idle, IsHome, RecordEvidenceArtifact, Registration,
     Row, SameContent, Verified, fsVars
<1>9. ASSUME NEW u \in Callers, RecordFails(u) PROVE Exclusive'
  BY <1>9, SMTT(20) DEF AfterRollback, DatabaseFree, EvidenceInv,
     EvidenceTypeOK, Exclusive, Finish, Go, Holding, Idle, IsHome,
     RecordFails, Registration, Row, SameContent, dbVars, fsVars
<1>10. ASSUME NEW u \in Callers, Cleanup(u) PROVE Exclusive'
  BY <1>10, SMTT(20) DEF Cleanup, EvidenceInv, EvidenceTypeOK, Exclusive,
     Finish, Holding, Idle, IsHome, Registration, Row, SameContent, dbVars
<1>11. ASSUME Crash PROVE Exclusive'
  BY <1>11, SMTT(20) DEF Crash, EvidenceInv, EvidenceTypeOK, Exclusive,
     Holding, Idle, InFlight, IsHome, NoDeletion, Registration, Row,
     SameContent, dbVars, fsVars
<1>12. CASE UNCHANGED <<reg>>
  BY <1>12 DEF EvidenceInv, Exclusive, Holding, SameContent
<1> QED
  BY <1>1, <1>2, <1>3, <1>4, <1>5, <1>6, <1>7, <1>8, <1>9, <1>10, <1>11,
     <1>12 DEF Next, Registering, Deleting, BeginDeletion,
     StageCaseArtifacts, DeleteRows, DeletionFails, RestoreDirectory,
     RollBack, CommitDeletion, RemoveStaged, SettleCase, dbVars, fsVars

(* Descriptors keep leading to directories of their Case.                   *)
LEMMA DescriptorsFitStep ==
    ASSUME EvidenceInv, Next PROVE DescriptorsFit'
<1>1. ASSUME NEW u \in Callers, RegisterArtifact(u) PROVE DescriptorsFit'
  BY <1>1, SMTT(20) DEF DatabaseFree, DescriptorsFit, EvidenceInv,
     EvidenceTypeOK, Holding, Idle, IsHome, RegisterArtifact, Registration,
     Row, dbVars, fsVars
<1>2. ASSUME NEW u \in Callers, LockArtifactPublication(u) PROVE DescriptorsFit'
  BY <1>2, SMTT(20) DEF DescriptorsFit, EvidenceInv, EvidenceTypeOK, Go,
     Holding, Idle, IsHome, LockArtifactPublication, PublicationFree,
     Registration, Row, SameContent, dbVars, fsVars
<1>3. ASSUME NEW u \in Callers, GetEvidenceArtifact(u) PROVE DescriptorsFit'
  BY <1>3, SMTT(20) DEF DatabaseFree, DescriptorsFit, EvidenceInv,
     EvidenceTypeOK, Finish, GetEvidenceArtifact, Go, Holding, Idle, IsHome,
     Registration, Row, dbVars, fsVars
<1>4. ASSUME NEW u \in Callers, OpenDirectory(u) PROVE DescriptorsFit'
  BY <1>4, SMTT(20) DEF DescriptorsFit, EvidenceInv, EvidenceTypeOK, Holding,
     Homeless, Idle, IsHome, OpenDirectory, Registration, Row, dbVars
<1>5. ASSUME NEW u \in Callers, PublishArtifact(u) PROVE DescriptorsFit'
  BY <1>5, SMTT(20) DEF DescriptorsFit, EvidenceInv, EvidenceTypeOK, Holding,
     Idle, IsHome, PublishArtifact, Registration, Row, dbVars
<1>6. ASSUME NEW u \in Callers, PublicationFails(u) PROVE DescriptorsFit'
  BY <1>6, SMTT(20) DEF DescriptorsFit, EvidenceInv, EvidenceTypeOK, Finish,
     Holding, Idle, IsHome, PublicationFails, Registration, Row, dbVars,
     fsVars
<1>7. ASSUME NEW u \in Callers, LeavesFile(u) PROVE DescriptorsFit'
  BY <1>7, SMTT(20) DEF DescriptorsFit, EvidenceInv, EvidenceTypeOK, Finish,
     Holding, Idle, IsHome, LeavesFile, Registration, Row, dbVars
<1>8. ASSUME NEW u \in Callers, RecordEvidenceArtifact(u) PROVE DescriptorsFit'
  BY <1>8, SMTT(20) DEF DatabaseFree, DescriptorsFit, EvidenceInv,
     EvidenceTypeOK, Finish, Holding, Idle, IsHome, RecordEvidenceArtifact,
     Registration, Row, Verified, fsVars
<1>9. ASSUME NEW u \in Callers, RecordFails(u) PROVE DescriptorsFit'
  BY <1>9, SMTT(20) DEF AfterRollback, DatabaseFree, DescriptorsFit,
     EvidenceInv, EvidenceTypeOK, Finish, Go, Holding, Idle, IsHome,
     RecordFails, Registration, Row, dbVars, fsVars
<1>10. ASSUME NEW u \in Callers, Cleanup(u) PROVE DescriptorsFit'
  BY <1>10, SMTT(20) DEF Cleanup, DescriptorsFit, EvidenceInv,
     EvidenceTypeOK, Finish, Holding, Idle, IsHome, Registration, Row, dbVars
<1>11. ASSUME NEW c \in Cases, StageCaseArtifacts(c) PROVE DescriptorsFit'
  BY <1>11, Staged DEF DescriptorsFit, EvidenceInv, EvidenceTypeOK, Holding,
     Idle, IsHome, Registration, Row
<1>12. ASSUME NEW d \in Dirs, RestoreDirectory(d) PROVE DescriptorsFit'
  BY <1>12, SMTT(20) DEF DescriptorsFit, EvidenceInv, EvidenceTypeOK,
     Holding, Homeless, Idle, IsHome, Registration, Restorable,
     RestoreDirectory, Row, dbVars
<1>13. ASSUME RemoveStaged PROVE DescriptorsFit'
  BY <1>13, SMTT(20) DEF DescriptorsFit, EvidenceInv, EvidenceTypeOK,
     Holding, Idle, IsHome, NoDeletion, Registration, RemoveStaged, Row,
     dbVars
<1>14. ASSUME Crash PROVE DescriptorsFit'
  BY <1>14, SMTT(20) DEF Crash, DescriptorsFit, EvidenceInv, EvidenceTypeOK,
     Holding, Idle, InFlight, IsHome, NoDeletion, Registration, Row, dbVars,
     fsVars
<1>15. CASE UNCHANGED <<reg, owner, where>>
  BY <1>15 DEF EvidenceInv, DescriptorsFit
<1> QED
  BY <1>1, <1>2, <1>3, <1>4, <1>5, <1>6, <1>7, <1>8, <1>9, <1>10, <1>11,
     <1>12, <1>13, <1>14, <1>15 DEF Next, Registering, Deleting,
     BeginDeletion, DeleteRows, DeletionFails, RollBack, CommitDeletion,
     SettleCase, dbVars, fsVars

(* The deletion and what it moved.                                          *)
LEMMA DeletionFitsStep ==
    ASSUME EvidenceInv, Next PROVE DeletionFits'
<1>1. ASSUME NEW u \in Callers, OpenDirectory(u) PROVE DeletionFits'
  BY <1>1, SMTT(20) DEF DeletionFits, EvidenceInv, EvidenceTypeOK, Holding,
     Homeless, Idle, IsHome, OpenDirectory, Registration, Row, dbVars
<1>2. ASSUME BeginDeletion PROVE DeletionFits'
  BY <1>2, SMTT(20) DEF BeginDeletion, DeletionFits, EvidenceInv,
     EvidenceTypeOK, Existing, Holding, Idle, IsHome, Registration, Row,
     dbVars, fsVars
<1>3. ASSUME NEW c \in Cases, StageCaseArtifacts(c) PROVE DeletionFits'
  BY <1>3, Staged DEF DeletionFits, EvidenceInv, EvidenceTypeOK, Holding,
     Idle, IsHome, Registration, Row
<1>4. ASSUME DeleteRows PROVE DeletionFits'
  BY <1>4, SMTT(20) DEF DeleteRows, DeletionFits, EvidenceInv,
     EvidenceTypeOK, Holding, Idle, IsHome, Registration, Row, dbVars, fsVars
<1>5. ASSUME DeletionFails PROVE DeletionFits'
  BY <1>5, SMTT(20) DEF DeletionFails, DeletionFits, EvidenceInv,
     EvidenceTypeOK, Holding, Idle, IsHome, Registration, Row, dbVars, fsVars
<1>6. ASSUME NEW d \in Dirs, RestoreDirectory(d) PROVE DeletionFits'
  BY <1>6, SMTT(20) DEF DeletionFits, EvidenceInv, EvidenceTypeOK, Holding,
     Homeless, Idle, IsHome, Registration, Restorable, RestoreDirectory, Row,
     dbVars
<1>7. ASSUME RollBack PROVE DeletionFits'
  BY <1>7, SMTT(20) DEF DeletionFits, EvidenceInv, EvidenceTypeOK, Holding,
     Idle, IsHome, NoDeletion, Registration, RollBack, Row, dbVars, fsVars
<1>8. ASSUME CommitDeletion PROVE DeletionFits'
  BY <1>8, SMTT(20) DEF CommitDeletion, DeletionFits, EvidenceInv,
     EvidenceTypeOK, Holding, Idle, IsHome, Registration, Row, fsVars
<1>9. ASSUME RemoveStaged PROVE DeletionFits'
  BY <1>9, SMTT(20) DEF DeletionFits, EvidenceInv, EvidenceTypeOK, Holding,
     Idle, IsHome, NoDeletion, Registration, RemoveStaged, Row, dbVars
<1>10. ASSUME NEW c \in Cases, SettleCase(c) PROVE DeletionFits'
  BY <1>10, SMTT(20) DEF DatabaseFree, DeletionFits, EvidenceInv,
     EvidenceTypeOK, Holding, Idle, IsHome, Registration, Row, SettleCase,
     fsVars
<1>11. ASSUME Crash PROVE DeletionFits'
  BY <1>11, SMTT(20) DEF Crash, DeletionFits, EvidenceInv, EvidenceTypeOK,
     Holding, Idle, InFlight, IsHome, NoDeletion, Registration, Row, dbVars,
     fsVars
<1>12. CASE UNCHANGED <<incident, where, owner, deletion>>
  BY <1>12 DEF EvidenceInv, DeletionFits
<1> QED
  BY <1>1, <1>2, <1>3, <1>4, <1>5, <1>6, <1>7, <1>8, <1>9, <1>10, <1>11,
     <1>12 DEF Next, Registering, Deleting, RegisterArtifact,
     LockArtifactPublication, GetEvidenceArtifact, PublishArtifact,
     PublicationFails, LeavesFile, RecordEvidenceArtifact, RecordFails,
     Cleanup, dbVars, fsVars, Go, Finish

(* Rows keep their files. A cleanup removes only a file its registration    *)
(* created, and the lock keeps others from recording it meanwhile; a        *)
(* removed directory belongs to Cases without rows.                         *)
LEMMA RowsAreKeptStep ==
    ASSUME EvidenceInv, Next PROVE RowsAreKept'
<1>1. ASSUME NEW u \in Callers, RegisterArtifact(u) PROVE RowsAreKept'
  BY <1>1, SMTT(20) DEF DatabaseFree, DeletionFits, DescriptorsFit,
     EvidenceInv, EvidenceTypeOK, Exclusive, Holding, Idle, InFlight, IsHome,
     Keeps, RegisterArtifact, Registration, Row, RowsAreKept, SameContent,
     dbVars, fsVars
<1>2. ASSUME NEW u \in Callers, LockArtifactPublication(u) PROVE RowsAreKept'
  BY <1>2, SMTT(20) DEF DeletionFits, DescriptorsFit, EvidenceInv,
     EvidenceTypeOK, Exclusive, Go, Holding, Idle, InFlight, IsHome, Keeps,
     LockArtifactPublication, PublicationFree, Registration, Row,
     RowsAreKept, SameContent, dbVars, fsVars
<1>3. ASSUME NEW u \in Callers, GetEvidenceArtifact(u) PROVE RowsAreKept'
  BY <1>3, SMTT(20) DEF DatabaseFree, DeletionFits, DescriptorsFit,
     EvidenceInv, EvidenceTypeOK, Exclusive, Finish, GetEvidenceArtifact, Go,
     Holding, Idle, InFlight, IsHome, Keeps, Registration, Row, RowsAreKept,
     SameContent, dbVars, fsVars
<1>4. ASSUME NEW u \in Callers, OpenDirectory(u) PROVE RowsAreKept'
  BY <1>4, SMTT(20) DEF DeletionFits, DescriptorsFit, EvidenceInv,
     EvidenceTypeOK, Exclusive, Holding, Homeless, Idle, InFlight, IsHome,
     Keeps, OpenDirectory, Registration, Row, RowsAreKept, SameContent,
     dbVars
<1>5. ASSUME NEW u \in Callers, PublishArtifact(u) PROVE RowsAreKept'
  BY <1>5, SMTT(20) DEF DeletionFits, DescriptorsFit, EvidenceInv,
     EvidenceTypeOK, Exclusive, Holding, Idle, InFlight, IsHome, Keeps,
     PublishArtifact, Registration, Row, RowsAreKept, SameContent, dbVars
<1>6. ASSUME NEW u \in Callers, PublicationFails(u) PROVE RowsAreKept'
  BY <1>6, SMTT(20) DEF DeletionFits, DescriptorsFit, EvidenceInv,
     EvidenceTypeOK, Exclusive, Finish, Holding, Idle, InFlight, IsHome,
     Keeps, PublicationFails, Registration, Row, RowsAreKept, SameContent,
     dbVars, fsVars
<1>7. ASSUME NEW u \in Callers, LeavesFile(u) PROVE RowsAreKept'
  BY <1>7, SMTT(20) DEF DeletionFits, DescriptorsFit, EvidenceInv,
     EvidenceTypeOK, Exclusive, Finish, Holding, Idle, InFlight, IsHome,
     Keeps, LeavesFile, Registration, Row, RowsAreKept, SameContent, dbVars
<1>8. ASSUME NEW u \in Callers, RecordEvidenceArtifact(u) PROVE RowsAreKept'
  BY <1>8, SMTT(20) DEF DatabaseFree, DeletionFits, DescriptorsFit,
     EvidenceInv, EvidenceTypeOK, Exclusive, Finish, Holding, Idle, InFlight,
     IsHome, Keeps, RecordEvidenceArtifact, Registration, Row, RowsAreKept,
     SameContent, Verified, fsVars
<1>9. ASSUME NEW u \in Callers, RecordFails(u) PROVE RowsAreKept'
  BY <1>9, SMTT(20) DEF AfterRollback, DatabaseFree, DeletionFits,
     DescriptorsFit, EvidenceInv, EvidenceTypeOK, Exclusive, Finish, Go,
     Holding, Idle, InFlight, IsHome, Keeps, RecordFails, Registration, Row,
     RowsAreKept, SameContent, dbVars, fsVars
<1>10. ASSUME NEW u \in Callers, Cleanup(u) PROVE RowsAreKept'
  BY <1>10, SMTT(20) DEF Cleanup, DeletionFits, DescriptorsFit, EvidenceInv,
     EvidenceTypeOK, Exclusive, Finish, Holding, Idle, InFlight, IsHome,
     Keeps, Registration, Row, RowsAreKept, SameContent, dbVars
<1>11. ASSUME NEW c \in Cases, StageCaseArtifacts(c) PROVE RowsAreKept'
  BY <1>11, Staged DEF DeletionFits, DescriptorsFit, EvidenceInv,
     EvidenceTypeOK, Exclusive, Holding, Idle, InFlight, IsHome, Keeps,
     Registration, Row, RowsAreKept, SameContent
<1>12. ASSUME NEW d \in Dirs, RestoreDirectory(d) PROVE RowsAreKept'
  BY <1>12, SMTT(20) DEF DeletionFits, DescriptorsFit, EvidenceInv,
     EvidenceTypeOK, Exclusive, Holding, Homeless, Idle, InFlight, IsHome,
     Keeps, Registration, Restorable, RestoreDirectory, Row, RowsAreKept,
     SameContent, dbVars
<1>13. ASSUME CommitDeletion PROVE RowsAreKept'
  BY <1>13, SMTT(20) DEF CommitDeletion, DeletionFits, DescriptorsFit,
     EvidenceInv, EvidenceTypeOK, Exclusive, Holding, Idle, InFlight, IsHome,
     Keeps, Registration, Row, RowsAreKept, SameContent, fsVars
<1>14. ASSUME RemoveStaged PROVE RowsAreKept'
  BY <1>14, SMTT(20) DEF DeletionFits, DescriptorsFit, EvidenceInv,
     EvidenceTypeOK, Exclusive, Holding, Idle, InFlight, IsHome, Keeps,
     NoDeletion, Registration, RemoveStaged, Row, RowsAreKept, SameContent,
     dbVars
<1>15. ASSUME Crash PROVE RowsAreKept'
  BY <1>15, SMTT(20) DEF Crash, DeletionFits, DescriptorsFit, EvidenceInv,
     EvidenceTypeOK, Exclusive, Holding, Idle, InFlight, IsHome, Keeps,
     NoDeletion, Registration, Row, RowsAreKept, SameContent, dbVars, fsVars
<1>16. CASE UNCHANGED <<rows, owner, where, files, reg>>
  BY <1>16 DEF EvidenceInv, InFlight, Keeps, RowsAreKept
<1> QED
  BY <1>1, <1>2, <1>3, <1>4, <1>5, <1>6, <1>7, <1>8, <1>9, <1>10, <1>11,
     <1>12, <1>13, <1>14, <1>15, <1>16 DEF Next, Registering, Deleting,
     BeginDeletion, DeleteRows, DeletionFails, RollBack, SettleCase, dbVars,
     fsVars

(* Files stay accounted for. The commit drops rows only of Cases whose      *)
(* directories were staged; what is in their place then was published       *)
(* since, and is underway.                                                  *)
LEMMA FilesAccountedStep ==
    ASSUME EvidenceInv, Next PROVE FilesAccounted'
<1>1. ASSUME NEW u \in Callers, RegisterArtifact(u) PROVE FilesAccounted'
  BY <1>1, SMTT(20) DEF DatabaseFree, DeletionFits, DescriptorsFit,
     EvidenceInv, EvidenceTypeOK, Exclusive, FilesAccounted, Holding, Idle,
     InFlight, IsHome, Recorded, RegisterArtifact, Registration, Row,
     SameContent, Underway, dbVars, fsVars
<1>2. ASSUME NEW u \in Callers, LockArtifactPublication(u) PROVE FilesAccounted'
  BY <1>2, SMTT(20) DEF DeletionFits, DescriptorsFit, EvidenceInv,
     EvidenceTypeOK, Exclusive, FilesAccounted, Go, Holding, Idle, InFlight,
     IsHome, LockArtifactPublication, PublicationFree, Recorded,
     Registration, Row, SameContent, Underway, dbVars, fsVars
<1>3. ASSUME NEW u \in Callers, GetEvidenceArtifact(u) PROVE FilesAccounted'
  BY <1>3, SMTT(20) DEF DatabaseFree, DeletionFits, DescriptorsFit,
     EvidenceInv, EvidenceTypeOK, Exclusive, FilesAccounted, Finish,
     GetEvidenceArtifact, Go, Holding, Idle, InFlight, IsHome, Recorded,
     Registration, Row, SameContent, Underway, dbVars, fsVars
<1>4. ASSUME NEW u \in Callers, OpenDirectory(u) PROVE FilesAccounted'
  <2>1. UNCHANGED <<rows, files, deletion, stray>>
    BY <1>4 DEF OpenDirectory, dbVars
  <2>2. PICK d \in Dirs :
          /\ \/ UNCHANGED <<where, owner>>
             \/ /\ where[d] = "unused"
                /\ where' = [where EXCEPT ![d] = "root"]
                /\ owner' = [owner EXCEPT ![d] = reg[u].row.case]
          /\ reg' = [reg EXCEPT ![u].at = "linking", ![u].dir = d]
    BY <1>4 DEF OpenDirectory
  <2>3. \A v \in Callers : InFlight(v)' <=> InFlight(v)
    BY <1>4, <2>2 DEF OpenDirectory, InFlight, EvidenceInv, EvidenceTypeOK
  <2>4. \A v \in Callers : InFlight(v) => reg'[v] = reg[v]
    BY <1>4, <2>2 DEF OpenDirectory, InFlight, EvidenceInv, EvidenceTypeOK
  <2>5. \A e, x : Underway(e, x)' <=> Underway(e, x)
    BY <2>1, <2>3, <2>4 DEF Underway
  <2>6. where'[d] = "unused" => where[d] = "unused"
    BY <2>2 DEF EvidenceInv, EvidenceTypeOK
  <2>7. \A e \in Dirs : e # d => where'[e] = where[e] /\ owner'[e] = owner[e]
    BY <2>2 DEF EvidenceInv, EvidenceTypeOK
  <2>8. files[d] = {} \/ UNCHANGED <<where, owner>>
    BY <2>2 DEF EvidenceInv, FilesAccounted
  <2> QED BY <2>1, <2>5, <2>6, <2>7, <2>8
          DEF EvidenceInv, FilesAccounted, Recorded
<1>5. ASSUME NEW u \in Callers, PublishArtifact(u) PROVE FilesAccounted'
  <2>1. PICK d \in Dirs : d = reg[u].dir /\ where[d] # "unused"
    BY <1>5 DEF PublishArtifact, EvidenceInv, DescriptorsFit
  <2>2. PICK x : x = reg[u].row.digest
    OBVIOUS
  <2>3. PICK new \in BOOLEAN : new = (x \notin files[d])
    OBVIOUS
  <2>4. /\ reg[u].at = "linking" /\ reg' = [reg EXCEPT ![u].at = "recording", ![u].created = new]
        /\ files' = [files EXCEPT ![d] = @ \cup {x}] /\ UNCHANGED <<rows, where, owner, deletion, stray>>
    BY <1>5, <2>1, <2>2, <2>3 DEF PublishArtifact, dbVars
  <2>5. /\ reg'[u].at = "recording" /\ reg'[u].dir = d /\ reg'[u].row = reg[u].row /\ reg'[u].created = new
        /\ \A v \in Callers : v # u => reg'[v] = reg[v]
    <3>1. reg \in [Callers -> {Idle} \cup Registration] /\ reg[u] \in Registration
      BY <2>4 DEF EvidenceInv, EvidenceTypeOK, Idle
    <3>2. PICK n : n = [reg[u] EXCEPT !.at = "recording", !.created = new]
      OBVIOUS
    <3>3. n.at = "recording" /\ n.dir = d /\ n.row = reg[u].row /\ n.created = new
      BY <2>1, <3>1, <3>2 DEF Registration
    <3>4. reg' = [reg EXCEPT ![u] = n]
      BY <2>4, <3>1, <3>2
    <3>5. QED
      BY <3>1, <3>3, <3>4
  <2>6. new => Underway(d, x)'
    BY <2>2, <2>5 DEF Underway, InFlight
  <2>7. \A e, y : Underway(e, y) => Underway(e, y)'
    BY <2>1, <2>4, <2>5 DEF Underway, InFlight
  <2>8. \A e \in Dirs : \A y \in files'[e] : y \in files[e] \/ (e = d /\ y = x /\ new)
    BY <2>3, <2>4 DEF EvidenceInv, EvidenceTypeOK
  <2>9. \A e \in Dirs : where[e] = "unused" => files'[e] = files[e]
    BY <2>1, <2>4 DEF EvidenceInv, EvidenceTypeOK
  <2> QED BY <2>4, <2>6, <2>7, <2>8, <2>9 DEF EvidenceInv, FilesAccounted, Recorded
<1>6. ASSUME NEW u \in Callers, PublicationFails(u) PROVE FilesAccounted'
  BY <1>6, SMTT(20) DEF DeletionFits, DescriptorsFit, EvidenceInv,
     EvidenceTypeOK, Exclusive, FilesAccounted, Finish, Holding, Idle,
     InFlight, IsHome, PublicationFails, Recorded, Registration, Row,
     SameContent, Underway, dbVars, fsVars
<1>7. ASSUME NEW u \in Callers, LeavesFile(u) PROVE FilesAccounted'
  BY <1>7, SMTT(20) DEF DeletionFits, DescriptorsFit, EvidenceInv,
     EvidenceTypeOK, Exclusive, FilesAccounted, Finish, Holding, Idle,
     InFlight, IsHome, LeavesFile, Recorded, Registration, Row, SameContent,
     Underway, dbVars
<1>8. ASSUME NEW u \in Callers, RecordEvidenceArtifact(u) PROVE FilesAccounted'
  BY <1>8, SMTT(20) DEF DatabaseFree, DeletionFits, DescriptorsFit,
     EvidenceInv, EvidenceTypeOK, Exclusive, FilesAccounted, Finish, Holding,
     Idle, InFlight, IsHome, RecordEvidenceArtifact, Recorded, Registration,
     Row, SameContent, Underway, Verified, fsVars
<1>9. ASSUME NEW u \in Callers, RecordFails(u) PROVE FilesAccounted'
  BY <1>9, SMTT(20) DEF AfterRollback, DatabaseFree, DeletionFits,
     DescriptorsFit, EvidenceInv, EvidenceTypeOK, Exclusive, FilesAccounted,
     Finish, Go, Holding, Idle, InFlight, IsHome, RecordFails, Recorded,
     Registration, Row, SameContent, Underway, dbVars, fsVars
<1>10. ASSUME NEW u \in Callers, Cleanup(u) PROVE FilesAccounted'
  <2> DEFINE d == reg[u].dir
             x == reg[u].row.digest
  <2>1. d \in Dirs /\ UNCHANGED <<rows, where, owner, deletion>>
    BY <1>10 DEF Cleanup, EvidenceInv, DescriptorsFit, dbVars
  <2>2. /\ reg' = [reg EXCEPT ![u] = Idle]
        /\ \/ files' = [files EXCEPT ![d] = @ \ {x}] /\ stray' = stray
           \/ files' = files /\ stray' = stray \cup {<<d, x>>}
    BY <1>10 DEF Cleanup, Finish
  <2>3. \A e \in Dirs : files'[e] \subseteq files[e]
    BY <2>1, <2>2 DEF EvidenceInv, EvidenceTypeOK
  <2>4. ASSUME NEW e \in Dirs, NEW y \in files'[e], Underway(e, y)
        PROVE  Underway(e, y)'
    <3>1. CASE <<e, y>> \in stray
      BY <2>2, <3>1 DEF Underway
    <3>2. CASE e = d /\ y = x
      <4>1. x \notin files'[d] \/ <<d, x>> \in stray'
        BY <2>1, <2>2 DEF EvidenceInv, EvidenceTypeOK
      <4> QED BY <2>4, <3>2, <4>1 DEF Underway
    <3>3. CASE <<e, y>> \notin stray /\ ~(e = d /\ y = x)
      <4>1. PICK v \in Callers :
              InFlight(v) /\ reg[v].dir = e /\ reg[v].row.digest = y
        BY <2>4, <3>3 DEF Underway
      <4>2. v # u
        BY <3>3, <4>1
      <4>3. reg'[v] = reg[v]
        BY <2>2, <4>2 DEF EvidenceInv, EvidenceTypeOK
      <4> QED BY <4>1, <4>3 DEF Underway, InFlight
    <3> QED BY <3>1, <3>2, <3>3
  <2> HIDE DEF d, x
  <2>5. \A e, y : Recorded(e, y)' <=> Recorded(e, y)
    BY <2>1 DEF Recorded
  <2> QED BY <2>1, <2>3, <2>4, <2>5 DEF EvidenceInv, FilesAccounted
<1>11. ASSUME BeginDeletion PROVE FilesAccounted'
  BY <1>11, SMTT(20) DEF BeginDeletion, DeletionFits, DescriptorsFit,
     EvidenceInv, EvidenceTypeOK, Exclusive, Existing, FilesAccounted,
     Holding, Idle, InFlight, IsHome, Recorded, Registration, Row,
     SameContent, Underway, dbVars, fsVars
<1>12. ASSUME NEW c \in Cases, StageCaseArtifacts(c) PROVE FilesAccounted'
  <2>1. /\ UNCHANGED <<rows, owner, files, reg, stray>>
        /\ c \in deletion.listed
        /\ deletion.at = "staging" /\ deletion'.at = "staging"
        /\ deletion'.listed = deletion.listed
        /\ deletion'.todo = deletion.todo \ {c}
    BY <1>12, Staged
  <2>2. \A e, x : /\ Underway(e, x)' <=> Underway(e, x)
                  /\ Recorded(e, x)' <=> Recorded(e, x)
    BY <2>1 DEF Underway, Recorded, InFlight
  <2>3. CASE Homeless(c) /\ where' = where /\ deletion'.moved = deletion.moved
    <3>1. \A d \in Dirs : where'[d] = "root" => owner[d] # c
      BY <2>3 DEF Homeless, IsHome
    <3> QED BY <2>1, <2>2, <2>3, <3>1 DEF EvidenceInv, FilesAccounted
  <2>4. CASE \E d \in Dirs : /\ IsHome(d, c)
                             /\ where' = [where EXCEPT ![d] = "tomb"]
                             /\ deletion'.moved = deletion.moved \cup {d}
    <3>1. PICK d \in Dirs : /\ IsHome(d, c)
                            /\ where' = [where EXCEPT ![d] = "tomb"]
                            /\ deletion'.moved = deletion.moved \cup {d}
      BY <2>4
    <3>2. \A e \in Dirs : where'[e] = "root" => where[e] = "root" /\ owner[e] # c
      BY <3>1 DEF EvidenceInv, EvidenceTypeOK, IsHome
    <3>3. /\ where[d] = "root"
          /\ \A e \in Dirs : where'[e] = "unused" => where[e] = "unused"
      BY <3>1 DEF EvidenceInv, EvidenceTypeOK, IsHome
    <3>4. ASSUME NEW e \in Dirs, NEW x \in files[e],
                 where'[e] = "root" \/ e \in deletion'.moved
          PROVE  Underway(e, x) \/ Recorded(e, x)
      BY <2>1, <3>1, <3>2, <3>3, <3>4 DEF EvidenceInv, FilesAccounted
    <3>5. ASSUME NEW e \in Dirs, NEW x \in files[e], where'[e] = "root",
                 owner[e] \in deletion'.listed \ deletion'.todo
          PROVE  Underway(e, x)
      BY <2>1, <3>2, <3>5 DEF EvidenceInv, FilesAccounted
    <3> QED BY <2>1, <2>2, <3>3, <3>4, <3>5 DEF EvidenceInv, FilesAccounted
  <2> QED BY <1>12, Staged, <2>3, <2>4
<1>13. ASSUME DeleteRows PROVE FilesAccounted'
  BY <1>13, SMTT(20) DEF DeleteRows, DeletionFits, DescriptorsFit,
     EvidenceInv, EvidenceTypeOK, Exclusive, FilesAccounted, Holding, Idle,
     InFlight, IsHome, Recorded, Registration, Row, SameContent, Underway,
     dbVars, fsVars
<1>14. ASSUME DeletionFails PROVE FilesAccounted'
  BY <1>14, SMTT(20) DEF DeletionFails, DeletionFits, DescriptorsFit,
     EvidenceInv, EvidenceTypeOK, Exclusive, FilesAccounted, Holding, Idle,
     InFlight, IsHome, Recorded, Registration, Row, SameContent, Underway,
     dbVars, fsVars
<1>15. ASSUME NEW d \in Dirs, RestoreDirectory(d) PROVE FilesAccounted'
  BY <1>15, SMTT(20) DEF DeletionFits, DescriptorsFit, EvidenceInv,
     EvidenceTypeOK, Exclusive, FilesAccounted, Holding, Homeless, Idle,
     InFlight, IsHome, Recorded, Registration, Restorable, RestoreDirectory,
     Row, SameContent, Underway, dbVars
<1>16. ASSUME RollBack PROVE FilesAccounted'
  BY <1>16, SMTT(20) DEF DeletionFits, DescriptorsFit, EvidenceInv,
     EvidenceTypeOK, Exclusive, FilesAccounted, Holding, Idle, InFlight,
     IsHome, NoDeletion, Recorded, Registration, RollBack, Row, SameContent,
     Underway, dbVars, fsVars
<1>17. ASSUME CommitDeletion PROVE FilesAccounted'
  BY <1>17, SMTT(20) DEF CommitDeletion, DeletionFits, DescriptorsFit,
     EvidenceInv, EvidenceTypeOK, Exclusive, FilesAccounted, Holding, Idle,
     InFlight, IsHome, Recorded, Registration, Row, SameContent, Underway,
     fsVars
<1>18. ASSUME RemoveStaged PROVE FilesAccounted'
  BY <1>18, SMTT(20) DEF DeletionFits, DescriptorsFit, EvidenceInv,
     EvidenceTypeOK, Exclusive, FilesAccounted, Holding, Idle, InFlight,
     IsHome, NoDeletion, Recorded, Registration, RemoveStaged, Row,
     SameContent, Underway, dbVars
<1>19. ASSUME Crash PROVE FilesAccounted'
  BY <1>19, SMTT(20) DEF Crash, DeletionFits, DescriptorsFit, EvidenceInv,
     EvidenceTypeOK, Exclusive, FilesAccounted, Holding, Idle, InFlight,
     IsHome, NoDeletion, Recorded, Registration, Row, SameContent, Underway,
     dbVars, fsVars
<1>20. CASE UNCHANGED <<rows, owner, where, files, reg, deletion, stray>>
  BY <1>20 DEF EvidenceInv, FilesAccounted, InFlight, Recorded, Underway
<1> QED
  BY <1>1, <1>2, <1>3, <1>4, <1>5, <1>6, <1>7, <1>8, <1>9, <1>10, <1>11,
     <1>12, <1>13, <1>14, <1>15, <1>16, <1>17, <1>18, <1>19, <1>20 DEF Next,
     Registering, Deleting, SettleCase, dbVars, fsVars

-----------------------------------------------------------------------------
(* Every step, and every stutter, keeps the invariant. *)
LEMMA StepInv == EvidenceInv /\ [Next]_vars => EvidenceInv'
<1> SUFFICES ASSUME EvidenceInv, [Next]_vars PROVE EvidenceInv'
  OBVIOUS
<1>1. CASE Next
  BY <1>1, EvidenceTypeOKStep, ExclusiveStep, DescriptorsFitStep,
     DeletionFitsStep, RowsAreKeptStep, FilesAccountedStep DEF EvidenceInv
<1>2. CASE UNCHANGED vars
  BY <1>2 DEF vars, dbVars, fsVars, EvidenceInv, EvidenceTypeOK, Exclusive,
     DescriptorsFit, DeletionFits, RowsAreKept, Keeps, FilesAccounted, Underway,
     Recorded, InFlight, IsHome
<1> QED BY <1>1, <1>2

(* The inductive invariant holds in every state. *)
THEOREM EvidenceInvariant == Spec => []EvidenceInv
BY InitInv, StepInv, PTL DEF Spec

(* Type correctness of registration and deletion; a Case has at most one    *)
(* directory in place.                                                      *)
THEOREM EvidenceTypeCorrect == Spec => []EvidenceTypeOK
<1>1. EvidenceInv => EvidenceTypeOK
  BY DEF EvidenceInv
<1> QED BY <1>1, EvidenceInvariant, PTL

(* No failing registration, failing deletion or crash destroys a file that  *)
(* a row of evidence_artifacts refers to.                                   *)
THEOREM EvidenceKept == Spec => []EvidenceIsKept
<1>1. EvidenceInv => EvidenceIsKept
  BY DEF EvidenceInv, RowsAreKept, Keeps, EvidenceIsKept
<1> QED BY <1>1, EvidenceInvariant, PTL

(* A file in place has a row or a registration, or was left by a crash or a *)
(* file system error: deletions and failed registrations leave no evidence. *)
THEOREM EvidenceAccounted == Spec => []EvidenceIsAccounted
<1>1. EvidenceInv => EvidenceIsAccounted
  BY DEF EvidenceInv, FilesAccounted, Underway, Recorded, EvidenceIsAccounted
<1> QED BY <1>1, EvidenceInvariant, PTL


-----------------------------------------------------------------------------
(***************************************************************************)
(* The runs of tickets.                                                    *)
(***************************************************************************)
Records == [status : {Void, "running"} \cup Terminal, bug : Tickets, started : Nat]
Steps == {Void, "projected", "running", "exited", "finished", "unregistered", "done"}
Goroutines == [pc : Steps, inv : Investigators, killed : BOOLEAN, verdict : {Void} \cup Terminal]
Commands == [pc : {"idle", "checkout", "launch", "cancel"}, kind : {"start", "continue"}, bug : Tickets, run : {Void} \cup Ids]

RunTypes ==
  /\ runsFile \in [Ids -> Records] /\ clock \in Nat
  /\ active \in [Investigators -> SUBSET Ids] /\ investigator \in Investigators
  /\ agent \in [Ids -> Goroutines]
  /\ pending \in [Bindings -> Commands]
  /\ swapped \in BOOLEAN /\ overtaken \in BOOLEAN

(* The record of a run follows its goroutine. *)
RecordFits(r) ==
  /\ agent[r].pc # Void => runsFile[r].status # Void
  /\ agent[r].pc \in {"exited", "unregistered"} => agent[r].verdict \in Terminal
  /\ agent[r].pc \in {"projected", "unregistered"} => r \in Phases
  /\ agent[r].pc = "finished" => r \in Legacy
  /\ r \in Legacy /\ agent[r].pc \in {"finished", "done"} => runsFile[r].status \in Terminal
  /\ runsFile[r].started <= clock

RecordsFit == \A r \in Ids : RecordFits(r)

(* No other run of the ticket that has not ended is as young. *)
Youngest(r) ==
  \A q \in Ids : q # r /\ runsFile[q].bug = runsFile[r].bug /\ runsFile[q].status = "running" => runsFile[q].started < runsFile[r].started

(* An agent that nothing has overtaken is found by whoever asks for it. *)
Found(r) ==
  /\ runsFile[r].status = "running" /\ r \in active[investigator] /\ agent[r].inv = investigator
  /\ Youngest(r)

AgentsAreFound == swapped \/ overtaken \/ \A r \in Legacy : Alive(r) => Found(r)

CancelsFit == \A u \in Bindings : pending[u].pc = "cancel" => pending[u].run \in Ids

(* Some runs of a ticket that had not ended are given up in f. *)
GivenUp(f, b) ==
  \A q \in Ids : \/ f[q] = runsFile[q]
                 \/ /\ runsFile[q].status = "running" /\ runsFile[q].bug = b
                    /\ f[q].status = "failed" /\ f[q].bug = b /\ f[q].started = runsFile[q].started

(* No agent of the ticket lives that a command should have found. *)
NobodyAtWork(b) == \A q \in Legacy : Alive(q) => runsFile[q].bug # b

RunsInv == RunTypes /\ RecordsFit /\ AgentsAreFound /\ CancelsFit

-----------------------------------------------------------------------------
LEMMA Apart ==
  ASSUME InvestigationsAssumption
  PROVE  /\ Void # "running" /\ Void # "projected" /\ Void # "exited" /\ Void # "finished" /\ Void # "unregistered"
         /\ Void # "done" /\ Void \notin Terminal /\ "running" \notin Terminal
         /\ \A r \in Legacy : r \in Ids /\ r \notin Phases
         /\ \A r \in Phases : r \in Ids
         /\ \A r \in Phases : TicketOf[r] \in Tickets
BY DEF InvestigationsAssumption, Terminal, Ids

LEMMA Kinds ==
  ASSUME InvestigationsAssumption
  PROVE  NoCall \in Commands /\ NoCall.pc = "idle" /\ NoAgent \in Goroutines /\ NoAgent.pc = Void
         /\ NoRun \in Records /\ NoRun.status = Void /\ NoRun.started = 0
<1>1. (CHOOSE b \in Tickets : TRUE) \in Tickets
  BY DEF InvestigationsAssumption
<1>2. QED
  BY <1>1 DEF NoCall, Commands, NoAgent, Goroutines, Steps, Investigators, NoRun, Records

(* The newest run that has not ended of the ticket of a living agent is the
   agent's own: ActiveRunForBug finds it, and it is in memory. *)
LEMMA LivingBlocks ==
  ASSUME InvestigationsAssumption, RunTypes, AgentsAreFound, ~swapped, ~overtaken, NEW r \in Legacy, Alive(r)
  PROVE  ActiveRunForBug(runsFile[r].bug) = {r} /\ r \in active[investigator]
<1>1. Found(r) /\ r \in Ids
  BY Apart DEF AgentsAreFound
<1>2. \A q \in Ids : runsFile[q].started \in Nat
  BY DEF RunTypes, Records
<1>3. r \in ActiveRunForBug(runsFile[r].bug)
  BY <1>1, <1>2 DEF Found, Youngest, ActiveRunForBug
<1>4. ASSUME NEW x \in ActiveRunForBug(runsFile[r].bug), x # r PROVE FALSE
  <2>1. x \in Ids /\ runsFile[x].bug = runsFile[r].bug /\ runsFile[x].status = "running" /\ runsFile[r].started <= runsFile[x].started
    BY <1>1, <1>4 DEF ActiveRunForBug, Found
  <2>2. runsFile[x].started < runsFile[r].started
    BY <1>1, <1>4, <2>1 DEF Found, Youngest
  <2>3. QED
    BY <1>1, <1>2, <2>1, <2>2
<1>5. QED
  BY <1>1, <1>3, <1>4 DEF Found

(* A step that starts no run leaves every living agent where it is found. *)
LEMMA StillFound ==
  ASSUME AgentsAreFound, RunTypes, UNCHANGED <<investigator, swapped, overtaken>>, InvestigationsAssumption,
         \A r \in Legacy : Alive(r)' => /\ Alive(r) /\ runsFile'[r] = runsFile[r] /\ agent'[r].inv = agent[r].inv
                                        /\ (r \in active[investigator] => r \in active'[investigator]),
         \A q \in Ids : runsFile'[q].status = "running" =>
                          runsFile[q].status = "running" /\ runsFile'[q].bug = runsFile[q].bug /\ runsFile'[q].started = runsFile[q].started
  PROVE  AgentsAreFound'
<1>1. SUFFICES ASSUME ~swapped, ~overtaken, NEW r \in Legacy, Alive(r)' PROVE Found(r)'
  BY DEF AgentsAreFound
<1>2. Alive(r) /\ runsFile'[r] = runsFile[r] /\ agent'[r].inv = agent[r].inv /\ Found(r)
  BY <1>1 DEF AgentsAreFound
<1>3. Youngest(r)'
  BY <1>2 DEF Found, Youngest
<1>4. QED
  BY <1>1, <1>2, <1>3 DEF Found

LEMMA OpStep ==
  ASSUME RunsInv, UNCHANGED <<runsFile, clock, active, investigator, agent, swapped, overtaken>>,
         pending' \in [Bindings -> Commands], CancelsFit'
  PROVE  RunsInv'
<1>1. RunTypes' /\ RecordsFit'
  BY DEF RunsInv, RunTypes, RecordsFit, RecordFits
<1>2. AgentsAreFound'
  BY DEF RunsInv, AgentsAreFound, Found, Youngest, Alive
<1>3. QED
  BY <1>1, <1>2 DEF RunsInv

LEMMA CommandStep ==
  ASSUME InvestigationsAssumption, RunsInv, NEW u \in Bindings, NEW kind \in {"start", "continue"}, NEW b \in Tickets,
         Call(u, kind, b)
  PROVE  RunsInv'
<1>1. PICK n : n = [NoCall EXCEPT !.pc = "checkout", !.kind = kind, !.bug = b]
  OBVIOUS
<1>2. n \in Commands /\ n.pc = "checkout"
  BY <1>1, Kinds DEF Commands
<1>3. pending' = [pending EXCEPT ![u] = n] /\ UNCHANGED <<runsFile, clock, active, investigator, agent, swapped, overtaken>>
  BY <1>1 DEF Call, Interruptions
<1>4. pending' \in [Bindings -> Commands] /\ CancelsFit'
  BY <1>2, <1>3 DEF RunsInv, RunTypes, CancelsFit
<1>5. QED
  BY <1>3, <1>4, OpStep

LEMMA CheckoutStep ==
  ASSUME InvestigationsAssumption, RunsInv, NEW u \in Bindings, checkoutBugAgentEnvBranches(u)
  PROVE  RunsInv'
<1>1. UNCHANGED <<runsFile, clock, active, investigator, agent, swapped, overtaken>>
  BY DEF checkoutBugAgentEnvBranches, Interruptions
<1>2. pending \in [Bindings -> Commands] /\ CancelsFit
  BY DEF RunsInv, RunTypes
<1>3. CASE pending' = [pending EXCEPT ![u].pc = "launch"]
  <2>1. PICK n : n = [pending[u] EXCEPT !.pc = "launch"]
    OBVIOUS
  <2>2. n \in Commands /\ n.pc = "launch"
    BY <1>2, <2>1 DEF Commands
  <2>3. pending' = [pending EXCEPT ![u] = n]
    BY <1>3, <2>1
  <2>4. pending' \in [Bindings -> Commands] /\ CancelsFit'
    BY <1>2, <2>2, <2>3 DEF CancelsFit
  <2>5. QED
    BY <1>1, <2>4, OpStep
<1>4. CASE pending' = [pending EXCEPT ![u] = NoCall]
  <2>1. pending' \in [Bindings -> Commands] /\ CancelsFit'
    BY <1>2, <1>4, Kinds DEF CancelsFit
  <2>2. QED
    BY <1>1, <2>1, OpStep
<1>5. QED
  BY <1>3, <1>4 DEF checkoutBugAgentEnvBranches

LEMMA CancelStep ==
  ASSUME InvestigationsAssumption, RunsInv, NEW u \in Bindings, NEW r \in Ids, Cancel(u, r)
  PROVE  RunsInv'
<1>1. RunTypes /\ RecordsFit /\ AgentsAreFound /\ CancelsFit
  BY DEF RunsInv
<1>2. PICK g : g = [agent[r] EXCEPT !.killed = TRUE]
  OBVIOUS
<1>3. PICK n : n = [NoCall EXCEPT !.pc = "cancel", !.run = r]
  OBVIOUS
<1>4. n \in Commands /\ n.run = r
  BY <1>3, Kinds DEF Commands
<1>5. g \in Goroutines /\ g.pc = agent[r].pc /\ g.inv = agent[r].inv /\ g.verdict = agent[r].verdict
  BY <1>1, <1>2 DEF Goroutines, RunTypes
<1>6. /\ agent' = [agent EXCEPT ![r] = g] /\ pending' = [pending EXCEPT ![u] = n]
      /\ UNCHANGED <<runsFile, clock, active, investigator, swapped, overtaken>>
  BY <1>2, <1>3 DEF Cancel, Interruptions
<1>7. RunTypes' /\ CancelsFit'
  BY <1>1, <1>4, <1>5, <1>6 DEF RunTypes, CancelsFit
<1>8. \A q \in Ids : agent'[q].pc = agent[q].pc /\ agent'[q].inv = agent[q].inv /\ agent'[q].verdict = agent[q].verdict
  BY <1>1, <1>5, <1>6 DEF RunTypes
<1>9. RecordsFit'
  BY <1>1, <1>6, <1>8 DEF RecordsFit, RecordFits
<1>10. AgentsAreFound'
  BY <1>1, <1>6, <1>8, Apart, StillFound DEF Alive
<1>11. QED
  BY <1>7, <1>9, <1>10 DEF RunsInv

LEMMA CancelReturnsStep ==
  ASSUME InvestigationsAssumption, RunsInv, NEW u \in Bindings, CancelReturns(u)
  PROVE  RunsInv'
<1>1. RunTypes /\ RecordsFit /\ AgentsAreFound /\ CancelsFit
  BY DEF RunsInv
<1>2. /\ pending[u].run \in Ids /\ ~Alive(pending[u].run) /\ pending' = [pending EXCEPT ![u] = NoCall]
      /\ active' = [i \in Investigators |-> IF i = agent[pending[u].run].inv THEN active[i] \ {pending[u].run} ELSE active[i]]
      /\ UNCHANGED <<runsFile, clock, investigator, agent, swapped, overtaken>>
  BY <1>1 DEF CancelReturns, CancelsFit, Alive, Interruptions
<1>3. RunTypes' /\ CancelsFit'
  BY <1>1, <1>2, Kinds DEF RunTypes, CancelsFit
<1>4. RecordsFit'
  BY <1>1, <1>2 DEF RecordsFit, RecordFits
<1>5. \A q \in Legacy : Alive(q) /\ q \in active[investigator] => q \in active'[investigator]
  BY <1>1, <1>2 DEF RunTypes
<1>6. AgentsAreFound'
  BY <1>1, <1>2, <1>5, StillFound DEF Alive
<1>7. QED
  BY <1>3, <1>4, <1>6 DEF RunsInv

(* A goroutine takes a step by itself: nobody but its run is concerned. *)
LEMMA GoroutineStep ==
  ASSUME InvestigationsAssumption, RunsInv, NEW r \in Ids, NEW g \in Goroutines,
         agent' = [agent EXCEPT ![r] = g], UNCHANGED <<clock, investigator, pending, swapped, overtaken>>,
         active' \in [Investigators -> SUBSET Ids], \A i \in Investigators : active[i] \subseteq active'[i] \cup {r},
         runsFile' \in [Ids -> Records], \A q \in Ids : q # r => runsFile'[q] = runsFile[q],
         runsFile'[r].bug = runsFile[r].bug, runsFile'[r].started = runsFile[r].started,
         runsFile'[r].status # "running" \/ runsFile[r].status = "running",
         RecordFits(r)',
         r \in Legacy /\ g.pc \in {"running", "exited"} =>
           /\ Alive(r) /\ runsFile'[r] = runsFile[r] /\ g.inv = agent[r].inv
           /\ active' = active
  PROVE  RunsInv'
<1>1. RunTypes /\ RecordsFit /\ AgentsAreFound /\ CancelsFit
  BY DEF RunsInv
<1>2. RunTypes'
  BY <1>1 DEF RunTypes
<1>3. CancelsFit'
  BY <1>1 DEF CancelsFit
<1>4. agent'[r] = g /\ \A q \in Ids : q # r => agent'[q] = agent[q]
  BY <1>1 DEF RunTypes
<1>5. RecordsFit'
  BY <1>1, <1>4 DEF RecordsFit, RecordFits
<1>6. ASSUME NEW q \in Legacy, Alive(q)'
      PROVE  /\ Alive(q) /\ runsFile'[q] = runsFile[q] /\ agent'[q].inv = agent[q].inv
             /\ q \in active[investigator] => q \in active'[investigator]
  <2>1. q \in Ids /\ investigator \in Investigators
    BY <1>1, Apart DEF RunTypes
  <2>2. CASE q = r
    BY <1>4, <1>6, <2>2 DEF Alive
  <2>3. CASE q # r
    BY <1>4, <1>6, <2>1, <2>3 DEF Alive
  <2>4. QED
    BY <2>2, <2>3
<1>7. \A q \in Ids : runsFile'[q].status = "running" =>
                       runsFile[q].status = "running" /\ runsFile'[q].bug = runsFile[q].bug /\ runsFile'[q].started = runsFile[q].started
  OBVIOUS
<1>8. AgentsAreFound'
  BY <1>1, <1>6, <1>7, StillFound
<1>9. QED
  BY <1>2, <1>3, <1>5, <1>8 DEF RunsInv

LEMMA ExitStep ==
  ASSUME InvestigationsAssumption, RunsInv, NEW r \in Ids, Exit(r)
  PROVE  RunsInv'
<1>1. RunTypes /\ RecordFits(r) /\ agent[r] \in Goroutines /\ agent[r].pc = "running"
  BY DEF RunsInv, RunTypes, RecordsFit, Exit
<1>2. PICK v \in Endings[agent[r].killed] : agent' = [agent EXCEPT ![r].pc = "exited", ![r].verdict = v]
  BY DEF Exit
<1>3. v \in Terminal
  BY <1>1, <1>2 DEF Endings, Verdict, Terminal, Goroutines
<1>4. PICK g : g = [agent[r] EXCEPT !.pc = "exited", !.verdict = v]
  OBVIOUS
<1>5. g \in Goroutines /\ g.pc = "exited" /\ g.verdict = v /\ g.inv = agent[r].inv
  BY <1>1, <1>3, <1>4 DEF Goroutines, Steps
<1>6. agent' = [agent EXCEPT ![r] = g] /\ UNCHANGED <<runsFile, clock, active, investigator, pending, swapped, overtaken>>
  BY <1>1, <1>2, <1>4 DEF Exit, Interruptions, RunTypes
<1>7. agent'[r] = g
  BY <1>1, <1>6 DEF RunTypes
<1>8. RecordFits(r)'
  BY <1>1, <1>3, <1>5, <1>6, <1>7, Apart DEF RecordFits
<1>9. QED
  BY <1>1, <1>5, <1>6, <1>8, GoroutineStep DEF RunTypes, Alive

LEMMA FinishRunStep ==
  ASSUME InvestigationsAssumption, RunsInv, NEW r \in Ids, FinishRun(r)
  PROVE  RunsInv'
<1>1. /\ RunTypes /\ RecordFits(r) /\ agent[r] \in Goroutines /\ agent[r].pc = "exited" /\ r \in Legacy
      /\ agent[r].verdict \in Terminal /\ runsFile[r].status # Void /\ runsFile[r] \in Records
  BY Apart DEF RunsInv, RunTypes, RecordsFit, RecordFits, FinishRun
<1>2. PICK v \in Terminal : v = agent[r].verdict
  BY <1>1
<1>3. PICK f : f = [runsFile[r] EXCEPT !.status = v]
  OBVIOUS
<1>4. f \in Records /\ f.status = v /\ f.bug = runsFile[r].bug /\ f.started = runsFile[r].started
  BY <1>1, <1>3 DEF Records
<1>5. PICK g : g = [agent[r] EXCEPT !.pc = "finished", !.verdict = Void]
  OBVIOUS
<1>6. g \in Goroutines /\ g.pc = "finished"
  BY <1>1, <1>5 DEF Goroutines, Steps
<1>7. /\ runsFile' = [runsFile EXCEPT ![r] = f] /\ agent' = [agent EXCEPT ![r] = g]
      /\ UNCHANGED <<clock, active, investigator, pending, swapped, overtaken>>
  BY <1>1, <1>2, <1>3, <1>5 DEF FinishRun, FinishRecord, Interruptions, RunTypes
<1>8. agent'[r] = g /\ runsFile'[r] = f /\ runsFile' \in [Ids -> Records] /\ \A q \in Ids : q # r => runsFile'[q] = runsFile[q]
  BY <1>1, <1>4, <1>7 DEF RunTypes
<1>9. RecordFits(r)'
  BY <1>1, <1>4, <1>6, <1>7, <1>8, Apart DEF RecordFits
<1>10. QED
  BY <1>1, <1>4, <1>6, <1>7, <1>8, <1>9, Apart, GoroutineStep DEF RunTypes

LEMMA RemoveActiveStep ==
  ASSUME InvestigationsAssumption, RunsInv, NEW r \in Ids, RemoveActive(r)
  PROVE  RunsInv'
<1>1. RunTypes /\ RecordFits(r) /\ agent[r] \in Goroutines /\ agent[r].pc = "finished" /\ r \in Legacy
  BY DEF RunsInv, RunTypes, RecordsFit, RemoveActive
<1>2. PICK g : g = [NoAgent EXCEPT !.pc = "done", !.inv = agent[r].inv]
  OBVIOUS
<1>3. g \in Goroutines /\ g.pc = "done"
  BY <1>1, <1>2, Kinds DEF Goroutines, Steps
<1>4. /\ agent' = [agent EXCEPT ![r] = g] /\ active' = [active EXCEPT ![agent[r].inv] = @ \ {r}]
      /\ UNCHANGED <<runsFile, clock, investigator, pending, swapped, overtaken>>
  BY <1>1, <1>2 DEF RemoveActive, Interruptions
<1>5. active' \in [Investigators -> SUBSET Ids] /\ \A i \in Investigators : active[i] \subseteq active'[i] \cup {r}
  BY <1>1, <1>4 DEF RunTypes
<1>6. agent'[r] = g
  BY <1>1, <1>4 DEF RunTypes
<1>7. RecordFits(r)'
  BY <1>1, <1>3, <1>4, <1>6, Apart DEF RecordFits
<1>8. QED
  BY <1>1, <1>3, <1>4, <1>5, <1>7, GoroutineStep DEF RunTypes

LEMMA RegisterStep ==
  ASSUME InvestigationsAssumption, RunsInv, NEW r \in Ids, executePreparedPhase(r)
  PROVE  RunsInv'
<1>1. RunTypes /\ RecordFits(r) /\ agent[r] \in Goroutines /\ agent[r].pc = "projected" /\ r \in Phases
  BY DEF RunsInv, RunTypes, RecordsFit, RecordFits, executePreparedPhase
<1>2. PICK g : g = [agent[r] EXCEPT !.pc = "running"]
  OBVIOUS
<1>3. g \in Goroutines /\ g.pc = "running"
  BY <1>1, <1>2 DEF Goroutines, Steps
<1>4. /\ agent' = [agent EXCEPT ![r] = g] /\ active' = [active EXCEPT !["workflow"] = @ \cup {r}]
      /\ UNCHANGED <<runsFile, clock, investigator, pending, swapped, overtaken>>
  BY <1>1, <1>2 DEF executePreparedPhase, Interruptions
<1>5. active' \in [Investigators -> SUBSET Ids] /\ \A i \in Investigators : active[i] \subseteq active'[i] \cup {r}
  BY <1>1, <1>4 DEF RunTypes
<1>6. agent'[r] = g
  BY <1>1, <1>4 DEF RunTypes
<1>7. RecordFits(r)'
  BY <1>1, <1>3, <1>4, <1>6, Apart DEF RecordFits
<1>8. QED
  BY <1>1, <1>3, <1>4, <1>5, <1>7, Apart, GoroutineStep DEF RunTypes

LEMMA PhaseReturnsStep ==
  ASSUME InvestigationsAssumption, RunsInv, NEW r \in Ids, PhaseReturns(r)
  PROVE  RunsInv'
<1>1. RunTypes /\ RecordFits(r) /\ agent[r] \in Goroutines /\ agent[r].pc = "exited" /\ r \in Phases
  BY DEF RunsInv, RunTypes, RecordsFit, PhaseReturns
<1>2. PICK g : g = [agent[r] EXCEPT !.pc = "unregistered"]
  OBVIOUS
<1>3. g \in Goroutines /\ g.pc = "unregistered" /\ g.verdict = agent[r].verdict
  BY <1>1, <1>2 DEF Goroutines, Steps
<1>4. /\ agent' = [agent EXCEPT ![r] = g] /\ active' = [active EXCEPT !["workflow"] = @ \ {r}]
      /\ UNCHANGED <<runsFile, clock, investigator, pending, swapped, overtaken>>
  BY <1>1, <1>2 DEF PhaseReturns, Interruptions
<1>5. active' \in [Investigators -> SUBSET Ids] /\ \A i \in Investigators : active[i] \subseteq active'[i] \cup {r}
  BY <1>1, <1>4 DEF RunTypes
<1>6. agent'[r] = g
  BY <1>1, <1>4 DEF RunTypes
<1>7. RecordFits(r)'
  BY <1>1, <1>3, <1>4, <1>6, Apart DEF RecordFits
<1>8. QED
  BY <1>1, <1>3, <1>4, <1>5, <1>7, GoroutineStep DEF RunTypes

LEMMA FinishProjectionStep ==
  ASSUME InvestigationsAssumption, RunsInv, NEW r \in Ids, FinishProjection(r)
  PROVE  RunsInv'
<1>1. /\ RunTypes /\ RecordFits(r) /\ agent[r] \in Goroutines /\ agent[r].pc = "unregistered" /\ r \in Phases
      /\ agent[r].verdict \in Terminal /\ runsFile[r].status # Void /\ runsFile[r] \in Records
  BY Apart DEF RunsInv, RunTypes, RecordsFit, RecordFits, FinishProjection
<1>2. PICK v \in Terminal : v = agent[r].verdict
  BY <1>1
<1>3. PICK f : f = [runsFile[r] EXCEPT !.status = v]
  OBVIOUS
<1>4. f \in Records /\ f.status = v /\ f.bug = runsFile[r].bug /\ f.started = runsFile[r].started
  BY <1>1, <1>3 DEF Records
<1>5. PICK g : g = [NoAgent EXCEPT !.pc = "done", !.inv = agent[r].inv]
  OBVIOUS
<1>6. g \in Goroutines /\ g.pc = "done"
  BY <1>1, <1>5, Kinds DEF Goroutines, Steps
<1>7. /\ runsFile' = [runsFile EXCEPT ![r] = f] /\ agent' = [agent EXCEPT ![r] = g]
      /\ UNCHANGED <<clock, active, investigator, pending, swapped, overtaken>>
  BY <1>1, <1>2, <1>3, <1>5 DEF FinishProjection, FinishRecord, Interruptions, RunTypes
<1>8. agent'[r] = g /\ runsFile'[r] = f /\ runsFile' \in [Ids -> Records] /\ \A q \in Ids : q # r => runsFile'[q] = runsFile[q]
  BY <1>1, <1>4, <1>7 DEF RunTypes
<1>9. RecordFits(r)'
  BY <1>1, <1>4, <1>6, <1>7, <1>8, Apart DEF RecordFits
<1>10. QED
  BY <1>1, <1>4, <1>6, <1>7, <1>8, <1>9, Apart, GoroutineStep DEF RunTypes

(* A new run of a ticket without a living agent, whatever runs of the ticket
   are given up for it. *)
LEMMA NewRun ==
  ASSUME InvestigationsAssumption, RunsInv, NEW r \in Ids, NEW b \in Tickets, NEW f \in [Ids -> Records],
         NEW g \in Goroutines, g.pc \in {"running", "projected"}, g.pc = "projected" => r \in Phases,
         runsFile[r].status = Void, runsFile' = Upsert(f, r, b), clock' = clock + 1,
         agent' = [agent EXCEPT ![r] = g],
         active' \in [Investigators -> SUBSET Ids], \A i \in Investigators : active[i] \subseteq active'[i],
         UNCHANGED <<investigator, swapped>>, overtaken' \in BOOLEAN, overtaken => overtaken',
         pending' \in [Bindings -> Commands], CancelsFit',
         GivenUp(f, b), swapped' \/ overtaken' \/ NobodyAtWork(b),
         r \in Legacy => r \in active'[investigator] /\ g.inv = investigator
  PROVE  RunsInv'
<1>1. RunTypes /\ RecordsFit /\ AgentsAreFound
  BY DEF RunsInv
<1>2. PICK t \in Nat : t = clock + 1
  BY <1>1 DEF RunTypes
<1>3. PICK n : n = [status |-> "running", bug |-> b, started |-> t]
  OBVIOUS
<1>4. n \in Records /\ n.status = "running" /\ n.bug = b /\ n.started = t
  BY <1>3 DEF Records
<1>5. runsFile' = [f EXCEPT ![r] = n] /\ clock' = t
  BY <1>2, <1>3 DEF Upsert
<1>6. runsFile'[r] = n /\ \A q \in Ids : q # r => runsFile'[q] = f[q]
  BY <1>5
<1>7. agent'[r] = g /\ \A q \in Ids : q # r => agent'[q] = agent[q]
  BY <1>1 DEF RunTypes
<1>8. RunTypes'
  BY <1>1, <1>2, <1>4, <1>5 DEF RunTypes
<1>9. \A q \in Ids : runsFile[q].started \in Nat /\ runsFile[q].started <= clock /\ runsFile[q].started < t /\ clock < t
  BY <1>1, <1>2 DEF RunTypes, Records, RecordsFit, RecordFits
<1>10. ASSUME NEW q \in Ids PROVE RecordFits(q)'
  <2>1. CASE q = r
    BY <1>2, <1>4, <1>5, <1>6, <1>7, <2>1, Apart DEF RecordFits
  <2>2. CASE q # r
    <3>1. RecordFits(q) /\ runsFile'[q] = f[q] /\ agent'[q] = agent[q] /\ runsFile[q].started <= clock'
      BY <1>1, <1>5, <1>6, <1>7, <1>9, <2>2 DEF RecordsFit, RunTypes
    <3>2. runsFile'[q].started <= clock'
      BY <3>1 DEF GivenUp
    <3>3. (runsFile[q].status # Void => runsFile'[q].status # Void) /\ (runsFile[q].status \in Terminal => runsFile'[q].status \in Terminal)
      BY <3>1, Apart DEF GivenUp, Terminal
    <3>4. QED
      BY <3>1, <3>2, <3>3 DEF RecordFits
  <2>3. QED
    BY <2>1, <2>2
<1>11. ASSUME ~swapped', ~overtaken', NEW q \in Legacy, Alive(q)' PROVE Found(q)'
  <2>1. q \in Ids /\ ~swapped /\ ~overtaken
    BY <1>1, <1>11, Apart DEF RunTypes
  <2>2. CASE q = r
    <3>1. runsFile'[q].status = "running" /\ q \in active'[investigator'] /\ agent'[q].inv = investigator'
      BY <1>4, <1>6, <1>7, <2>2
    <3>2. \A x \in Ids : x # q => runsFile'[x].started < runsFile'[q].started
      BY <1>4, <1>6, <1>9, <2>2 DEF GivenUp
    <3>3. QED
      BY <3>1, <3>2 DEF Found, Youngest
  <2>3. CASE q # r
    <3>1. Alive(q) /\ runsFile[q].bug # b /\ Found(q)
      BY <1>1, <1>7, <1>11, <2>1, <2>3 DEF Alive, AgentsAreFound, NobodyAtWork
    <3>2. runsFile'[q] = runsFile[q] /\ agent'[q] = agent[q] /\ q \in active'[investigator']
      BY <1>1, <1>6, <1>7, <2>1, <2>3, <3>1 DEF Found, RunTypes, GivenUp
    <3>3. ASSUME NEW x \in Ids, x # q, runsFile'[x].bug = runsFile'[q].bug, runsFile'[x].status = "running"
          PROVE  runsFile'[x].started < runsFile'[q].started
      <4>1. x # r
        BY <1>4, <1>6, <3>1, <3>2, <3>3
      <4>2. f[x] = runsFile[x] /\ runsFile'[x] = runsFile[x]
        BY <1>6, <3>3, <4>1 DEF GivenUp
      <4>3. QED
        BY <3>1, <3>2, <3>3, <4>2 DEF Found, Youngest
    <3>4. QED
      BY <3>1, <3>2, <3>3 DEF Found, Youngest
  <2>4. QED
    BY <2>2, <2>3
<1>12. AgentsAreFound'
  BY <1>11 DEF AgentsAreFound
<1>13. QED
  BY <1>8, <1>10, <1>12 DEF RunsInv, RecordsFit

LEMMA LaunchStep ==
  ASSUME InvestigationsAssumption, RunsInv, NEW u \in Bindings, NEW f \in [Ids -> Records], NEW r \in Legacy,
         Launched(u, f, r), pending' = [pending EXCEPT ![u] = NoCall], UNCHANGED <<investigator, swapped, overtaken>>,
         GivenUp(f, pending[u].bug), swapped \/ overtaken \/ NobodyAtWork(pending[u].bug)
  PROVE  RunsInv'
<1>1. RunTypes /\ CancelsFit /\ r \in Ids /\ pending[u].bug \in Tickets /\ investigator \in Investigators
  BY Apart DEF RunsInv, RunTypes, Commands
<1>2. PICK g : g = [NoAgent EXCEPT !.pc = "running", !.inv = investigator]
  OBVIOUS
<1>3. g \in Goroutines /\ g.pc = "running" /\ g.inv = investigator
  BY <1>1, <1>2, Kinds DEF Goroutines, Steps
<1>4. /\ runsFile[r].status = Void /\ runsFile' = Upsert(f, r, pending[u].bug) /\ clock' = clock + 1
      /\ active' = [active EXCEPT ![investigator] = @ \cup {r}] /\ agent' = [agent EXCEPT ![r] = g]
  BY <1>2 DEF Launched
<1>5. /\ active' \in [Investigators -> SUBSET Ids] /\ \A i \in Investigators : active[i] \subseteq active'[i]
      /\ r \in active'[investigator]
  BY <1>1, <1>4 DEF RunTypes
<1>6. pending' \in [Bindings -> Commands] /\ CancelsFit' /\ overtaken' \in BOOLEAN
  BY <1>1, Kinds DEF RunTypes, CancelsFit
<1>7. /\ g.pc \in {"running", "projected"} /\ (g.pc = "projected" => r \in Phases)
      /\ (r \in Legacy => r \in active'[investigator] /\ g.inv = investigator)
      /\ UNCHANGED <<investigator, swapped>> /\ (overtaken => overtaken') /\ (swapped' \/ overtaken' \/ NobodyAtWork(pending[u].bug))
  BY <1>3, <1>5
<1>8. QED
  BY <1>1, <1>3, <1>4, <1>5, <1>6, <1>7, NewRun

LEMMA StartStep ==
  ASSUME InvestigationsAssumption, RunsInv, NEW u \in Bindings, Start(u)
  PROVE  RunsInv'
<1>1. /\ RunTypes /\ CancelsFit /\ AgentsAreFound
      /\ pending' = [pending EXCEPT ![u] = NoCall] /\ UNCHANGED <<investigator, swapped, overtaken>>
  BY DEF RunsInv, Start, Interruptions
<1>2. PICK busy : busy = ActiveRunForBug(pending[u].bug)
  OBVIOUS
<1>3. PICK stale : stale = busy \ active[investigator]
  OBVIOUS
<1>4. PICK f : f = [r \in Ids |-> IF r \in stale THEN [runsFile[r] EXCEPT !.status = "failed"] ELSE runsFile[r]]
  OBVIOUS
<1>5. IF busy # {} /\ stale = {} THEN UNCHANGED <<runsFile, clock, active, agent>> ELSE \E r \in Legacy : Launched(u, f, r)
  BY <1>2, <1>3, <1>4 DEF Start
<1>6. CASE busy # {} /\ stale = {}
  <2>1. pending' \in [Bindings -> Commands] /\ CancelsFit'
    BY <1>1, Kinds DEF RunTypes, CancelsFit
  <2>2. QED
    BY <1>1, <1>5, <1>6, <2>1, OpStep
<1>7. CASE ~(busy # {} /\ stale = {})
  <2>1. PICK r \in Legacy : Launched(u, f, r)
    BY <1>5, <1>7
  <2>2. ASSUME NEW q \in Ids
        PROVE  /\ f[q] \in Records
               /\ \/ f[q] = runsFile[q]
                  \/ /\ runsFile[q].status = "running" /\ runsFile[q].bug = pending[u].bug
                     /\ f[q].status = "failed" /\ f[q].bug = pending[u].bug /\ f[q].started = runsFile[q].started
    <3>1. runsFile[q] \in Records
      BY <1>1 DEF RunTypes
    <3>2. CASE q \in stale
      <4>1. runsFile[q].status = "running" /\ runsFile[q].bug = pending[u].bug
        BY <1>2, <1>3, <3>2 DEF ActiveRunForBug
      <4>2. PICK n : n = [runsFile[q] EXCEPT !.status = "failed"]
        OBVIOUS
      <4>3. n \in Records /\ n.status = "failed" /\ n.bug = runsFile[q].bug /\ n.started = runsFile[q].started
        BY <3>1, <4>2 DEF Records, Terminal
      <4>4. QED
        BY <1>4, <3>2, <4>1, <4>2, <4>3
    <3>3. QED
      BY <1>4, <3>1, <3>2
  <2>3. f \in [Ids -> Records]
    BY <1>4, <2>2
  <2>4. ASSUME ~swapped, ~overtaken, NEW q \in Legacy, Alive(q), runsFile[q].bug = pending[u].bug PROVE FALSE
    <3>1. busy = {q} /\ q \in active[investigator]
      BY <1>1, <1>2, <2>4, LivingBlocks
    <3>2. QED
      BY <1>3, <1>7, <3>1
  <2>5. GivenUp(f, pending[u].bug) /\ (swapped \/ overtaken \/ NobodyAtWork(pending[u].bug))
    BY <2>2, <2>4 DEF GivenUp, NobodyAtWork
  <2>6. QED
    BY <1>1, <2>1, <2>3, <2>5, LaunchStep
<1>8. QED
  BY <1>6, <1>7

LEMMA ContinueStep ==
  ASSUME InvestigationsAssumption, RunsInv, NEW u \in Bindings, ContinueRun(u)
  PROVE  RunsInv'
<1>1. /\ RunTypes /\ CancelsFit /\ AgentsAreFound
      /\ pending' = [pending EXCEPT ![u] = NoCall] /\ UNCHANGED <<investigator, swapped, overtaken>>
  BY DEF RunsInv, ContinueRun, Interruptions
<1>2. CASE UNCHANGED <<runsFile, clock, active, agent>>
  <2>1. pending' \in [Bindings -> Commands] /\ CancelsFit'
    BY <1>1, Kinds DEF RunTypes, CancelsFit
  <2>2. QED
    BY <1>1, <1>2, <2>1, OpStep
<1>3. CASE ActiveRunForBug(pending[u].bug) \cap active[investigator] = {} /\ \E r \in Legacy : Launched(u, runsFile, r)
  <2>1. PICK r \in Legacy : Launched(u, runsFile, r)
    BY <1>3
  <2>2. ASSUME ~swapped, ~overtaken, NEW q \in Legacy, Alive(q), runsFile[q].bug = pending[u].bug PROVE FALSE
    <3>1. ActiveRunForBug(pending[u].bug) = {q} /\ q \in active[investigator]
      BY <1>1, <2>2, LivingBlocks
    <3>2. QED
      BY <1>3, <3>1
  <2>3. runsFile \in [Ids -> Records]
    BY <1>1 DEF RunTypes
  <2>4. GivenUp(runsFile, pending[u].bug) /\ (swapped \/ overtaken \/ NobodyAtWork(pending[u].bug))
    BY <2>2 DEF GivenUp, NobodyAtWork
  <2>5. QED
    BY <1>1, <2>1, <2>3, <2>4, LaunchStep
<1>4. QED
  BY <1>2, <1>3 DEF ContinueRun

LEMMA ProjectionStep ==
  ASSUME InvestigationsAssumption, RunsInv, NEW r \in Ids, startLegacyProjection(r)
  PROVE  RunsInv'
<1>1. /\ RunTypes /\ CancelsFit /\ r \in Phases /\ TicketOf[r] \in Tickets /\ agent[r] \in Goroutines /\ r \notin Legacy
      /\ runsFile \in [Ids -> Records]
  BY Apart DEF RunsInv, RunTypes, startLegacyProjection
<1>2. PICK g : g = [agent[r] EXCEPT !.pc = "projected", !.inv = "workflow"]
  OBVIOUS
<1>3. g \in Goroutines /\ g.pc = "projected"
  BY <1>1, <1>2 DEF Goroutines, Steps, Investigators
<1>4. /\ runsFile[r].status = Void /\ runsFile' = Upsert(runsFile, r, TicketOf[r]) /\ clock' = clock + 1
      /\ overtaken' = (overtaken \/ \E q \in Legacy : Alive(q) /\ runsFile[q].bug = TicketOf[r])
      /\ UNCHANGED <<active, investigator, pending, swapped>>
  BY DEF startLegacyProjection
<1>5. agent' = [agent EXCEPT ![r] = g]
  BY <1>1, <1>2 DEF startLegacyProjection, RunTypes
<1>6. /\ active' \in [Investigators -> SUBSET Ids] /\ \A i \in Investigators : active[i] \subseteq active'[i]
      /\ pending' \in [Bindings -> Commands] /\ CancelsFit' /\ overtaken' \in BOOLEAN /\ (overtaken => overtaken')
  BY <1>1, <1>4 DEF RunTypes, CancelsFit
<1>7. GivenUp(runsFile, TicketOf[r]) /\ (swapped' \/ overtaken' \/ NobodyAtWork(TicketOf[r]))
  BY <1>4 DEF GivenUp, NobodyAtWork
<1>8. QED
  BY <1>1, <1>3, <1>4, <1>5, <1>6, <1>7, NewRun

LEMMA InitializeStep ==
  ASSUME InvestigationsAssumption, RunsInv, SwitchInvestigator
  PROVE  RunsInv'
<1>1. /\ RunTypes /\ RecordsFit /\ AgentsAreFound /\ CancelsFit
      /\ investigator = "fallback" /\ investigator' = "workflow" /\ swapped' = (swapped \/ active["fallback"] # {})
      /\ UNCHANGED <<runsFile, clock, active, agent, pending, overtaken>>
  BY DEF RunsInv, SwitchInvestigator
<1>2. RunTypes' /\ CancelsFit' /\ RecordsFit'
  BY <1>1 DEF RunTypes, Investigators, CancelsFit, RecordsFit, RecordFits
<1>3. ASSUME ~swapped', ~overtaken', NEW q \in Legacy, Alive(q)' PROVE FALSE
  <2>1. ~swapped /\ ~overtaken /\ Alive(q) /\ active["fallback"] = {}
    BY <1>1, <1>3 DEF Alive
  <2>2. Found(q)
    BY <1>1, <2>1 DEF AgentsAreFound
  <2>3. QED
    BY <1>1, <2>1, <2>2 DEF Found
<1>4. QED
  BY <1>2, <1>3 DEF RunsInv, AgentsAreFound

LEMMA KilledStep ==
  ASSUME InvestigationsAssumption, RunsInv, StudioKilled
  PROVE  RunsInv'
<1>1. /\ RunTypes /\ RecordsFit
      /\ active' = [i \in Investigators |-> {}] /\ agent' = [r \in Ids |-> NoAgent]
      /\ pending' = [u \in Bindings |-> NoCall] /\ investigator' \in Investigators
      /\ UNCHANGED <<runsFile, clock, swapped, overtaken>>
  BY DEF RunsInv, StudioKilled
<1>2. RunTypes' /\ CancelsFit'
  BY <1>1, Kinds DEF RunTypes, CancelsFit
<1>3. \A r \in Ids : agent'[r].pc = Void
  BY <1>1, Kinds
<1>4. RecordsFit'
  BY <1>1, <1>3, Apart DEF RecordsFit, RecordFits
<1>5. AgentsAreFound'
  BY <1>3, Apart DEF AgentsAreFound, Alive
<1>6. QED
  BY <1>2, <1>4, <1>5 DEF RunsInv

LEMMA RunsInvInit ==
  ASSUME InvestigationsAssumption, InvestigationsInit
  PROVE  RunsInv
<1>1. RunTypes /\ CancelsFit
  BY Kinds DEF InvestigationsInit, RunTypes, CancelsFit
<1>2. \A r \in Ids : agent[r].pc = Void /\ runsFile[r].started = 0 /\ clock = 0
  BY Kinds DEF InvestigationsInit
<1>3. RecordsFit
  BY <1>2, Apart DEF RecordsFit, RecordFits
<1>4. AgentsAreFound
  BY <1>2, Apart DEF AgentsAreFound, Alive
<1>5. QED
  BY <1>1, <1>3, <1>4 DEF RunsInv

LEMMA RunsInvNext ==
  ASSUME InvestigationsAssumption, RunsInv, [InvestigationsNext]_investigationsVars
  PROVE  RunsInv'
<1>1. CASE \E u \in Bindings :
             \/ \E kind \in {"start", "continue"}, b \in Tickets : Call(u, kind, b)
             \/ \E r \in Ids : Cancel(u, r)
             \/ checkoutBugAgentEnvBranches(u) \/ Start(u) \/ ContinueRun(u) \/ CancelReturns(u)
  BY <1>1, CommandStep, CancelStep, CheckoutStep, StartStep, ContinueStep, CancelReturnsStep
<1>2. CASE \E r \in Ids :
             \/ Exit(r) \/ FinishRun(r) \/ RemoveActive(r)
             \/ startLegacyProjection(r) \/ executePreparedPhase(r)
             \/ PhaseReturns(r) \/ FinishProjection(r)
  BY <1>2, ExitStep, FinishRunStep, RemoveActiveStep, ProjectionStep, RegisterStep, PhaseReturnsStep,
     FinishProjectionStep
<1>3. CASE SwitchInvestigator \/ StudioKilled
  BY <1>3, InitializeStep, KilledStep
<1>4. CASE UNCHANGED investigationsVars
  BY <1>4 DEF investigationsVars, RunsInv, RunTypes, RecordsFit, RecordFits, AgentsAreFound, Found, Youngest, Alive,
     CancelsFit
<1>5. QED
  BY <1>1, <1>2, <1>3, <1>4 DEF InvestigationsNext

-----------------------------------------------------------------------------
(* The record of a run follows its goroutine, and whoever asks for the agent
   of a ticket finds the one that lives (InvestigationStore.ActiveRunForBug,
   CodexInvestigator.Start). *)
THEOREM RunsInvHolds ==
  ASSUME InvestigationsAssumption
  PROVE  InvestigationsSpec => []RunsInv
<1>1. InvestigationsInit => RunsInv
  BY RunsInvInit
<1>2. RunsInv /\ [InvestigationsNext]_investigationsVars => RunsInv'
  BY RunsInvNext
<1>3. QED
  BY <1>1, <1>2, PTL DEF InvestigationsSpec

(* The run of a living agent is not recorded as ended by a command for the
   same ticket, however it meets the agent's own end, a stale run of before
   a restart, or another command. *)
THEOREM LivingRunsStay ==
  ASSUME InvestigationsAssumption
  PROVE  InvestigationsSpec => []LivingRunStays
<1>1. RunsInv => LivingRunStays
  BY DEF RunsInv, AgentsAreFound, Found, LivingRunStays
<1>2. QED
  BY <1>1, RunsInvHolds, PTL

(* However commands meet, a ticket has one agent started from it at a time,
   as long as no investigator was replaced under one and no attempt of the
   workflow was projected beside one. *)
THEOREM TicketsHaveOneAgent ==
  ASSUME InvestigationsAssumption
  PROVE  InvestigationsSpec => []OneAgentPerTicket
<1>1. ASSUME RunsInv, ~swapped, ~overtaken, NEW b \in Tickets
      PROVE  Cardinality({r \in Legacy : Alive(r) /\ runsFile[r].bug = b}) <= 1
  <2>1. PICK S : S = {r \in Legacy : Alive(r) /\ runsFile[r].bug = b}
    OBVIOUS
  <2>2. ASSUME NEW p \in S, NEW q \in S PROVE p = q
    <3>1. /\ p \in Legacy /\ Alive(p) /\ q \in Legacy /\ Alive(q) /\ runsFile[p].bug = runsFile[q].bug
          /\ RunTypes /\ AgentsAreFound
      BY <1>1, <2>1, <2>2 DEF RunsInv
    <3>2. {p} = {q}
      BY <1>1, <3>1, LivingBlocks
    <3>3. QED
      BY <3>2
  <2>3. Cardinality(S) <= 1
    <3>1. CASE S = {}
      BY <3>1, FS_EmptySet
    <3>2. CASE S # {}
      <4>1. PICK p : S = {p}
        BY <2>2, <3>2
      <4>2. Cardinality({p}) = 1
        BY FS_Singleton
      <4>3. QED
        BY <4>1, <4>2
    <3>3. QED
      BY <3>1, <3>2
  <2>4. QED
    BY <2>1, <2>3
<1>2. RunsInv => OneAgentPerTicket
  BY <1>1 DEF OneAgentPerTicket
<1>3. QED
  BY <1>2, RunsInvHolds, PTL

(* What a step of anyone leaves of a run that has ended. *)
LEMMA EndedStays ==
  ASSUME InvestigationsAssumption, RunsInv, [InvestigationsNext]_investigationsVars, NEW r \in Legacy,
         ~swapped, ~overtaken, runsFile[r].status \in Terminal
  PROVE  runsFile'[r] = runsFile[r]
<1>1. RunTypes /\ r \in Ids /\ r \notin Phases /\ runsFile[r].status # Void /\ runsFile[r].status # "running"
  BY Apart DEF RunsInv
<1>2. ASSUME NEW u \in Bindings, NEW f, NEW q \in Legacy, Launched(u, f, q), f \in [Ids -> Records], f[r] = runsFile[r]
      PROVE  runsFile'[r] = runsFile[r]
  <2>1. runsFile[q].status = Void /\ runsFile' = Upsert(f, q, pending[u].bug)
    BY <1>2 DEF Launched
  <2>2. QED
    BY <1>1, <1>2, <2>1 DEF Upsert
<1>3. ASSUME NEW u \in Bindings, Start(u) PROVE runsFile'[r] = runsFile[r]
  <2>1. PICK stale : stale = ActiveRunForBug(pending[u].bug) \ active[investigator]
    OBVIOUS
  <2>2. PICK f : f = [q \in Ids |-> IF q \in stale THEN [runsFile[q] EXCEPT !.status = "failed"] ELSE runsFile[q]]
    OBVIOUS
  <2>3. r \notin stale
    BY <1>1, <2>1 DEF ActiveRunForBug
  <2>4. runsFile' = runsFile \/ \E q \in Legacy : Launched(u, f, q)
    BY <1>3, <2>1, <2>2 DEF Start
  <2>5. f \in [Ids -> Records] /\ f[r] = runsFile[r]
    BY <1>1, <2>2, <2>3 DEF RunTypes, Records, Terminal
  <2>6. QED
    BY <1>2, <2>4, <2>5
<1>4. ASSUME NEW u \in Bindings, ContinueRun(u) PROVE runsFile'[r] = runsFile[r]
  BY <1>1, <1>2, <1>4 DEF ContinueRun, RunTypes
<1>5. ASSUME NEW q \in Ids, FinishRun(q) PROVE runsFile'[r] = runsFile[r]
  <2>1. q # r
    BY <1>1, <1>5 DEF FinishRun, RunsInv, AgentsAreFound, Found, Alive
  <2>2. QED
    BY <1>5, <2>1 DEF FinishRun, FinishRecord
<1>6. ASSUME NEW q \in Ids, FinishProjection(q) PROVE runsFile'[r] = runsFile[r]
  <2>1. q # r
    BY <1>1, <1>6 DEF FinishProjection, RunsInv, RecordsFit, RecordFits
  <2>2. QED
    BY <1>6, <2>1 DEF FinishProjection, FinishRecord
<1>7. ASSUME NEW q \in Ids, startLegacyProjection(q) PROVE runsFile'[r] = runsFile[r]
  BY <1>1, <1>7 DEF startLegacyProjection, Upsert
<1>8. CASE UNCHANGED runsFile
  BY <1>8
<1>9. QED
  BY <1>3, <1>4, <1>5, <1>6, <1>7, <1>8
  DEF InvestigationsNext, Call, Cancel, checkoutBugAgentEnvBranches, CancelReturns, Exit, RemoveActive,
      executePreparedPhase, PhaseReturns, SwitchInvestigator, StudioKilled, investigationsVars

(* How a run ended is recorded once; no later command, goroutine or restart
   changes it (InvestigationStore.Finish). *)
THEOREM EndsAreRecordedOnce ==
  ASSUME InvestigationsAssumption
  PROVE  InvestigationsSpec => EndedForGood
<1>1. RunsInv /\ [InvestigationsNext]_investigationsVars
      => [\A r \in Legacy : ~swapped /\ ~overtaken /\ runsFile[r].status \in Terminal
            => runsFile'[r] = runsFile[r]]_investigationsVars
  BY EndedStays
<1>2. QED
  BY <1>1, RunsInvHolds, PTL DEF InvestigationsSpec, EndedForGood

LEMMA DeathsAreCounted ==
  ASSUME InvestigationsAssumption
  PROVE  InvestigationsSpec => [](kills \in 0..MaxKills)
<1>1. InvestigationsInit => kills \in 0..MaxKills
  BY DEF InvestigationsInit, InvestigationsAssumption
<1>2. kills \in 0..MaxKills /\ [InvestigationsNext]_investigationsVars => (kills \in 0..MaxKills)'
  <2>1. ASSUME NEW u \in Bindings, Start(u) \/ ContinueRun(u) \/ checkoutBugAgentEnvBranches(u) \/ CancelReturns(u)
        PROVE  kills' = kills
    BY <2>1 DEF Start, ContinueRun, checkoutBugAgentEnvBranches, CancelReturns, Interruptions
  <2>2. ASSUME NEW u \in Bindings, NEW kind, NEW b, Call(u, kind, b) PROVE kills' = kills
    BY <2>2 DEF Call, Interruptions
  <2>3. ASSUME NEW u \in Bindings, NEW r \in Ids, Cancel(u, r) PROVE kills' = kills
    BY <2>3 DEF Cancel, Interruptions
  <2>4. ASSUME NEW r \in Ids,
               \/ Exit(r) \/ FinishRun(r) \/ RemoveActive(r) \/ startLegacyProjection(r)
               \/ executePreparedPhase(r) \/ PhaseReturns(r) \/ FinishProjection(r)
        PROVE  kills' = kills
    BY <2>4
    DEF Exit, FinishRun, RemoveActive, startLegacyProjection, executePreparedPhase, PhaseReturns, FinishProjection,
        Interruptions
  <2>5. SwitchInvestigator => kills' = kills
    BY DEF SwitchInvestigator
  <2>6. StudioKilled => kills' = kills + 1 /\ kills < MaxKills
    BY DEF StudioKilled
  <2>7. UNCHANGED investigationsVars => kills' = kills
    BY DEF investigationsVars
  <2>8. QED
    BY <2>1, <2>2, <2>3, <2>4, <2>5, <2>6, <2>7 DEF InvestigationsNext, InvestigationsAssumption
<1>3. QED
  BY <1>1, <1>2, PTL DEF InvestigationsSpec

(* CancelBugInvestigation returns when the process of the agent has ended and
   its run is recorded as ended, not before. *)
THEOREM CancellationsWait ==
  ASSUME InvestigationsAssumption
  PROVE  InvestigationsSpec => CancelWaits
<1>1. ASSUME RunsInv, kills \in 0..MaxKills, [InvestigationsNext]_investigationsVars, NEW u \in Bindings,
             pending[u].pc = "cancel", pending'[u].pc = "idle", pending[u].run \in Legacy, kills' = kills
      PROVE  ~Alive(pending[u].run) /\ runsFile[pending[u].run].status \in Terminal
  <2>1. /\ RunTypes /\ RecordFits(pending[u].run) /\ pending[u].run \in Ids /\ pending[u].run \notin Phases
        /\ NoCall.pc = "idle"
    BY <1>1, Apart, Kinds DEF RunsInv, RecordsFit
  <2>2. CASE CancelReturns(u)
    <3>1. agent[pending[u].run].pc = "done"
      BY <2>1, <2>2 DEF CancelReturns, RecordFits
    <3>2. QED
      BY <1>1, <2>1, <3>1 DEF RecordFits, Alive
  <2>3. CASE UNCHANGED pending
    BY <1>1, <2>3
  <2>4. ASSUME NEW v \in Bindings, v # u, NEW n, pending' = [pending EXCEPT ![v] = n] PROVE FALSE
    BY <1>1, <2>1, <2>4 DEF RunTypes
  <2>5. ASSUME NEW v \in Bindings, NEW kind \in {"start", "continue"}, NEW b \in Tickets, Call(v, kind, b) PROVE FALSE
    <3>1. v # u
      BY <1>1, <2>5 DEF Call
    <3>2. QED
      BY <2>4, <2>5, <3>1 DEF Call
  <2>6. ASSUME NEW v \in Bindings, NEW r \in Ids, Cancel(v, r) PROVE FALSE
    <3>1. v # u
      BY <1>1, <2>6 DEF Cancel
    <3>2. QED
      BY <2>4, <2>6, <3>1 DEF Cancel
  <2>7. ASSUME NEW v \in Bindings, checkoutBugAgentEnvBranches(v) PROVE FALSE
    <3>1. v # u
      BY <1>1, <2>7 DEF checkoutBugAgentEnvBranches
    <3>2. QED
      BY <2>4, <2>7, <3>1 DEF checkoutBugAgentEnvBranches
  <2>8. ASSUME NEW v \in Bindings, Start(v) \/ ContinueRun(v) PROVE FALSE
    <3>1. v # u
      BY <1>1, <2>8 DEF Start, ContinueRun
    <3>2. QED
      BY <2>4, <2>8, <3>1 DEF Start, ContinueRun
  <2>9. ASSUME NEW v \in Bindings, v # u, CancelReturns(v) PROVE FALSE
    BY <2>4, <2>9 DEF CancelReturns
  <2>10. ~StudioKilled
    BY <1>1 DEF StudioKilled
  <2>11. QED
    BY <1>1, <2>2, <2>3, <2>5, <2>6, <2>7, <2>8, <2>9, <2>10
    DEF InvestigationsNext, Exit, FinishRun, RemoveActive, startLegacyProjection, executePreparedPhase, PhaseReturns,
        FinishProjection, SwitchInvestigator, investigationsVars
<1>2. RunsInv /\ kills \in 0..MaxKills /\ [InvestigationsNext]_investigationsVars
      => [\A u \in Bindings : pending[u].pc = "cancel" /\ pending'[u].pc = "idle" /\ pending[u].run \in Legacy /\ kills' = kills
            => /\ ~Alive(pending[u].run)
               /\ runsFile[pending[u].run].status \in Terminal]_investigationsVars
  BY <1>1
<1>3. QED
  BY <1>2, RunsInvHolds, DeathsAreCounted, PTL DEF InvestigationsSpec, CancelWaits

(* A ticket has one agent started from it, and the run of a living agent is
   ended by this agent, once, and before a cancellation of it returns:
   Start, Continue, CancelBugInvestigation and collectContinueRun together. *)
THEOREM TicketsKeepOneAgent ==
  ASSUME InvestigationsAssumption
  PROVE  InvestigationsSpec => TicketHasOneAgent
<1>1. RunsInv /\ kills \in 0..MaxKills => TypeOK
  <2>1. SUFFICES ASSUME RunTypes, RecordsFit, kills \in 0..MaxKills PROVE TypeOK
    BY DEF RunsInv
  <2>2. ASSUME NEW r \in Ids
        PROVE  runsFile[r] \in [status : {Void, "running"} \cup Terminal, bug : Tickets, started : 0..clock]
    <3>1. runsFile[r] \in Records /\ runsFile[r].started <= clock /\ clock \in Nat
      BY <2>1, <2>2 DEF RunTypes, RecordsFit, RecordFits
    <3>2. runsFile[r].started \in 0..clock
      BY <3>1 DEF Records
    <3>3. QED
      BY <3>1, <3>2 DEF Records
  <2>3. runsFile \in [Ids -> [status : {Void, "running"} \cup Terminal, bug : Tickets, started : 0..clock]]
    BY <2>1, <2>2 DEF RunTypes
  <2>4. QED
    BY <2>1, <2>3 DEF RunTypes, TypeOK, Goroutines, Steps, Commands
<1>2. QED
  BY <1>1, RunsInvHolds, DeathsAreCounted, LivingRunsStay, TicketsHaveOneAgent, CancellationsWait, EndsAreRecordedOnce,
     PTL DEF TicketHasOneAgent
=============================================================================
