--------------------------- MODULE EvidenceFiles ---------------------------
(***************************************************************************)
(* The evidence of the Cases of one Bug: the rows of evidence_artifacts,   *)
(* the files they refer to, registrations that run side by side (uploads   *)
(* of the user, artifacts of a phase run), and the deletion of the Bug's   *)
(* terminal history (workflow_artifacts.go, workflow_history_delete.go,    *)
(* workflow_artifact_secure_unix.go).                                      *)
(*                                                                         *)
(* Files and rows are two stores without a common transaction: a file is   *)
(* published before its row is inserted, and the directories of deleted    *)
(* Cases are moved to a tombstone before the deletion commits.  The        *)
(* database has one connection: a transaction that is open over several    *)
(* steps keeps every other access waiting.                                 *)
(***************************************************************************)
CONSTANTS Cases,    \* the Cases of the Bug
          Digests,  \* contents
          Slots,    \* the attempts and kinds a content is registered for
          Callers,  \* concurrent registrations
          Dirs,     \* bound: directories that may ever be made for the Cases
          None      \* no directory yet

ASSUME EvidenceAssumption == None \notin Dirs /\ Cases # {}

VARIABLES
    \* the database: the state of a Case, the rows of evidence_artifacts
    incident, rows,
    \* the file system: where a directory is (below the artifacts root or in a
    \* tombstone), the Case it was made for, the files in it
    where, owner, files,
    \* the registrations, and the deletion with its open transaction
    reg, deletion,
    \* ghost: files left behind by a crash or by a failing file system call
    stray

dbVars == <<incident, rows>>
fsVars == <<where, owner, files>>
vars == <<dbVars, fsVars, reg, deletion, stray>>

Row == [case : Cases, digest : Digests, slot : Slots]

Idle == [at |-> "idle"]
NoDeletion == [at |-> "idle", listed |-> {}, todo |-> {}, moved |-> {}]

Init ==
    /\ incident = [c \in Cases |-> "active"]
    /\ rows = {}
    /\ where = [d \in Dirs |-> "unused"]
    /\ owner = [d \in Dirs |-> CHOOSE c \in Cases : TRUE]
    /\ files = [d \in Dirs |-> {}]
    /\ reg = [u \in Callers |-> Idle]
    /\ deletion = NoDeletion
    /\ stray = {}

(* SetMaxOpenConns(1): no access while the deletion's transaction is open.   *)
(* A failed commit closes it before the directories are restored.            *)
DatabaseFree == deletion.at \notin {"staging", "deleting"}

(* The directory that a lookup of the Case's path finds. *)
IsHome(d, c) == where[d] = "root" /\ owner[d] = c
Homeless(c) == \A d \in Dirs : ~IsHome(d, c)

-----------------------------------------------------------------------------
(***************************************************************************)
(* RegisterArtifact.                                                       *)
(***************************************************************************)

Go(u, place) == reg' = [reg EXCEPT ![u].at = place]
Finish(u) == reg' = [reg EXCEPT ![u] = Idle]

(* The checks before the publication lock: GetAttempt finds the attempt.    *)
RegisterArtifact(u) ==
    /\ reg[u].at = "idle" /\ DatabaseFree
    /\ \E r \in Row :
          /\ incident[r.case] # "deleted"
          /\ reg' = [reg EXCEPT ![u] = [at |-> "waiting", row |-> r, dir |-> None,
                                        created |-> FALSE]]
    /\ UNCHANGED <<dbVars, fsVars, deletion, stray>>

Holding == {"looking", "opening", "linking", "recording", "cleaning"}
SameContent(r, s) == r.case = s.case /\ r.digest = s.digest

(* Mutant of PublicationFree: a lock that is not shared. *)
NeverBlocked(u) == reg[u].at = "waiting"

PublicationFree(u) ==
    \A v \in Callers : reg[v].at \in Holding => ~SameContent(reg[u].row, reg[v].row)

LockArtifactPublication(u) ==
    /\ reg[u].at = "waiting" /\ PublicationFree(u)
    /\ Go(u, "looking")
    /\ UNCHANGED <<dbVars, fsVars, deletion, stray>>

(* The same registration again finds its row. *)
GetEvidenceArtifact(u) ==
    /\ reg[u].at = "looking" /\ DatabaseFree
    /\ IF reg[u].row \in rows THEN Finish(u) ELSE Go(u, "opening")
    /\ UNCHANGED <<dbVars, fsVars, deletion, stray>>

(* openOrCreateDirectoryAt: from here on the directory is a descriptor.     *)
OpenDirectory(u) ==
    /\ reg[u].at = "opening"
    /\ \E d \in Dirs :
          /\ \/ IsHome(d, reg[u].row.case) /\ UNCHANGED <<where, owner>>
             \/ /\ Homeless(reg[u].row.case) /\ where[d] = "unused"
                /\ where' = [where EXCEPT ![d] = "root"]
                /\ owner' = [owner EXCEPT ![d] = reg[u].row.case]
          /\ reg' = [reg EXCEPT ![u].at = "linking", ![u].dir = d]
    /\ UNCHANGED <<dbVars, files, deletion, stray>>

(* The content is linked under its digest, or was there already. *)
PublishArtifact(u) ==
    /\ reg[u].at = "linking"
    /\ LET d == reg[u].dir
           x == reg[u].row.digest IN
          /\ where[d] # "removed"
          /\ files' = [files EXCEPT ![d] = @ \cup {x}]
          /\ reg' = [reg EXCEPT ![u].at = "recording", ![u].created = x \notin files[d]]
    /\ UNCHANGED <<dbVars, where, owner, deletion, stray>>

(* A failing file system call; the directory may be gone altogether.  After *)
(* the link it leaves the file behind.                                      *)
PublicationFails(u) ==
    /\ reg[u].at \in {"opening", "linking"}
    /\ Finish(u)
    /\ UNCHANGED <<dbVars, fsVars, deletion, stray>>

LeavesFile(u) ==
    /\ reg[u].at = "linking"
    /\ LET d == reg[u].dir
           x == reg[u].row.digest IN
          /\ where[d] # "removed" /\ x \notin files[d]
          /\ files' = [files EXCEPT ![d] = @ \cup {x}]
          /\ stray' = stray \cup {<<d, x>>}
    /\ Finish(u)
    /\ UNCHANGED <<dbVars, where, owner, deletion>>

(* Verify: the path still leads to the file that was published. *)
Verified(u) ==
    /\ IsHome(reg[u].dir, reg[u].row.case)
    /\ reg[u].row.digest \in files[reg[u].dir]

(* recordEvidenceArtifact: insert, verify and commit in one transaction.    *)
RecordEvidenceArtifact(u) ==
    /\ reg[u].at = "recording" /\ DatabaseFree
    /\ incident[reg[u].row.case] # "deleted" /\ Verified(u)
    /\ rows' = rows \cup {reg[u].row}
    /\ Finish(u)
    /\ UNCHANGED <<incident, fsVars, deletion, stray>>

(* Mutant of AfterRollback: the file stays. *)
FileStays(u) == Finish(u)

(* Only a file that this registration created is cleaned up. *)
AfterRollback(u) == IF reg[u].created THEN Go(u, "cleaning") ELSE Finish(u)

(* The Case is gone, the file is not where it was, or the database fails.   *)
RecordFails(u) ==
    /\ reg[u].at = "recording" /\ DatabaseFree
    /\ AfterRollback(u)
    /\ UNCHANGED <<dbVars, fsVars, deletion, stray>>

(* The error of a failing cleanup is dropped. *)
Cleanup(u) ==
    /\ reg[u].at = "cleaning"
    /\ \/ /\ files' = [files EXCEPT ![reg[u].dir] = @ \ {reg[u].row.digest}]
          /\ UNCHANGED stray
       \/ /\ stray' = stray \cup {<<reg[u].dir, reg[u].row.digest>>}
          /\ UNCHANGED files
    /\ Finish(u)
    /\ UNCHANGED <<dbVars, where, owner, deletion>>

-----------------------------------------------------------------------------
(***************************************************************************)
(* DeleteTerminalCaseHistoryForBug.                                        *)
(***************************************************************************)

Existing == {c \in Cases : incident[c] # "deleted"}

(* The transaction begins; an active Case or an empty history ends it.      *)
BeginDeletion ==
    /\ deletion.at = "idle"
    /\ Existing # {} /\ \A c \in Existing : incident[c] = "terminal"
    /\ deletion' = [at |-> "staging", listed |-> Existing, todo |-> Existing, moved |-> {}]
    /\ UNCHANGED <<dbVars, fsVars, reg, stray>>

(* The directories are renamed one by one, in the order of the identities.  *)
StageCaseArtifacts(c) ==
    /\ deletion.at = "staging" /\ c \in deletion.todo
    /\ \/ /\ Homeless(c)
          /\ deletion' = [deletion EXCEPT !.todo = @ \ {c}]
          /\ UNCHANGED where
       \/ \E d \in Dirs :
             /\ IsHome(d, c)
             /\ where' = [where EXCEPT ![d] = "tomb"]
             /\ deletion' = [deletion EXCEPT !.todo = @ \ {c},
                                            !.moved = deletion.moved \cup {d}]
    /\ UNCHANGED <<dbVars, owner, files, reg, stray>>

DeleteRows ==
    /\ deletion.at = "staging" /\ deletion.todo = {}
    /\ deletion' = [deletion EXCEPT !.at = "deleting"]
    /\ UNCHANGED <<dbVars, fsVars, reg, stray>>

(* A rename, a DELETE or the commit fails. *)
DeletionFails ==
    /\ deletion.at \in {"staging", "deleting"}
    /\ deletion' = [deletion EXCEPT !.at = "restoring"]
    /\ UNCHANGED <<dbVars, fsVars, reg, stray>>

(* Mutant of Restorable: a rename over the directory in place. *)
AlwaysRestorable(d) == where[d] = "tomb"

Restorable(d) == Homeless(owner[d])

(* The deferred restore; what cannot go back stays in the tombstone. *)
RestoreDirectory(d) ==
    /\ deletion.at = "restoring" /\ d \in deletion.moved
    /\ \/ Restorable(d) /\ where' = [where EXCEPT ![d] = "root"]
       \/ UNCHANGED where
    /\ deletion' = [deletion EXCEPT !.moved = @ \ {d}]
    /\ UNCHANGED <<dbVars, owner, files, reg, stray>>

RollBack ==
    /\ deletion.at = "restoring" /\ deletion.moved = {}
    /\ deletion' = NoDeletion
    /\ UNCHANGED <<dbVars, fsVars, reg, stray>>

CommitDeletion ==
    /\ deletion.at = "deleting"
    /\ incident' = [c \in Cases |->
                      IF c \in deletion.listed THEN "deleted" ELSE incident[c]]
    /\ rows' = {r \in rows : r.case \notin deletion.listed}
    /\ deletion' = [deletion EXCEPT !.at = "removing"]
    /\ UNCHANGED <<fsVars, reg, stray>>

(* staged.remove; a failure is a warning and leaves the tombstone. *)
RemoveStaged ==
    /\ deletion.at = "removing"
    /\ \/ /\ where' = [d \in Dirs |-> IF d \in deletion.moved THEN "removed" ELSE where[d]]
          /\ files' = [d \in Dirs |-> IF d \in deletion.moved THEN {} ELSE files[d]]
       \/ UNCHANGED <<where, files>>
    /\ deletion' = NoDeletion
    /\ UNCHANGED <<dbVars, owner, reg, stray>>

-----------------------------------------------------------------------------

(* A command or a reset settles a Case. *)
SettleCase(c) ==
    /\ incident[c] = "active" /\ DatabaseFree
    /\ incident' = [incident EXCEPT ![c] = "terminal"]
    /\ UNCHANGED <<rows, fsVars, reg, deletion, stray>>

InFlight(u) == reg[u].at \in {"recording", "cleaning"} /\ reg[u].created

(* The process dies: the transaction rolls back, nobody restores the files. *)
Crash ==
    /\ reg' = [u \in Callers |-> Idle]
    /\ deletion' = NoDeletion
    /\ stray' = stray \cup { <<reg[u].dir, reg[u].row.digest>> :
                               u \in {v \in Callers : InFlight(v)} }
    /\ UNCHANGED <<dbVars, fsVars>>

Registering(u) ==
    \/ RegisterArtifact(u) \/ LockArtifactPublication(u) \/ GetEvidenceArtifact(u)
    \/ OpenDirectory(u) \/ PublishArtifact(u) \/ PublicationFails(u) \/ LeavesFile(u)
    \/ RecordEvidenceArtifact(u) \/ RecordFails(u) \/ Cleanup(u)

Deleting ==
    \/ BeginDeletion \/ DeleteRows \/ DeletionFails \/ RollBack
    \/ CommitDeletion \/ RemoveStaged
    \/ \E c \in Cases : StageCaseArtifacts(c)
    \/ \E d \in Dirs : RestoreDirectory(d)

Next ==
    \/ \E u \in Callers : Registering(u)
    \/ Deleting
    \/ \E c \in Cases : SettleCase(c)
    \/ Crash

Spec == Init /\ [][Next]_vars

-----------------------------------------------------------------------------

Registration ==
    [at : Holding \cup {"waiting"}, row : Row, dir : Dirs \cup {None}, created : BOOLEAN]

(* Type invariant; a path leads to one directory, and rows refer to Cases   *)
(* that exist.                                                              *)
EvidenceTypeOK ==
    /\ incident \in [Cases -> {"active", "terminal", "deleted"}]
    /\ rows \subseteq Row
    /\ \A r \in rows : incident[r.case] # "deleted"
    /\ where \in [Dirs -> {"unused", "root", "tomb", "removed"}]
    /\ owner \in [Dirs -> Cases]
    /\ \A d, e \in Dirs : where[d] = "root" /\ IsHome(e, owner[d]) => d = e
    /\ files \in [Dirs -> SUBSET Digests]
    /\ reg \in [Callers -> {Idle} \cup Registration]
    /\ deletion \in [at : {"idle", "staging", "deleting", "restoring", "removing"},
                     listed : SUBSET Cases, todo : SUBSET Cases, moved : SUBSET Dirs]
    /\ stray \subseteq Dirs \X Digests

(* The content a row refers to is never destroyed: it is in the directory   *)
(* of its Case or in a tombstone, whatever registrations fail and clean up  *)
(* beside it, and wherever a deletion breaks off.                           *)
EvidenceIsKept ==
    \A r \in rows : \E d \in Dirs :
        owner[d] = r.case /\ where[d] \in {"root", "tomb"} /\ r.digest \in files[d]

(* No evidence of a deleted Case, or of a registration that failed, stays   *)
(* in place: every file has a row, a registration that is about to record   *)
(* or remove it, or was left behind by a crash or a file system error.      *)
EvidenceIsAccounted ==
    \A d \in Dirs : \A x \in files[d] :
        where[d] = "root" =>
           \/ \E r \in rows : r.case = owner[d] /\ r.digest = x
           \/ \E u \in Callers : InFlight(u) /\ reg[u].dir = d /\ reg[u].row.digest = x
           \/ <<d, x>> \in stray
=============================================================================
