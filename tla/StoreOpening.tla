---------------------------- MODULE StoreOpening ----------------------------
(***************************************************************************)
(* How Studio opens workflows.db (workflow_store.go): the schema of any    *)
(* earlier release is verified and brought to the current version in one   *)
(* immediate transaction, the Cases of removed phases are retired in a     *)
(* second one, and the legacy runs of runs.json are imported in a third    *)
(* (workflow_migrate.go).  Several instances may open the file at once,    *)
(* any may be killed between two statements, and the open instance keeps   *)
(* writing its attempts into runs.json, which the next start imports.      *)
(***************************************************************************)
EXTENDS Integers, FiniteSets

CONSTANTS
  Openers,      \* instances of Studio
  Runs,         \* runs of runs.json
  Bugs, BugOf,  \* the tickets, and the ticket of each run
  Resets,       \* resets committed before the cancellation outbox existed
  MaxWrites,    \* bound: runs.json rewritten
  MaxDeaths    \* bound: instances killed

StoreOpeningAssumption ==
  BugOf \in [Runs -> Bugs] /\ MaxWrites \in Nat /\ MaxDeaths \in Nat

workflowStoreSchemaVersion == 13
Versions == 0..(workflowStoreSchemaVersion + 1)

RunStatus == {"none", "running", "succeeded"}
Attempt == {"none", "interrupted", "succeeded"}
Audit == {"none", "succeeded", "failed", "forged"}
Outcome == {"none", "claimed", "succeeded", "failed"}
Files == [Runs -> RunStatus]
Nowhere == [r \in Runs |-> "none"]

VARIABLES
  db,       \* the committed database
  tx,       \* the image the open transaction will commit
  holder,   \* the instance in an immediate transaction: {} or one
  pc,       \* what each instance does
  batch,    \* the runs each instance read for its import
  file,     \* runs.json; partial: the writer died inside its write
  writes, deaths

openingVars == <<db, tx, holder, pc, batch, file, writes, deaths>>

Db == [version : Versions, marker : Versions, sound : BOOLEAN, objects : BOOLEAN,
       columns : SUBSET {"sha256", "json"},
       audit : [Resets -> Audit], bound : [Resets -> BOOLEAN], ops : [Resets -> Outcome],
       verification : {"validating", "legacy_archived"}, attempt : {"running", "cancelled"},
       retired : BOOLEAN, imports : SUBSET Files,
       cases : SUBSET Bugs, attempts : [Runs -> Attempt]]

(* A file of an earlier release; the version before any was released, with
   tables but without a version; a later release; a schema changed by hand. *)
Databases ==
  {[version |-> v, marker |-> v, sound |-> s, objects |-> v # 0 \/ ~s,
     columns |-> IF v >= 13 THEN {"sha256", "json"} ELSE IF v = 12 THEN c ELSE {},
     audit |-> a, bound |-> [r \in Resets |-> b],
     ops |-> [r \in Resets |-> IF v < 7 THEN "none" ELSE "claimed"],
     verification |-> "validating", attempt |-> "running",
     retired |-> FALSE, imports |-> {}, cases |-> {},
     attempts |-> Nowhere]
    : v \in Versions, s \in BOOLEAN, c \in SUBSET {"sha256", "json"},
      a \in [Resets -> Audit], b \in BOOLEAN}

OpeningInit ==
  /\ db \in Databases
  /\ db.version \notin 4..6 => /\ db.audit = [r \in Resets |-> "none"]
                               /\ \A r \in Resets : db.bound[r]
  /\ tx = db /\ holder = {}
  /\ pc = [p \in Openers |-> "closed"]
  /\ batch = [p \in Openers |-> Nowhere]
  /\ file \in {[runs |-> f, partial |-> FALSE] : f \in Files}
  /\ writes = 0 /\ deaths = 0

-----------------------------------------------------------------------------
Goto(p, to) == pc' = [pc EXCEPT ![p] = to]
Outside == UNCHANGED <<file, writes, deaths>>

(* Mutant: a deferred transaction, which keeps nobody out. *)
BeginDeferred(p, from, to) ==
  /\ pc[p] = from
  /\ holder' = holder \cup {p} /\ tx' = db /\ Goto(p, to)
  /\ UNCHANGED <<db, batch>> /\ Outside

(* BeginTx of an immediate transaction; another one makes the opener wait
   for up to five seconds, then fail. *)
BeginTx(p, from, to) ==
  /\ pc[p] = from
  /\ \/ holder = {} /\ holder' = {p} /\ tx' = db /\ Goto(p, to)
     \/ holder # {} /\ Goto(p, "refused") /\ UNCHANGED <<holder, tx>>
  /\ UNCHANGED <<db, batch>> /\ Outside

(* Any error of a transaction rolls it back and closes the store. *)
Rollback(p) ==
  /\ holder' = {} /\ Goto(p, "refused") /\ UNCHANGED <<db, tx, batch>> /\ Outside

Commit(p, to) ==
  /\ db' = tx /\ holder' = {} /\ Goto(p, to) /\ UNCHANGED <<tx, batch>> /\ Outside

(* Mutant: every version commits its script. *)
WriteThrough(p, image, to) ==
  /\ tx' = image /\ db' = image /\ Goto(p, to) /\ UNCHANGED <<holder, batch>> /\ Outside

Write(p, image, to) ==
  /\ tx' = image /\ Goto(p, to) /\ UNCHANGED <<db, holder, batch>> /\ Outside

(* OpenCaseStore: the file exists and is private before the transaction. *)
OpenCaseStore(p) == BeginTx(p, "closed", "version")

(* workflowSchemaFingerprint of the file, against the one in the marker. *)
workflowSchemaFingerprint(d) == d.sound

verifyWorkflowSchemaMarker(d) == d.marker = d.version /\ workflowSchemaFingerprint(d)

verifyWorkflowColumns(d) == d.columns = {"sha256", "json"}

(* initialize, the switch on the version: a new file is created as version
   1; a version up to 12 is checked before anything is changed; a file with
   tables and no version, and one of a later release, are refused. *)
ReadVersion(p) ==
  /\ pc[p] = "version"
  /\ LET v == tx.version IN
     \/ /\ v = 0 /\ ~tx.objects
        /\ Write(p, [tx EXCEPT !.version = 1, !.marker = 1, !.sound = TRUE, !.objects = TRUE],
                 "upgrade")
     \/ v = 0 /\ tx.objects /\ Rollback(p)
     \/ v \in 1..12 /\ verifyWorkflowSchemaMarker(tx) /\ Write(p, tx, "upgrade")
     \/ v \in 1..12 /\ ~verifyWorkflowSchemaMarker(tx) /\ Rollback(p)
     \/ v = workflowStoreSchemaVersion /\ Write(p, tx, "upgrade")
     \/ v > workflowStoreSchemaVersion /\ Rollback(p)

Stamped(d, v) == [d EXCEPT !.version = v, !.marker = v]

(* Versions 2 to 6: a schema script, the new fingerprint, the number. *)
UpgradeToV6(p) ==
  /\ pc[p] = "upgrade" /\ tx.version \in 1..5
  /\ Write(p, Stamped(tx, tx.version + 1), "upgrade")

(* Mutant: an outcome that no audit proves is taken for a failure. *)
OutcomeGuessed(d, r) == IF d.audit[r] = "succeeded" THEN "succeeded" ELSE "failed"

(* legacyResetCancellationAuditOutcome: only an audit event that is in every
   respect the one Studio writes is believed. *)
legacyResetCancellationAuditOutcome(d, r) ==
  IF d.audit[r] \in {"succeeded", "failed"} THEN d.audit[r] ELSE "claimed"

(* backfillV6ResetCancellations: one operation per committed reset that
   cancelled an attempt. *)
backfillV6ResetCancellations(d) ==
  [d EXCEPT !.ops = [r \in Resets |-> legacyResetCancellationAuditOutcome(d, r)]]

(* Version 7 creates the cancellation outbox and fills it; a reset whose
   attempt is not the cancelled one stops the upgrade. *)
UpgradeToV7(p) ==
  /\ pc[p] = "upgrade" /\ tx.version = 6
  /\ IF \A r \in Resets : tx.bound[r]
       THEN Write(p, Stamped(backfillV6ResetCancellations(tx), 7), "upgrade")
       ELSE Rollback(p)

UpgradeToV12(p) ==
  /\ pc[p] = "upgrade" /\ tx.version \in 7..11
  /\ Write(p, Stamped(tx, tx.version + 1), "upgrade")

(* Version 13 adds the columns a version 12 of another build may have. *)
UpgradeToV13(p) ==
  /\ pc[p] = "upgrade" /\ tx.version = 12
  /\ Write(p, [Stamped(tx, 13) EXCEPT !.columns = @ \cup ({"sha256", "json"} \ @)], "upgrade")

(* verifyWorkflowColumns, verifyRequiredWorkflowIndexes, the marker and the
   fingerprint of the result, then the commit. *)
VerifySchema(p) ==
  /\ pc[p] = "upgrade" /\ tx.version = workflowStoreSchemaVersion
  /\ IF verifyWorkflowSchemaMarker(tx) /\ verifyWorkflowColumns(tx)
       THEN Commit(p, "scope") ELSE Rollback(p)

(* retireVerificationCases, once: archives the Cases of the removed phases
   and cancels their attempts. *)
BeginRetire(p) == BeginTx(p, "scope", "retire")

retireVerificationCases(p) ==
  /\ pc[p] = "retire"
  /\ IF tx.retired THEN Commit(p, "read")
     ELSE /\ db' = [tx EXCEPT !.verification = "legacy_archived", !.attempt = "cancelled",
                              !.retired = TRUE]
          /\ holder' = {} /\ Goto(p, "read") /\ UNCHANGED <<tx, batch>> /\ Outside

-----------------------------------------------------------------------------
(* ImportLegacyRuns: reads the whole file and checks it; a file that does
   not decode ends the start of the workflow. *)
ReadRuns(p) ==
  /\ pc[p] = "read"
  /\ IF file.partial THEN Goto(p, "refused") /\ UNCHANGED batch
     ELSE /\ batch' = [batch EXCEPT ![p] = file.runs]
          /\ Goto(p, "begin import")
  /\ UNCHANGED <<db, tx, holder>> /\ Outside

BeginImport(p) == BeginTx(p, "begin import", "import")

(* legacyAttempt: a run that has not ended was interrupted. *)
legacyAttempt(s) == IF s = "running" THEN "interrupted" ELSE s

(* Mutant: the archived run must be as runs.json has it now. *)
SameSnapshot(stored, run) == stored = run

(* sameImportedLegacyAttempt: the identity of an archived run is its id and
   its Case, whatever runs.json has recorded since. *)
sameImportedLegacyAttempt(stored, run) == stored # "none" /\ run # "none"

(* One legacy Case per ticket that has a run. *)
legacyCases(runs) == {BugOf[r] : r \in runs}

(* Mutant: a file is imported however often it is found. *)
ImportAlways(p) ==
  LET new == {r \in Runs : batch[p][r] # "none" /\ tx.attempts[r] = "none"} IN
  /\ pc[p] = "import"
  /\ db' = [tx EXCEPT !.imports = @ \cup {batch[p]}, !.cases = @ \cup legacyCases(new),
                      !.attempts = [r \in Runs |-> IF r \in new THEN legacyAttempt(batch[p][r])
                                                   ELSE tx.attempts[r]]]
  /\ holder' = {} /\ Goto(p, "open") /\ UNCHANGED <<tx, batch>> /\ Outside

(* importLegacyBatch: nothing, if this very file was imported; otherwise one
   legacy Case per ticket and one attempt per run, each inserted unless it
   is there.  A row that is there must be the same one. *)
importLegacyBatch(p) ==
  LET runs == {r \in Runs : batch[p][r] # "none"}
      known == {r \in runs : tx.attempts[r] # "none"}
  IN
  /\ pc[p] = "import"
  /\ IF batch[p] \in tx.imports THEN Commit(p, "open")
     ELSE IF \E r \in known : ~sameImportedLegacyAttempt(tx.attempts[r], legacyAttempt(batch[p][r]))
       THEN Rollback(p)
     ELSE /\ db' = [tx EXCEPT !.imports = @ \cup {batch[p]},
                              !.cases = @ \cup legacyCases(runs),
                              !.attempts = [r \in Runs |-> IF r \in runs \ known
                                                           THEN legacyAttempt(batch[p][r])
                                                           ELSE tx.attempts[r]]]
          /\ holder' = {} /\ Goto(p, "open") /\ UNCHANGED <<tx, batch>> /\ Outside

(* initializeIncidentWorkflow: a failure is not sticky, the next command
   tries again. *)
initializeIncidentWorkflow(p) ==
  /\ pc[p] = "refused"
  /\ Goto(p, "closed")
  /\ UNCHANGED <<db, tx, holder, batch>> /\ Outside

-----------------------------------------------------------------------------
(* An open instance: its runner projects an attempt into runs.json when it
   starts and when it ends (ProjectAttempt, FinishProjection). *)
Project(p, r) ==
  /\ pc[p] = "open" /\ ~file.partial /\ writes < MaxWrites
  /\ writes' = writes + 1
  /\ \/ file.runs[r] = "none" /\ file' = [file EXCEPT !.runs[r] = "running"]
     \/ file.runs[r] = "running" /\ file' = [file EXCEPT !.runs[r] = "succeeded"]
  /\ UNCHANGED <<db, tx, holder, pc, batch, deaths>>

(* DeleteTerminalCaseHistoryForBug of a legacy Case. *)
DeleteHistory(p, b) ==
  /\ pc[p] = "open" /\ holder = {} /\ b \in db.cases
  /\ db' = [db EXCEPT !.cases = @ \ {b},
                      !.attempts = [r \in Runs |-> IF BugOf[r] = b THEN "none"
                                                   ELSE db.attempts[r]]]
  /\ UNCHANGED <<tx, holder, pc, batch>> /\ Outside

Quit(p) ==
  /\ pc[p] = "open"
  /\ Goto(p, "closed")
  /\ UNCHANGED <<db, tx, holder, batch>> /\ Outside

(* Killed: an open transaction is rolled back by SQLite; a write of
   runs.json that was under way leaves part of it. *)
OpenerDies(p) ==
  /\ pc[p] # "closed" /\ deaths < MaxDeaths
  /\ deaths' = deaths + 1
  /\ holder' = holder \ {p}
  /\ Goto(p, "closed")
  /\ \/ UNCHANGED file
     \/ pc[p] = "open" /\ writes < MaxWrites /\ file' = [file EXCEPT !.partial = TRUE]
  /\ UNCHANGED <<db, tx, batch, writes>>

Opening(p) ==
  \/ OpenCaseStore(p) \/ ReadVersion(p)
  \/ UpgradeToV6(p) \/ UpgradeToV7(p) \/ UpgradeToV12(p) \/ UpgradeToV13(p) \/ VerifySchema(p)
  \/ BeginRetire(p) \/ retireVerificationCases(p)
  \/ ReadRuns(p) \/ BeginImport(p) \/ importLegacyBatch(p)
  \/ initializeIncidentWorkflow(p)

Using(p) == \/ \E r \in Runs : Project(p, r)
            \/ \E b \in Bugs : DeleteHistory(p, b)
            \/ Quit(p) \/ OpenerDies(p)

OpeningNext == \E p \in Openers : Opening(p) \/ Using(p)

OpeningSpec == OpeningInit /\ [][OpeningNext]_openingVars

-----------------------------------------------------------------------------
OpeningTypeOK ==
  /\ db \in Db /\ tx \in Db
  /\ holder \subseteq Openers /\ Cardinality(holder) <= 1
  /\ pc \in [Openers -> {"closed", "version", "upgrade", "scope", "retire", "read",
                         "begin import", "import", "open", "refused"}]
  /\ batch \in [Openers -> Files]
  /\ file \in [runs : Files, partial : BOOLEAN]
  /\ writes \in 0..MaxWrites /\ deaths \in 0..MaxDeaths

(* OpenCaseStoreReadOnly (benchmark export): verifyReadOnlyWorkflowSchema
   takes a file of version 11 to 13 whose marker is exact, changing nothing. *)
readable == db.version \in 11..workflowStoreSchemaVersion /\ verifyWorkflowSchemaMarker(db)

Supported(d) ==
  \/ d.version = 0 /\ ~d.objects
  \/ d.version \in 1..workflowStoreSchemaVersion /\ verifyWorkflowSchemaMarker(d)
     /\ (d.version < 7 => \A r \in Resets : d.bound[r])

(* An upgrade is all or nothing: whoever was killed, and however two
   instances met, the file holds a version a release wrote or the current
   one; a file that was refused is as it was found; what one instance opened
   no step of another makes unreadable. *)
UpgradeAllOrNothing ==
  [][ db'.version # db.version =>
        /\ Supported(db) /\ db'.version = workflowStoreSchemaVersion
        /\ verifyWorkflowSchemaMarker(db') /\ verifyWorkflowColumns(db') ]_openingVars

(* A store in use is the current schema, holds no work of a removed phase,
   and owes every reset of an earlier release exactly the cancellation its
   audit proves: "succeeded" or "failed" if Studio's own audit event says so,
   otherwise claimed - an outcome nobody knows, never to be tried again. *)
OpenedComplete ==
  \A p \in Openers : pc[p] \in {"read", "begin import", "import", "open"} =>
    /\ readable
    /\ db.verification = "legacy_archived" /\ db.attempt = "cancelled"
    /\ \A r \in Resets : /\ db.ops[r] # "none"
                         /\ db.ops[r] \in {"succeeded", "failed"} => db.audit[r] = db.ops[r]

(* The first archived snapshot of a run is kept ("instead of rewriting
   history"): the import of a later runs.json adds runs and changes none;
   and no runs.json that Studio wrote whole makes the import refuse. *)
SnapshotKept ==
  [][ \A p \in Openers : pc[p] = "import" /\ pc'[p] \notin {"closed", "import"} =>
        /\ pc'[p] = "open"
        /\ \A r \in Runs : db.attempts[r] # "none" => db'.attempts[r] = db.attempts[r]
        /\ \A r \in Runs : batch[p][r] # "none" /\ batch[p] \notin db.imports
             => db'.attempts[r] # "none" /\ BugOf[r] \in db'.cases ]_openingVars

(* A deleted legacy history comes back only with a runs.json the store has
   not imported yet. *)
DeletedStaysDeleted ==
  [][ \A r \in Runs : db.attempts[r] = "none" /\ db'.attempts[r] # "none" =>
        \E p \in Openers : pc[p] = "import" /\ batch[p] \notin db.imports ]_openingVars

(* All of it: an upgrade is whole or did not happen, what is open is complete,
   and archived runs stay as they were first seen. *)
OpenedStoreIsWhole ==
  /\ [](OpeningTypeOK /\ OpenedComplete)
  /\ UpgradeAllOrNothing
  /\ SnapshotKept
  /\ DeletedStaysDeleted
=============================================================================
