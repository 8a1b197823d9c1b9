--------------------------- MODULE CodeGraphInstall -------------------------
(***************************************************************************)
(* Installing the CodeGraph tool (ensure_codegraph.go).  Deployments, a    *)
(* retry by the user and the investigations all ensure that it is there,   *)
(* in one process or in several, without a lock: a bundle is unpacked      *)
(* beside the cache and then renamed to it, and what is in the way is      *)
(* renamed aside first.  A step is one operation of the file system.       *)
(*                                                                         *)
(* A directory is None, "good" (validated, of this version) or "bad".      *)
(***************************************************************************)
EXTENDS Naturals, FiniteSets

CONSTANTS
  Procs,       \* those who ensure the tool at the same time
  MaxRuns,     \* bound: calls of EnsureCodeGraphInstalled
  MaxFaults,   \* bound: operations of the file system and downloads that fail
  MaxCrashes,  \* bound: processes that die on the way
  None         \* no such directory

CodeGraphInstallAssumption == None \notin {"good", "bad"}

VARIABLES
  cache,    \* what is at cacheRoot
  extract,  \* of each process, its extraction directory
  backup,   \* of each process, its backup directory
  link,     \* the stable command exists
  pc,       \* where each process is
  answer,   \* what its last call returned: "", "ok" or "error"
  seen,     \* the cache was good at some time (history)
  runs, faults, crashes

dirs == <<cache, extract, backup, link>>
bounds == <<runs, faults, crashes>>
vars == <<dirs, pc, answer, seen, bounds>>

Idle == \A p \in Procs : pc[p] = "idle"

(* Mutant of Valid: a launcher is enough, its digest is not compared. *)
ValidAny == cache # None

(* codeGraphCacheValid. *)
Valid == cache = "good"

Init ==
  /\ cache \in {None, "bad"} /\ link = FALSE /\ seen = FALSE
  /\ extract = [p \in Procs |-> None] /\ backup = [p \in Procs |-> None]
  /\ pc = [p \in Procs |-> "idle"] /\ answer = [p \in Procs |-> ""]
  /\ runs = 0 /\ faults = 0 /\ crashes = 0

Goto(p, to) == pc' = [pc EXCEPT ![p] = to] /\ UNCHANGED <<answer, runs, crashes>>
Only(f, p, d) == [f EXCEPT ![p] = d]

(* An operation of the file system, or the download, fails. *)
Fault == faults < MaxFaults /\ faults' = faults + 1

(* A look at the cache: what cannot be read is not valid. *)
Look(ok) == \/ ok = Valid /\ UNCHANGED faults
            \/ ~ok /\ Fault

(* The call returns; what is deferred removes the extraction, if it can. *)
Return(p, a) ==
  /\ pc' = Only(pc, p, "idle") /\ answer' = Only(answer, p, a)
  /\ extract' = Only(extract, p, None)
  /\ UNCHANGED <<runs, crashes>>

Fail(p) == Fault /\ Return(p, "error")

-----------------------------------------------------------------------------
(* EnsureCodeGraphInstalled: the platform is none of the six, or there is no
   home directory; else a valid cache needs only its command. *)
Start(p) ==
  /\ pc[p] = "idle" /\ runs < MaxRuns
  /\ runs' = runs + 1 /\ backup' = Only(backup, p, None)
  /\ extract' = Only(extract, p, None)
  /\ UNCHANGED <<cache, link, seen, crashes>>
  /\ \/ \E ok \in BOOLEAN : Look(ok)
          /\ pc' = Only(pc, p, IF ok THEN "link" ELSE "download")
          /\ answer' = Only(answer, p, "")
     \/ Fault /\ answer' = Only(answer, p, "error") /\ UNCHANGED pc

(* The archive has the right digest, unpacks and holds the launcher. *)
Unpack(p) ==
  /\ pc[p] = "download" /\ Goto(p, "again")
  /\ extract' = Only(extract, p, "good")
  /\ UNCHANGED <<cache, backup, link, seen, faults>>

UnpackFails(p) ==
  /\ pc[p] = "download" /\ Fail(p)
  /\ UNCHANGED <<cache, backup, link, seen>>

(* "Another install may have completed while this process downloaded." *)
Again(p) ==
  /\ pc[p] = "again"
  /\ \E ok \in BOOLEAN : Look(ok) /\ Goto(p, IF ok THEN "post" ELSE "check")
  /\ UNCHANGED <<dirs, seen>>

(* removeConcurrentCodeGraphExtraction, where somebody else has installed. *)
Drop(p) ==
  /\ \/ UNCHANGED faults /\ Goto(p, "post") /\ extract' = Only(extract, p, None)
     \/ Fail(p)
  /\ UNCHANGED <<cache, backup, link, seen>>

(* promoteCodeGraphDirectory: the top of the loop. *)
Check(p) ==
  /\ pc[p] = "check"
  /\ \E ok \in BOOLEAN : Look(ok) /\ Goto(p, IF ok THEN "drop" ELSE "stat")
  /\ UNCHANGED <<dirs, seen>>

Concurrent(p) == pc[p] = "drop" /\ Drop(p)

Stat(p) ==
  /\ pc[p] = "stat"
  /\ \/ /\ Goto(p, IF cache = None THEN "move" ELSE "aside")
        /\ UNCHANGED <<extract, faults>>
     \/ Fail(p)
  /\ UNCHANGED <<cache, backup, link, seen>>

(* A rename to a directory that exists fails, and any other may. *)
Promote(p, done, failed) ==
  \/ /\ cache = None /\ UNCHANGED faults
     /\ cache' = extract[p] /\ extract' = Only(extract, p, None) /\ seen' = TRUE
     /\ Goto(p, done) /\ UNCHANGED <<backup, link>>
  \/ /\ IF cache = None THEN Fault ELSE UNCHANGED faults
     /\ Goto(p, failed) /\ UNCHANGED <<dirs, seen>>

Move(p) == pc[p] = "move" /\ Promote(p, "post", "lost")

(* A name for the backup, and the rename to it. *)
Aside(p) ==
  /\ pc[p] = "aside" /\ UNCHANGED <<link, seen>>
  /\ \/ /\ cache # None /\ UNCHANGED <<extract, faults>>
        /\ backup' = Only(backup, p, cache) /\ cache' = None
        /\ Goto(p, "replace")
     \/ /\ IF cache = None THEN UNCHANGED faults ELSE Fault
        /\ Goto(p, "lost") /\ UNCHANGED <<cache, extract, backup>>
     \/ Fail(p) /\ UNCHANGED <<cache, backup>>

(* A rename failed: someone else was faster. *)
Lost(p) ==
  /\ pc[p] = "lost"
  /\ \E ok \in BOOLEAN : Look(ok) /\ Goto(p, IF ok THEN "drop" ELSE "restat")
  /\ UNCHANGED <<dirs, seen>>

(* "continue", at most 64 times; or the error of the rename. *)
Restat(p) ==
  /\ pc[p] = "restat" /\ UNCHANGED <<cache, backup, link, seen, faults>>
  /\ IF cache = None THEN Goto(p, "check") /\ UNCHANGED extract
     ELSE Return(p, "error")

Replace(p) == pc[p] = "replace" /\ Promote(p, "clean", "taken")

(* The backup goes and, where another won, the extraction. *)
Clean(p) ==
  /\ pc[p] = "clean" /\ UNCHANGED <<cache, link, seen>>
  /\ \/ /\ Goto(p, IF extract[p] = None THEN "post" ELSE "drop")
        /\ backup' = Only(backup, p, None)
        /\ UNCHANGED <<extract, faults>>
     \/ Fail(p) /\ UNCHANGED backup

(* Mutant of Taken: what another installed is left, the backup too. *)
TakenLeft(p) ==
  /\ pc[p] = "taken" /\ Goto(p, IF Valid THEN "post" ELSE "rollback")
  /\ UNCHANGED <<dirs, seen, faults>>

(* Mutant of Taken: the old cache goes back whoever has come. *)
TakenBack(p) ==
  /\ pc[p] = "taken" /\ cache' = backup[p] /\ backup' = Only(backup, p, None)
  /\ Return(p, "error") /\ UNCHANGED <<link, seen, faults>>

Taken(p) ==
  /\ pc[p] \in {"taken", "stuck"} /\ UNCHANGED <<cache, backup, link, seen>>
  /\ \E ok \in BOOLEAN : Look(ok) /\
       IF ok \/ pc[p] = "taken"
       THEN Goto(p, IF ok THEN "clean" ELSE "rollback") /\ UNCHANGED extract
       ELSE Return(p, "error")

Rollback(p) ==
  /\ pc[p] = "rollback" /\ UNCHANGED <<link, seen>>
  /\ \/ /\ cache = None /\ UNCHANGED faults
        /\ cache' = backup[p] /\ backup' = Only(backup, p, None)
        /\ Return(p, "error")
     \/ /\ IF cache = None THEN Fault ELSE UNCHANGED faults
        /\ Goto(p, "stuck") /\ UNCHANGED <<cache, extract, backup>>

Post(p) ==
  /\ pc[p] = "post" /\ UNCHANGED <<cache, backup, link, seen>>
  /\ \E ok \in BOOLEAN : Look(ok) /\
       IF ok THEN Goto(p, "link") /\ UNCHANGED extract ELSE Return(p, "error")

(* refreshCodeGraphStableCommand: a new link is renamed over the old one, which
   is removed first where it cannot be: then it may be gone. *)
Link(p) ==
  /\ pc[p] = "link" /\ UNCHANGED <<cache, backup, seen>>
  /\ \/ link' = TRUE /\ Return(p, "ok") /\ UNCHANGED faults
     \/ link' \in {link, FALSE} /\ Fail(p)

(* Its directories stay behind under names nobody looks at. *)
Crash(p) ==
  /\ pc[p] # "idle" /\ crashes < MaxCrashes /\ crashes' = crashes + 1
  /\ pc' = Only(pc, p, "idle") /\ answer' = Only(answer, p, "")
  /\ extract' = Only(extract, p, None) /\ backup' = Only(backup, p, None)
  /\ UNCHANGED <<cache, link, seen, runs, faults>>

Next == \E p \in Procs :
  \/ Start(p) \/ Unpack(p) \/ UnpackFails(p) \/ Again(p) \/ Check(p) \/ Concurrent(p)
  \/ Stat(p) \/ Move(p) \/ Aside(p) \/ Lost(p) \/ Restat(p) \/ Replace(p) \/ Clean(p)
  \/ Taken(p) \/ Rollback(p) \/ Post(p) \/ Link(p) \/ Crash(p)

Spec == Init /\ [][Next]_vars

-----------------------------------------------------------------------------
(* When two processes are through, a valid bundle is installed, if nothing failed
   or if one of the last calls said so and no more than one operation failed;
   and the command leads there unless a call failed.  Two failures can take
   the bundle of another call away: the rename to the cache, and the rename
   back.  So can a process that died; the next call then installs it again. *)
SettledIsInstalled ==
  (Idle /\ crashes = 0 /\ runs > 0) =>
    /\ (faults = 0 \/ (faults = 1 /\ \E p \in Procs : answer[p] = "ok")) => cache = "good"
    /\ (faults = 0 \/ \A p \in Procs : answer[p] # "error") => link

(* A call that succeeded leaves nothing beside the cache. *)
NothingBeside ==
  \A p \in Procs : answer[p] = "ok" => extract[p] = None /\ backup[p] = None

(* The rollback brings nothing invalid back once a valid bundle was installed,
   of two processes: "Reuse that valid cache instead of replacing it".  With a
   third it may: one moves the old cache aside, another promotes its bundle, a
   third, which had found no valid one before, moves this bundle aside, and the
   first finds the place empty and rolls the old one back. *)
GoodForGood == (seen /\ faults = 0) => cache # "bad"
=============================================================================
