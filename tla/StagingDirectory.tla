---------------------------- MODULE StagingDirectory ----------------------------
(***************************************************************************)
(* The staging directories below .staging of the evidence root: a run      *)
(* opens one for its attempt, the agent fills it, a capture reads one file *)
(* of it, a cleanup empties and removes it, and a sweep at the next start  *)
(* removes those of terminal fix attempts.  The agent's processes write,   *)
(* replace and link at any moment, also while Studio reads or removes.     *)
(*                                                                         *)
(* A file has two halves, read one after the other; 0 is a half not yet    *)
(* written.  Every write moves the modification time.                      *)
(***************************************************************************)
EXTENDS Naturals, FiniteSets

CONSTANTS
  Attempts,    \* fix attempts
  Dirs,        \* directories, by identity (os.SameFile)
  Inodes,      \* files, by identity
  None,
  MaxStamp,    \* bounds the writes to a file
  MaxPasses,   \* passes of cleanupStagingDirectory (20 in the code)
  MaxMoves,    \* bounds the renames of staging directories by others
  MaxCrashes   \* bounds the crashes of Studio

StagingAssumption ==
  /\ MaxStamp \in Nat /\ MaxPasses \in Nat \ {0} /\ MaxMoves \in Nat /\ MaxCrashes \in Nat
  /\ None \notin Attempts \cup Dirs \cup Inodes

Nobody == [step |-> "idle", dir |-> None, inode |-> None, before |-> None, head |-> 0, tail |-> 0, was |-> {},
           passes |-> 0, attempt |-> None, list |-> {}]

VARIABLES
  name,      \* .staging: the directory each attempt's name leads to, or None
  made,      \* history: the directory Studio created for each attempt
  used,      \* history: the directories there have been
  holds,     \* the file in each directory, or None
  node,      \* each file: kind, links, the two halves, its modification time
  status,    \* "none", "running" or "terminal" for each attempt
  run,       \* the run of each attempt: Nobody, or what its capture or cleanup is at
  sweep,     \* the sweep at the start
  captured,  \* each attempt's capture: "none", "whole" or "torn"
  moves, crashes

stagingVars == <<name, made, used, holds, node, status, run, sweep, captured, moves, crashes>>
tree == <<name, made, used, moves>>
files == <<holds, node>>

-----------------------------------------------------------------------------
StagingInit ==
  /\ name = [a \in Attempts |-> None] /\ made = [a \in Attempts |-> None] /\ used = {}
  /\ holds = [d \in Dirs |-> None]
  /\ node = [i \in Inodes |-> [kind |-> "free", links |-> 0, head |-> 0, tail |-> 0, stamp |-> 0]]
  /\ status = [a \in Attempts |-> "none"]
  /\ run = [a \in Attempts |-> Nobody] /\ sweep = Nobody
  /\ captured = [a \in Attempts |-> "none"]
  /\ moves = 0 /\ crashes = 0

Unused == Dirs \ used

(* openAttemptEvidenceStaging: a name with a fresh nonce, a new directory, and
   the descriptors of it and of its parent. *)
OpenStaging(a) ==
  /\ status[a] = "none"
  /\ \E d \in Unused :
       /\ name' = [name EXCEPT ![a] = d]
       /\ made' = [made EXCEPT ![a] = d]
       /\ used' = used \cup {d}
       /\ run' = [run EXCEPT ![a] = [Nobody EXCEPT !.step = "open", !.dir = d, !.attempt = a]]
  /\ status' = [status EXCEPT ![a] = "running"]
  /\ UNCHANGED <<files, sweep, captured, moves, crashes>>

(* openExistingAttemptEvidenceStaging: by the name, a link is not followed. *)
OpenExisting(a) ==
  /\ status[a] = "running" /\ run[a] = Nobody /\ name[a] # None
  /\ run' = [run EXCEPT ![a] = [Nobody EXCEPT !.step = "open", !.dir = name[a], !.attempt = a]]
  /\ UNCHANGED <<tree, files, status, sweep, captured, crashes>>

-----------------------------------------------------------------------------
(* What else touches the directories. *)
Reachable(d) == \E a \in Attempts : name[a] = d

Free == {i \in Inodes : node[i].kind = "free"}

Create(d) ==
  /\ Reachable(d) /\ holds[d] = None
  /\ \E i \in Free : \E k \in {"regular", "other"}, t \in {0, 1} :
       /\ node' = [node EXCEPT ![i] = [kind |-> k, links |-> 1, head |-> 1, tail |-> t, stamp |-> 1]]
       /\ holds' = [holds EXCEPT ![d] = i]
  /\ UNCHANGED <<tree, status, run, sweep, captured, crashes>>

(* Writes to a file that nobody reads are in what Create makes. *)
WriteHalf(i) ==
  /\ node[i].kind = "regular" /\ node[i].stamp < MaxStamp
  /\ \E a \in Attempts : run[a].inode = i
  /\ \E half \in {"head", "tail"} :
       LET new == [node[i] EXCEPT ![half] = @ + 1, !.stamp = @ + 1] IN
       /\ node' = [node EXCEPT ![i] = new]
       /\ run' = [a \in Attempts |-> IF run[a].inode = i THEN [run[a] EXCEPT !.was = @ \cup {<<new.head, new.tail>>}] ELSE run[a]]
  /\ UNCHANGED <<holds, tree, status, sweep, captured, crashes>>

(* A second name for a file, inside or outside of the directory. *)
HardLink(i) ==
  /\ node[i].kind = "regular" /\ node[i].links = 1
  /\ node' = [node EXCEPT ![i].links = 2]
  /\ UNCHANGED <<holds, tree, status, run, sweep, captured, crashes>>

(* A staging directory is renamed and another put in its place. *)
MoveDirectory(a) ==
  /\ moves < MaxMoves /\ name[a] # None
  /\ \E d \in Unused \cup {None} : name' = [name EXCEPT ![a] = d] /\ used' = (used \cup {d}) \ {None}
  /\ moves' = moves + 1
  /\ UNCHANGED <<made, files, status, run, sweep, captured, crashes>>

-----------------------------------------------------------------------------
(* Capture: a duplicate of the descriptor, the file opened below it without
   following links, checked, read and checked again. *)
At(a, step) == run[a].step = step
Fails(a) == run' = [run EXCEPT ![a] = [@ EXCEPT !.step = "open", !.inode = None, !.before = None, !.head = 0, !.tail = 0, !.was = {}]]
Shared == UNCHANGED <<tree, files, status, sweep, crashes>>

(* Size and modification time, as os.FileInfo has them. *)
Info(i) == <<node[i].head > 0, node[i].tail > 0, node[i].stamp>>

CaptureOpen(a) ==
  /\ At(a, "open") /\ captured[a] = "none" /\ holds[run[a].dir] # None
  /\ LET i == holds[run[a].dir] IN
     IF node[i].kind # "regular" \/ node[i].links # 1
     THEN UNCHANGED run
     ELSE run' = [run EXCEPT ![a].step = "head", ![a].inode = i, ![a].before = Info(i),
                              ![a].was = {<<node[i].head, node[i].tail>>}]
  /\ Shared /\ UNCHANGED captured

ReadHead(a) ==
  /\ At(a, "head")
  /\ run' = [run EXCEPT ![a].step = "tail", ![a].head = node[run[a].inode].head]
  /\ Shared /\ UNCHANGED captured

ReadTail(a) ==
  /\ At(a, "tail")
  /\ run' = [run EXCEPT ![a].step = "after", ![a].tail = node[run[a].inode].tail]
  /\ Shared /\ UNCHANGED captured

(* Mutant of Unchanged: only the size is compared. *)
SameSize(r) == Info(r.inode)[1] = r.before[1] /\ Info(r.inode)[2] = r.before[2]

(* The file's information of before and after the read. *)
Unchanged(r) == Info(r.inode) = r.before

CaptureEnds(a) ==
  /\ At(a, "after")
  /\ captured' = IF Unchanged(run[a])
                 THEN [captured EXCEPT ![a] = IF <<run[a].head, run[a].tail>> \in run[a].was THEN "whole" ELSE "torn"]
                 ELSE captured
  /\ Fails(a) /\ Shared

-----------------------------------------------------------------------------
(* The run ends: its attempt is terminal, or still runs and keeps the
   directory for its checkpoint; without preserve the directory goes. *)
EndRun(a) ==
  /\ At(a, "open")
  /\ \E preserve \in BOOLEAN, s \in {"running", "terminal"} :
       /\ ~preserve => s = "terminal"
       /\ status' = [status EXCEPT ![a] = s]
       /\ run' = [run EXCEPT ![a] = IF preserve THEN Nobody ELSE [@ EXCEPT !.step = "empty"]]
  /\ UNCHANGED <<tree, files, sweep, captured, crashes>>

(* Studio stops or crashes: descriptors are gone, the attempt is settled by
   the recovery of the next start. *)
Crash ==
  /\ crashes < MaxCrashes /\ crashes' = crashes + 1
  /\ run' = [a \in Attempts |-> Nobody] /\ sweep' = Nobody
  /\ \E lost \in SUBSET {a \in Attempts : status[a] = "running"} :
       status' = [a \in Attempts |-> IF a \in lost THEN "terminal" ELSE status[a]]
  /\ UNCHANGED <<tree, files, captured>>

-----------------------------------------------------------------------------
(* Cleanup: passes that unlink what the directory holds, through its own
   descriptor; then the name is opened again and compared, then removed. *)
CleanupPass(p) ==
  LET d == p.dir IN
  IF holds[d] = None
  THEN UNCHANGED files
  ELSE /\ holds' = [holds EXCEPT ![d] = None]
       /\ node' = [node EXCEPT ![holds[d]].links = @ - 1,
                               ![holds[d]].kind = IF node[holds[d]].links = 1 THEN "gone" ELSE @]

(* Where a cleanup goes on after its step: an empty pass ends the emptying, as
   many full ones as there may be give up. *)
Cleaned(p) ==
  CASE p.step = "compare"       -> [p EXCEPT !.step = "failed"]
    [] holds[p.dir] = None      -> [p EXCEPT !.step = "compare"]
    [] p.passes + 1 = MaxPasses -> [p EXCEPT !.step = "failed"]
    [] OTHER                    -> [p EXCEPT !.passes = @ + 1]

(* Mutant of SameDirectory: the name alone is trusted. *)
AnyDirectory(p) == name[p.attempt] # None

(* os.SameFile of the name's directory and of the descriptor's. *)
SameDirectory(p) == name[p.attempt] = p.dir

(* Unlinkat(AT_REMOVEDIR) removes whatever the name leads to, if empty. *)
RemoveName(p) ==
  name' = IF name[p.attempt] # None /\ holds[name[p.attempt]] = None THEN [name EXCEPT ![p.attempt] = None] ELSE name

(* Comparison and removal are one step: what may come between them is an
   empty directory of somebody else under that name, and nothing tells which
   of two empty directories was removed. *)
CleanupStep(p) ==
  \/ /\ p.step = "empty" /\ CleanupPass(p) /\ UNCHANGED name
  \/ /\ p.step = "compare"
     /\ IF SameDirectory(p) THEN RemoveName(p) ELSE UNCHANGED name
     /\ UNCHANGED files

RunCleanup(a) ==
  /\ \/ CleanupStep(run[a]) /\ run' = [run EXCEPT ![a] = Cleaned(@)]
     \/ /\ At(a, "failed") /\ run' = [run EXCEPT ![a] = Nobody] /\ UNCHANGED <<name, files>>
  /\ UNCHANGED <<made, used, moves, status, sweep, captured, crashes>>

(* Mutant of Sweepable: whatever no run of this process has open. *)
Idle == {a \in Attempts : run[a] = Nobody}

(* sweepTerminalFixStaging: the terminal attempts are read once, before. *)
Sweepable == {a \in Attempts : status[a] = "terminal"}

BeginSweep ==
  /\ sweep = Nobody /\ Sweepable # {}
  /\ sweep' = [Nobody EXCEPT !.step = "next", !.list = Sweepable]
  /\ UNCHANGED <<tree, files, status, run, captured, crashes>>

(* One entry of .staging of a listed attempt after the other; any failure
   ends the sweep. *)
SweepEntry ==
  /\ sweep.step = "next"
  /\ LET found == {a \in sweep.list : name[a] # None} IN
     IF found = {} THEN sweep' = Nobody
     ELSE \E a \in found : sweep' = [sweep EXCEPT !.step = "empty", !.dir = name[a], !.attempt = a, !.passes = 0]
  /\ UNCHANGED <<tree, files, status, run, captured, crashes>>

SweepCleanup ==
  /\ \/ CleanupStep(sweep) /\ sweep' = Cleaned(sweep)
     \/ /\ sweep.step = "failed"
        /\ sweep' = IF name[sweep.attempt] = None
                    THEN [sweep EXCEPT !.step = "next", !.list = @ \ {sweep.attempt}, !.dir = None, !.attempt = None]
                    ELSE Nobody
        /\ UNCHANGED <<name, files>>
  /\ UNCHANGED <<made, used, moves, status, run, captured, crashes>>

-----------------------------------------------------------------------------
StagingNext ==
  \/ \E a \in Attempts :
       \/ OpenStaging(a) \/ OpenExisting(a) \/ MoveDirectory(a)
       \/ CaptureOpen(a) \/ ReadHead(a) \/ ReadTail(a) \/ CaptureEnds(a)
       \/ EndRun(a) \/ RunCleanup(a)
  \/ \E d \in Dirs : Create(d)
  \/ \E i \in Inodes : WriteHalf(i) \/ HardLink(i)
  \/ BeginSweep \/ SweepEntry \/ SweepCleanup \/ Crash

StagingSpec == StagingInit /\ [][StagingNext]_stagingVars

-----------------------------------------------------------------------------
(* What a capture returns is one state the file really had (was) while it was
   open, however the agent's processes wrote in the meantime. *)
CaptureIsWhole == \A a \in Attempts : captured[a] # "torn"

(* The directory Studio made for an attempt that still runs and has not been
   renamed away stays under its name, with what it holds: its checkpoint may
   be needed by the next recovery. *)
LivingStagingStays ==
  [][\A a \in Attempts :
       status[a] = "running" /\ made[a] # None /\ name[a] = made[a] /\ moves' = moves
         => name'[a] = made[a] /\ (holds[made[a]] # None => holds'[made[a]] = holds[made[a]])]_stagingVars

(* A cleanup removes only a name that leads to the directory it opened:
   what was put there in the meantime stays. *)
ReplacedStays ==
  [][\A a \in Attempts :
       name[a] # None /\ name'[a] = None /\ moves' = moves
         => \/ run[a].step = "compare" /\ run[a].dir = name[a]
            \/ sweep.step = "compare" /\ sweep.attempt = a /\ sweep.dir = name[a]]_stagingVars
=============================================================================
