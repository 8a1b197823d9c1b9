------------------------------ MODULE RepositoryScan ------------------------------
(***************************************************************************)
(* analyzerpipe.Run: for every repository of a system find the directory   *)
(* on this machine that holds its code, clone it if there is none, repair  *)
(* clones of older versions, and analyze it.  A repository may be part of  *)
(* an umbrella (parent_repo), share its URL with others (a monorepo) or lie *)
(* somewhere under another directory of the root.                          *)
(***************************************************************************)
EXTENDS Naturals, Sequences, FiniteSets, SequencesExt

CONSTANTS
  Systems,      \* sequences of repositories [name, url, parent, mount]
  Worlds,       \* what lies on the disk at first: functions on Paths
  Requests,     \* [root, clone : BOOLEAN, explicit : function from some names to paths,
                \*  only : a name, or None]
  Submodules,   \* for each URL's repository the submodules [mount, url] that it declares
  MaxRuns,
  MaxFaults,    \* commands of git that fail
  None

RepositoryScanAssumption ==
  /\ \A s \in Systems : \A i, j \in DOMAIN s : s[i].name = s[j].name => i = j
  /\ MaxRuns \in Nat /\ MaxFaults \in Nat

Paths == UNION {DOMAIN w : w \in Worlds}

(* A directory: the repository that was cloned into it, whether it has files, its
   refspec and whether all branches were fetched. *)
Clone(url, branch) == [origin |-> url, filled |-> TRUE, wide |-> branch = None, all |-> branch = None]

(* gitclone.CanonicalURL: scheme, user, port, case and suffix do not matter. *)
WithPort(url) == IF url = None THEN None ELSE IF url.form = "port" THEN <<url.repo, 2222>> ELSE <<url.repo>>
Canonical(url) == IF url = None THEN None ELSE <<url.repo>>

VARIABLES
  system, request, dirs,
  pc, queue,      \* what the run does; the repositories it has not handled
  cloned,         \* urlClonedTo
  resolved,       \* resolvedPaths
  path, status,   \* of the repository at hand
  report,         \* RepoSummary, with the directory and what it held
  clones,         \* URLs cloned by this run
  runs, faults,
  broken          \* directories in which a command of git has failed

vars == <<system, request, dirs, pc, queue, cloned, resolved, path, status, report, clones, runs, faults, broken>>
fixed == <<system, request, runs>>

Names(s) == {s[i].name : i \in DOMAIN s}
Empty == [x \in {} |-> None]

(* The user names a directory that holds the repository, or none that is there. *)
RightlyNamed ==
  \A r \in ToSet(system) : r.name \in DOMAIN request.explicit =>
    LET d == dirs[request.explicit[r.name]] IN d # None => Canonical(d.origin) = Canonical(r.url)

Init ==
  /\ system \in Systems /\ dirs \in Worlds /\ request \in Requests
  /\ RightlyNamed
  /\ pc = "idle" /\ queue = <<>> /\ cloned = Empty /\ resolved = Empty /\ path = None /\ status = None
  /\ report = <<>> /\ clones = <<>> /\ runs = 0 /\ faults = 0 /\ broken = {}

-----------------------------------------------------------------------------
(* Mutant of Layers: the order of the file. *)
Listed(s) == s

(* topoSortReposByParent: layer by layer, the parts of a repository after it;
   those that no layer has come last. *)
Layers(s) ==
  LET layer[n \in 0..Len(s)] ==
        IF n = 0 THEN SelectSeq(s, LAMBDA r : r.parent \notin Names(s))
        ELSE FlattenSeq([i \in DOMAIN layer[n - 1] |-> SelectSeq(s, LAMBDA r : r.parent = layer[n - 1][i].name)])
  IN FlattenSeq([n \in 1..(Len(s) + 1) |-> layer[n - 1]])
(* Mutant of Sorted: a cycle is dropped. *)
SortedOnly(s) == Layers(s)
Sorted(s) == Layers(s) \o SelectSeq(s, LAMBDA r : r \notin ToSet(Layers(s)))

(* RepoName: the desktop application scans one repository. *)
Wanted(r) == request.only \in {None, r.name}

Begin ==
  /\ pc = "idle" /\ runs < MaxRuns /\ (request.root \/ request.explicit # Empty)
  /\ pc' = "next" /\ queue' = SelectSeq(Sorted(system), Wanted) /\ runs' = runs + 1
  /\ cloned' = Empty /\ resolved' = Empty /\ path' = None /\ status' = None /\ report' = <<>> /\ clones' = <<>>
  /\ UNCHANGED <<system, request, dirs, faults, broken>>

Exists(p) == p # None /\ p \in Paths /\ dirs[p] # None

(* Where it should be. *)
RootPath(r) == IF request.root THEN <<"root", r.name>> ELSE None
ParentPath(r) ==
  IF r.parent \in DOMAIN resolved THEN Append(resolved[r.parent], IF r.mount = None THEN r.name ELSE r.mount) ELSE None
UrlPath(r) == IF r.url # None /\ r.url \in DOMAIN cloned THEN cloned[r.url] ELSE None
FirstOf(p, q) == IF p # None THEN p ELSE q
Guessed(r) == FirstOf(ParentPath(r), FirstOf(UrlPath(r), RootPath(r)))

(* Mutant of PathOf: guesses also when only directories of the user are to be read. *)
AlwaysGuessed(r) == IF r.name \in DOMAIN request.explicit THEN request.explicit[r.name] ELSE Guessed(r)
PathOf(r) ==
  IF r.name \in DOMAIN request.explicit THEN request.explicit[r.name]
  ELSE IF request.root THEN Guessed(r) ELSE None

(* findInSiblingDirs: one level down, under any directory of the root, if there
   is one directory of the name that holds this repository. *)
FallbackByName(r) ==
  LET matches == {p \in Paths : Len(p) = 3 /\ p[1] = "root" /\ p[3] = r.name /\ dirs[p] # None /\ dirs[p].filled}
  IN IF request.root /\ Cardinality(matches) = 1 THEN CHOOSE p \in matches : TRUE ELSE None
Fallback(r) ==
  LET matches == {p \in Paths : /\ Len(p) = 3 /\ p[1] = "root" /\ p[3] = r.name /\ dirs[p] # None /\ dirs[p].filled
                                /\ r.url # None => Canonical(dirs[p].origin) = Canonical(r.url)}
  IN IF request.root /\ Cardinality(matches) = 1 THEN CHOOSE p \in matches : TRUE ELSE None

With(f, k, v) == [x \in DOMAIN f \cup {k} |-> IF x = k THEN v ELSE f[x]]

(* What follows once a directory is there. *)
SettleForgetful(r, p, state) ==
  /\ path' = p /\ status' = state /\ pc' = "submodules" /\ resolved' = With(resolved, r.name, p)
  /\ UNCHANGED <<cloned, queue, report>>
Settle(r, p, state) ==
  /\ path' = p /\ status' = state /\ pc' = "submodules"
  /\ cloned' = IF r.url # None THEN With(cloned, r.url, p) ELSE cloned
  /\ resolved' = With(resolved, r.name, p)
  /\ UNCHANGED <<queue, report>>

(* A repository is done, whatever came of it. *)
Report(r, state, p) ==
  /\ report' = Append(report, [name |-> r.name, status |-> state, path |-> p,
                               held |-> IF Exists(p) THEN dirs[p] ELSE None])
  /\ queue' = Tail(queue) /\ path' = None /\ status' = None /\ pc' = "next"
  /\ UNCHANGED <<cloned, resolved>>

Find ==
  /\ pc = "next" /\ queue # <<>>
  /\ LET r == Head(queue)
         p == IF Exists(PathOf(r)) THEN PathOf(r) ELSE Fallback(r)
     IN IF p # None THEN Settle(r, p, "analyzed")
        ELSE IF ~request.clone \/ (PathOf(r) = None /\ ~request.root) THEN Report(r, "skipped", None)
        ELSE /\ pc' = "clone" /\ path' = FirstOf(PathOf(r), RootPath(r))
             /\ UNCHANGED <<queue, cloned, resolved, status, report>>
  /\ UNCHANGED <<fixed, dirs, clones, faults, broken>>

(* A clone with its submodules. *)
Filled(ds, p, url) ==
  LET subs == IF Canonical(url) \in DOMAIN Submodules THEN Submodules[Canonical(url)] ELSE {}
  IN [q \in Paths |-> LET its == {m \in subs : q = Append(p, m.mount)} IN
                      IF its # {} /\ ~(ds[q] # None /\ ds[q].filled) THEN Clone((CHOOSE m \in its : TRUE).url, None)
                      ELSE ds[q]]

(* gitclone.Clone; pickCloneBranch may name a branch. *)
GitClone(branch) ==
  LET r == Head(queue) IN
  /\ pc = "clone" /\ r.url # None
  /\ dirs' = Filled([dirs EXCEPT ![path] = Clone(r.url, branch)], path, r.url)
  /\ clones' = Append(clones, [url |-> r.url, name |-> r.name])
  /\ Settle(r, path, "cloned-then-analyzed")
  /\ UNCHANGED <<fixed, faults, broken>>

GitCloneFails ==
  LET r == Head(queue) IN
  /\ pc = "clone" /\ (r.url # None => faults < MaxFaults)
  /\ faults' = IF r.url # None THEN faults + 1 ELSE faults
  /\ Report(r, "clone-failed", None)
  /\ UNCHANGED <<fixed, dirs, clones, broken>>

EnsureSubmodules ==
  /\ pc = "submodules" /\ pc' = "branches"
  /\ dirs' = IF dirs[path].filled THEN Filled(dirs, path, dirs[path].origin) ELSE dirs
  /\ UNCHANGED <<fixed, queue, cloned, resolved, path, status, report, clones, faults, broken>>

EnsureSubmodulesFails ==
  /\ pc = "submodules" /\ faults < MaxFaults /\ Canonical(dirs[path].origin) \in DOMAIN Submodules
  /\ pc' = "branches" /\ faults' = faults + 1 /\ broken' = broken \cup {path}
  /\ UNCHANGED <<fixed, dirs, queue, cloned, resolved, path, status, report, clones>>

(* Mutant of EnsureAllBranches: the refspec is set, nothing is fetched. *)
OnlyRefspec ==
  /\ pc = "branches" /\ pc' = "analyze"
  /\ dirs' = [dirs EXCEPT ![path].wide = TRUE]
  /\ UNCHANGED <<fixed, queue, cloned, resolved, path, status, report, clones, faults, broken>>

(* The refspec is widened once, and then the branches are fetched, once. *)
EnsureAllBranches ==
  /\ pc = "branches" /\ pc' = "analyze"
  /\ dirs' = IF dirs[path].origin # None /\ ~dirs[path].wide
             THEN [dirs EXCEPT ![path].wide = TRUE, ![path].all = TRUE] ELSE dirs
  /\ UNCHANGED <<fixed, queue, cloned, resolved, path, status, report, clones, faults, broken>>

EnsureAllBranchesFails ==
  /\ pc = "branches" /\ dirs[path].origin # None /\ ~dirs[path].wide /\ faults < MaxFaults
  /\ pc' = "analyze" /\ dirs' = [dirs EXCEPT ![path].wide = TRUE]
  /\ faults' = faults + 1 /\ broken' = broken \cup {path}
  /\ UNCHANGED <<fixed, queue, cloned, resolved, path, status, report, clones>>

(* A stack that is not declared, or for which there is no analyzer, is skipped,
   after its directory was settled.  Of a part of a clone (sub_path) only that
   part is read; where the clone lies is the same. *)
Analyze ==
  /\ pc = "analyze"
  /\ Report(Head(queue), status, path) \/ Report(Head(queue), "skipped", path)
  /\ UNCHANGED <<fixed, dirs, clones, faults, broken>>

(* An analyzer fails, or the context has ended: the run has no result. *)
Abort ==
  /\ pc \in {"next", "analyze"} /\ queue # <<>> /\ faults < MaxFaults
  /\ pc' = "idle" /\ faults' = faults + 1 /\ queue' = <<>> /\ report' = <<>> /\ path' = None /\ status' = None
  /\ UNCHANGED <<fixed, dirs, cloned, resolved, clones, broken>>

Finish ==
  /\ pc = "next" /\ queue = <<>>
  /\ pc' = "idle"
  /\ UNCHANGED <<fixed, dirs, queue, cloned, resolved, path, status, report, clones, faults, broken>>

Next ==
  \/ Begin \/ Find \/ GitCloneFails \/ EnsureSubmodules \/ EnsureSubmodulesFails
  \/ \E branch \in {None, "release"} : GitClone(branch)
  \/ EnsureAllBranches \/ EnsureAllBranchesFails \/ Analyze \/ Abort \/ Finish

Spec == Init /\ [][Next]_vars
-----------------------------------------------------------------------------
Done(e) == e.status \in {"analyzed", "cloned-then-analyzed"}
RepoOf(name) == CHOOSE r \in ToSet(system) : r.name = name

(* What lies at the very place of a repository is taken by its name alone
   (pipeline.go:164-176 only asks whether there is something); repositories of
   one URL share it, and its parts are looked for in it. *)
PlaceTaken(e) ==
  \E r \in ToSet(system) :
    LET place == <<"root", r.name>> IN
    /\ RepoOf(e.name).url = r.url \/ RepoOf(e.name).parent # None
    /\ IsPrefix(place, e.path) /\ dirs[place] # None
    /\ r.url # None /\ Canonical(dirs[place].origin) # Canonical(r.url)

(* AnalyzedIsOwn: what is analyzed as a repository is a clone of that repository,
   with its files - not a directory of the same name elsewhere below the root, nor
   a submodule that was never filled - as long as git has not failed and no
   stranger lies at the very place of a repository (PlaceTaken). *)
AnalyzedIsOwn ==
  \A e \in ToSet(report) :
    Done(e) /\ e.name \notin DOMAIN request.explicit /\ RepoOf(e.name).url # None =>
      \/ /\ Canonical(e.held.origin) = Canonical(RepoOf(e.name).url)
         /\ e.held.filled
      \/ Front(e.path) \in broken
      \/ PlaceTaken(e)

(* ChildInUmbrella: a part of an umbrella is analyzed where the umbrella has it,
   even when the configuration lists the part first. *)
ChildInUmbrella ==
  \A e, p \in ToSet(report) :
    Done(e) /\ Done(p) /\ RepoOf(e.name).parent = p.name
    /\ e.name \notin DOMAIN request.explicit /\ request.root
    /\ RepoOf(p.name).parent = None =>
      \/ Front(e.path) = p.path
      \/ Len(e.path) = 3 /\ e.path # <<"root", e.name>>

(* EveryRepositoryReported: a run that ends tells of every repository, once,
   even when parents are missing or form a cycle. *)
EveryRepositoryReported ==
  pc = "next" /\ queue = <<>> =>
    /\ {e.name : e \in ToSet(report)} = {n \in Names(system) : request.only \in {None, n}}
    /\ request.only = None => Len(report) = Len(system)

(* OneClonePerUrl: services of one monorepo share one clone. *)
OneClonePerUrl ==
  \A i, j \in DOMAIN clones :
    clones[i].url = clones[j].url /\ i # j =>
      \E k \in {i, j} : RepoOf(clones[k].name).parent # None \/ clones[k].name \in DOMAIN request.explicit

(* OnlyWhatWasNamed: without a root, nothing is read but the directories that the
   user has named. *)
OnlyWhatWasNamed ==
  ~request.root => \A e \in ToSet(report) :
    Done(e) => e.name \in DOMAIN request.explicit /\ e.path = request.explicit[e.name]

(* BranchesSeen: all branches of a clone are known when it is analyzed, of clones
   made for one branch too, unless git has failed there. *)
BranchesSeen ==
  \A e \in ToSet(report) : Done(e) /\ e.held.origin # None => e.held.all \/ e.path \in broken
=============================================================================
