------------------------------ MODULE BotGeneration ------------------------------
(***************************************************************************)
(* Generating a bot's workspace and its platform packages from the         *)
(* configuration (generator.Generate, GenerateTarget, upgrade.Run, CLI     *)
(* gen).  Of the workspace the config-map is modelled, a row for each      *)
(* service: it says where the service's configuration is, from code        *)
(* analysis, from the wizard's service map, from a row that the user       *)
(* verified by hand in the previous output, or inferred.  The user edits   *)
(* rows and the configuration between generations; any step may be the     *)
(* last one before a crash or an error.                                    *)
(***************************************************************************)
EXTENDS Naturals, FiniteSets

CONSTANTS
  Services, Centers, Values,
  Targets,             \* the platforms packages are made for
  MaxEdits, MaxRuns, MaxAborts,
  Nil

(* What the state is made of: a config-map is a row for each of some services, a
   workspace has none before it is rendered, and a job collects overrides. *)
Rowings == UNION {[D -> [status : {"verified", "inferred"}, source : BOOLEAN, value : Values \cup {Nil}]] : D \in SUBSET Services}
Workspaces == [center : Centers \cup {Nil}, rows : Rowings \cup {Nil}]
Overrides == UNION {[D -> Values] : D \in SUBSET Services}
Jobs ==
  [op : {"generate", "upgrade", "package"},
   step : {"rename", "copy", "copying", "snapshot", "wipe", "render", "done", "pack"},
   findings : Overrides, prior : Overrides \cup Workspaces, center : Centers]

BotGenerationAssumption ==
  /\ Centers # {} /\ Nil \notin Centers \cup Values
  /\ Nil \notin Rowings /\ Nil \notin Workspaces /\ Nil \notin Jobs
  /\ MaxEdits \in Nat /\ MaxRuns \in Nat /\ MaxAborts \in Nat

VARIABLES
  yaml,      \* [center, services, map]: troubleshooter.yaml
  out,       \* the workspace directory: Nil, or its config-map [center, rows], rows = Nil before it is written
  backups,   \* the directories <out>.bak.<time>
  job,       \* the generation that runs: [op, step, findings, prior, to], or Nil
  staging,   \* the config-map of the temporary workspace of a job
  pkg,       \* pkg[t]: the package directory of t: Nil, or [part, rows]
  human,     \* history: human[s], the [center, value] the user verified last, while it is to be kept
  known,     \* history: <<center, service, value>> that somebody gave
  edits, runs, aborts

generationVars == <<yaml, out, backups, job, staging, pkg, human, known, edits, runs, aborts>>

NoRows == [s \in {} |-> Nil]
Row(status, source, value) == [status |-> status, source |-> source, value |-> value]
ByHand(row) == row.status = "verified" /\ ~row.source
RowsOf(dir) == IF dir = Nil \/ dir.rows = Nil THEN NoRows ELSE dir.rows

GenerationInit ==
  /\ yaml = [center |-> CHOOSE c \in Centers : TRUE, services |-> Services, map |-> [s \in Services |-> Nil]]
  /\ out = Nil /\ backups = {} /\ job = Nil /\ staging = Nil /\ pkg = [t \in Targets |-> Nil]
  /\ human = [s \in Services |-> Nil] /\ known = {} /\ edits = 0 /\ runs = 0 /\ aborts = 0

-----------------------------------------------------------------------------
(* The user, between generations. *)
Edit == job = Nil /\ edits < MaxEdits /\ edits' = edits + 1 /\ UNCHANGED <<job, staging, pkg, runs, aborts>>

EditCenter(c) ==
  /\ Edit /\ c # yaml.center
  /\ yaml' = [yaml EXCEPT !.center = c, !.map = [s \in Services |-> Nil]]
  /\ UNCHANGED <<out, backups, human, known>>

ToggleService(s) ==
  /\ Edit
  /\ yaml' = [yaml EXCEPT !.services = IF s \in @ THEN @ \ {s} ELSE @ \cup {s}]
  /\ UNCHANGED <<out, backups, human, known>>

(* The wizard, step 5: where the configuration of a service is. *)
ChooseInWizard(s, v) ==
  /\ Edit /\ v # yaml.map[s]
  /\ yaml' = [yaml EXCEPT !.map[s] = v]
  /\ known' = known \cup {<<yaml.center, s, v>>}
  /\ UNCHANGED <<out, backups, human>>

VerifyRow(s, v) ==
  /\ Edit /\ s \in DOMAIN RowsOf(out)
  /\ out' = [out EXCEPT !.rows[s] = Row("verified", FALSE, v)]
  /\ human' = [human EXCEPT ![s] = [center |-> out.center, value |-> v]]
  /\ known' = known \cup {<<out.center, s, v>>}
  /\ UNCHANGED <<yaml, backups>>

(* The rollback that the upgrade prints: the backup becomes the output again. *)
RollBack(b) ==
  /\ Edit /\ b \in backups
  /\ out' = b /\ backups' = backups \ {b}
  /\ human' = [s \in Services |->
       IF s \in DOMAIN RowsOf(b) /\ ByHand(b.rows[s]) THEN [center |-> b.center, value |-> b.rows[s].value] ELSE Nil]
  /\ UNCHANGED <<yaml, known>>

-----------------------------------------------------------------------------
(* The findings of an analysis of this configuration: of no service, or of
   those it found. *)
Findings(found, v) == [s \in found |-> v]

Begin(op, step, found, v) ==
  /\ job = Nil /\ runs < MaxRuns /\ runs' = runs + 1
  /\ found \subseteq yaml.services
  /\ job' = [op |-> op, step |-> step, findings |-> Findings(found, v), prior |-> NoRows, center |-> yaml.center]
  /\ known' = known \cup {<<yaml.center, s, v>> : s \in found}
  /\ staging' = Nil
  /\ UNCHANGED <<yaml, out, backups, pkg, human, edits, aborts>>

(* A generation of the workspace, in place; of an upgrade of it; and of the
   packages, for which the workspace is rendered in a temporary directory. *)
Gen(found, v) == Begin("generate", "snapshot", found, v)
Upgrade(found, v) == out # Nil /\ Begin("upgrade", "rename", found, v)
GenPackages(found, v) == Begin("package", "snapshot", found, v)

Doing(step) == job # Nil /\ job.step = step
StepTo(step, next) == Doing(step) /\ job' = [job EXCEPT !.step = next]
Rest == <<yaml, known, edits, runs, aborts>>

(* upgrade.Run: rename, and copy the backup back for the snapshot. *)
RenameToBackup ==
  /\ Doing("rename")
  /\ backups' = backups \cup {out} /\ out' = Nil
  /\ job' = [job EXCEPT !.step = "copy", !.prior = out]
  /\ UNCHANGED <<staging, pkg, human, Rest>>

CopyStarts ==
  /\ StepTo("copy", "copying")
  /\ out' = [job.prior EXCEPT !.rows = Nil]
  /\ UNCHANGED <<backups, staging, pkg, human, Rest>>

CopyBack ==
  /\ StepTo("copying", "snapshot")
  /\ out' = job.prior
  /\ UNCHANGED <<backups, staging, pkg, human, Rest>>

Here == IF job.op = "package" THEN staging ELSE out

(* Mutant of PriorOverrides: rows of another center are taken over, too. *)
AllPrior == [s \in {s \in DOMAIN RowsOf(Here) : ByHand(Here.rows[s])} |-> Here.rows[s].value]

(* SnapshotExisting, parseConfigMapOverrides: the rows verified by hand, unless
   the primary center is another one now; then what the wizard knows. *)
PriorOverrides ==
  LET kept == IF Here = Nil \/ Here.center \notin {Nil, job.center} THEN {}
              ELSE {s \in DOMAIN RowsOf(Here) : ByHand(Here.rows[s])}
      chosen == {s \in Services : yaml.map[s] # Nil}
  IN [s \in kept \cup chosen |-> IF s \in kept THEN Here.rows[s].value ELSE yaml.map[s]]

Snapshot ==
  /\ Doing("snapshot")
  /\ job' = [job EXCEPT !.step = "wipe", !.prior = PriorOverrides]
  /\ UNCHANGED <<out, backups, staging, pkg, human, Rest>>

(* RemoveAll and MkdirAll of the output. *)
Wipe ==
  LET empty == [center |-> Nil, rows |-> Nil] IN
  /\ StepTo("wipe", "render")
  /\ IF job.op = "package" THEN staging' = empty /\ UNCHANGED out
     ELSE out' = empty /\ UNCHANGED staging
  /\ UNCHANGED <<backups, pkg, human, Rest>>

(* Mutant of RowFor: only the analysis is looked at. *)
NoPrior(s) ==
  IF s \in DOMAIN job.findings THEN Row("verified", TRUE, job.findings[s]) ELSE Row("inferred", FALSE, Nil)

(* config-map.yaml.tmpl: findConfig, findPrior, inferred. *)
RowFor(s) ==
  IF s \in DOMAIN job.findings THEN Row("verified", TRUE, job.findings[s])
  ELSE IF s \in DOMAIN job.prior THEN Row("verified", FALSE, job.prior[s])
  ELSE Row("inferred", FALSE, Nil)

(* walkAndRender.  From here on the analysis has taken over a row, a row of a
   service that the configuration no longer has is gone, and so are those of
   another center. *)
Render ==
  LET map == [center |-> job.center, rows |-> [s \in yaml.services |-> RowFor(s)]] IN
  /\ StepTo("render", IF job.op = "package" THEN "pack" ELSE "done")
  /\ IF job.op = "package" THEN staging' = map /\ UNCHANGED <<out, human>>
     ELSE /\ out' = map /\ UNCHANGED staging
          /\ human' = [s \in Services |->
               IF human[s] # Nil /\ human[s].center = job.center /\ s \in yaml.services \ DOMAIN job.findings
               THEN human[s] ELSE Nil]
  /\ UNCHANGED <<backups, pkg, Rest>>

(* GenerateTarget: the directory of a target is emptied, filled from the
   staged workspace, and gets tshoot.json last. *)
ClearPackage(t) ==
  /\ job # Nil /\ job.step = "pack"
  /\ pkg[t] # Nil => pkg[t].of # runs
  /\ pkg' = [pkg EXCEPT ![t] = [part |-> "empty", of |-> runs, center |-> job.center, rows |-> Nil]]
  /\ UNCHANGED <<out, backups, job, staging, human, Rest>>

FillPackage(t) ==
  /\ job # Nil /\ job.step = "pack" /\ pkg[t] # Nil /\ pkg[t].part = "empty" /\ pkg[t].of = runs
  /\ pkg' = [pkg EXCEPT ![t] = [part |-> "done", of |-> runs, center |-> job.center, rows |-> staging.rows]]
  /\ UNCHANGED <<out, backups, job, staging, human, Rest>>

Finish ==
  /\ \/ job # Nil /\ job.step = "done"
     \/ job # Nil /\ job.step = "pack" /\ \A t \in Targets : pkg[t] # Nil /\ pkg[t].part = "done" /\ pkg[t].of = runs
  /\ job' = Nil /\ staging' = Nil
  /\ UNCHANGED <<out, backups, pkg, human, Rest>>

(* The directory has the row of s as the user verified it. *)
Holds(dir, s) == /\ s \in DOMAIN RowsOf(dir) /\ human[s] # Nil
                 /\ dir.center = human[s].center /\ dir.rows[s] = Row("verified", FALSE, human[s].value)

(* A crash or an error.  A generation in place has no backup: between Wipe and
   Render the rows verified by hand exist only in its memory. *)
Abort ==
  /\ job # Nil /\ aborts < MaxAborts /\ aborts' = aborts + 1
  /\ human' = [s \in Services |->
       IF job.op = "generate" /\ job.step = "render" /\ ~\E b \in backups : Holds(b, s) THEN Nil ELSE human[s]]
  /\ job' = Nil /\ staging' = Nil
  /\ UNCHANGED <<yaml, out, backups, pkg, known, edits, runs>>

GenerationNext ==
  \/ \E c \in Centers : EditCenter(c)
  \/ \E s \in Services : ToggleService(s)
  \/ \E s \in Services, v \in Values : ChooseInWizard(s, v) \/ VerifyRow(s, v)
  \/ \E b \in backups : RollBack(b)
  \/ \E found \in SUBSET Services, v \in Values : Gen(found, v) \/ Upgrade(found, v) \/ GenPackages(found, v)
  \/ RenameToBackup \/ CopyStarts \/ CopyBack \/ Snapshot \/ Wipe \/ Render
  \/ \E t \in Targets : ClearPackage(t) \/ FillPackage(t)
  \/ Finish \/ Abort

GenerationSpec == GenerationInit /\ [][GenerationNext]_generationVars
-----------------------------------------------------------------------------
(* HumanRowKept: a row that the user verified is in the output, in a backup, or
   about to be written by the generation that wiped the output, until the
   analysis finds the service, the configuration drops it or has another
   center, or the user goes back to another output - through every crash and
   error, but for one of a generation in place. *)
HumanRowKept ==
  \A s \in Services : human[s] # Nil =>
    \/ Holds(out, s) \/ \E b \in backups : Holds(b, s)
    \/ /\ job # Nil /\ job.op = "generate" /\ job.step = "render"
       /\ \/ s \in DOMAIN job.prior /\ job.prior[s] = human[s].value
          \/ human[s].center # job.center

(* VerifiedHasOrigin: a row that calls itself verified gives what somebody or
   the analysis said of that service for that kind of center, in the output, in
   the backups and in the packages. *)
VerifiedHasOrigin ==
  \A dir \in {out} \cup backups \cup {pkg[t] : t \in Targets} : \A s \in DOMAIN RowsOf(dir) :
    dir.rows[s].status = "verified" => <<dir.center, s, dir.rows[s].value>> \in known

(* Both: what a reader of a config-map relies on. *)
ConfigMapIsKept == HumanRowKept /\ VerifiedHasOrigin
=============================================================================
