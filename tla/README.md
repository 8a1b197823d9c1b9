# TLA+ models of troubleshooter-studio

Troubleshooter Studio builds AI troubleshooting bots and runs a Bug incident
workflow with them: an agent investigates a bug, a user approves the fix, an
agent fixes and pushes it, a user approves the merge, the studio merges it into
the environment branches. The workflow (`src/internal/bughub`, driven by the
desktop bindings in `src/cmd/tshoot-desktop`) is where state is shared by a
database, agent processes, Git remotes, goroutines, a recovery pass and a user
who clicks twice; it is the core of these modules. Around it are the inbox of
tickets that feeds it, and the pipeline that makes a bot: configuration, scan of
the repositories, service topology, generation, installation in an IDE.

Contents: [parts of the system](#parts-of-the-system),
[modules and the code they model](#modules-and-the-code-they-model),
[runs](#runs), [what the runs found](#what-the-runs-found),
[proofs](#proofs), [not modelled](#not-modelled), [plan](#plan).

## Parts of the system

Paths are below `src/internal/bughub/` unless they say otherwise. The module in
the last column models the part; `PROJECT.json` lists all parts with what is left
out of each.

| part | state it keeps | operations | what makes it correct | module |
|---|---|---|---|---|
| Case status machine (`workflow_transition.go`) | none: a table | `CanTransition` | committed statuses walk along the table, terminal Cases never change | CaseStatus, CaseLifecycle |
| Orchestrator (`workflow_orchestrator.go`, `workflow_remediation.go`, `workflow_root_cause_dispute.go`) and recovery (`workflow_recovery.go`) | command locks per process, the list of one recovery pass | start, approve, add evidence, dispute, complete, cancel, reset; completion of attempts; `RecoverInterrupted` | status and current attempt agree; a result lands on the attempt it belongs to; everything cut off by a crash is settled once | PhaseWorkflow |
| Workflow store (`workflow_store.go`, `workflow_store_schema.go`) | SQLite: Cases, attempts, events, approvals, checkpoints, evidence | mutations, each one immediate transaction under a compare-and-set of the version, with replay by idempotency key | a key has one outcome; a stale version changes nothing; a retry gets the first answer | CaseStoreKeys |
| Opening and migrating the store (`workflow_store.go`, `workflow_migrate.go`, `workflow_scope_migration.go`) | schema version, `runs.json` | upgrade, retirement of old phases, import | all or nothing, for several instances that open at once | StoreOpening |
| Phase runner (`workflow_phase_runner.go`) | active runs, cancelled contexts, completion intents | claim, execute with corrective repetitions, judge, save the intent, complete | a fix is executed once; the checks hold of the very result that is recorded | AttemptRun |
| Reports (`workflow_phase_runner.go`, `workflow_fix.go`) | stored results | find, decode, settle, judge, judge again | a settled report has no gap; what was stored reads the same again | PhaseResults |
| Agent output (`codex_events.go`, `cursor_events.go`, `opencode_events.go`) | one parser's fields | one line at a time | the result is a text that the agent confirmed; no failure is hidden | AgentStream |
| Evidence for an investigation (`workflow_investigation_evidence.go`) | copies and a manifest | bind, compare, copy | whole or nothing, only its own | InvestigationEvidence |
| Rework and dispute (`workflow_reassessment.go`, `workflow_root_cause_dispute.go`) | inputs and outputs of attempts | propose, reject, dispute, continue | the locked root cause is kept, a rejected branch is left | FixRework |
| Fix workspaces (`workflow_fix_workspace.go`) | standalone clones, locked baselines | approve baselines, prepare, validate, close | a fix starts at what was approved, and nowhere older | FixWorkspace |
| Phase staging (`workflow_phase_staging_*.go`) | directories | create, capture, clean up, sweep | a living directory stays; a capture is one version of a file | StagingDirectory |
| Merge approval, Git (`workflow_git.go`) | dedicated worktrees, one mutex | `Inspect`, `MergeAndPush`, `ResumePush` | a merge is pushed once, on the approved heads, baselines first | MergeWorkflow |
| Reset (`ResetCaseWithOutcome`, `claimResetCancellation`, ...) | the outbox row, the replacement Case | archive, cancel, create, start | the agent is stopped once or the user is told; one replacement, started once | ResetCancellation |
| Evidence artifacts, history deletion (`workflow_artifacts.go`, `workflow_history_delete.go`) | a directory for each Case, rows, tombstones | publish, record, clean up; stage, commit, restore, remove | a row has its file; a file has a row | EvidenceFiles |
| Investigation runs (`src/cmd/tshoot-desktop/bindings_bug_investigation.go`, `codex_runner.go`, `investigation.go`) | `runs.json`, active runs in memory | start, continue, cancel, recover | a ticket has one agent | Investigations |
| Bug inbox (`store.go`, `sync.go`, `src/cmd/tshoot-desktop/bug_sync_poller.go`) | `bugs.json` | sync, prune, hook, edit, delete | no update is lost, or the poller repairs it | BugInbox |
| Platform login and client (`platform.go`, `zentao.go`, `src/cmd/tshoot-desktop/bug_login_chrome.go`) | `platforms.json` | keep alive, capture, fetch pages, resolve | a working session is kept; pages cover the list; resolved once | PlatformSession, ZentaoClient |
| Configuration (`src/internal/config`) | `troubleshooter.yaml` | migrate, validate, read | an older file loads and means the same | ConfigLoading |
| Repositories (`src/internal/analyzerpipe`) and topology (`src/internal/topology`) | clones, findings, graph | resolve, clone, analyze; match, merge, project | what is analyzed is what was named; an automatic edge is proven | RepositoryScan, ServiceTopology |
| Shared scans (`src/internal/agent`) | cache and flights | join, leave, refresh, publish | a refresh is fresh, waiters are counted | AnalysisCache |
| Generation, upgrade (`src/internal/generator`, `src/internal/upgrade`) | workspace, backups, packages | generate, render, upgrade, roll back | rows verified by people survive | BotGeneration |
| Installation (`src/internal/agent`, `src/internal/deploy`) | files of the bot, settings of the IDE | apply, update, uninstall | the whole bot, once, or nothing of it | BotInstall, McpServers, OpenCodeSettings, CodexSettings, McpProbe |
| CodeGraph (`src/internal/agent/ensure_codegraph.go`, `codegraph_index.go`) | tool cache, indexes, kept reports | ensure, index | one good tool; a ready answer is complete | CodeGraphInstall, CodeIndexing |

**Interactions.** The web interface calls a binding; the binding may first run
the recovery pass (`initializeIncidentWorkflow`), then calls the orchestrator;
the orchestrator commits one store mutation and *afterwards* tells the runner to
start or cancel. The runner's goroutine prepares a workspace and a staging
directory, runs the agent (whose output a parser reads), judges the report,
saves a completion intent and calls the orchestrator's completion, which is
another mutation. The recovery pass calls the same store mutations and the same
runner. Nothing but the store and the files is shared between two processes of
the studio. The poller writes the inbox from which a Case is created. A
deployment loads the configuration, scans the repositories (or joins a scan),
merges the topology, generates the workspace and installs the bot with its
servers and settings; only files connect these steps.

**Hard behaviours.** (1) The gap between a commit and the runner call that
follows it; (2) results that arrive when their Case has moved on; (3) a crash
between a push, its durable record and its mutation, with agents that survive
the crash; (4) a remote that cannot be read; (5) a recovery pass that runs in a
live process, next to running agents; (6) merges over several repositories and
branches with lost answers and users who push too; (7) a reset repeated by
another process; (8) evidence in files and rows that no transaction joins;
(9) requests repeated after a lost answer; (10) JSON files read, truncated and
written without a lock; (11) files that an agent writes while Studio reads or
removes them; (12) an IDE that rewrites the settings Studio is writing.
`PROJECT.json` lists each one under "hazards", at its line, with the properties
about it.

## Modules and the code they model

`PROJECT.json` maps every definition to its lines. A store mutation is one
action, because the store has one connection, begins immediate transactions and
compares the version inside; everything the code does after the commit is a
later action, which anything may interleave with and a crash may cut off.

### CaseStatus, CaseLifecycle

`CaseStatus` is `allowedCaseTransitions` with the maps from phases to statuses.
One mutation may take several transitions and commit the last status only:
`Walk`. `CaseLifecycle` is the abstract specification, what every reader of a
Case may rely on: statuses walk the table, the version grows by one with each
mutation, a reset archives one Case and creates one, terminal Cases never
change. `PhaseWorkflow` implements it (`RefinesLifecycle`, checked and proved);
`MergeWorkflow` takes only its steps (`MergeWalksTable`).

`legacy_archived` (only written by the migration) and `fix_verified` (no command
writes it) are left out.

### PhaseWorkflow

The Cases and attempts of one store, one process of the studio with its runner
and its recovery pass, the agents and the remote fix branches.

| variables | code |
|---|---|
| `status version current` | row of `incident_cases` |
| `phase parent astatus output claim checkpoint` | row of `phase_attempts` (`output`: `output_json`, which holds the completion intent while the attempt runs), `run_claim_token`, `fix_checkpoints` |
| `approved inspected` | approval events; the `recovery:ID:inspect` events |
| `manifest pushed orphan` | `fix-checkpoint.json`, the remote branch, agents that outlived their process |
| `up serving initErr gate` | the process; a pass of it has succeeded; `workflowInitErr` and the versions when it was set |
| `worker begun seen cancelled cancelling` | the runner: where each run stands, the version its start and its completion use, cancelled contexts, undelivered `runner.Cancel` calls |
| `recovering todo recErr recoveryStarted` | the pass: its list (with what it decided when it listed them), an error so far, runs it started |

Actions: one for each command (`StartCase`, `ApproveFix`,
`ContinueWithEvidence`, `DisputeRootCause`, `ReconsiderRemediation`,
`CompleteRemediation`, `CancelAttempt`, `ResetCase`, `CreateCase`); for
scheduling (`ClaimRunnableAttempt`, `StartFails`, `Launch`,
`PhaseScheduleFailure`); for the run (`ExecutePhase`, `SaveCompletionIntent`,
`AbandonRun`, `CompleteAttempt`, `InspectionUnavailable`, `RunnerCancel`,
`RunnerCancelFails`); for the agent (`WriteManifest`, `PushFix`, `OrphanEnds`);
for the pass (`BeginRecovery`, one action per branch of the loop,
`EndRecovery`); `Crash` and `Restart`.

Decisions worth knowing:

* An attempt identity derives from its command key, so an attempt of the pool is
  used once; the pools `Attempts` and `Cases` are the only bounds.
* One bot, one cycle. `needs_evidence` stands for `system_failed` too: both put
  the Case into `waiting_evidence` with a failed or succeeded attempt.
* Attempts are born running; `queued` exists only in old databases. The branches
  `recoverPreparedAttempt`, `interruptDetachedAttempt` and
  `reconcileTerminalCurrent` therefore need a listed attempt that is no longer
  current; `ListedAttemptStaysCurrent` is the property that says this does not
  happen, so they are not actions.
* Duplicates of a command are replayed by key: stutters, not modelled.
* The remote inspection and the mutation it decides are one action. The
  mutation is compare-and-set on the Case version and a branch with the commit
  does not lose it, so a later push is the only thing in between, and
  it commutes.
* After `ErrFixInspectionUnavailable` the binding sets `workflowInitErr` and the
  next command first runs a recovery pass in the live process: `gate`
  remembers which commands were already inside. `InspectionUnavailable` waits
  for a pass that holds `workflowMu`.
* Agents run in a process group of their own (`codex_process_unix.go:11`) and
  their contexts derive from `context.Background()`: closing the application
  only closes the store, so shutdown is `Crash`, and an agent of a fix may go on
  and push. That it writes its manifest before it pushes is demanded by the
  prompt (`workflow_phase_runner.go:354-356`): the agent is external and is
  taken to obey.
* Left out: database I/O errors, validation of payloads, contexts of preflight
  calls.

Properties: `StatusBackedByAttempt` and `OnlyCurrentAttemptRuns` relate the
Case row to the attempt rows; `FixIsApproved` the whole ancestry of a fix;
`MergeApprovalMeansPushed` the Case to the remote; `PushedFixIsRecoverable`,
`CheckpointOfRunningFix`, `IntentIsNeverLost`, `PushedFixIsNotFailed` say what
crashes and recovery may not do; `ListedAttemptStaysCurrent` what the pass may
rely on; `RunningAttemptsSettle` is liveness.

### MergeWorkflow

One Case from `waiting_merge_approval` on; several invocations of
`ApproveMerge`, the recovery of a merging Case and the calls of the Git service
they make, one action per remote operation.

| variables | code |
|---|---|
| `status version approvals events commit` | the Case row, merge approvals with the heads they name, outcome events by key, the commit recorded for each repository |
| `head fixed clash studio` | remote branches: how often they moved, contain the fix, conflict with it, and where the studio's own merge landed |
| `worktree` | the dedicated worktree of a branch: the head its local merge was made on |
| `up serving mutex run` | the process, the pending pass, the mutex of the Git service, the invocations |

`InspectHeads` and `ReserveMerge` are the two halves of `ApproveMerge` around
the user's approval; `MergeRepo` and `PushRepo` are `MergeAndPush` repository by
repository, baselines before targets; `Resume`, `ResumePush` are `ResumePush`;
`Reinspect` the `Inspect` after an error; `RecordOutcome` the mutation that
ends it; `RecoverMerge` the recovery. Pushes are plain (never forced), so
`PushRepo` succeeds only on the head the merge was made on; its answer may be
lost. `OutsidePush` is everybody else.

Properties: `PushedOnce`, `PushIsApproved`, `BaselinesFirst` are about the
pushes, `SubmittedIsMerged` relates the Case to the remotes,
`MergeWalksTable` to the lifecycle, `PushedMergeIsSubmitted` is liveness.

Decisions: a commit is named by the head it was merged on. The key of a command
is the Case version it was issued at, as the interface builds it; recovery
passes share one key; a second record under a key, or a stale version, changes
nothing. `push_status` is display only. A half-merged or dirty worktree, a
`git merge` that fails after a clean `merge-tree`, and Git identities are left
out; fast-forwards are treated as merge commits. `PassRequested` is another
Case whose fix could not be inspected. Reopening the Case from
`waiting_merge_approval` belongs to `PhaseWorkflow`.

### ResetCancellation

`ResetCaseWithOutcome` step by step, for any number of callers in any number of
processes that share the store: the per-process command lock, the mutation that
archives the Case, cancels its attempt, creates the replacement and writes the
outbox row; the claim on the row; `runner.Cancel`, with success, error, timeout
and a refused worker slot; the completion of the row; the check of an earlier
failed start; the start of the replacement and its launch.

The agent runs in process `Home`; a runner of another process does not know it
(`Known`) and that is an error, not a success. `AttemptEnds` stands for every
other way in which the attempt is settled before the reset. A claim may be
committed and not be read back: the caller reports `state_unavailable` and does
not call the runner. A timed-out `runner.Cancel` goes on in its goroutine and
may kill later (`AgentEnds`). A claim token is the caller's identity.

Properties: `CancelledAtMostOnce`, `QuietResetMeansStopped` (no warning means
the agent is gone), `ReplacementStartsOnce`, `ResetCallsReturn`.

### EvidenceFiles

Registrations of evidence and `DeleteTerminalCaseHistoryForBug` for the Cases of
one Bug. A registration publishes the file, then records its row; a deletion
moves the directories of the Cases to a tombstone, deletes the rows, commits,
then removes the tombstone. Either may fail or be cut off anywhere.

| variables | code |
|---|---|
| `incident rows` | the Case rows (active, terminal or deleted) and `evidence_artifacts` |
| `where owner files` | each directory ever made: below the artifacts root, in a tombstone, or removed; its Case; the contents linked in it |
| `reg` | each call of `registerArtifactWithHooks`: where it stands, its row, its directory descriptor, `created` |
| `deletion` | the transaction of the deletion, the Cases it listed, those still to stage, `moved` |
| `stray` | ghost: files left by a crash, a failing call after the link, or a failing cleanup |

Decisions:

* The store has one connection (`SetMaxOpenConns(1)`), so nothing reads or
  writes rows while the deletion's transaction is open (`DatabaseFree`); the file
  system steps of registrations go on. A failed commit gives the connection
  back before the directories are restored, so `restoring` does not hold it.
* `OpenDirectory` yields a descriptor: it keeps leading to the same directory
  when a rename moves it, and `Verified` compares it with what the path leads to.
* A file is identified by its directory and digest, since the publication lock
  allows one registration at a time to link or unlink it. Sixty-four stripes
  stand for the locks: contents that share one only wait more.
* Directories are staged in any order (the code sorts them); a restore may leave
  any of them in the tombstone.
* One deletion at a time, one process, and Case identities are not reused. Reading
  the source, redaction checks, permissions and symbolic links are left out, and
  so is the inbox snapshot that the binding removes afterwards.

Properties: `EvidenceIsKept` (no file of a row is destroyed: this is what the
publication lock, `created`, the re-verification before the commit and the
refusal to restore over a directory are for), `EvidenceIsAccounted` (a file in
place has a row or a registration under way), and in `EvidenceTypeOK` one
directory for a path.

`EvidenceIsKept` allows the tombstone on purpose. The comment of
`DeleteTerminalCaseHistoryForBug` says "A database rollback restores them"
(`workflow_history_delete.go:27`); that holds for a process that lives on and
no registration that re-created the directory meanwhile. After a crash, nobody
looks into `.delete-history-*`: the rows live on, and their content is kept
where only a person finds it.

### AttemptRun

One run of a phase attempt (`AgentPhaseRunner.run`), step by step: the claim,
the workspace, the executions of the agent with their corrective repetitions
(code graph, datastore, repositories), the checks of the result, the intent, the
completion with its retries, and what becomes of claim, lease and staging
directory. `setting` is the attempt (phase, bot, input), `result` what the checks
tell apart of a report; `Judge` is the order of the checks. The context may be
cancelled, and the attempt ended elsewhere, at any step.

`FixRunsOnce`: a fix is executed once, whatever is corrected. `ReceiptsBackResult`:
a result about code, with its cause proven or with gaps, is stored only with the
receipts its setting demands, also when a later correction replaced the result
that first passed. `StagingServesRecovery`: the directory is there as long as a
recovery may read it. `StrandedOnlyByRefusal`: only a refused command leaves an
attempt running with nobody running it (a pushed fix whose environment or
artifacts are refused keeps its code changes, and `validateCompleteAttemptCommand`
refuses those of a completion that is no pushed fix). `IntentOfRunning`: an
intent is stored only while the attempt runs.

### PhaseResults, AgentStream, InvestigationEvidence

The three pure parts of a run. `AgentStream` reads the lines of the four
programs (Codex, Claude, Cursor, OpenCode) one by one: which text becomes the
result, which failure is final, how tokens add up. `PhaseResults` takes the last
message: one fenced block among several, decoding, settling, the gate of a fix,
and the second reading of what was stored. `InvestigationEvidence` takes the
references of the input, the uploads, which it binds to attempts of this
investigation, and the evidence of a dispute, in this order, compares them with
their rows, copies them, and writes the manifest last.

Reports, lines and families of attempts are all those the bounds allow. A
property relates the first to the second reading (`RereadSame`), the result to
the stream (`ResultIsConfirmed`, `NoFailureHidden`, `GoodEndSucceeds`,
`UsageIsTotal`), the gate to the evidence (`GateIsProven`, `NoStrongerClaim`),
the payload of a pushed fix to the output (`PayloadIsOutput`,
`PushedIsCovered`), the manifest to the copies (`ManifestIsWhole`, `EvidenceIsOwn`).

### FixRework, FixWorkspace, StagingDirectory

`FixRework`: rejection of a plan, assessment of another, dispute of a root cause,
retries and repeated commands. What an attempt is to do is only in its input, so
`attempts` keeps inputs and outputs in order of creation. `ReworkKeepsCause`: a rejected branch does not come back, an assessment keeps
the cause it is about, a dispute looks at evidence anew, and a repeated command
is recognised as the one committed.

`FixWorkspace`: the repositories and branches an approval settles on, one Git
command after another for each clone, the validation of the reported history and
the removal. Users and other attempts fetch into the same tracking refs, others
push, a deployment rewrites the branch map, which a preparation reads once. `FixStartsWhereApproved` says that a
lease has the approved baselines (`LeaseIsApproved`), that a locked base is not
older than the tip when the preparation began (`LockedBaseIsFresh`), that
repositories have directories of their own, that closing leaves nothing behind,
that an accepted result covers every repository, and that a replayed approval
agrees with the stored one. `AcceptedIsLinear` compares
`validateLinearFixAncestry` with its meaning over all histories of four commits.

`StagingDirectory`: creation, capture against a writer, removal in passes, the
sweep at the start. Names, directories and inodes are separate, as renames and
hard links make them. `CaptureIsWhole`, `LivingStagingStays`, `ReplacedStays`.
The Windows variant is left out.

### CaseStoreKeys, StoreOpening

`CaseStoreKeys`: requests with their keys against one store; an answer may be lost
and the request sent again, other clients write meanwhile. A fingerprint is the
request itself. Creation of a Case, transitions, compound mutations, ends of
attempts (no key: `FinishAttempt` compares times) and keyed records. Properties:
`EventsExplainCase`, `KeyDecides`, `OneOpenCase`, `FinishedForGood`,
`RetrySucceeds`. One request is excepted from `RetrySucceeds` on purpose: an
observation that names no time gets the time of its arrival, so that its own
repetition conflicts with it.

`StoreOpening`: every earlier schema, its upgrade in one immediate transaction,
the retirement of removed phases in a second, the import of `runs.json` in a
third; two instances, deaths between statements, and the writer of `runs.json`
dying inside its write. `UpgradeAllOrNothing`, `OpenedComplete`, `SnapshotKept`,
`DeletedStaysDeleted`.

### Investigations, BugInbox, PlatformSession, ZentaoClient

`Investigations`: whether a ticket has an agent is asked of `runs.json` and of the
memory of the investigator at hand: the fallback one until the workflow is
initialised, then the workflow's. `OneAgentPerTicket` has two exceptions that the
code has, kept as history variables: an agent of the fallback investigator is
not known to its successor (`swapped`), and an attempt of a Case may be projected
beside a running agent (`overtaken`). `LivingRunStays`, `CancelWaits`,
`EndedForGood`.

`BugInbox`: `bugs.json` is read, truncated and written without a lock by poller,
sync button, webhook, local edits and deletion; each is three steps. Updates are
lost when two overlap or a writer dies, so `HistoryKept` and `SyncPublishes`
(together `InboxIsKept`) are
about operations that do not (`raced`); that the poller repairs whatever happened is `Repaired`
(liveness). `PlatformSession` is the same file discipline for the login, with a
capture of up to 25 seconds between a refusal and what it does to the file: a late
refusal may clear a session that is newer than the one refused, which
`WorkingSessionKept` allows only to operations that overlap. `ZentaoClient`: pages
of a list that moves, the fallback to product lists, whose products come in
pages too, resolve with its repetition: `PagesCoverList`, `ResolvedOnce`. A
total may be right, too high, too low or missing; with the last two the code
stops early and hides tickets, so `PagesCoverList` is about platforms whose totals
are never too low (`counts`) and lists that did not move.

### ConfigLoading, RepositoryScan, ServiceTopology, AnalysisCache, BotGeneration

`ConfigLoading` migrates a file in the four steps of `migrate.go` and reads it.
`LegacyLoads`: a sound file of the older schema loads, but for two kinds that the
migration itself turns into a refusal (`NamedTooEarly`, `NamesRepository`). A
file that has a catalog of services already but no map of their loads writes to
a nil map (`migrate.go:218`): `panicked`, and outside `LegacyLoads`. `SourceIsDeclared`, `CyclesReported`, `AddressesKept`,
`ProofIsWhereItRuns`.

`RepositoryScan`: umbrellas, shared URLs, nested directories, clones and their
repair; after a command of Git has failed or was killed, what is left in the
directory is taken for the repository by the next run (`broken`, which
`AnalyzedIsOwn` excepts). At `<root>/<name>` the code takes whatever lies there
(`pipeline.go:164-176` is one `os.Stat`; only the search in sibling directories
looks at the origin). The disks include one with a stranger at that place, and
`AnalyzedIsOwn` excepts what comes of it, by name (`PlaceTaken`). A
repository whose stack has no analyzer is skipped; a path inside the clone
(`sub_path`) is left out. `ServiceTopology`: matching, merging with decisions, projection,
paths; every definition is a function of the scan, checked against its meaning.
There is a topology when two repositories could be analyzed (`runnable`),
whether anything was found in them or not.
`AnalysisCache`: calls that share a scan, each joining, leaving or refreshing;
`RefreshIsFresh`, `WaitersAreCounted` and `LeavingKeepsScan` are `ScanIsShared`;
that every call ends is a conjunct of `PlatformRecovers`.

`BotGeneration`: what becomes of a row of the config-map through generations,
upgrades, roll-backs and edits, with an error or death at any step.
`VerifiedHasOrigin`; `HumanRowKept`: a verified row is in the output, in a
backup, or about to be written. A generation in place removes the output before
it renders (`generator.go:381`), so one that fails or dies there loses the
row: the property excepts it, by the history variable `human`.

### BotInstall, McpServers, OpenCodeSettings, CodexSettings, McpProbe

`BotInstall`: Apply, update and removal, each write a step; Studio may stop
between any two, and the IDE reads the settings and writes them back at any time.
What an operation left is judged when it returned without an error and the IDE
did not interfere: `InstalledIsWhole`, `OneBot`, `ServersStay`, `RemovedIsGone`,
`ForeignStay`. `McpServers` is the naming: keys are sequences of words, joined by
concatenation, so the prefix `<id>-` (`install_native_mcp.go:259`) also matches the
keys of a system whose identity extends the first. The instance has such a
pair, `truss` and `truss-x`: deploying the first with credentials removes the
servers of the second. The comments promise the opposite, which is the run
FindServers. `EveryClusterServed` (every endpoint of a store has its server) is
about systems that were deployed with credentials and not taken for a part of a
shorter one since (`fresh`, `TakenFor`); RabbitMQ has no server by design
(`OverHttp`). `OpenCodeSettings` merges three
files, `CodexSettings` writes two homes, write by write.

`McpProbe`: the probe of a server over standard output and HTTP. Only `PASS` lets
`probeOpenCodeMCP` (`install_native_opencode.go:275`) succeed, although the texts of
the WARN verdicts (`self_test_mcp_probe.go:513-515`) say that they do not block an
installation; over HTTP the tool of CodeGraph is not asked for; and at the
deadline the end of the killed process may be seen instead of the timeout. All
three are in the model as the code has them.

### CodeGraphInstall, CodeIndexing

`CodeGraphInstall`: bundles are unpacked beside the cache and renamed to it, by
several processes that may die between two renames: `SettledIsInstalled`,
`NothingBeside`, `GoodForGood`. What `SettledIsInstalled` says of
the cache is for no failed step, or a single one and an installation answered
"ok": with two, the rename and the rename back, the bundle may be lost, as its
comment says. They are checked for two processes; with a third,
the roll-back of one may put a backup where another has just
installed. `CodeIndexing`: indexing calls side by side, reports kept by heads: a
kept report of a failure is given again to a deployment until a retry or an
investigation forgets it. `FailuresAreRetried`, `AnswersFit` and `ReadyIsComplete`
are `IndexesAreReady`.

### MC modules

`MCPhaseWorkflow`, `MCResetCancellation` and `MCEvidenceFiles` give pools,
symmetries and restrictions for one specification each. `MCCaseParts`,
`MCBotParts` and `MCBugPlatform` put components that never meet side by side: each
behaviour is one of the component that `part` names, and every other component
rests in one of its initial states. Components that a theorem is about are
extended (`MCCaseParts`: `FixRework`, `FixWorkspace`, `StoreOpening`,
`AttemptRun`; `MCBotParts`: `BotInstall`, `BotGeneration`, `CodeIndexing`,
`Investigations`, `CaseStoreKeys`; `MCBugPlatform`: `BugInbox`, `AnalysisCache`): they have their own variables, and the property that TLC checks is
the very definition that the theorem names. That is why the names of these
modules differ where one could have served twice (`KeysInit`, `AttemptInit`,
...). The other components share the variables `s1, s2, ...` by
`INSTANCE ... WITH`, and a property of the run is the conjunction of what they
promise, under the names of their modules. `P!1` there is the action `[A]_v` of a
property `P == [][A]_v`. The configurations, scans and disks that the parts of a
bot work on are definitions of `MCBotParts`.

## Runs

`tlc -config X.cfg M` in this directory.

| run | instance | question |
|---|---|---|
| PhaseOneCase | a Case with three attempts, and the Case a reset replaces it with (none of its own); 233,226 states | do the four stores of state agree under all commands, crashes and passes? refinement of CaseLifecycle |
| MergeAndPhase | two parts with fairness: merge (one command, versions up to 3, branches that others move once) and phase (one Case, two attempts); 99,518 states | after stale or conflict and a new approval, which heads are pushed to? is a merge that reached its targets submitted? does every running attempt settle? |
| ResetRace | two callers in two processes, one key, fairness; 136,512 states | is the agent stopped once and never silently left? does every call return? |
| EvidenceHistory | two Cases, one content, two attempts, two registrations, three directories; 1,272,614 states | can registrations, a deletion, failures and crashes destroy or orphan evidence? |
| CaseParts | ten instances: the merge of a fix, and components below a Case; 1,417,717 states | see the next table |
| BotParts | fourteen instances: the components of a bot, requests and agents, and two Cases in one process; 854,780 states | see the next table |
| BugPlatform | inbox, platform client, login and shared scans, with fairness; 181,965 states | are losses repaired, sessions renewed, calls ended? |
| FindRecovery, FindEvidence, FindBaseline, FindStuck, FindServers | instances as above | see the next section |

The parts of the grouped runs:

| run: part | instance | property |
|---|---|---|
| CaseParts: race | two symmetric approvals, one repository without a baseline, one outside push | `MergeIsKept` |
| CaseParts: repos | one approval, two repositories, one with a baseline | `MergeIsKept` |
| CaseParts: attempt | every setting and result, three tries of the completion | `AttemptIsEarned` |
| CaseParts: staging | one attempt, two directories, one inode, two passes, one move, one death | `ReportIsProven` |
| CaseParts: evidence | three attempts in every family, two artifacts, one fault | `ReportIsProven` |
| CaseParts: results | reports of up to four lines, every plan, hop and fix | `ReportIsProven` |
| CaseParts: stream | four programs, streams of up to four lines | `ReportIsProven` |
| CaseParts: rework | five attempts, two causes, plans and branch stems | `ReworkKeepsCause` |
| CaseParts: workspace | one attempt in two repositories (with one name or two), two commits, one deployment, one death | `FixStartsWhereApproved`, `ReportIsProven` |
| CaseParts: opening | two instances, two legacy runs of one bug, one reset, one death | `OpenedStoreIsWhole` |
| BotParts: keys | two clients, two Cases of a ticket, three keys, versions up to 3, four sends | `KeysDecide` |
| BotParts: agents | two runs and one attempt of a ticket, one caller, one restart | `TicketHasOneAgent` |
| BotParts: cases | two Cases with two attempts each, in one live process whose starts succeed, without resets; the second Case lacks no evidence (`LiveStep`) | `RecoveryKeepsWork` |
| BotParts: install | two versions, two operations, one retry, one IDE rewrite, one death | `InstalledBotIsWhole` |
| BotParts: rows | one service, two centers, three edits, two generations, one abort | `ConfigMapIsKept` |
| BotParts: opencode, codex, probe | two operations each; one server of up to three lines | `SettingsAreServed` |
| BotParts: loading, servers | files of both schemas; two systems, the identity of one extends the other's, up to two endpoints, of three clusters | `MadeAsConfigured` |
| BotParts: scan, topology | two runs with a fault, disks with strangers; up to three facts, two decisions, paths of up to three | `MadeAsConfigured` |
| BotParts: tool | two processes, two faults and a death | `SettingsAreServed` |
| BotParts: index | two calls, one move and one fault | `IndexesAreReady` |
| BugPlatform: inbox, client, session | poller and one caller, two tickets; three tickets, two products, pages of one, one change; three sessions | `InboxIsKept`, `PlatformRecovers` |
| BugPlatform: cache | a deployment and a refresh, two scans | `ScanIsShared`, `PlatformRecovers` |

**Why the bounds are enough.** Three attempts let a Case go through an
investigation, its fix and a retry, or an investigation, its automatic retry and
a third; a chain of four repeats roles the third already has, since a mutation
looks at the current attempt and at one parent only (the theorems hold for any
number). Two Cases
meet only in the pass and in `gate`, which are about "this Case" and "another".
Two approvals are the smallest race; a third loses to the same compare-and-set.
`MaxHead` bounds how often *others* push (the studio's pushes are on top):
one push makes an approval stale, or an unpushed merge obsolete.
`MaxVersion` bounds the version at which users still issue commands: 3 lets an
outcome be followed by a new approval. Two callers
in two processes are a claim holder and a contender, and callers come back
after a crash, so more than two attempts at a reset are in the run. One key: a
reset under another key finds the Case archived. Callers that contend for the
command lock of one process are not in the instance; the safety theorems hold
for every assignment of callers to processes. Three directories are the one
of each Case and one that is re-created while the first is in the tombstone;
one content suffices, since different contents neither share a lock nor a file.
Three keys let any two kinds of keyed request share one, and four sends are a
request, its loss, an overtaking request and the repetition. Five attempts of a
rework are an investigation, a rejected fix, an assessment, the next fix and a
dispute of it. Two operations with one death are an installation cut off and
the one that starts from what is left. In the parts that are functions of their
input (results, stream, topology, loading), a bound is the size of the input:
large enough for every rule of the code to apply and for two of them to meet.

Deadlock is checked where the system always has a next step. It is not in
CaseParts, BotParts and BugPlatform, whose parts end when an input is read, an
operation has returned or a bound is used up, and in FindRecovery, where
without crashes and resets two Cases whose attempts are used up have nothing to do.

**Fairness.** `PhaseWorkflow`: weak fairness of the steps of goroutines, of
agents (an agent ends: its context has a deadline), of a restart, and of a pass
that is pending (listing the Cases is itself a command, and the interface
polls it); strong fairness of the inspections of recovery:
a remote is not unreadable at *every* one of them for ever.
`RunningAttemptsSettle` says "once the process stays up" (`<>[]up`): nothing is
promised to a process that crashes for ever. `MergeWorkflow`: the same, with
strong fairness of `Resume`; that a `ResumePush` lands is assumed only in
FindStuck, which shows that even this would not help. `MCMergeAndPhase` states
the fairness of both parts step by step, and one strong fairness for a step of
each, since `part` never changes.
`ResetCancellation`: the steps of a call are bounded by timeouts, hence weak
fairness; the lock is a `sync.Mutex`, whose starvation mode hands it to a waiter,
hence strong fairness of `AcquireLock`. `BugInbox` and `PlatformSession`: weak
fairness of an operation that has begun, strong fairness of the poller's
requests: the platform is not unreachable at every tick for ever.
`AnalysisCache`: weak fairness of a scan's deadline (its context has one), of
publication and of receivers.

## What the runs found

* **FindRecovery**: `RecoverInterrupted` calls itself "a synchronous startup
  pass", and its mutations say "interrupted by Studio restart". After an
  inspection failure the next command runs it in the live process, where it
  interrupts or fails attempts whose agents are executing.
* **FindEvidence**: the second interruption of an investigation moves the Case to
  `waiting_evidence` and clears the current attempt; `ContinueWithEvidence`
  loads the attempt with the empty identity and fails. The Case can only be
  reset.
* **FindBaseline**: recovery of a merge looks at the environment branches only,
  and may submit a Case whose confirmed baseline never got the fix.
* **FindStuck**: a merge that was cut off before its first local commit has
  nothing to resume, the pass reports an error every time, and every command,
  of every Case, runs the pass first.
* **FindServers**: the keys of a system are recognised by the prefix `<id>-`.
  Deploying `truss` with credentials clears the servers of `truss-x` as dead keys
  of its own, until `truss-x` is deployed again.

Each is a run with one property, the quoted statement, and TLC's
counterexample; `PROJECT.json` quotes the lines. The descriptions of the
modules above name other places where the code does less than one would
expect and no document promises more.

## Proofs

`tlapm M.tla` for the modules below; every leaf is proved by Z3, Zenon or
(temporal steps) LS4. The only assumptions are those on the constants: no
bound on Cases, attempts, callers, processes, keys, contents, clients, plans,
directories, instances, legacy runs, configurations or servers; these sets need
not be finite unless the code can only have finitely many. Bounds that a specification states in its
guards (`MaxVersion`, `MaxAttempts`, `MaxTip`, ...) are any number. A module with
an `ASSUME` is extended by the module of a run, so TLC evaluates it. A component
that runs as a part has its assumption as a definition (`AttemptRunAssumption`,
`StagingAssumption`, `StoreOpeningAssumption`, `CaseStoreKeysAssumption`,
`InvestigationsAssumption`, `BotInstallAssumption`, `BotGenerationAssumption`,
`CodeIndexingAssumption`, `AnalysisCacheAssumption`,
`BugInboxAssumption`, `PlatformSessionAssumption`): the MC module asserts it of the instance, and the theorems name it
as their hypothesis. Each inductive invariant was an invariant of a TLC run on
the instance of its component before it was proved.

A component that runs as a part promises several things in one property; the theorem
of that property follows from theorems about its conjuncts. The first column of
theorems names what is stated of a run's property.

| module | inductive invariant | theorems that state a property of a run | theorems about its parts, and others |
|---|---|---|---|
| PhaseWorkflowProofs | `PhaseInv`, `VersionInv`, `PassInv` | one for each of the eight invariants of `PhaseOneCase`, `IntentNeverLost`, `PushedFixNotFailed`, `LifecycleRefined` | `RecoveriesKeepWork` |
| MergeWorkflowProofs | `MergeInv` | `MergeTypeCorrect`, `PushesAreApproved` | `SubmittedCasesAreMerged`, `NothingIsPushedTwice`, `BaselinesComeFirst`, `MergeImplementsLifecycle`, `MergesAreKept` |
| AttemptRunProofs | `RunInv` | `AttemptsAreEarned` (`AttemptIsEarned`) | `FixesRunOnce`, `ReceiptsBackResults`, `StagingKeptForRecovery`, `StrandedOnlyByRefusals`, `IntentsOfRunning` |
| AttemptRunProofs | `StagingInv` | | `CapturesAreWhole`, `LivingDirectoriesStay`, `ReplacedDirectoriesStay` |
| FixProofs | `ReworkInv` | `CausesAreKept` (`ReworkKeepsCause`) | |
| FixProofs | `WorkspaceInv`, `JudgedInv` | `FixesStartWhereApproved` (`FixStartsWhereApproved`) | |
| FixProofs | `SessionInv` | | `SessionsAreKept` |
| CaseStoreProofs | `KeysInv` | `RepetitionsAreAnswered` (`KeysDecide`) | `KeysTypeCorrect`, `EventsExplain`, `KeysAnswerOnce`, `OneCaseIsOpen`, `EndsAreFinal`, `RetriesSucceed` |
| CaseStoreProofs | `OpenInv` | `OpenedStoresAreWhole` (`OpenedStoreIsWhole`) | `OpeningTypeCorrect`, `UpgradesAreAtomic`, `OpenedStoresAreComplete`, `SnapshotsAreKept`, `DeletedHistoriesStayDeleted` |
| CaseStoreProofs | `InboxInv` | `InboxesAreKept` (`InboxIsKept`) | |
| ResetCancellationProofs | `ResetInv` | `ResetTypeCorrect`, `OneCancellation`, `QuietResetsStopped`, `OneStart` | |
| ResetCancellationProofs | `IndexInv` | `IndexesAreBuiltAgain` (`IndexesAreReady`) | |
| HistoryProofs | `EvidenceInv` | `EvidenceTypeCorrect`, `EvidenceKept`, `EvidenceAccounted` | |
| HistoryProofs | `RunsInv` | `TicketsKeepOneAgent` (`TicketHasOneAgent`) | `LivingRunsStay`, `TicketsHaveOneAgent`, `EndsAreRecordedOnce`, `CancellationsWait` |
| BotInstallProofs | `BotInv` | `InstalledBotsAreWhole` (`InstalledBotIsWhole`) | `InstallationsAreWhole`, `OneBotIsSeen`, `ServersAreKept`, `RemovalsAreClean`, `OthersAreKept` |
| BotInstallProofs | `GenInv` | `ConfigMapsAreKept` (`ConfigMapIsKept`) | |
| BotInstallProofs | `CacheInv` | `ScansAreShared` (`ScanIsShared`) | |

**PhaseWorkflowProofs**. `PhaseInv` is `TypeOK /\ Pairing /\ Bookkeeping`.

* `Pairing` relates Cases to attempts. The checked invariants alone are not
  inductive: a mutation on the current attempt needs to know that it belongs to
  the Case (`CurrentIsOwn`), and that a running attempt and the status of its
  Case fit (`RunningFitsCase`), or else a completion could land on a Case in
  another status.
* `Bookkeeping` relates attempts to runner, disk and remote: an identity no
  mutation has used is known to nobody (`AbsentIsUntouched`, which is what makes
  `Fresh` attempts safe to create); a completing run has its intent in the row
  (`IntentIsRecorded`); an agent that can still push holds a claim, and for a
  fix a checkpoint row (`AgentHoldsClaim`), which is what makes
  `PushedFixIsRecoverable` inductive.

The proof goes action by action over the building blocks `BeginAttempt`,
`FinishAttempt` and `CommitCase`, each with lemmas of its own. With `PhaseInv` in
both states, every step keeps recorded results (`IntentNeverLost`), fails no
pushed fix (`PushedFixNotFailed`) and is a step or a stutter of `CaseLifecycle`
(`LifecycleRefined`). `ListedAttemptsStayCurrent` needs more: while a pass runs, the
commands that were already inside hold older versions (`GateIsBehind`, with
`VersionInv` for cancellations under way), so none of them can move a Case that
the pass has listed (`PassInv`, `ListedFits`). This is what allows
the recovery actions to leave out the branches for detached attempts.

**MergeWorkflowProofs**. `MergeInv` is `MergeTypeOK`, `StoreInv` and `CallInv` for
each call. A run in progress works for a stored approval and its heads
(`WorksForApproval`), a call that saw the newest version knows the status
(`SeenFits`), the heads of the approval stand below what the branches have
reached, a local merge in a worktree is not in its branch, and what a call has
left behind is merged (`DoneIsMerged`, `BaselinesBefore`). All of them are kept
by every step, of the studio or of others, that only moves branches forward
(`Forward`); that is one lemma, used for every action that is not the call's
own. `PushesAreApproved`, `NothingIsPushedTwice`, `BaselinesComeFirst` are
properties of the push step from that invariant. `SubmittedCasesAreMerged` rests
on what a call knows in each phase of what is fixed.

**AttemptRunProofs**. `RunInv` carries what the checks said along the program
counter: after `Judge` the checks hold of the result at hand (`ChecksPassed`), a
command is one built from it (`CommandFits`), and each repetition of an execution
belongs to a correction that a fix is not given (`RunsOnce`). `StagingInv` is about
directories and the descriptors and names that lead to them. Each directory is
of one attempt for good (`OwnDirs`): what a cleanup holds open, or finds again
under the name, is the directory of an attempt that has ended, and a record of
such an attempt never starts to run again (`TasksFit`). A capture under way has
read what the file holds unless the time of the file has moved since, which
the last comparison sees (`CaptureFits`).

**FixProofs**. The rework of a fix, its workspaces, and the login of the ticket platform. `ReworkInv` says of each attempt what its input was made
from (`AttemptFits`), of each remembered command what it committed
(`CommandFits`), of the Case where it stands (`CaseFits`). Its core is that what an
attempt which succeeded says never changes (`Keeps`). `WorkspaceInv`: an approval is what the request and the
map of its time resolve to (`ApprovalFits`, with lemmas on
`ResolveSourceBaselines` and `ResolveRemediation`), no tracking ref is ahead
of its remote (`NeverAhead`), each clone on disk belongs to a repository already
handled (`DiskFits`) at a base between the tip at the start and the tip now
(`BasesFit`). `JudgedInv` adds what was accepted.
`SessionInv` is about `PlatformSession`, while no two operations overlap: from a refusal
until the recovery has written, the platform accepts nothing that is saved
(`NoneAlive`), because the request used the saved session and a session opened
since has not been saved before; a save of the form keeps the session it has read.
`WorkingSessionKept`, a conjunct of `PlatformRecovers`, follows.

**CaseStoreProofs**. The store once it is open, its opening, and the inbox of tickets. `KeyDecides` compares two answers of any age, and
`RetrySucceeds` an answer with what the store does now; neither is inductive.
`AnswersStored` ties each answer ever given to the row that holds it: an
event with this fingerprint and this snapshot, an end with this result, a record
with this content. `EventsArePast` and `EventsExplainCase` make a version of a Case
have one event, asked for by somebody who had read the version before.
That a repetition is then answered alike is `Replay` on that row. `OpenInv` is about
the other end, several instances that open one file: at most one is in a transaction
(`HolderFits`), and the image it works on is the committed database or an
upgrade of it that has lost nothing (`ImageFits`), so that a death at any point
leaves a file that an earlier release wrote or a complete one. What was once
verified stays so, since every later writer verifies first (`PastFits`); the
schema, the resets and the work of removed phases are related in `Consistent`.
`InboxInv` follows `bugs.json` while no two operations overlap and no writer has died.
Each operation is three steps, so what was read has to be
related to what is stored at each of them: the file lists what is stored, or is
empty between truncation and writing (`FileFits`), the image about to be written lists
that with the change of its writer (`WriteFits`), and what a sync has already handled is filed as the
platform has it (`SyncFits`); from the last, a sync that ends alone has published all it
fetched (`FreshFits`).

**ResetCancellationProofs**. The calls of a reset, and the indexing calls of a system.
`ResetInv` strengthens the four safety properties:
a claim has a holder and a token (`ClaimIsHeld`), before the claim the runner
has not been asked (`RunnerUntouched`), a recorded success means the agent is
gone (`StoppedIsTrue`), a caller that returned without a warning saw that
success (`QuietMeansSucceeded`), and a replacement that is still pending has not
been started (`FreshIsUnstarted`).
`IndexInv` is about `CodeIndexing`: a call that retries or investigates, and
that runs alone, has forgotten what was kept (`AloneFits`), so that what it answers
is what its own commands made (`ResultsFit`); and a kept report is about the very
repositories that it is kept under (`KeptFits`).

**HistoryProofs**. The evidence files of Cases and the runs of tickets. `EvidenceInv` strengthens the three invariants of
`EvidenceHistory`. `RowsAreKept` is not inductive alone: a cleanup must not be
about the file of a row, which rests on the lock (`Exclusive`), on cleanups
being about own files (`DescriptorsFit`), and, for the removal of the tombstone,
on the rows of its Cases being gone (`DeletionFits`). `FilesAccounted` extends
accounting to directories a deletion may put back, and says that what is in the
place of a staged directory was published since, so the commit cannot orphan it.
`RunsInv` is about `Investigations`. That a ticket has one agent rests on its being
found: the run of a living agent is recorded as running, is younger than every
other run of the ticket that has not ended, and is in the memory of the
investigator that commands ask (`Found`). Then `ActiveRunForBug` can only
return this run (`LivingBlocks`), however many stale runs a restart has left. The
histories `swapped` and `overtaken` name the two cases in which the code loses it.

**BotInstallProofs**. What an earlier operation that broke off has left can be any
mixture, so the properties of a settled bot are not inductive by themselves.
`ApplyFits` says what the steps of the operation at work have made of the disk:
behind the package it is of this version, behind the retirement no validator is
left, an agent that is not to do any more is whole. At the return it says all
that `InstalledIsWhole` does, without a word on what was there before.
`RemovalFits` is the same of a removal. `SettingsFit` follows the entries of others
through every copy of the settings: the file, what the operation has read, and what
the IDE is about to write back.
`GenInv` is about `BotGeneration`. A config-map travels: from the workspace to a
backup, from there to the memory of a job, into the package of each target and back
to the workspace. A row that a person has verified must be known to the inspection
that wrote it wherever it is, and be somewhere a later run reads it from
(`HumanFits`); both have to be said at each stop of the way, and of each step of
the job, or a death between two of them could not be followed.
`CacheInv` is about `AnalysisCache`. From the moment a refresh has thrown the old
result away, whatever is cached or under way for its key is no older than the
refresh (`RefreshesFresh`), since a scan that was given up, or removed from the
table, publishes nothing that a later call could find. The number of waiters of a
scan is the cardinality of the set of calls that wait, hence the finite sets of
callers.

**Only model-checked.** All liveness (`RunningAttemptsSettle`,
`PushedMergeIsSubmitted`, `ResetCallsReturn`, what
`PlatformRecovers` says of polling, captures and calls that wait):
fairness and ENABLED are out of the prover's reach. `AcceptedIsLinear`
compares two recursive definitions over histories, which would need an induction over data;
the theorems about `FixWorkspace` hold whatever the verdicts are. And the
properties of the components that no proof module is about:
in `CaseParts` `PhaseResults`, `AgentStream` and `InvestigationEvidence`; in
`BotParts` `ConfigLoading`, `McpServers`, `RepositoryScan`, `ServiceTopology`,
`OpenCodeSettings`, `CodexSettings`, `McpProbe` and `CodeGraphInstall` (the
properties `SettingsAreServed` and `MadeAsConfigured`); and in `BugPlatform` the
client, and what `PlatformRecovers` says of the session but for `WorkingSessionKept`. Of these, `PhaseResults`,
`AgentStream`, `ConfigLoading` and `ServiceTopology` are functions of a bounded
input, checked against their meaning. `SettledIsInstalled` of `CodeGraphInstall` is
true of two processes and false of three, so there is no theorem for every number
of them.

## Not modelled

* Redaction and metrics: functions over texts and lists of events; wrong output
  is for unit tests. The frontend runtime that agents use.
* Source analyzers (`src/internal/analyzer`, `src/internal/discover`): patterns over
  source text; what is made of their findings is in `ServiceTopology`.
* Probes of data stores and labels: one question to an outside tool, and its answer.
  (The probe of MCP servers is a protocol and is modelled.)
* Scaffolds, wizard, web interface and command line: presentation and
  templates. The versions and keys the interface sends are modelled where they
  are received.
* In modelled parts: payload validation, wording, permissions and symbolic links,
  Windows variants, database I/O errors. `PROJECT.json` says for each component what
  is left out.

## Plan

1. `CodeGraphInstall`: the invariant behind `SettledIsInstalled`. The lock of an
   installation and the rename into the cache decide what a process that dies leaves.
2. Composition of reset and phase workflow: the cancellation outbox as an
   implementation of the `cancelling` step of `PhaseWorkflow`.
