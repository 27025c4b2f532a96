# A TLA+ model of TwinTidy

TwinTidy finds duplicate files and shows them in a Windows desktop window. This
directory holds TLA+ modules that model the parts of it where things happen
concurrently, fail half way or depend on what other programs do to the file
system, TLC configurations that check them on small instances, and proofs that
the TLA+ proof system checks. Paths below are relative to the repository; line
numbers are those of the commit modelled, and `PROJECT.json` ("map") gives the
source lines of every definition.

## 1. The system

| Component | Code | State | Operations | Talks to |
|---|---|---|---|---|
| Operation state | `internal/gui/operation_state.go` | phase, folder and its revision, generation counter, token in force, CancelFunc, close flags | select folder, reset, clear, begin and complete each kind of operation, cancel, request close | called by the window's handlers and callbacks |
| Window workflow | `internal/gui/app_windows.go`, `app_report_windows.go` | surface report, table rows, labels, modal dialogs, goroutines, posted callbacks | event handlers, worker, progress and elapsed goroutines, completions, closing | operation state; scanner, report writer and recycle policy on goroutines; `walk.Synchronize` back to the UI thread |
| Directory queue | `internal/scanner/engine.go:1040-1099` | stack, pending counter, closed flag, condition variable | add, next, done, close | workers and watcher of the surface scan |
| Surface scan | `engine.go:207-592`, `file_snapshot.go` | roots, budget, report, first error | authorize roots, walk with workers, stop on failure or cancellation, judge | directory queue, file system, context |
| Hash pools | `engine.go:625-946` | two channels, workers, groups | produce, hash, collect, close | context, file system |
| Duplicate scan | `engine.go:80-206, 483-527, 625-1040` | records, snapshots, groups | refresh, group by size, by edges, by contents | file system, which other programs change |
| Recycle policy | `internal/scanner/delete.go` | handles, item results | validate, verify a keeper, verify the target, call the adapter, confirm | recycle adapter, file system |
| Report export | `internal/report/report.go`, `app_report_windows.go` | destination, consent, staging file | choose, confirm, write, sync, close, rename, clean up | dialogs, file system, context |
| Previews | `internal/gui/preview_state.go`, `preview_worker_windows.go` | generations, queue of one, temporary directories | request, submit, prepare, post, apply, invalidate, stop | operation state, message loop |
| Result table, recycle plan | `app_windows.go:986-1357, 1507-1664` | rows, check marks, plan, batch of results | check rows, select all but one, plan, confirm, send one request per group, apply results | workflow; recycle policy on a goroutine |
| Settings | `internal/settings/settings.go`, `app_settings_windows.go` | a JSON file, the settings in memory | load, remember the folder, save at the close | files; window closing |
| Diagnostics, startup, entry point, build information | `internal/diagnostics`, `internal/startup`, `cmd/twintidy`, `internal/buildinfo` | log file, flags | log, report fatal errors | nothing modelled reads what they write |
| Safety rules, categories | `safety.go`, `categories.go` | constant tables | classify a name | scanner |
| Native dialogs, thumbnails, Explorer | `internal/gui/*_dialog_windows.go`, ... | COM objects | calls into Windows | workflow sees the answers |
| Scripts, packaging | `scripts/`, `packaging/` | - | build and sign | not part of the program |

What makes the system hard:

* **The UI thread and the goroutines.** A handler begins an operation and starts
  up to three goroutines (the worker, the elapsed-time ticker, and the forwarder
  of progress). All they may do to the window is to post callbacks, which arrive
  after the operation was cancelled, after the folder changed, behind a modal
  dialog, or after the window was asked to close. Tokens (generation, folder
  revision, kind) decide which callbacks still count.
* **Closing.** A scan may be abandoned, an export is cancelled and waited for, a
  recycle batch is waited for and not cancelled. The close is carried out by the
  completion.
* **The walk.** Workers share a monitor with one condition variable, a budget
  updated by compare-and-swap, a shared error and a context that the user, a
  failure and the return itself cancel.
* **Channels.** Unbuffered channels with a context to leave them; who closes
  which, and who still sends.
* **The file system moves.** Between every two system calls another program may
  write, rename, link, replace or remove a file. The code defends itself with
  snapshots (identity, size, modification time, link count) before, during and
  after each read, and with share modes of the handles it keeps open.
* **Partial failure and crashes.** Every file operation of an export or of a save
  of the settings may fail; the process or the machine may stop between any two.
* **Answers that are not the whole truth.** A recycle request may report as failed
  a file that is in the Recycle Bin, and a panic loses the results of the request
  at work. The table lives on, and the user starts the next batch from it.

`PROJECT.json` ("hazards") lists 38 such places with their lines and the
properties that watch over them.

## 2. The modules

```
ForegroundOperation   (abstract contract)          DirectoryQueue
        ^ implemented by                                 ^ EXTENDS
AppWorkflow  -- EXTENDS -->  OperationState         SurfaceScan

RecycleContract  (abstract contract)          HashPool   ScanPipeline
   ^ implemented by       ^ EXTENDS
RecyclePolicy         RecycleBatch           PreviewWorker

ReportExport   SettingsStore
        ^       ^ EXTENDS
       SessionEnd
```

`<Module>_proofs` EXTENDS `<Module>` and holds the theorems about it:
`AppWorkflow_proofs` (also those about `OperationState`), `SurfaceScan_proofs`,
`HashPool_proofs`, `ScanPipeline_proofs`, `RecyclePolicy_proofs`,
`RecycleBatch_proofs`, `SessionEnd_proofs` (also `ReportExport` and
`SettingsStore`) and `PreviewWorker_proofs`.

`MC<Module>` gives the constants of `<Module>` values for TLC. Definitions whose
comment begins with "Mutant:" are plausible mistakes in the code; no
specification uses them. Each shows that a property notices the mistake when it
takes the place of the definition that `PROJECT.json` ("mutants") names.

**OperationState.** One variable per field of `operationState` and one action
per method, enabled exactly when the method accepts the call. A CancelFunc is
named by its generation (0 for nil), `cancelled` holds those called. `issued`
remembers the tokens handed out, because goroutines keep copies: `Completion`
may present any of them, in any order and any number of times. The start times
are left out.

**AppWorkflow** composes those actions with the window. Each handler, dialog
answer and goroutine step is one action; each callback posted through
`Synchronize` is an element of the sequence `posted`, which `RunCallback` takes
from the front. A dialog blocks user input and not the callbacks, so a handler
is split where it opens one: `captured` is what it read before. About and the
logs button are enabled in every phase, so a message box may be open while an
operation runs, and the box of a failed scan or export opens over it
(`MessageShown`, `MessageBox`). A box opened over a window that is disabled
already leaves it disabled, so one dialog is in charge of the window's input;
`modal` is that dialog. Rows and reports are represented by the folder revision
they describe and by the kind of row; a label by the generation whose progress it
shows. The labels are three: the status line (`statusOf`), which every handler
and completion rewrites; stage, files, current path and bar together
(`progressOf`), which keep what they show after a cancellation, a failure or a
completion until a folder is chosen, a scan begins or the results are cleared; and
the elapsed time (`elapsedOf`). `RecycleSupported` is TRUE in
the runs though released builds have FALSE (`recycle_windows.go:14-29`): with
FALSE the delete handlers refuse at their first line.

**ForegroundOperation** says what the workflow promises without saying how: one
operation at a time, none begun twice or after a close was requested, a
protected one never abandoned, and each one ended.

**DirectoryQueue, SurfaceScan.** Each operation of the queue is one critical
section. The walk has a program counter for the calling goroutine (`main`), one
for the watcher, and one per worker; steps are as large as the code's atomic
steps (a system call, a compare-and-swap, a critical section), so that for
example reserving a place and appending the record are two. The file system is
a fixed forest whose items are readable, skipped, redirected, unreadable or flaky
(the listing breaks off, the file fails to open after all), and whose roots may be replaced at any time.

**HashPool.** Producer, workers, closer and collector of a hashing stage with
their two unbuffered channels, where sending and receiving are one joint step,
and the context. What hashing a file returns is fixed at the start. The two
pools share their structure; where they differ the module follows the full one.

**ScanPipeline.** What the stages of the duplicate scan read and when: a snapshot
by path, an open, a snapshot by handle, the reads, two snapshots after them.
Between any two steps another program may write, rename, remove, link or create
files (an inode without history is a file not yet created). Hash values are the
bytes read; a body hash may read a mixture.

**RecyclePolicy.** One request: a group, a selection, and for each target the
choice and verification of a keeper, that of the target, the adapter, the check
that the path is gone. The environment respects what Windows enforces for the
handles held (share modes at `file_snapshot_windows.go:137-170`). The adapter is
external; it acts on the handle it is given and may move, refuse, abort, or move
and fail to confirm.

**RecycleContract** says what one request promises without saying how: a selected
file goes to the bin only while another member that is not selected is in place
as the scan showed it; every selected file is answered for once; "recycled" is
never said of a file that is not in the bin, nor "changed" or "protected" of one
that is; a request that is not valid touches nothing. `RecyclePolicy` implements
it (`KeepsPromise`), where "in place" is computed from the file system, and
`RecycleBatch` relies on it: what the batch shows holds for any adapter and any
policy that keep the contract.

**RecycleBatch.** The rows of the result table, with their numbers, groups, check
marks and statuses; check boxes and the selection buttons; the plan, the limit of
its confirmation and the answer; the goroutine that sends the requests one by
one, may panic within one, and posts the batch; and its application
to the rows. `approved`, `untold` and `quiet` are auxiliary: what the user agreed
to, what is in the bin without a result that says so, and that nothing went
wrong. A file stands for its record and path.

**ReportExport.** From the save dialog through the two questions of the window to
the staging file, its rows, sync, close, rename and the cleanup on every error
path; a crash of the process leaves the files, one of the machine also loses the
rows that were not synced.

**SettingsStore.** Load, and Save step by step: stage, write, close, rename, and
the removal on an error. A file is a document, a part of one, something of
another schema, or absent; a placement of the window is plausible or not.

**SessionEnd** composes the two at the close of the window: an export at work is
cancelled and waited for, then the settings are saved, then the process ends. It
may be killed or lose its power at every step, and is started again with the
files it left.

**PreviewWorker.** The UI thread's three-step submission (send, drain, send), the
goroutine, the posted results, and the temporary directory each comparison owns.
`interrupted` is an auxiliary variable that records the one case in which the
code drops an answer that is current.

## 3. What is checked

Repeat a run with `tlc -workers 2 -config <cfg> <module>`.

| Run | Instance | What it shows |
|---|---|---|
| workflow | 1 folder, 4 generations, 2 revisions, 1 buffered progress update; 2.0M states | Phase, token, CancelFunc and close flags determine each other (`OpSafety`); a token refused once is refused for ever (`StaleForever`). One worker at work (`OneWorkerAtATime`); its acknowledgement never missing nor doubled (`AcknowledgementPending`); report and rows are those of the folder and phase (`ResultsMatchPhase`); none are published by a cancelled operation (`CancelledNeverPublishes`); late callbacks never overwrite the status line, and no label is of another folder or of a scan that a newer one has followed (`LabelsAreCurrent`); what dialogs captured (`CapturedStaysFresh`), and exit (`NoProtectedWorkerAtExit`). |
| workflow_live | 1 revision, no progress; 61k states | `OperationsRetire`, `DeferredCloseCompletes`, and the refinement `KeepsContract`. |
| surface_scan | 3 symmetric workers; a tree of depth 3, 7 classifications, ample and exhausted limits, repeated roots; 261k states | `QueueIsSound`: `pending` counts the work, queued work has an awake worker, the queue is closed only after the context; `BudgetMatchesReport`; `VerdictIsHonest`: a success is complete, a failure has its cause, nothing is listed twice. |
| surface_scan_live | 3 workers, one root, at most one file; 380k states | Every scan returns and leaves no goroutine (`ScanReturns`, `NoGoroutineLeft`). |
| hash_pool | 3 files, 2 keys, 2 workers, every outcome of hashing; 93k states | `ChannelsAreSound`: no file lost, no send on a closed channel; `VerdictIsHonest`; `PoolEnds`, cancelled or not. |
| scan_pipeline | 3 paths (separate or linked) and a file that may be created, 4 contents of which 3 share a size and 2 their edges, 2 changes by other programs; 3.3M states | Groups are exact whatever happens (`GroupsAreExact`), complete if nothing does (`QuietScanIsComplete`). |
| scan_overlap | one file under two roots | Finding 1. |
| recycle | 3 files and a free path, groups with a repeated file and with hard links, every selection, every adapter outcome, cancellation, 2 changes; 820k states | `CopyInPlaceWhenRecycled`, `OnlySelectedRecycled`, `StatusHonest`, `QuietRequestIsCarriedOut`, and the refinement of `RecycleContract` (`KeepsPromise`). |
| recycle_kept | 1 change | Finding 2. |
| recycle_batch | groups of 3 and 2 files, or of 3 names of which 2 are links to one file; at most 4 lines in a confirmation; 3 of the 5 results; 2 batches, 1 change by other programs, panics; 143k states | What is recycled was confirmed and a copy that the confirmation showed as kept is in place, in later batches too (`RecycledAsConfirmed`); the table stays well formed (`RowsWellFormed`), lists no file that is known to be in the bin (`TableIsTrue`), and loses no row without a reason (`UncertainRowsStay`); a batch without trouble does what was agreed (`QuietBatchIsCarriedOut`); every batch ends (`BatchEnds`). |
| session_end | 2 rows of a report, 1 change by another program, 2 sessions, crash and power failure anywhere; 2.9M states | `DestinationIsWhole`, `OutcomeIsHonest`, `ReplacesOnlyAgreed` of the export; the settings file is never torn by a process crash and holds what the last Save was given (`SettingsAreWhole`); an orderly exit leaves no export, no staging file and no unsaved setting (`ExitIsOrderly`). |
| preview | 9 generations, 1 change of folder; 64k states | `NothingLost`: every directory has an owner and the newest request is on its way; `RequestsAnswered`. |

Every action of every module is taken in these runs. The type invariant of a
module is the first conjunct of one of its invariants (`ResultsMatchPhase`,
`QueueIsSound`, `ChannelsAreSound`, `GroupsAreExact`, `StatusHonest`,
`ExitIsOrderly`, `NothingLost`). That only its own completion retires an export
or a delete (`ProtectedNeverAbandoned`) is part of `KeepsContract`, and proved.

**Why the bounds are enough.** Four generations are one operation of each kind, or
one that is overtaken by three; two revisions are a folder left and another
opened. With one folder the workflow still tells old data from new, because data
carries the revision and not the name. Three
workers are one that sleeps, one that is woken and one that fails or takes the
work first, which is what a lost wakeup needs. Two changes are a file replaced
and put back, or changed once in each of two stages. Two files of one group and
one beside it show every verdict of the pools. Nine generations of previews are
three requests among the messages and operations that supersede them; two are
kept back so that the end of a scan and the close are always possible. A second
batch is what it takes to meet the rows that a first one left; selections made
after the last batch are left out. The limit of 40
lines of a confirmation is scaled to 4, so that one group fits and two do not
(the limit in characters is left out); "protected" and "cancelled" are left to
the recycle run, because the table treats them as it does "changed" and "failed"
but for the wording.
Two sessions are one that damages a file and one that reads it.
`MaxGeneration`, `MaxRevision`, `MaxChanges`, `MaxPosted`, `ProgressCapacity`,
`MaxFolderRevision`, `MaxBatches` and `MaxStarts` are the only bounds, and all
appear in guards only; the counters behind the first two are 64-bit in the code
and never wrap in practice.

**Fairness.** Goroutines that can take a step take one: the Go scheduler is fair,
and file operations return. The message loop runs posted callbacks, also behind
modal dialogs. In a batch (`FairSpec` of `RecycleBatch`) the goroutine as a whole
is fair, so it may panic but need not, and so is the one callback that takes the
finished goroutine away (`WF_worker` of it: in the model no other step does). The user, other programs, cancellation and
failures are not fair: nothing forces them to happen.

**Deadlock** is checked in every run. The ends of the program (a process that has
exited, a call that has returned) are explicit stuttering steps, so a state in
which goroutines wait for each other is reported.

## 4. What is proved

Every invariant and every action property of a passing run is also a theorem,
for every value of the constants. The assumptions about the constants are named
and stand in the modules that declare them; TLC evaluates them in every run:

* `OperationAssumption`, `WorkflowAssumption`, `ReportAssumption`,
  `SettingsAssumption`, `SessionAssumption`, `PreviewAssumption`: bounds are
  natural numbers (at least one start, at least one generation of previews), and
  sentinels (no folder, no placement) are none of the things they stand beside.
* `ScanAssumption`: directories are not files, listings and limits have their
  types, and there are finitely many workers and at least one, as
  `engine.go:71-76` and the runtime make it. The walk may have any shape, repeat
  roots, and hold directories in a circle.
* `PoolAssumption`: the same of the workers, a file is handed out once, and a
  digest is not the name of a failure.
* `PipelineAssumption`, `RecycleAssumption`: finitely many paths; the types of
  initial files, groups and adapters; what a file contains is a record of size,
  edges and body.
* `BatchAssumption`: a group has at least two files, none twice, and exactly those
  of its key (`setGroups`, `mapByFullHash`); the window passes one root, so that
  the walk lists a file once (`WalkIsHonest`).

An invariant is seldom inductive. The following says what each proof adds to it.

**`AppWorkflow_proofs`.** First the automaton of `OperationState` alone.
`OpInvariant`: `OpInv == TypeOK /\ OpSafety /\ IssuedInOrder`. `OpSafety` alone is
not inductive: a completion presents some issued token, and that it is accepted
only if it is the one in force needs that tokens carry their own generation; that
a new CancelFunc is fresh needs that only generations already reached were
cancelled. `TypeCorrect` and `OperationSafe` follow. `StaleTokensStayStale`: the
token in force is the newest, and a new one has a generation never issued before.
`ProtectedOperationsFinish`: every other action that drops a token requires a
phase of another kind.

Around it the window, where methods are called from handlers and callbacks only.
Every step of the workflow is a step of the automaton or leaves it alone
(`WorkflowOpInv`, `WorkflowTypeCorrect`). `WorkflowGoInv` is the invariant of the
goroutines: at most one worker is at work, it is the one in force while the window
is open, a completion is posted at most once and only by a finished worker, and
generations not yet reached have none. `OneWorker`, `ProtectedWorkersOutliveWindow`
and `AcknowledgementNeverLost` are its consequences. `WorkflowDataInv` is that of
the data: the three properties `ResultsAlwaysMatch`, `LabelsAlwaysCurrent` and
`CapturedAlwaysFresh` hold together, and need besides that the outcome of a worker
fits its kind and that only groups are captured for an export or a batch. That a
progress callback which is accepted is of the newest scan (`InForceIsNewest`) is
where the labels meet the automaton: generations only grow, and the one in force
is the last. That no operation is in force behind a dialog whose answer is acted
upon holds although message boxes are open in every phase: such a dialog needs an
idle phase to open and keeps the window from beginning anything.
`CancelledScansPublishNothing` is the argument about the one step that publishes.
`WorkflowKeepsContract`: the initial states and every step of the workflow are
those of `ForegroundOperation` or stutter (`Contract!ContractSafety`). The fairness
of the contract is not part of the theorem.

**`SurfaceScan_proofs`.** `WalkBaseInvariant` holds the phases of a call
(`PhaseInv`), what a worker holds at each place (`HoldInv`), and that an error is
in hand only with its cause and on its way to `fail`, whose one winner cancels the
context before it closes the queue (`FailInv`). On it stand three independent
invariants. `QueueInv`: `pending` is the number of queued directories and of
workers that hold one, and if work is queued somebody awake will take it or has
been signalled: no wakeup is lost (`QueueAlwaysSound`). `BudgetInv`: the number of
records, as the cardinality of the set of places they fill, grows with the counter
that a compare-and-swap reserved (`BudgetAlwaysMatches`). `CompleteInv` and
`OnceInv` together with the causes give `WalkIsHonest`: as long as nothing is cut
short, whatever was found is accounted for, under way, or still to come out of a
listing; and below separate roots (`Apart`: no item is reached twice) whatever the
walk has come to is in one place only and no listing brings it up again. The
second is stated for every set of items that is apart, so that it needs no
recursion to say what lies below a root.

**`HashPool_proofs`.** `PoolInvariant`: where each file is (`NoFileLost`), what
each worker and the collector hold, that the producer closes the jobs and the
closer the results only when nobody can send any more, and that until the context
is cancelled the groups and the counts are those of the files the collector is
done with (`AccountInv`). `ChannelsAlwaysSound` and `VerdictAlwaysHonest` follow;
the latter needs `FinishedWithAll`: who finishes without a cancellation is done
with every file.

**`ScanPipeline_proofs`.** `ExactInvariant`: a record describes what its file once
was; an open handle is that of the record's own file; what hashing has read is
what the record speaks of, as long as the file has not been written since the
record, and in any case once it is verified (`ReadSoFar`). Other programs may
append to the history of a file, and never shorten it: that the verification
finds the recorded version still last is what makes a mixture of bytes
impossible. `GroupsAlwaysExact` follows. `QuietScanAlwaysComplete` adds
`QuietInv`: without interference the records are those of the eligible files, and
no stage drops one that has a twin; that the groups are exactly the classes of
equal files then follows at the last stage, from set extensionality.

**`RecyclePolicy_proofs`**, for any group, selection, adapter and interference.
`PolicyInvariant` says what each position of the policy may rely on. From the
opening of the keeper on, its path names it and nobody writes it (`KeeperHeld`);
after its verification it has the bytes of the group; the target's handle
likewise, except that its path may go (`TargetHeld`); and the bin holds selected
files only (`RequestGuarded`). A step of another program preserves this because of
the share modes, not because of any later check: `OutsidePreserves` says what such
a step must leave alone. `CopyAlwaysInPlace` and `OnlySelectedEverRecycled`: only
the adapter's move changes the bin, where both apply. `AnswersInvariant` adds what
the statuses given so far say of the bin, from which `ResultsAreHonest` follows;
with it every step is a step or a stutter of `RecycleContract`
(`PolicyKeepsPromise`). `QuietInvariant` describes a request that nothing has
disturbed so far and gives `UndisturbedIsCarriedOut`.

**`RecycleBatch_proofs`**, from the contract of a request alone, for all scans,
selections, outcomes and any number of batches. `BatchInvariant`: the rows are
numbered, contiguous by group and of one key (`TableInv`); the plan is made of
whole groups of the table, and keeps something of each (`PlanInv`); the results
are those of its first requests (`RequestInv`); and of every listed file in the
bin the table, a result or the request at work knows, or a failed answer has lost
it (`TruthInv`). The hard part is `removeDeleted`: that what it leaves is again
contiguous and numbered without gaps, which rests on lemmas about the order of a
finite set (`InOrderIsOrder`). `TableWellFormed`, `TableIsAlwaysTrue`,
`OnlyConfirmedRecycled` and `UncertainNeverLost` follow.
`QuietBatchAlwaysCarriedOut` adds `QuietInv`: a listed file has all others of its
key beside it or in the bin, so that a request is accepted exactly if the files of
its key are no links to each other (`AcceptedIfSeparate`), in later batches too.

**`SessionEnd_proofs`.** `ExportInvariant`, for the export alone: how far the
staging file has come at each step, that an old file under the final path is one
the user agreed to replace, and that no report has a final name before the export
succeeds; `DestinationAlwaysWhole`, `OutcomeAlwaysHonest` and `OnlyAgreedReplaced`
follow, because only the rename touches a destination, and by then the staging
file is whole and synced. `SessionsKeepReports` carries the three across any
number of sessions, crashes and power failures. `SessionInvariant` says what a
Save has in its staging file at each step, and gives `SettingsAlwaysWhole` and
`ExitAlwaysOrderly`.

**`PreviewWorker_proofs`.** `PreviewInvariant`: tokens are given out in order, the
request in the UI thread's hands is the one in force, and a directory has one
owner at each of the places a request passes (`DirectoriesOwned`), so that it is
neither removed twice nor shared. `NothingEverLost` follows.

**Model-checked only:** the liveness properties (`OperationsRetire`,
`DeferredCloseCompletes`, `ScanReturns`, `NoGoroutineLeft`, `PoolEnds`,
`BatchEnds`, `RequestsAnswered`) and the fairness that `KeepsContract` includes:
the installed provers know neither ENABLED nor a rule to use weak fairness with.
The contents of a `FoldLeft` (the number of lines in a confirmation) are left to
TLC too: an induction over a sequence takes an operator as a parameter; no theorem
depends on them.

## 5. Findings

1. `scan_overlap`. A file below two overlapping roots is listed twice, and the last
   stage counts records and not identities, so the file forms a group with itself
   (`engine.go:379`, `engine.go:869`). `docs/ARCHITECTURE.md:67` says "A verified
   duplicate group contains at least two distinct file identities whose exact
   hashes agree." The window always passes one root, so only callers of the
   engine's multi-root interface meet this; recycling rejects such a group.
2. `recycle_kept`. If another file appears under the path between the move and the
   last check, the item is reported as failed although its file is in the Recycle
   Bin (`delete.go:175`). The confirmation (`app_windows.go:1165`) says "Changed,
   protected, cancelled, or failed files remain in place." Released adapters
   refuse every request, so this concerns the policy as it is written and tested.

## 6. Assumptions

* Equal hashes mean equal bytes, and every write advances the modification time.
* Windows enforces share modes and never reuses the identity of an open file.
* The recycle adapter acts on the identity of the handle it is given.
* `Synchronize` runs callbacks in the order posted, one at a time.
* A message box whose owner is disabled already leaves it disabled when it closes.
* A rename is atomic and durable; a power failure loses only rows not synced;
  names of staging files are unique. Directories of previews can be removed.
* A document of the settings renamed without a sync may be torn by a power
  failure, and by nothing else (`settings.go:106` promises this of "a crash"; the
  model takes it for one of the process).
* A batch's requests come from rows whose size and hash agree within a group, as
  `setGroups` makes them; no group lists one path twice, and it holds every record
  of its key, as `mapByFullHash` makes it.

## 7. Not modelled

* Diagnostics, startup, entry point, build information: sequential, and nothing
  reads their output.
* The JSON of the settings, a placement that is off the screen, a user without a
  profile directory; the character limit of a confirmation.
* Parsing of Windows' answers (streams, final paths, reparse tags): the models
  take the identity, the link count and the final path as they are.
* Calls of the engine with no root or with more than `MaxRoots`: refused at once
  (`engine.go:244`, `267`). A root that is replaced while the duplicate scan
  refreshes its records ends that scan with an error and no groups
  (`engine.go:164`); `ScanPipeline` has no roots.
* Steps within `Open` and `Verify` of `ScanPipeline` (`file_snapshot.go:181-190`,
  `422-446`). Versions of a file only advance: a file that passes all checks of
  `Verify` passes them at the moment of the last one, and a record that fails one
  fails the whole at that moment. A file that leaves its path between the checks
  of `Open` is dropped by `Verify`, in the code as in the model.
* A phase between the end of an export's goroutine and its completion callback, in
  `SessionEnd`: there the close is granted at once, where the code waits for the
  callback. `AppWorkflow` has that phase.
* Safety rules and categories: fixed tables; their verdicts are the classes of
  `SurfaceScan`.
* Native dialogs, thumbnails, Explorer: their answers are choices of the models.
* Formats (CSV, JSON, messages), sorting and statistics of reports.
* After the window closes a prepared comparison can leave its directory behind
  (`preview_worker_windows.go:102`): `NothingLost` speaks of the open window only.

## 8. Plan

The order is that of importance: operations and window first, because every other
part is reached through them, then the scan, the recycle policy, the export and
the previews, then the table that sends the requests and the end of the session.
All runs pass, and every invariant and every action property they check is
proved. What is left:

1. Shorter arguments where a proof now follows the model too closely: the order of
   the rows in `RecycleBatch_proofs`, the file list of `RecyclePolicy_proofs`.
2. Facts beyond the properties: that a walk whose limits are ample and whose
   context nobody cancels can only succeed or lose a root; that a batch in a
   session that nothing disturbs leaves at least one file of each key (a
   consequence of `RecycledAsConfirmed` and `QuietBatchIsCarriedOut`).
3. Step properties a scheduler's fairness rests on: which action is enabled where,
   as far as it can be stated without ENABLED.
