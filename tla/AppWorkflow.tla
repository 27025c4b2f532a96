---------------------------- MODULE AppWorkflow ----------------------------
(***************************************************************************)
(* The GUI workflow of internal/gui/app_windows.go and                     *)
(* app_report_windows.go: the window's event handlers, the worker, progress *)
(* and timer goroutines they start, and the callbacks these post to the UI *)
(* thread, all sharing the operation state of module OperationState.       *)
(*                                                                         *)
(* The UI thread runs one handler or one posted callback at a time.  While *)
(* a dialog opened by a handler is up, the main window takes no user input *)
(* but its message loop still runs posted callbacks and a close request,   *)
(* so what the handler captured before the dialog may be stale after it.   *)
(*                                                                         *)
(* Message boxes may nest: About can be opened during an operation, and     *)
(* the box of a failure then opens over it.  A box opened over another      *)
(* finds the window disabled already and leaves it so; one dialog at a time *)
(* is therefore in charge of the window's input, and only that one is kept. *)
(*                                                                         *)
(* Data is abstracted to where it came from: a surface report or a table   *)
(* of rows is represented by the folder revision it describes, a label by  *)
(* the generation whose progress it shows (0: a handler wrote it).         *)
(***************************************************************************)
EXTENDS OperationState, Sequences

CONSTANTS
  RecycleSupported,  \* scanner.RecycleSupported(): FALSE in released builds
  ProgressCapacity,  \* capacity of the updates channel (512 in the code)
  MaxPosted          \* bound on callbacks pending when progress is posted

ASSUME WorkflowAssumption ==
  /\ RecycleSupported \in BOOLEAN
  /\ ProgressCapacity \in Nat
  /\ MaxPosted \in Nat

VARIABLES
  surfaceReport,  \* revision of the folder the surface report describes, 0: none
  rows,           \* the table model: what the rows are and their revision
  modal,          \* the dialog that disables the window, "none" if none
  captured,       \* the rows that handler captured before its dialog
  statusOf,       \* whose progress the status line shows
  progressOf,     \* whose progress the other labels and the bar still show
  elapsedOf,      \* whose elapsed time the elapsed label shows
  uiClosing,      \* the window close was granted: the process is exiting
  worker,         \* per generation: the worker goroutine
  input,          \* per generation: the data its worker was given
  outcome,        \* per generation: what its worker returned, until acted on
  updates,        \* per generation: progress buffered in the updates channel
  ticker,         \* per generation: is the elapsed-time goroutine alive
  posted          \* callbacks posted by Synchronize, run in order

goVars == <<worker, input, outcome, updates, ticker>>
viewVars == <<surfaceReport, rows, statusOf, progressOf, elapsedOf>>
dialogVars == <<modal, captured>>
vars == <<opVars, viewVars, dialogVars, uiClosing, goVars, posted>>

RowKinds == {"none", "surface", "unique", "groups"}
Rows == [kind : RowKinds, revision : 0..MaxRevision]
NoRows == [kind |-> "none", revision |-> 0]

Modals == {"none", "folder", "export", "delete", "message"}
WorkerStates == {"none", "running", "returned", "finished"}
Outcomes == {"none", "ok", "empty", "failed", "canceled"}
Callbacks == [type : {"progress", "tick", "done"}, generation : Generations]

WorkflowInit ==
  /\ Init
  /\ surfaceReport = 0
  /\ rows = NoRows
  /\ modal = "none"
  /\ captured = NoRows
  /\ statusOf = 0
  /\ progressOf = 0
  /\ elapsedOf = 0
  /\ uiClosing = FALSE
  /\ worker = [g \in Generations |-> "none"]
  /\ input = [g \in Generations |-> 0]
  /\ outcome = [g \in Generations |-> "none"]
  /\ updates = [g \in Generations |-> 0]
  /\ ticker = [g \in Generations |-> FALSE]
  /\ posted = <<>>

-----------------------------------------------------------------------------
(* Helpers.                                                                *)

\* Mutant: dialogs are opened without an owner, so they do not disable the window.
UserCanActBehindDialog == ~uiClosing

\* The main window takes user input: it is open and no dialog disables it.
UserCanAct == modal = "none" /\ ~uiClosing

\* The go statements of a handler that has just begun an operation.
StartGoroutines(data, timed) ==
  LET g == nextGeneration' IN
  /\ worker' = [worker EXCEPT ![g] = "running"]
  /\ input' = [input EXCEPT ![g] = data]
  /\ ticker' = [ticker EXCEPT ![g] = timed]
  /\ UNCHANGED <<outcome, updates>>

\* A handler that rewrites all the labels of the scan status.
RewriteLabels ==
  /\ statusOf' = 0
  /\ progressOf' = 0
  /\ elapsedOf' = 0

\* Mutant: the previous folder's report and rows are kept.
KeepFolderData ==
  /\ RewriteLabels
  /\ UNCHANGED <<surfaceReport, rows>>

\* setRows(nil) and the labels of a handler that discards the folder's data.
DiscardFolderData ==
  /\ surfaceReport' = 0
  /\ rows' = NoRows
  /\ RewriteLabels

\* A handler or completion that rewrites the status line only: the other labels
\* keep showing how far the operation had come.
HandlerStatus == statusOf' = 0

-----------------------------------------------------------------------------
(* Handlers of the main window.                                            *)

OpenDialog(kind, snapshot) ==
  /\ modal' = kind
  /\ captured' = snapshot
  /\ UNCHANGED <<opVars, viewVars, uiClosing, goVars, posted>>

DialogClosed == modal' = "none" /\ captured' = NoRows

\* A dialog is dismissed, or returns to a handler that gives up.
DismissDialog ==
  /\ modal # "none"
  /\ DialogClosed
  /\ UNCHANGED <<opVars, viewVars, uiClosing, goVars, posted>>

\* showAbout, and openLogs when it fails: these buttons are enabled in every
\* phase.  The warnings of other handlers that give up are such a step too.
MessageShown ==
  /\ UserCanAct
  /\ OpenDialog("message", NoRows)

SelectFolderClicked ==
  /\ UserCanAct
  /\ CanChangeFolder
  /\ OpenDialog("folder", NoRows)

FolderChosen(f) ==
  /\ modal = "folder"
  /\ SelectFolder(f)
  /\ DiscardFolderData
  /\ DialogClosed
  /\ UNCHANGED <<uiClosing, goVars, posted>>

StartSurfaceScan ==
  /\ UserCanAct
  /\ BeginSurfaceScan
  /\ DiscardFolderData
  /\ StartGoroutines(0, TRUE)
  /\ UNCHANGED <<dialogVars, uiClosing, posted>>

\* The files of the surface report are copied before the operation begins.
StartDuplicateScan ==
  /\ UserCanAct
  /\ BeginDuplicateScan
  /\ RewriteLabels
  /\ StartGoroutines(surfaceReport, TRUE)
  /\ UNCHANGED <<surfaceReport, rows, dialogVars, uiClosing, posted>>

CancelClicked ==
  /\ UserCanAct
  /\ RequestScanCancellation \/ RequestExportCancellation
  /\ HandlerStatus
  /\ UNCHANGED <<surfaceReport, rows, progressOf, elapsedOf, dialogVars,
                 uiClosing, goVars, posted>>

ClearClicked ==
  /\ UserCanAct
  /\ \/ ClearResults
     \/ phase = "SurfaceReady" /\ UNCHANGED opVars
  /\ rows' = NoRows
  /\ HandlerStatus
  /\ progressOf' = 0
  /\ UNCHANGED <<surfaceReport, elapsedOf, dialogVars, uiClosing, goVars,
                 posted>>

ResetAll ==
  /\ UserCanAct
  /\ Reset
  /\ DiscardFolderData
  /\ UNCHANGED <<dialogVars, uiClosing, goVars, posted>>

\* exportReport up to its file dialog: the groups are captured first.
ExportClicked ==
  /\ UserCanAct
  /\ phase = "ResultsReady"
  /\ rows.kind = "groups"
  /\ OpenDialog("export", rows)

ExportDestinationChosen ==
  /\ modal = "export"
  /\ BeginExport
  /\ HandlerStatus
  /\ StartGoroutines(captured.revision, FALSE)
  /\ DialogClosed
  /\ UNCHANGED <<surfaceReport, rows, progressOf, elapsedOf, uiClosing, posted>>

\* confirmDeleteSelected up to its confirmation: the plan is built first.
DeleteClicked ==
  /\ RecycleSupported
  /\ UserCanAct
  /\ phase = "ResultsReady"
  /\ rows.kind = "groups"
  /\ OpenDialog("delete", rows)

DeleteConfirmed ==
  /\ modal = "delete"
  /\ BeginDelete
  /\ HandlerStatus
  /\ StartGoroutines(captured.revision, FALSE)
  /\ DialogClosed
  /\ UNCHANGED <<surfaceReport, rows, progressOf, elapsedOf, uiClosing, posted>>

\* handleWindowClosing: a close request reaches the window even while a dialog
\* is up.  A deferred close only rewrites the status label.
WindowClosing ==
  /\ ~uiClosing
  /\ RequestClose
  /\ uiClosing' = allowClose'
  /\ statusOf' = IF allowClose' THEN statusOf ELSE 0
  /\ UNCHANGED <<surfaceReport, rows, progressOf, elapsedOf, dialogVars,
                 goVars, posted>>

-----------------------------------------------------------------------------
(* Goroutines.  PostCallback is synchronizeUI: nothing is posted once the  *)
(* window is closing.                                                      *)

PostCallback(type, g) ==
  posted' = IF uiClosing THEN posted
            ELSE Append(posted, [type |-> type, generation |-> g])

\* sendProgress: never blocks, an update that finds the channel full is lost.
WorkerReportsProgress(g) ==
  /\ worker[g] = "running"
  /\ issued[g].kind \in {"surface", "duplicate"}
  /\ updates[g] < ProgressCapacity
  /\ updates' = [updates EXCEPT ![g] = @ + 1]
  /\ UNCHANGED <<opVars, viewVars, dialogVars, uiClosing, worker, input,
                 outcome, ticker, posted>>

\* What the worker of token t may return; a panic is recovered as a failure.
OutcomesOf(t) ==
  CASE t.kind = "surface"   -> {"ok", "failed"}
    [] t.kind = "duplicate" -> {"ok", "empty", "failed"}
    [] t.kind = "export"    -> {"ok", "failed"}
    [] t.kind = "delete"    -> {"ok", "empty"}
    [] OTHER                -> {}

\* The worker's work is over (or it panicked); its deferred function closes
\* updates and done.  It may succeed although its context was cancelled.
WorkerReturns(g) ==
  /\ worker[g] = "running"
  /\ worker' = [worker EXCEPT ![g] = "returned"]
  /\ \E o \in OutcomesOf(issued[g])
             \cup (IF g \in cancelled THEN {"canceled"} ELSE {}) :
       outcome' = [outcome EXCEPT ![g] = o]
  /\ UNCHANGED <<opVars, viewVars, dialogVars, uiClosing, input, updates,
                 ticker, posted>>

\* Mutant: only a successful worker posts its completion.
PostSuccessOnly(g) ==
  /\ worker[g] = "returned"
  /\ worker' = [worker EXCEPT ![g] = "finished"]
  /\ IF outcome[g] = "failed" THEN UNCHANGED posted ELSE PostCallback("done", g)
  /\ UNCHANGED <<opVars, viewVars, dialogVars, uiClosing, input, outcome,
                 updates, ticker>>

\* The deferred function posts the completion callback and ends.
WorkerPostsCompletion(g) ==
  /\ worker[g] = "returned"
  /\ worker' = [worker EXCEPT ![g] = "finished"]
  /\ PostCallback("done", g)
  /\ UNCHANGED <<opVars, viewVars, dialogVars, uiClosing, input, outcome,
                 updates, ticker>>

\* consumeProgress: the channel is drained even after the worker closed it.
ConsumeProgress(g) ==
  /\ updates[g] > 0
  /\ Len(posted) < MaxPosted
  /\ updates' = [updates EXCEPT ![g] = @ - 1]
  /\ PostCallback("progress", g)
  /\ UNCHANGED <<opVars, viewVars, dialogVars, uiClosing, worker, input,
                 outcome, ticker>>

\* tickElapsed: a tick may win the select although ctx or done is ready too.
TickElapsed(g) ==
  /\ ticker[g]
  /\ Len(posted) < MaxPosted
  /\ PostCallback("tick", g)
  /\ UNCHANGED <<opVars, viewVars, dialogVars, uiClosing, goVars>>

TickerStops(g) ==
  /\ ticker[g]
  /\ g \in cancelled \/ worker[g] \in {"returned", "finished"}
  /\ ticker' = [ticker EXCEPT ![g] = FALSE]
  /\ UNCHANGED <<opVars, viewVars, dialogVars, uiClosing, worker, input,
                 outcome, updates, posted>>

-----------------------------------------------------------------------------
(* Posted callbacks, run by the UI thread in the order they were posted.   *)

NextCallback(type, g) ==
  /\ posted # <<>>
  /\ Head(posted) = [type |-> type, generation |-> g]
  /\ posted' = Tail(posted)

\* Mutant: the token is checked before posting instead of in the callback.
CheckedBeforePosting(g) == ~uiClosing

\* The token captured by a callback's closure is still in force.
Current(g) == ~uiClosing /\ Accepts(issued[g])

DropCallback(type, g) ==
  /\ NextCallback(type, g)
  /\ ~Current(g)
  /\ UNCHANGED <<opVars, viewVars, dialogVars, uiClosing, goVars>>

\* The stage is shown with every update, the status line if it has a message.
ShowProgress(g) ==
  /\ NextCallback("progress", g)
  /\ Current(g)
  /\ progressOf' = g
  /\ statusOf' \in {statusOf, g}
  /\ UNCHANGED <<opVars, surfaceReport, rows, elapsedOf, dialogVars,
                 uiClosing, goVars>>

ShowElapsed(g) ==
  /\ NextCallback("tick", g)
  /\ Current(g)
  /\ elapsedOf' = g
  /\ UNCHANGED <<opVars, surfaceReport, rows, statusOf, progressOf, dialogVars,
                 uiClosing, goVars>>

\* A completion that has been acted on is gone with the result it captured.
ForgetResult(g) ==
  /\ outcome' = [outcome EXCEPT ![g] = "none"]
  /\ UNCHANGED <<worker, input, updates, ticker>>

\* A failure is reported in a message box once the state is settled, over
\* another dialog if one is open.
MessageBox(shown) ==
  /\ modal' = IF shown /\ modal = "none" THEN "message" ELSE modal
  /\ UNCHANGED captured

\* Mutant: a scan that finished in spite of its cancellation is published.
PublishesByOutcome(g) == outcome[g] \in {"ok", "empty"}

\* The scan succeeded and was not being cancelled: its results are published.
Publishes(g) ==
  /\ outcome[g] \in {"ok", "empty"}
  /\ phase \notin {"SurfaceCancelling", "DuplicateCancelling"}

Failed(g) ==
  /\ outcome[g] = "failed"
  /\ phase \notin {"SurfaceCancelling", "DuplicateCancelling"}

\* Only a scan that is published rewrites more than the status line; the path
\* last read stays in the current-path label even then.
SurfaceScanFinished(g) ==
  /\ NextCallback("done", g)
  /\ Current(g)
  /\ CompleteSurfaceScan(issued[g], outcome[g] = "ok")
  /\ HandlerStatus
  /\ IF Publishes(g)
       THEN /\ surfaceReport' = issued[g].folderRevision
            /\ rows' = [kind |-> "surface", revision |-> issued[g].folderRevision]
            /\ elapsedOf' = g
       ELSE UNCHANGED <<surfaceReport, rows, elapsedOf>>
  /\ MessageBox(Failed(g))
  /\ ForgetResult(g)
  /\ UNCHANGED <<progressOf, uiClosing>>

ScanFinished(g) ==
  /\ NextCallback("done", g)
  /\ Current(g)
  /\ CompleteDuplicateScan(issued[g], outcome[g] \in {"ok", "empty"})
  /\ HandlerStatus
  /\ IF Publishes(g)
       THEN /\ rows' = IF outcome[g] = "ok"
                       THEN [kind |-> "groups", revision |-> input[g]]
                       ELSE [kind |-> "unique", revision |-> surfaceReport]
            /\ elapsedOf' = g
       ELSE UNCHANGED <<rows, elapsedOf>>
  /\ MessageBox(Failed(g))
  /\ ForgetResult(g)
  /\ UNCHANGED <<surfaceReport, progressOf, uiClosing>>

\* When the completion of a protected operation lets a pending close through,
\* the handler closes the window itself, and the second request is granted.
ReportExportFinished(g) ==
  /\ NextCallback("done", g)
  /\ Current(g)
  /\ CompleteExport(issued[g])
  /\ uiClosing' = allowClose'
  /\ HandlerStatus
  /\ MessageBox(outcome[g] = "failed" /\ ~allowClose')
  /\ ForgetResult(g)
  /\ UNCHANGED <<surfaceReport, rows, progressOf, elapsedOf>>

\* removeDeleted drops the groups left with fewer than two rows; outcome
\* "empty" stands for a batch that leaves no group.
ApplyRecycleBatch(g) ==
  /\ NextCallback("done", g)
  /\ Current(g)
  /\ CompleteDelete(issued[g])
  /\ rows' = IF outcome[g] = "empty" THEN NoRows ELSE rows
  /\ uiClosing' = allowClose'
  /\ HandlerStatus
  /\ \E issues \in BOOLEAN : MessageBox(issues /\ ~allowClose')
  /\ ForgetResult(g)
  /\ UNCHANGED <<surfaceReport, progressOf, elapsedOf>>

RunCallback ==
  \E g \in Generations :
    \/ \E type \in {"progress", "tick", "done"} : DropCallback(type, g)
    \/ ShowProgress(g)
    \/ ShowElapsed(g)
    \/ SurfaceScanFinished(g)
    \/ ScanFinished(g)
    \/ ReportExportFinished(g)
    \/ ApplyRecycleBatch(g)

-----------------------------------------------------------------------------

UserInput ==
  \/ MessageShown
  \/ SelectFolderClicked
  \/ \E f \in Folders : FolderChosen(f)
  \/ StartSurfaceScan
  \/ StartDuplicateScan
  \/ CancelClicked
  \/ ClearClicked
  \/ ResetAll
  \/ ExportClicked
  \/ ExportDestinationChosen
  \/ DeleteClicked
  \/ DeleteConfirmed
  \/ DismissDialog
  \/ WindowClosing

Goroutine(g) ==
  \/ WorkerReportsProgress(g)
  \/ WorkerReturns(g)
  \/ WorkerPostsCompletion(g)
  \/ ConsumeProgress(g)
  \/ TickElapsed(g)
  \/ TickerStops(g)

\* The window is gone and every goroutine has ended: the process has exited.
Terminated ==
  /\ uiClosing
  /\ modal = "none"
  /\ posted = <<>>
  /\ \A g \in Generations :
       worker[g] \in {"none", "finished"} /\ updates[g] = 0 /\ ~ticker[g]
  /\ UNCHANGED vars

WorkflowNext ==
  \/ UserInput
  \/ \E g \in Generations : Goroutine(g)
  \/ RunCallback
  \/ Terminated

WorkflowSpec == WorkflowInit /\ [][WorkflowNext]_vars

\* The Go scheduler runs every goroutine, file operations return, and Windows
\* keeps dispatching messages; the user is not obliged to do anything.
Fairness ==
  /\ \A g \in Generations :
       /\ WF_vars(WorkerReturns(g))
       /\ WF_vars(WorkerPostsCompletion(g))
  /\ WF_vars(RunCallback)

FairWorkflowSpec == WorkflowSpec /\ Fairness

-----------------------------------------------------------------------------
(* Properties.                                                             *)

\* The types of the window's fields, the goroutines and the posted callbacks.
WorkflowTypeOK ==
  /\ TypeOK
  /\ surfaceReport \in 0..MaxRevision
  /\ rows \in Rows
  /\ modal \in Modals
  /\ captured \in Rows
  /\ statusOf \in 0..MaxGeneration
  /\ progressOf \in 0..MaxGeneration
  /\ elapsedOf \in 0..MaxGeneration
  /\ uiClosing \in BOOLEAN
  /\ worker \in [Generations -> WorkerStates]
  /\ input \in [Generations -> 0..MaxRevision]
  /\ outcome \in [Generations -> Outcomes]
  /\ updates \in [Generations -> 0..ProgressCapacity]
  /\ ticker \in [Generations -> BOOLEAN]
  /\ posted \in Seq(Callbacks)

\* Whatever the table and the surface report show, and whatever a running
\* worker was given, is of the folder now selected, and each phase has the
\* data its name promises: a cancelled scan returns to the last coherent state.
ResultsMatchPhase ==
  /\ WorkflowTypeOK
  /\ phase \in {"NoFolder", "FolderReady", "SurfaceScanning",
                "SurfaceCancelling"} =>
       surfaceReport = 0 /\ rows = NoRows
  /\ phase \in {"SurfaceReady", "DuplicateScanning", "DuplicateCancelling"} =>
       /\ surfaceReport = folderRevision
       /\ rows \in {NoRows, [kind |-> "surface", revision |-> folderRevision]}
  /\ phase \in {"ResultsReady"} \cup PhasesOf["export"] \cup PhasesOf["delete"] =>
       /\ surfaceReport = folderRevision
       /\ rows.kind \in {"none", "unique", "groups"}
       /\ rows.kind # "none" => rows.revision = folderRevision
  /\ \A g \in Generations :
       Accepts(issued[g]) /\ issued[g].kind # "surface" =>
         input[g] = folderRevision

\* Only one worker goroutine is at work, and as long as the window is open it
\* is the one whose token is in force.
OneWorkerAtATime ==
  \A g \in Generations : worker[g] \in {"running", "returned"} =>
    /\ \A h \in Generations \ {g} : worker[h] \notin {"running", "returned"}
    /\ ~uiClosing => active.generation = g

\* A token is in force only while its worker is at work or its completion is on
\* the way to the UI thread, so the acknowledgement can never be missing, and
\* no completion is posted twice.
AcknowledgementPending ==
  LET pending(g) == {i \in 1..Len(posted) :
                       posted[i] = [type |-> "done", generation |-> g]} IN
  /\ active # NoToken =>
       \/ worker[active.generation] \in {"running", "returned"}
       \/ pending(active.generation) # {}
  /\ \A g \in Generations :
       /\ pending(g) # {} => worker[g] = "finished"
       /\ \A i, j \in pending(g) : i = j

\* The process never exits under a report writer with a staging file, nor under
\* a recycle batch.
NoProtectedWorkerAtExit ==
  uiClosing => \A g \in Generations :
    worker[g] \in {"running", "returned"} =>
      issued[g].kind \notin {"export", "delete"}

\* Generation g is of the selected folder, and no scan was begun after it.
NewestScan(g) ==
  /\ issued[g].folderRevision = folderRevision
  /\ \A h \in Generations : issued[h].kind \in {"surface", "duplicate"} => h <= g

\* Late callbacks never overwrite the labels.  The status line shows progress of
\* the operation in force only.  The other labels and the elapsed time outlive
\* their operation, after a failure or a cancellation too, but they are never
\* of another folder, nor of a scan after which a newer one was begun.
LabelsAreCurrent ==
  ~uiClosing =>
    /\ statusOf # 0 => active.generation = statusOf
    /\ \A shown \in {progressOf, elapsedOf} \ {0} : NewestScan(shown)

\* What a handler captured before its dialog still is what the table shows
\* while the dialog is up.  A message box may be open during an operation; the
\* dialogs whose answer is acted upon never are, so that no completion can
\* change the rows behind them or open a box over them.
CapturedStaysFresh ==
  /\ modal \in {"folder", "export", "delete"} => active = NoToken
  /\ modal \in {"export", "delete"} =>
       captured = rows /\ phase \in {"ResultsReady", "Closing"}

\* Rows are published only by an operation nobody has cancelled.
CancelledNeverPublishes ==
  [][rows' # rows /\ rows' # NoRows => active.generation \notin cancelled]_vars

\* Every operation is eventually retired, and a cancelled one with it.
OperationsRetire ==
  \A g \in Generations : active.generation = g ~> active.generation # g

\* A close request that had to wait is eventually granted.
DeferredCloseCompletes == closeRequested ~> uiClosing

\* The workflow keeps the contract of module ForegroundOperation.
Contract == INSTANCE ForegroundOperation WITH
  Ids <- Generations,
  window <- IF uiClosing THEN "closed"
            ELSE IF closeRequested THEN "closing" ELSE "open",
  current <- active.generation,
  protected <- active.kind \in {"export", "delete"},
  begun <- {g \in Generations : issued[g] # NoToken}

KeepsContract == Contract!ContractSpec
=============================================================================
