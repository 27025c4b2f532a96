--------------------------- MODULE PreviewWorker ---------------------------
(***************************************************************************)
(* Previews: the UI thread submits requests to a queue that keeps the       *)
(* newest, one goroutine prepares them and posts the results back           *)
(* (internal/gui/preview_state.go, preview_worker_windows.go).  A comparison *)
(* of several files is a page in a temporary directory of its own, which     *)
(* whoever holds the result has to remove or to hand on.                    *)
(*                                                                         *)
(* The rest of the window is what it does to previews: scans and deletes    *)
(* publish rows and messages, exports only make the phase busy, a new folder *)
(* changes the folder revision, and closing stops the goroutine.            *)
(***************************************************************************)
EXTENDS Naturals, Sequences

CONSTANTS
  MaxGeneration,     \* bound on generations
  MaxFolderRevision  \* bound on changes of the folder

ASSUME PreviewAssumption ==
  MaxGeneration \in Nat \ {0} /\ MaxFolderRevision \in Nat

Modes == {"single", "comparison"}
Tokens == [generation : 1..MaxGeneration, modelRevision : 0..MaxGeneration,
           folderRevision : 0..MaxFolderRevision]
NoToken == [generation |-> 0, modelRevision |-> 0, folderRevision |-> 0]
Requests == [token : Tokens, mode : Modes]
NoRequest == [token |-> NoToken, mode |-> "single"]
\* dir is the generation of the request the directory was made for, or 0.
NoResult == [token |-> NoToken, dir |-> 0, failed |-> FALSE]

VARIABLES
  nextGeneration, modelRevision, active,  \* previewGenerationState
  folderRevision, phase,                  \* of operationState
  previewCancel,   \* the request whose CancelFunc is kept, 0 for none
  cancelled,       \* the requests whose context is cancelled
  currentDir,      \* the directory on display, 0 for none
  interrupted,     \* the active request's result was dropped in a busy phase
  ui, outgoing,    \* the UI thread, and the request it is submitting
  queue,           \* the channel, of capacity one
  pc, request, result,  \* the goroutine
  posted,          \* results posted to the UI thread
  closed,          \* the goroutine was told to stop
  uiClosing,
  dirs             \* directories on disk

requestVars == <<nextGeneration, modelRevision, active, previewCancel, cancelled,
                 currentDir, interrupted>>
appVars == <<folderRevision, phase, closed, uiClosing>>
submitVars == <<ui, outgoing>>
workerVars == <<pc, request, result>>
vars == <<requestVars, appVars, submitVars, queue, workerVars, posted, dirs>>

Init ==
  /\ nextGeneration = 0 /\ modelRevision = 0 /\ active = NoToken
  /\ folderRevision = 0 /\ phase = "ready"
  /\ previewCancel = 0 /\ cancelled = {}
  /\ currentDir = 0 /\ interrupted = FALSE
  /\ ui = "loop" /\ outgoing = NoRequest
  /\ queue = NoRequest
  /\ pc = "waiting" /\ request = NoRequest /\ result = NoResult
  /\ posted = <<>>
  /\ closed = FALSE /\ uiClosing = FALSE
  /\ dirs = {}

-----------------------------------------------------------------------------
(* The UI thread.                                                          *)

AtLoop == ui = "loop" /\ ~uiClosing

\* The bound leaves room for the end of a scan and for the close.
Room(n) == nextGeneration + n + 2 <= MaxGeneration

\* cleanupPreviewArtifact; 0 stands for the empty path.
Without(dir) == dirs \ {dir}

\* invalidatePreview.
Invalidate ==
  /\ nextGeneration' = nextGeneration + 1
  /\ modelRevision' = modelRevision + 1
  /\ active' = NoToken
  /\ cancelled' = cancelled \cup ({previewCancel} \ {0})
  /\ previewCancel' = 0
  /\ currentDir' = 0
  /\ dirs' = Without(currentDir)
  /\ interrupted' = FALSE

\* The table publishes rows or the selection changes in a busy phase.
RowsPublished ==
  /\ AtLoop /\ Room(1)
  /\ Invalidate
  /\ UNCHANGED <<appVars, submitVars, queue, workerVars, posted>>

\* requestPreparedPreview up to submit: invalidate, then begin.
PreviewRequested(mode) ==
  /\ AtLoop /\ phase = "ready" /\ ~closed
  /\ Room(2)
  /\ LET token == [generation     |-> nextGeneration + 2,
                   modelRevision  |-> modelRevision + 1,
                   folderRevision |-> folderRevision]
     IN /\ nextGeneration' = nextGeneration + 2
        /\ modelRevision' = modelRevision + 1
        /\ active' = token
        /\ previewCancel' = token.generation
        /\ outgoing' = [token |-> token, mode |-> mode]
  /\ cancelled' = cancelled \cup ({previewCancel} \ {0})
  /\ currentDir' = 0
  /\ dirs' = Without(currentDir)
  /\ interrupted' = FALSE
  /\ ui' = "send"
  /\ UNCHANGED <<appVars, queue, workerVars, posted>>

Submitted(next) ==
  /\ ui' = next
  /\ outgoing' = IF next = "loop" THEN NoRequest ELSE outgoing
  /\ UNCHANGED <<requestVars, appVars, workerVars, posted, dirs>>

\* submit: a send that does not block, a receive that does not, a second send.
Send ==
  /\ ui = "send"
  /\ IF queue = NoRequest THEN queue' = outgoing /\ Submitted("loop")
     ELSE UNCHANGED queue /\ Submitted("drain")

\* Mutant: a full queue keeps what it has.
DrainNothing == ui = "drain" /\ UNCHANGED queue /\ Submitted("resend")

Drain == ui = "drain" /\ queue' = NoRequest /\ Submitted("resend")

Resend ==
  /\ ui = "resend"
  /\ queue' = IF queue = NoRequest THEN outgoing ELSE queue
  /\ Submitted("loop")

ScanBegins ==
  /\ AtLoop /\ phase = "ready" /\ Room(1)
  /\ phase' = "scan"
  /\ Invalidate
  /\ UNCHANGED <<folderRevision, closed, uiClosing, submitVars, queue, workerVars, posted>>

ScanEnds ==
  /\ AtLoop /\ phase = "scan"
  /\ phase' = "ready"
  /\ Invalidate
  /\ UNCHANGED <<folderRevision, closed, uiClosing, submitVars, queue, workerVars, posted>>

\* An export leaves the preview alone.
ExportBegins ==
  /\ AtLoop /\ phase = "ready"
  /\ phase' = "export"
  /\ UNCHANGED <<requestVars, folderRevision, closed, uiClosing, submitVars, queue,
                 workerVars, posted, dirs>>

\* If the window was waiting to close it closes now.
ExportEnds ==
  /\ AtLoop /\ phase = "export"
  /\ phase' = "ready"
  /\ uiClosing' = closed
  /\ UNCHANGED <<requestVars, folderRevision, closed, submitVars, queue, workerVars,
                 posted, dirs>>

FolderSelected ==
  /\ AtLoop /\ phase = "ready" /\ Room(1)
  /\ folderRevision < MaxFolderRevision
  /\ folderRevision' = folderRevision + 1
  /\ Invalidate
  /\ UNCHANGED <<phase, closed, uiClosing, submitVars, queue, workerVars, posted>>

\* handleWindowClosing: stopPreviewWorker in any case, whether the window closes
\* at once or waits for the export.
WindowClosing ==
  /\ AtLoop /\ ~closed
  /\ Invalidate
  /\ closed' = TRUE
  /\ uiClosing' = (phase # "export")
  /\ UNCHANGED <<folderRevision, phase, submitVars, queue, workerVars, posted>>

\* Mutant: a stale result is dropped with its directory.
StaleDropped(r) == UNCHANGED <<requestVars, dirs>>

\* The token is no longer in force, or the phase has no previews.
ResultDropped(r) ==
  /\ dirs' = Without(r.dir)
  /\ interrupted' = (interrupted \/ active = r.token)
  /\ UNCHANGED <<nextGeneration, modelRevision, active, previewCancel, cancelled,
                 currentDir>>

\* A failed result, or a page that cannot be shown, leaves no directory.
ResultShown(r) ==
  /\ previewCancel' = 0
  /\ \E shown \in {0, IF r.failed THEN 0 ELSE r.dir} :
       /\ currentDir' = shown
       /\ dirs' = dirs \ ({currentDir, r.dir} \ {shown})
  /\ UNCHANGED <<nextGeneration, modelRevision, active, cancelled, interrupted>>

\* applyPreparedPreview.
Applied(r) ==
  IF /\ active = r.token
     /\ r.token.modelRevision = modelRevision
     /\ r.token.folderRevision = folderRevision
     /\ phase = "ready"
  THEN ResultShown(r)
  ELSE ResultDropped(r)

\* The callback posted by the goroutine; once the window closes none runs.
Callback ==
  /\ ui = "loop" /\ posted # <<>>
  /\ posted' = Tail(posted)
  /\ IF uiClosing THEN UNCHANGED <<requestVars, dirs>>
     ELSE IF closed THEN dirs' = Without(Head(posted).dir) /\ UNCHANGED requestVars
     ELSE Applied(Head(posted))
  /\ UNCHANGED <<appVars, submitVars, queue, workerVars>>

-----------------------------------------------------------------------------
(* runPreviewWorker.                                                       *)

Worker(next) ==
  /\ pc' = next
  /\ UNCHANGED <<requestVars, appVars, submitVars>>

Prepared(dir, failed) ==
  result' = [token |-> request.token, dir |-> dir, failed |-> failed]

Gone == request.token.generation \in cancelled

\* The select: with both ready either may be taken.
Stops ==
  /\ pc = "waiting" /\ closed
  /\ Worker("ended")
  /\ UNCHANGED <<queue, request, result, posted, dirs>>

Receives ==
  /\ pc = "waiting" /\ queue # NoRequest
  /\ request' = queue
  /\ queue' = NoRequest
  /\ Worker("start")
  /\ UNCHANGED <<result, posted, dirs>>

Discards(dir) ==
  /\ dirs' = Without(dir)
  /\ request' = NoRequest
  /\ result' = NoResult
  /\ Worker("waiting")
  /\ UNCHANGED <<queue, posted>>

\* A request cancelled is not prepared, or not to its end.
Abandons == pc \in {"start", "page"} /\ Gone /\ Discards(request.token.generation)

\* A preview of one file, or a comparison whose directory cannot be made.
PreparesSingle ==
  /\ pc = "start" /\ ~Gone
  /\ Prepared(0, request.mode = "comparison")
  /\ Worker("prepared")
  /\ UNCHANGED <<queue, request, posted, dirs>>

MakesDirectory ==
  /\ pc = "start" /\ ~Gone /\ request.mode = "comparison"
  /\ dirs' = dirs \cup {request.token.generation}
  /\ Worker("page")
  /\ UNCHANGED <<queue, request, result, posted>>

\* The page is written, or writing fails and the directory is removed.
WritesPage ==
  /\ pc = "page" /\ ~Gone
  /\ \E failed \in BOOLEAN :
       LET dir == request.token.generation IN
       /\ Prepared(IF failed THEN 0 ELSE dir, failed)
       /\ dirs' = IF failed THEN Without(dir) ELSE dirs
  /\ Worker("prepared")
  /\ UNCHANGED <<queue, request, posted>>

\* The first look at closed.
SeesClosed == pc = "prepared" /\ closed /\ Discards(result.dir)

SeesOpen ==
  /\ pc = "prepared" /\ ~closed
  /\ Worker("posting")
  /\ UNCHANGED <<queue, request, result, posted, dirs>>

\* synchronizeUI, which drops the callback once the window is closing.
Posts ==
  /\ pc = "posting"
  /\ posted' = IF uiClosing THEN posted ELSE Append(posted, result)
  /\ request' = NoRequest
  /\ result' = NoResult
  /\ Worker("waiting")
  /\ UNCHANGED <<queue, dirs>>

-----------------------------------------------------------------------------

Submitting == Send \/ Drain \/ Resend

Goroutine ==
  \/ Stops \/ Receives \/ Abandons
  \/ PreparesSingle \/ MakesDirectory \/ WritesPage
  \/ SeesClosed \/ SeesOpen \/ Posts

Terminated == uiClosing /\ pc = "ended" /\ posted = <<>> /\ UNCHANGED vars

Next ==
  \/ RowsPublished
  \/ \E mode \in Modes : PreviewRequested(mode)
  \/ ScanBegins \/ ScanEnds \/ ExportBegins \/ ExportEnds \/ FolderSelected
  \/ WindowClosing
  \/ Submitting \/ Callback
  \/ Goroutine
  \/ Terminated

Spec == Init /\ [][Next]_vars

\* The message loop runs posted callbacks, and preparing a preview ends.
FairSpec == Spec /\ WF_vars(Submitting) /\ WF_vars(Callback) /\ WF_vars(Goroutine)

-----------------------------------------------------------------------------
(* Properties.                                                             *)

\* The types of the variables; the token in force is always the newest, and
\* was made for the rows now shown.
TypeOK ==
  /\ nextGeneration \in 0..MaxGeneration /\ modelRevision \in 0..MaxGeneration
  /\ folderRevision \in 0..MaxFolderRevision
  /\ phase \in {"ready", "scan", "export"}
  /\ active \in Tokens \cup {NoToken}
  /\ active # NoToken =>
       active = [generation |-> nextGeneration, modelRevision |-> modelRevision,
                 folderRevision |-> folderRevision]
  /\ previewCancel \in {0, active.generation}
  /\ cancelled \in SUBSET (1..MaxGeneration)
  /\ currentDir \in 0..MaxGeneration
  /\ dirs \in SUBSET (1..MaxGeneration)
  /\ interrupted \in BOOLEAN /\ closed \in BOOLEAN /\ uiClosing \in BOOLEAN
  /\ ui \in {"loop", "send", "drain", "resend"}
  /\ {outgoing, queue, request} \subseteq Requests \cup {NoRequest}
  /\ pc \in {"waiting", "start", "page", "prepared", "posting", "ended"}

InFlight == {posted[i] : i \in DOMAIN posted} \cup {result}

\* While the window is open no directory is forgotten: each is on display, or
\* the goroutine's, or on its way to the UI thread.  The one on display is that
\* of the request in force and is there.
DirectoriesAccounted ==
  /\ ~uiClosing =>
       dirs \subseteq {currentDir, request.token.generation}
                        \cup {r.dir : r \in InFlight}
  /\ currentDir # 0 => currentDir = active.generation /\ currentDir \in dirs

\* The newest request wins: until it is answered it is being submitted, queued,
\* prepared or posted, whatever was requested before it.
NewestInFlight ==
  previewCancel # 0 /\ ~interrupted =>
    \/ active \in {outgoing.token, queue.token, request.token}
    \/ active \in {r.token : r \in InFlight}

\* A directory or a request is never lost between the UI thread and the worker,
\* and the token in force is of the rows shown.
NothingLost == TypeOK /\ DirectoriesAccounted /\ NewestInFlight

\* Every request is answered or superseded, unless its answer came while an
\* operation was running, in which case it is dropped.
RequestsAnswered ==
  \A g \in 1..MaxGeneration :
    previewCancel = g ~> previewCancel # g \/ interrupted
=============================================================================
