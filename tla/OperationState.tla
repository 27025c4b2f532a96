--------------------------- MODULE OperationState ---------------------------
(***************************************************************************)
(* The foreground-operation state machine of internal/gui/operation_state.go *)
(* (type operationState).  Each method is one action, enabled exactly when *)
(* the method accepts the call; a rejected call returns an error or false  *)
(* and changes nothing.  The module is specified against an arbitrary      *)
(* caller: any method may be called at any time, a completion may carry    *)
(* any token ever handed out, in any order and any number of times.        *)
(* AppWorkflow composes these actions with the window and the goroutines.  *)
(***************************************************************************)
EXTENDS Naturals

CONSTANTS
  Folders,        \* the folders the user can pick
  NoFolder,       \* the empty folder string
  MaxGeneration,  \* bound on nextGeneration, a uint64 in the code
  MaxRevision     \* bound on folderRevision, a uint64 in the code

ASSUME OperationAssumption ==
  /\ NoFolder \notin Folders
  /\ MaxGeneration \in Nat
  /\ MaxRevision \in Nat

VARIABLES
  phase,
  folder,
  folderRevision,
  nextGeneration,
  active,          \* the operation token in force, NoToken for a nil pointer
  cancel,          \* the stored CancelFunc, named by its generation; 0 is nil
  closeRequested,
  allowClose,
  issued,          \* the tokens handed out so far: goroutines hold copies
  cancelled        \* generations whose context has been cancelled

opVars == <<phase, folder, folderRevision, nextGeneration, active, cancel,
            closeRequested, allowClose, issued, cancelled>>

Generations == 1..MaxGeneration

Kinds == {"surface", "duplicate", "export", "delete"}

IdlePhases == {"NoFolder", "FolderReady", "SurfaceReady", "ResultsReady"}

\* The phases in which an operation of each kind is in progress.
PhasesOf == [surface   |-> {"SurfaceScanning", "SurfaceCancelling"},
             duplicate |-> {"DuplicateScanning", "DuplicateCancelling"},
             export    |-> {"Exporting", "ExportCancelling",
                            "ClosingAfterExport"},
             delete    |-> {"Deleting", "ClosingAfterDelete"},
             none      |-> {}]

BusyPhases == PhasesOf["surface"] \cup PhasesOf["duplicate"]
                \cup PhasesOf["export"] \cup PhasesOf["delete"]

Phases == IdlePhases \cup BusyPhases \cup {"Closing"}

Tokens == [generation     : Generations,
           folderRevision : 0..MaxRevision,
           kind           : Kinds,
           folder         : Folders \cup {NoFolder}]

NoToken == [generation |-> 0, folderRevision |-> 0,
            kind |-> "none", folder |-> NoFolder]

Init ==
  /\ phase = "NoFolder"
  /\ folder = NoFolder
  /\ folderRevision = 0
  /\ nextGeneration = 0
  /\ active = NoToken
  /\ cancel = 0
  /\ closeRequested = FALSE
  /\ allowClose = FALSE
  /\ issued = [g \in Generations |-> NoToken]
  /\ cancelled = {}

-----------------------------------------------------------------------------
(* Helpers shared by the methods.                                          *)

CanChangeFolder == phase \in IdlePhases

\* accepts: the token is the active one and the phase is one of its kind.
Accepts(t) ==
  /\ t # NoToken
  /\ active = t
  /\ phase \in PhasesOf[t.kind]

\* Mutant: the CancelFunc is called but stays stored.
KeepsCancelFunc ==
  /\ cancelled' = cancelled \cup ({cancel} \ {0})
  /\ UNCHANGED cancel

\* invokeCancellation: the stored CancelFunc is taken out and then called.
InvokeCancellation ==
  /\ cancelled' = cancelled \cup ({cancel} \ {0})
  /\ cancel' = 0

InvalidateActiveOperation ==
  /\ InvokeCancellation
  /\ active' = NoToken
  /\ nextGeneration' = nextGeneration + 1

ClearActiveOperation ==
  /\ active' = NoToken
  /\ cancel' = 0
  /\ UNCHANGED cancelled

NewToken(kind) == [generation     |-> nextGeneration + 1,
                   folderRevision |-> folderRevision,
                   kind           |-> kind,
                   folder         |-> folder]

\* Mutant: nextGeneration is read but never stored back.
ReusesGeneration(kind, to) ==
  LET token == [NewToken(kind) EXCEPT !.generation = 1] IN
  /\ nextGeneration < MaxGeneration
  /\ active' = token
  /\ issued' = [issued EXCEPT ![1] = token]
  /\ cancel' = IF kind = "delete" THEN 0 ELSE 1
  /\ phase' = to
  /\ UNCHANGED <<nextGeneration, folder, folderRevision, closeRequested,
                 allowClose, cancelled>>

\* beginOperation; only a delete is started without a CancelFunc.
BeginOperation(kind, to) ==
  LET token == NewToken(kind) IN
  /\ nextGeneration < MaxGeneration
  /\ nextGeneration' = token.generation
  /\ active' = token
  /\ issued' = [issued EXCEPT ![token.generation] = token]
  /\ cancel' = IF kind = "delete" THEN 0 ELSE token.generation
  /\ phase' = to
  /\ UNCHANGED <<folder, folderRevision, closeRequested, allowClose, cancelled>>

-----------------------------------------------------------------------------
(* Folder boundaries.                                                      *)

ChangeFolder(f, to) ==
  /\ CanChangeFolder
  /\ folderRevision < MaxRevision
  /\ nextGeneration < MaxGeneration
  /\ InvalidateActiveOperation
  /\ folderRevision' = folderRevision + 1
  /\ folder' = f
  /\ phase' = to
  /\ UNCHANGED <<closeRequested, allowClose, issued>>

SelectFolder(f) == ChangeFolder(f, "FolderReady")

Reset == ChangeFolder(NoFolder, "NoFolder")

ClearResults ==
  /\ phase = "ResultsReady"
  /\ phase' = "SurfaceReady"
  /\ UNCHANGED <<folder, folderRevision, nextGeneration, active, cancel,
                 closeRequested, allowClose, issued, cancelled>>

-----------------------------------------------------------------------------
(* Scans.                                                                  *)

BeginSurfaceScan ==
  /\ phase = "FolderReady"
  /\ BeginOperation("surface", "SurfaceScanning")

CompleteSurfaceScan(t, successful) ==
  /\ t.kind = "surface"
  /\ Accepts(t)
  /\ phase' = IF successful /\ phase # "SurfaceCancelling"
              THEN "SurfaceReady" ELSE "FolderReady"
  /\ ClearActiveOperation
  /\ UNCHANGED <<folder, folderRevision, nextGeneration, closeRequested,
                 allowClose, issued>>

BeginDuplicateScan ==
  /\ phase = "SurfaceReady"
  /\ BeginOperation("duplicate", "DuplicateScanning")

CompleteDuplicateScan(t, successful) ==
  /\ t.kind = "duplicate"
  /\ Accepts(t)
  /\ phase' = IF successful /\ phase # "DuplicateCancelling"
              THEN "ResultsReady" ELSE "SurfaceReady"
  /\ ClearActiveOperation
  /\ UNCHANGED <<folder, folderRevision, nextGeneration, closeRequested,
                 allowClose, issued>>

\* Mutant: cancelling returns to the idle phase without waiting for the worker.
CancelRetiresScan ==
  /\ phase \in {"SurfaceScanning", "DuplicateScanning"}
  /\ phase' = IF phase = "SurfaceScanning" THEN "FolderReady" ELSE "SurfaceReady"
  /\ InvokeCancellation
  /\ active' = NoToken
  /\ UNCHANGED <<folder, folderRevision, nextGeneration, closeRequested,
                 allowClose, issued>>

RequestScanCancellation ==
  /\ phase \in {"SurfaceScanning", "DuplicateScanning"}
  /\ phase' = IF phase = "SurfaceScanning"
              THEN "SurfaceCancelling" ELSE "DuplicateCancelling"
  /\ InvokeCancellation
  /\ UNCHANGED <<folder, folderRevision, nextGeneration, active,
                 closeRequested, allowClose, issued>>

-----------------------------------------------------------------------------
(* Report export and recycling: the two protected operations.              *)

BeginExport ==
  /\ phase = "ResultsReady"
  /\ BeginOperation("export", "Exporting")

RequestExportCancellation ==
  /\ phase = "Exporting"
  /\ phase' = "ExportCancelling"
  /\ InvokeCancellation
  /\ UNCHANGED <<folder, folderRevision, nextGeneration, active,
                 closeRequested, allowClose, issued>>

BeginDelete ==
  /\ phase = "ResultsReady"
  /\ BeginOperation("delete", "Deleting")

\* Mutant: a close requested during the operation is overlooked.
ForgetsDeferredClose(t, closing) ==
  /\ Accepts(t)
  /\ phase' = "ResultsReady"
  /\ ClearActiveOperation
  /\ UNCHANGED <<folder, folderRevision, nextGeneration, allowClose,
                 closeRequested, issued>>

\* The common body of completeExport and completeDelete: a pending close wins
\* over a return to the results.  The method's shouldClose is allowClose'.
CompleteProtected(t, closing) ==
  /\ Accepts(t)
  /\ phase' = IF phase = closing THEN "Closing" ELSE "ResultsReady"
  /\ allowClose' = (phase = closing)
  /\ ClearActiveOperation
  /\ UNCHANGED <<folder, folderRevision, nextGeneration, closeRequested,
                 issued>>

CompleteExport(t) ==
  t.kind = "export" /\ CompleteProtected(t, "ClosingAfterExport")

CompleteDelete(t) ==
  t.kind = "delete" /\ CompleteProtected(t, "ClosingAfterDelete")

-----------------------------------------------------------------------------
(* requestClose; closeNow is returned exactly when allowClose' holds.      *)

\* Mutant: an export is abandoned like a scan.
ClosesDuringExport ==
  /\ phase \in {"Exporting", "ExportCancelling"}
  /\ InvalidateActiveOperation
  /\ phase' = "Closing"
  /\ allowClose' = TRUE

DeferCloseForExport ==
  /\ phase \in {"Exporting", "ExportCancelling"}
  /\ phase' = "ClosingAfterExport"
  /\ InvokeCancellation
  /\ UNCHANGED <<active, nextGeneration, allowClose>>

DeferCloseForDelete ==
  /\ phase = "Deleting"
  /\ phase' = "ClosingAfterDelete"
  /\ UNCHANGED <<active, nextGeneration, allowClose, cancel, cancelled>>

StayDeferred ==
  /\ phase \in {"ClosingAfterExport", "ClosingAfterDelete"}
  /\ UNCHANGED <<phase, active, nextGeneration, allowClose, cancel, cancelled>>

CloseAtOnce ==
  /\ phase \notin PhasesOf["export"] \cup PhasesOf["delete"]
  /\ InvalidateActiveOperation
  /\ phase' = "Closing"
  /\ allowClose' = TRUE

RequestClose ==
  \/ /\ allowClose
     /\ UNCHANGED opVars
  \/ /\ ~allowClose
     /\ closeRequested' = TRUE
     /\ \/ DeferCloseForExport
        \/ DeferCloseForDelete
        \/ StayDeferred
        \/ CloseAtOnce
     /\ UNCHANGED <<folder, folderRevision, issued>>

-----------------------------------------------------------------------------

Completion(t) ==
  \/ \E successful \in BOOLEAN : CompleteSurfaceScan(t, successful)
  \/ \E successful \in BOOLEAN : CompleteDuplicateScan(t, successful)
  \/ CompleteExport(t)
  \/ CompleteDelete(t)

Next ==
  \/ \E f \in Folders : SelectFolder(f)
  \/ Reset
  \/ ClearResults
  \/ BeginSurfaceScan
  \/ BeginDuplicateScan
  \/ BeginExport
  \/ BeginDelete
  \/ RequestScanCancellation
  \/ RequestExportCancellation
  \/ \E g \in Generations : Completion(issued[g])
  \/ RequestClose

Spec == Init /\ [][Next]_opVars

-----------------------------------------------------------------------------
(* Properties.                                                             *)

\* The types of the fields of operationState, of the tokens handed out and of
\* the contexts cancelled.
TypeOK ==
  /\ phase \in Phases
  /\ folder \in Folders \cup {NoFolder}
  /\ folderRevision \in 0..MaxRevision
  /\ nextGeneration \in 0..(MaxGeneration + 1)
  /\ active \in Tokens \cup {NoToken}
  /\ cancel \in 0..MaxGeneration
  /\ closeRequested \in BOOLEAN
  /\ allowClose \in BOOLEAN
  /\ issued \in [Generations -> Tokens \cup {NoToken}]
  /\ cancelled \in SUBSET Generations

\* Exactly the busy phases hold a token, it is of the phase's kind, it is the
\* newest one issued and it was issued for the folder now selected.
ActiveMatchesPhase ==
  /\ active = NoToken <=> phase \notin BusyPhases
  /\ active # NoToken =>
       /\ phase \in PhasesOf[active.kind]
       /\ active.generation = nextGeneration
       /\ active.folderRevision = folderRevision
       /\ active.folder = folder
       /\ issued[active.generation] = active

\* The stored CancelFunc belongs to the active operation and has never been
\* called: invokeCancellation calls each one at most once.
CancelFuncIsFresh ==
  cancel # 0 => /\ active # NoToken
                /\ cancel = active.generation
                /\ cancel \notin cancelled

\* A scan or an export that is not yet being cancelled can still be cancelled,
\* and one that shows as being cancelled (or holds up a close) has been told so.
\* A delete is never cancelled.
CancellationReachesWorker ==
  /\ phase \in {"SurfaceScanning", "DuplicateScanning", "Exporting"} =>
       cancel = active.generation
  /\ phase \in {"SurfaceCancelling", "DuplicateCancelling",
                "ExportCancelling", "ClosingAfterExport"} =>
       active.generation \in cancelled
  /\ phase \in PhasesOf["delete"] => active.generation \notin cancelled

\* A close request is never forgotten: from then on the window is closing, and
\* only a protected operation keeps the close from being granted.
CloseIsRemembered ==
  /\ closeRequested <=> phase \in {"ClosingAfterExport", "ClosingAfterDelete",
                                   "Closing"}
  /\ allowClose <=> phase = "Closing"

\* The four above together.
OpSafety ==
  /\ ActiveMatchesPhase
  /\ CancelFuncIsFresh
  /\ CancellationReachesWorker
  /\ CloseIsRemembered

\* Every token issued carries its own generation, one already reached, and only
\* a generation already reached was ever cancelled.  (The last conjunct is about
\* the bound: beyond it only the invalidation by a close can take a generation.)
IssuedInOrder ==
  /\ \A g \in Generations :
       /\ issued[g] # NoToken => issued[g].generation = g /\ g <= nextGeneration
       /\ g \in cancelled => g <= nextGeneration
  /\ nextGeneration > MaxGeneration => allowClose

\* The inductive invariant: the token in force, the CancelFunc and the phase
\* determine each other, so no part of it is inductive alone.
OpInv == TypeOK /\ OpSafety /\ IssuedInOrder

\* Once the completion of a token would be refused it is refused for ever: a
\* late callback can never be mistaken for that of a newer operation.
StaleForever ==
  [][\A g \in Generations :
       (issued[g] # NoToken /\ ~Accepts(issued[g])) => ~Accepts(issued[g])']_opVars

\* An export or a delete ends only through its own completion: neither a close
\* request nor anything else takes the token away while the worker runs.
ProtectedNeverAbandoned ==
  [][active.kind \in {"export", "delete"} /\ active' # active
       => CompleteExport(active) \/ CompleteDelete(active)]_opVars
=============================================================================
