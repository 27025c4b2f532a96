------------------------- MODULE AppWorkflow_proofs -------------------------
(***************************************************************************)
(* Proofs about OperationState and AppWorkflow, for every set of folders   *)
(* and every bound.  The invariant of the operation state is inductive as  *)
(* a whole: the token in force decides the phase, so the parts cannot be   *)
(* separated.  Every handler and callback of the window is a call of a     *)
(* method of operationState or leaves it alone, so its invariants carry    *)
(* over; on top of them an invariant relates the token in force to the     *)
(* worker goroutines and the posted completions.                           *)
(***************************************************************************)
EXTENDS AppWorkflow, SequenceTheorems, TLAPS

-----------------------------------------------------------------------------
(* The operation state by itself.                                          *)

\* The phases of each kind of operation, spelled out for the provers.
LEMMA PhasesOfKinds ==
  /\ PhasesOf["surface"] = {"SurfaceScanning", "SurfaceCancelling"}
  /\ PhasesOf["duplicate"] = {"DuplicateScanning", "DuplicateCancelling"}
  /\ PhasesOf["export"] = {"Exporting", "ExportCancelling", "ClosingAfterExport"}
  /\ PhasesOf["delete"] = {"Deleting", "ClosingAfterDelete"}
  /\ PhasesOf["none"] = {}
BY DEF PhasesOf

\* The initial state satisfies the invariant: no folder, no token, no close.
LEMMA InitEstablishes == Init => OpInv
<1> SUFFICES ASSUME Init PROVE OpInv
  OBVIOUS
<1>1. TypeOK
  <2>1. /\ phase \in Phases
        /\ folder \in Folders \cup {NoFolder}
        /\ folderRevision \in 0..MaxRevision
        /\ nextGeneration \in 0..(MaxGeneration + 1)
        /\ cancel \in 0..MaxGeneration
    BY OperationAssumption DEF Init, Phases, IdlePhases, OperationAssumption
  <2>2. active \in Tokens \cup {NoToken}
    BY DEF Init
  <2>3. issued \in [Generations -> Tokens \cup {NoToken}]
    BY DEF Init
  <2>4. QED
    BY <2>1, <2>2, <2>3 DEF Init, TypeOK
<1>2. ActiveMatchesPhase
  BY PhasesOfKinds DEF Init, ActiveMatchesPhase, BusyPhases
<1>3. CancelFuncIsFresh /\ CancellationReachesWorker /\ CloseIsRemembered
  BY PhasesOfKinds DEF Init, CancelFuncIsFresh, CancellationReachesWorker, CloseIsRemembered
<1>4. IssuedInOrder
  BY OperationAssumption DEF Init, IssuedInOrder, Generations, OperationAssumption
<1>5. QED
  BY <1>1, <1>2, <1>3, <1>4 DEF OpInv, OpSafety

-----------------------------------------------------------------------------
(* One lemma per family of actions.                                        *)

\* The phases split into the idle ones, those of each kind, and Closing.
LEMMA PhaseSplit ==
  /\ BusyPhases = {"SurfaceScanning", "SurfaceCancelling", "DuplicateScanning",
                   "DuplicateCancelling", "Exporting", "ExportCancelling",
                   "ClosingAfterExport", "Deleting", "ClosingAfterDelete"}
  /\ \A k \in Kinds : PhasesOf[k] \subseteq BusyPhases
BY PhasesOfKinds DEF BusyPhases, Kinds

\* An operation begun in an idle phase leaves a fresh token and CancelFunc.
LEMMA BeginPreserves ==
  ASSUME OpInv, NEW kind \in Kinds, NEW to,
         phase \in IdlePhases,
         \/ kind = "surface" /\ to = "SurfaceScanning"
         \/ kind = "duplicate" /\ to = "DuplicateScanning"
         \/ kind = "export" /\ to = "Exporting"
         \/ kind = "delete" /\ to = "Deleting",
         BeginOperation(kind, to)
  PROVE  OpInv'
<1> USE DEF OpInv, OpSafety, BeginOperation
<1> DEFINE token == NewToken(kind)
<1>1. /\ token \in Tokens
      /\ token # NoToken
      /\ token.generation = nextGeneration + 1
      /\ token.kind = kind
      /\ token.folderRevision = folderRevision
      /\ token.folder = folder
  BY OperationAssumption
  DEF NewToken, Tokens, NoToken, TypeOK, Generations, Kinds, OperationAssumption
<1>2. to \in PhasesOf[kind] /\ to \in BusyPhases /\ to \in Phases
  BY PhasesOfKinds, PhaseSplit DEF Phases
<1>3. TypeOK'
  BY <1>1, <1>2, OperationAssumption
  DEF TypeOK, Generations, OperationAssumption
<1>4. ActiveMatchesPhase'
  BY <1>1, <1>2, OperationAssumption
  DEF ActiveMatchesPhase, TypeOK, Generations, OperationAssumption
<1>5. token.generation \notin cancelled /\ issued[token.generation] = NoToken
  BY <1>1, OperationAssumption
  DEF IssuedInOrder, TypeOK, Generations, OperationAssumption
<1>6. CancelFuncIsFresh'
  BY <1>1, <1>5 DEF CancelFuncIsFresh
<1>7. CancellationReachesWorker'
  BY <1>1, <1>5, PhasesOfKinds DEF CancellationReachesWorker, Kinds
<1>8. CloseIsRemembered'
  BY DEF CloseIsRemembered, IdlePhases
<1>9. IssuedInOrder'
  BY <1>1, OperationAssumption
  DEF IssuedInOrder, TypeOK, Generations, OperationAssumption
<1>10. QED
  BY <1>3, <1>4, <1>6, <1>7, <1>8, <1>9

\* A change of folder, like an immediate close, leaves no token and advances the
\* generation; in an idle phase there was no CancelFunc left to call.
LEMMA ChangeFolderPreserves ==
  ASSUME OpInv, NEW f \in Folders \cup {NoFolder}, NEW to,
         to \in {"NoFolder", "FolderReady"}, ChangeFolder(f, to)
  PROVE  OpInv'
<1> USE DEF OpInv, OpSafety, ChangeFolder, CanChangeFolder,
            InvalidateActiveOperation, InvokeCancellation
<1>1. cancel = 0 /\ cancelled' = cancelled
  BY PhaseSplit DEF CancelFuncIsFresh, ActiveMatchesPhase, IdlePhases, TypeOK
<1>2. TypeOK'
  <2>1. folderRevision' \in 0..MaxRevision /\ nextGeneration' \in 0..(MaxGeneration + 1)
    BY OperationAssumption DEF TypeOK, OperationAssumption
  <2>2. phase' \in Phases
    BY DEF Phases, IdlePhases
  <2>3. QED
    BY <1>1, <2>1, <2>2, OperationAssumption DEF TypeOK, OperationAssumption
<1>3. ActiveMatchesPhase'
  BY PhaseSplit DEF ActiveMatchesPhase
<1>4. CancelFuncIsFresh' /\ CancellationReachesWorker'
  BY PhasesOfKinds DEF CancelFuncIsFresh, CancellationReachesWorker
<1>5. CloseIsRemembered'
  BY DEF CloseIsRemembered, IdlePhases
<1>6. IssuedInOrder'
  BY <1>1, OperationAssumption
  DEF IssuedInOrder, TypeOK, Generations, OperationAssumption
<1>7. QED
  BY <1>2, <1>3, <1>4, <1>5, <1>6

\* The end of an operation clears token and CancelFunc together.  A window that
\* was being closed for this operation closes, every other phase is idle again.
LEMMA CompletionPreserves ==
  ASSUME OpInv, NEW t, Completion(t)
  PROVE  OpInv'
<1> USE DEF OpInv, OpSafety
<1>1. /\ active' = NoToken /\ cancel' = 0
      /\ UNCHANGED <<cancelled, folder, folderRevision, nextGeneration,
                     closeRequested, issued>>
  BY DEF Completion, CompleteSurfaceScan, CompleteDuplicateScan, CompleteExport,
         CompleteDelete, CompleteProtected, ClearActiveOperation
<1>2. \/ phase' \in IdlePhases /\ closeRequested = FALSE /\ allowClose' = FALSE
      \/ phase' = "Closing" /\ closeRequested = TRUE /\ allowClose' = TRUE
  <2>1. ASSUME NEW s \in BOOLEAN,
               CompleteSurfaceScan(t, s) \/ CompleteDuplicateScan(t, s)
        PROVE  phase' \in IdlePhases /\ closeRequested = FALSE /\ allowClose' = FALSE
    <3>1. phase \in {"SurfaceScanning", "SurfaceCancelling",
                     "DuplicateScanning", "DuplicateCancelling"}
      BY <2>1, PhasesOfKinds DEF CompleteSurfaceScan, CompleteDuplicateScan, Accepts
    <3>2. QED
      BY <2>1, <3>1
      DEF CompleteSurfaceScan, CompleteDuplicateScan, CloseIsRemembered,
          IdlePhases, TypeOK
  <2>2. CASE CompleteExport(t)
    <3>1. phase \in {"Exporting", "ExportCancelling", "ClosingAfterExport"}
      BY <2>2, PhasesOfKinds DEF CompleteExport, CompleteProtected, Accepts
    <3>2. QED
      BY <2>2, <3>1
      DEF CompleteExport, CompleteProtected, CloseIsRemembered, IdlePhases, TypeOK
  <2>3. CASE CompleteDelete(t)
    <3>1. phase \in {"Deleting", "ClosingAfterDelete"}
      BY <2>3, PhasesOfKinds DEF CompleteDelete, CompleteProtected, Accepts
    <3>2. QED
      BY <2>3, <3>1
      DEF CompleteDelete, CompleteProtected, CloseIsRemembered, IdlePhases, TypeOK
  <2>4. QED
    <3>1. CASE \E s \in BOOLEAN :
                 CompleteSurfaceScan(t, s) \/ CompleteDuplicateScan(t, s)
      BY <2>1, <3>1
    <3>2. QED
      BY <2>2, <2>3, <3>1 DEF Completion
<1>3. TypeOK'
  <2>1. allowClose' \in BOOLEAN
    BY <1>2
  <2>2. phase' \in Phases /\ cancel' \in 0..MaxGeneration
    BY <1>1, <1>2, OperationAssumption DEF Phases, OperationAssumption
  <2>3. QED
    BY <1>1, <2>1, <2>2 DEF TypeOK
<1>4. ActiveMatchesPhase'
  BY <1>1, <1>2, PhaseSplit DEF ActiveMatchesPhase, IdlePhases
<1>5. CancelFuncIsFresh' /\ CancellationReachesWorker'
  BY <1>1, <1>2, PhasesOfKinds
  DEF CancelFuncIsFresh, CancellationReachesWorker, IdlePhases
<1>6. CloseIsRemembered'
  BY <1>1, <1>2 DEF CloseIsRemembered, IdlePhases
<1>7. IssuedInOrder'
  <2>1. phase # "Closing"
    BY PhasesOfKinds
    DEF Completion, CompleteSurfaceScan, CompleteDuplicateScan, CompleteExport,
        CompleteDelete, CompleteProtected, Accepts
  <2>2. QED
    BY <1>1, <2>1 DEF IssuedInOrder, CloseIsRemembered
<1>8. QED
  BY <1>3, <1>4, <1>5, <1>6, <1>7

\* A cancellation request uses up the CancelFunc of the operation in force.
LEMMA CancellationPreserves ==
  ASSUME OpInv, RequestScanCancellation \/ RequestExportCancellation
  PROVE  OpInv'
<1> USE DEF OpInv, OpSafety, RequestScanCancellation,
            RequestExportCancellation, InvokeCancellation
<1>1. active # NoToken /\ active \in Tokens /\ cancel = active.generation
  BY PhaseSplit DEF ActiveMatchesPhase, CancellationReachesWorker, TypeOK
<1>2. cancel \in Generations /\ cancelled' = cancelled \cup {cancel} /\ cancel' = 0
  BY <1>1, OperationAssumption DEF Tokens, Generations, OperationAssumption
<1>3. \/ phase = "SurfaceScanning" /\ phase' = "SurfaceCancelling"
      \/ phase = "DuplicateScanning" /\ phase' = "DuplicateCancelling"
      \/ phase = "Exporting" /\ phase' = "ExportCancelling"
  OBVIOUS
<1>4. TypeOK'
  BY <1>2, <1>3, PhaseSplit, OperationAssumption
  DEF TypeOK, Phases, OperationAssumption
<1>5. \A k \in Kinds : phase \in PhasesOf[k] => phase' \in PhasesOf[k]
  BY <1>3, PhasesOfKinds DEF Kinds
<1>6. ActiveMatchesPhase'
  BY <1>1, <1>3, <1>5, PhaseSplit DEF ActiveMatchesPhase, Tokens
<1>7. CancelFuncIsFresh'
  BY <1>2 DEF CancelFuncIsFresh
<1>8. CancellationReachesWorker'
  BY <1>1, <1>2, <1>3, PhasesOfKinds DEF CancellationReachesWorker
<1>9. CloseIsRemembered'
  BY <1>3 DEF CloseIsRemembered
<1>10. IssuedInOrder'
  BY <1>1, <1>2, OperationAssumption
  DEF IssuedInOrder, ActiveMatchesPhase, TypeOK, Generations, OperationAssumption
<1>11. QED
  BY <1>4, <1>6, <1>7, <1>8, <1>9, <1>10

\* A close request ends an idle or scanning window at once and is remembered
\* until the protected operation it must wait for is acknowledged.
LEMMA ClosePreserves ==
  ASSUME OpInv, RequestClose
  PROVE  OpInv'
<1> USE DEF OpInv, OpSafety
<1>1. CASE UNCHANGED opVars
  BY <1>1 DEF opVars, TypeOK, ActiveMatchesPhase, CancelFuncIsFresh,
              CancellationReachesWorker, CloseIsRemembered, IssuedInOrder
<1> DEFINE Closes == /\ closeRequested' = TRUE
                     /\ UNCHANGED <<folder, folderRevision, issued>>
<1>2. CASE Closes /\ DeferCloseForExport
  <2>1. active # NoToken /\ active \in Tokens
    BY <1>2, PhaseSplit DEF ActiveMatchesPhase, TypeOK, DeferCloseForExport
  <2>2. active.generation \in cancelled'
    BY <1>2, <2>1, OperationAssumption
    DEF DeferCloseForExport, InvokeCancellation, CancellationReachesWorker,
        Tokens, Generations, OperationAssumption
  <2>3. \A g \in cancelled' : g \in Generations /\ g <= nextGeneration
    BY <1>2, <2>1, OperationAssumption
    DEF DeferCloseForExport, InvokeCancellation, CancelFuncIsFresh,
        ActiveMatchesPhase, IssuedInOrder, TypeOK, Generations, Tokens,
        OperationAssumption
  <2>4. TypeOK'
    BY <1>2, <2>3, PhaseSplit, OperationAssumption
    DEF DeferCloseForExport, InvokeCancellation, TypeOK, Phases, OperationAssumption
  <2>5. ActiveMatchesPhase'
    BY <1>2, <2>1, PhaseSplit, PhasesOfKinds
    DEF DeferCloseForExport, ActiveMatchesPhase, Tokens, Kinds
  <2>6. CancelFuncIsFresh' /\ CancellationReachesWorker'
    BY <1>2, <2>2, PhasesOfKinds
    DEF DeferCloseForExport, InvokeCancellation, CancelFuncIsFresh,
        CancellationReachesWorker
  <2>7. CloseIsRemembered' /\ IssuedInOrder'
    BY <1>2, <2>3 DEF DeferCloseForExport, CloseIsRemembered, IssuedInOrder
  <2>8. QED
    BY <2>4, <2>5, <2>6, <2>7
<1>3. CASE Closes /\ DeferCloseForDelete
  <2>1. TypeOK'
    BY <1>3, PhaseSplit DEF DeferCloseForDelete, TypeOK, Phases
  <2>2. ActiveMatchesPhase'
    BY <1>3, PhaseSplit, PhasesOfKinds
    DEF DeferCloseForDelete, ActiveMatchesPhase, TypeOK, Tokens, Kinds
  <2>3. CancelFuncIsFresh' /\ CancellationReachesWorker'
    BY <1>3, PhasesOfKinds
    DEF DeferCloseForDelete, CancelFuncIsFresh, CancellationReachesWorker
  <2>4. CloseIsRemembered' /\ IssuedInOrder'
    BY <1>3 DEF DeferCloseForDelete, CloseIsRemembered, IssuedInOrder
  <2>5. QED
    BY <2>1, <2>2, <2>3, <2>4
<1>4. CASE Closes /\ StayDeferred
  BY <1>4
  DEF StayDeferred, TypeOK, ActiveMatchesPhase, CancelFuncIsFresh,
      CancellationReachesWorker, CloseIsRemembered, IssuedInOrder
<1>5. CASE ~allowClose /\ Closes /\ CloseAtOnce
  <2>1. \A g \in cancelled' : g \in Generations /\ g <= nextGeneration
    BY <1>5, OperationAssumption
    DEF CloseAtOnce, InvalidateActiveOperation, InvokeCancellation,
        CancelFuncIsFresh, ActiveMatchesPhase, IssuedInOrder, TypeOK,
        Generations, Tokens, OperationAssumption
  <2>2. nextGeneration \in 0..MaxGeneration
    BY <1>5, OperationAssumption
    DEF IssuedInOrder, TypeOK, OperationAssumption
  <2>3. TypeOK'
    BY <1>5, <2>1, <2>2, OperationAssumption
    DEF CloseAtOnce, InvalidateActiveOperation, InvokeCancellation, TypeOK,
        Phases, OperationAssumption
  <2>4. ActiveMatchesPhase'
    BY <1>5, PhaseSplit
    DEF CloseAtOnce, InvalidateActiveOperation, ActiveMatchesPhase
  <2>5. CancelFuncIsFresh' /\ CancellationReachesWorker'
    BY <1>5, PhasesOfKinds
    DEF CloseAtOnce, InvalidateActiveOperation, InvokeCancellation,
        CancelFuncIsFresh, CancellationReachesWorker
  <2>6. CloseIsRemembered'
    BY <1>5 DEF CloseAtOnce, CloseIsRemembered
  <2>7. IssuedInOrder'
    BY <1>5, <2>1, <2>2, OperationAssumption
    DEF CloseAtOnce, InvalidateActiveOperation, IssuedInOrder, Generations,
        OperationAssumption
  <2>8. QED
    BY <2>3, <2>4, <2>5, <2>6, <2>7
<1>6. QED
  BY <1>1, <1>2, <1>3, <1>4, <1>5 DEF RequestClose

-----------------------------------------------------------------------------
(* Theorems.                                                               *)

\* Every call of a method of operationState preserves the invariant.
LEMMA StepPreserves == OpInv /\ [Next]_opVars => OpInv'
<1> SUFFICES ASSUME OpInv, [Next]_opVars PROVE OpInv'
  OBVIOUS
<1>1. ASSUME NEW f \in Folders, SelectFolder(f) PROVE OpInv'
  BY <1>1, ChangeFolderPreserves DEF SelectFolder
<1>2. CASE Reset
  BY <1>2, ChangeFolderPreserves DEF Reset
<1>3. CASE ClearResults
  <2>1. active = NoToken /\ cancel = 0
    BY <1>3, PhaseSplit
    DEF OpInv, OpSafety, ActiveMatchesPhase, CancelFuncIsFresh, ClearResults
  <2>2. TypeOK' /\ CloseIsRemembered'
    BY <1>3 DEF OpInv, OpSafety, ClearResults, TypeOK, CloseIsRemembered,
                Phases, IdlePhases
  <2>3. ActiveMatchesPhase' /\ CancelFuncIsFresh'
    BY <1>3, <2>1, PhaseSplit
    DEF ClearResults, ActiveMatchesPhase, CancelFuncIsFresh
  <2>4. CancellationReachesWorker' /\ IssuedInOrder'
    BY <1>3, PhasesOfKinds
    DEF OpInv, OpSafety, ClearResults, CancellationReachesWorker, IssuedInOrder
  <2>5. QED
    BY <2>2, <2>3, <2>4 DEF OpInv, OpSafety
<1>4. CASE BeginSurfaceScan
  BY <1>4, BeginPreserves DEF BeginSurfaceScan, IdlePhases, Kinds
<1>5. CASE BeginDuplicateScan
  BY <1>5, BeginPreserves DEF BeginDuplicateScan, IdlePhases, Kinds
<1>6. CASE BeginExport
  BY <1>6, BeginPreserves DEF BeginExport, IdlePhases, Kinds
<1>7. CASE BeginDelete
  BY <1>7, BeginPreserves DEF BeginDelete, IdlePhases, Kinds
<1>8. CASE RequestScanCancellation \/ RequestExportCancellation
  BY <1>8, CancellationPreserves
<1>9. ASSUME NEW g \in Generations, Completion(issued[g]) PROVE OpInv'
  BY <1>9, CompletionPreserves
<1>10. CASE RequestClose
  BY <1>10, ClosePreserves
<1>11. CASE UNCHANGED opVars
  BY <1>11 DEF opVars, OpInv, TypeOK, OpSafety, ActiveMatchesPhase,
     CancelFuncIsFresh, CancellationReachesWorker, CloseIsRemembered, IssuedInOrder
<1>12. QED
  BY <1>1, <1>2, <1>3, <1>4, <1>5, <1>6, <1>7, <1>8, <1>9, <1>10, <1>11 DEF Next

\* The inductive invariant holds in every reachable state.
THEOREM OpInvariant == Spec => []OpInv
<1>1. Init => OpInv
  BY InitEstablishes
<1>2. OpInv /\ [Next]_opVars => OpInv'
  BY StepPreserves
<1>3. QED
  BY <1>1, <1>2, PTL DEF Spec

\* Type correctness of the state machine.
THEOREM TypeCorrect == Spec => []TypeOK
<1>1. OpInv => TypeOK
  BY DEF OpInv
<1>2. QED
  BY <1>1, OpInvariant, PTL

\* Token and phase agree, each CancelFunc is called at most once, every
\* cancellation reaches its worker and no close request is forgotten.
THEOREM OperationSafe == Spec => []OpSafety
<1>1. OpInv => OpSafety
  BY DEF OpInv
<1>2. QED
  BY <1>1, OpInvariant, PTL

\* A step hands out at most one token, and only by beginning an operation.
LEMMA IssueOrKeep ==
  ASSUME [Next]_opVars
  PROVE  \/ issued' = issued /\ active' \in {active, NoToken}
         \/ \E kind \in Kinds, to \in BusyPhases : BeginOperation(kind, to)
<1>1. ASSUME NEW f, NEW to, ChangeFolder(f, to)
      PROVE  issued' = issued /\ active' = NoToken
  BY <1>1 DEF ChangeFolder, InvalidateActiveOperation
<1>2. CASE \/ BeginSurfaceScan \/ BeginDuplicateScan \/ BeginExport \/ BeginDelete
  BY <1>2, PhaseSplit
  DEF BeginSurfaceScan, BeginDuplicateScan, BeginExport, BeginDelete, Kinds
<1>3. ASSUME NEW t, Completion(t) PROVE issued' = issued /\ active' = NoToken
  BY <1>3
  DEF Completion, CompleteSurfaceScan, CompleteDuplicateScan, CompleteExport,
      CompleteDelete, CompleteProtected, ClearActiveOperation
<1>4. CASE \/ ClearResults \/ RequestScanCancellation \/ RequestExportCancellation
           \/ UNCHANGED opVars
  BY <1>4
  DEF ClearResults, RequestScanCancellation, RequestExportCancellation, opVars
<1>5. CASE RequestClose
  BY <1>5
  DEF RequestClose, DeferCloseForExport, DeferCloseForDelete, StayDeferred,
      CloseAtOnce, InvalidateActiveOperation, opVars
<1>6. QED
  BY <1>1, <1>2, <1>3, <1>4, <1>5 DEF Next, SelectFolder, Reset

\* A token whose completion would be refused stays refused: the token in force
\* changes only to one of a generation not issued before, and while it stays
\* the phase stays one of its kind.
THEOREM StaleTokensStayStale == Spec => StaleForever
<1> DEFINE Stays == \A g \in Generations :
       (issued[g] # NoToken /\ ~Accepts(issued[g])) => ~Accepts(issued[g])'
<1>1. OpInv /\ [Next]_opVars => Stays
  <2> SUFFICES ASSUME OpInv, [Next]_opVars, NEW g \in Generations,
                      issued[g] # NoToken, ~Accepts(issued[g]),
                      Accepts(issued[g])'
               PROVE  FALSE
    OBVIOUS
  <2>1. active # issued[g]
    BY DEF OpInv, OpSafety, ActiveMatchesPhase, Accepts
  <2>2. active' = issued'[g] /\ active' # NoToken
    BY DEF Accepts, NoToken
  <2>3. CASE issued' = issued /\ active' \in {active, NoToken}
    BY <2>1, <2>2, <2>3
  <2>4. ASSUME NEW kind \in Kinds, NEW to, BeginOperation(kind, to) PROVE FALSE
    <3>1. nextGeneration + 1 \in Generations /\ nextGeneration \in Nat
      BY <2>4, OperationAssumption
      DEF BeginOperation, OpInv, TypeOK, Generations, OperationAssumption
    <3>2. issued[g].generation = g /\ g <= nextGeneration /\ g \in Nat
      BY OperationAssumption
      DEF OpInv, IssuedInOrder, Generations, OperationAssumption
    <3>3. NewToken(kind).generation = nextGeneration + 1
      BY DEF NewToken
    <3>4. issued'[g] = issued[g] /\ active' = NewToken(kind)
      BY <2>4, <3>1, <3>2, <3>3 DEF BeginOperation, OpInv, TypeOK
    <3>5. QED
      BY <2>2, <3>1, <3>2, <3>3, <3>4
  <2>5. QED
    BY <2>3, <2>4, IssueOrKeep
<1>2. QED
  BY <1>1, OpInvariant, PTL DEF Spec, StaleForever

\* An export or a delete is retired by its own acknowledgement and by nothing
\* else: no method but the matching completion takes its token away.
THEOREM ProtectedOperationsFinish == Spec => ProtectedNeverAbandoned
<1> DEFINE Finishes == active.kind \in {"export", "delete"} /\ active' # active
                         => CompleteExport(active) \/ CompleteDelete(active)
<1>1. OpInv /\ [Next]_opVars => Finishes
  <2> SUFFICES ASSUME OpInv, [Next]_opVars,
                      active.kind \in {"export", "delete"}, active' # active
               PROVE  CompleteExport(active) \/ CompleteDelete(active)
    OBVIOUS
  <2>1. phase \in {"Exporting", "ExportCancelling", "ClosingAfterExport",
                   "Deleting", "ClosingAfterDelete"}
    BY PhasesOfKinds DEF OpInv, OpSafety, ActiveMatchesPhase, NoToken
  <2>2. ASSUME NEW g \in Generations, Completion(issued[g])
        PROVE  CompleteExport(active) \/ CompleteDelete(active)
    <3>1. issued[g] = active
      BY <2>2
      DEF Completion, CompleteSurfaceScan, CompleteDuplicateScan,
          CompleteExport, CompleteDelete, CompleteProtected, Accepts
    <3>2. QED
      BY <2>2, <3>1 DEF Completion, CompleteSurfaceScan, CompleteDuplicateScan
  <2>3. ~CanChangeFolder
    BY <2>1 DEF CanChangeFolder, IdlePhases
  <2>4. ~RequestClose
    BY <2>1
    DEF RequestClose, DeferCloseForExport, DeferCloseForDelete, StayDeferred,
        CloseAtOnce, PhasesOf, opVars
  <2>5. QED
    BY <2>1, <2>2, <2>3, <2>4
    DEF Next, SelectFolder, Reset, ChangeFolder, ClearResults, BeginSurfaceScan,
        BeginDuplicateScan, BeginExport, BeginDelete, RequestScanCancellation,
        RequestExportCancellation, opVars
<1>2. QED
  BY <1>1, OpInvariant, PTL DEF Spec, ProtectedNeverAbandoned

-----------------------------------------------------------------------------
(* The window and its goroutines.                                          *)

AtWork(g) == worker[g] \in {"running", "returned"}

DoneOf(g) == [type |-> "done", generation |-> g]

\* A grant of the close and the state's allowClose are one and the same.
ClosingGranted == uiClosing = allowClose

\* Every goroutine belongs to a token that was issued.
WorkersWereIssued ==
  \A g \in Generations : worker[g] # "none" => issued[g] # NoToken

\* Posted completions are of finished workers, at most one for each of them.
CompletionsPostedOnce ==
  \A i, j \in 1..Len(posted) :
    posted[i].type = "done" =>
      /\ worker[posted[i].generation] = "finished"
      /\ posted[i] = posted[j] => i = j

\* The token in force is acknowledged by a worker at work or a completion posted.
ActiveIsBacked ==
  active # NoToken =>
    \/ AtWork(active.generation)
    \/ \E i \in 1..Len(posted) : posted[i] = DoneOf(active.generation)

\* Each step of the workflow is a call of a method of operationState or none.
LEMMA WorkflowStepsAreCalls == [WorkflowNext]_vars => [Next]_opVars
<1> SUFFICES ASSUME [WorkflowNext]_vars PROVE [Next]_opVars
  OBVIOUS
<1>1. CASE UserInput
  BY <1>1
  DEF UserInput, MessageShown, SelectFolderClicked, OpenDialog, FolderChosen, StartSurfaceScan,
      StartDuplicateScan, CancelClicked, ClearClicked, ResetAll, ExportClicked,
      ExportDestinationChosen, DeleteClicked, DeleteConfirmed, DismissDialog,
      WindowClosing, Next
<1>2. ASSUME NEW g \in Generations, Goroutine(g) PROVE UNCHANGED opVars
  BY <1>2
  DEF Goroutine, WorkerReportsProgress, WorkerReturns, WorkerPostsCompletion,
      ConsumeProgress, TickElapsed, TickerStops
<1>3. CASE RunCallback
  <2>1. PICK g \in Generations :
          \/ \E type \in {"progress", "tick", "done"} : DropCallback(type, g)
          \/ ShowProgress(g)
          \/ ShowElapsed(g)
          \/ SurfaceScanFinished(g)
          \/ ScanFinished(g)
          \/ ReportExportFinished(g)
          \/ ApplyRecycleBatch(g)
    BY <1>3 DEF RunCallback
  <2>2. CASE \/ \E type \in {"progress", "tick", "done"} : DropCallback(type, g)
             \/ ShowProgress(g)
             \/ ShowElapsed(g)
    BY <2>2 DEF DropCallback, ShowProgress, ShowElapsed
  <2>3. CASE SurfaceScanFinished(g)
    <3>1. CompleteSurfaceScan(issued[g], outcome[g] = "ok")
      BY <2>3 DEF SurfaceScanFinished
    <3>2. (outcome[g] = "ok") \in BOOLEAN
      OBVIOUS
    <3>3. Completion(issued[g])
      BY <3>1, <3>2 DEF Completion
    <3>4. QED
      BY <3>3 DEF Next
  <2>4. CASE ScanFinished(g)
    <3>1. CompleteDuplicateScan(issued[g], outcome[g] \in {"ok", "empty"})
      BY <2>4 DEF ScanFinished
    <3>2. (outcome[g] \in {"ok", "empty"}) \in BOOLEAN
      OBVIOUS
    <3>3. Completion(issued[g])
      BY <3>1, <3>2 DEF Completion
    <3>4. QED
      BY <3>3 DEF Next
  <2>5. CASE ReportExportFinished(g) \/ ApplyRecycleBatch(g)
    BY <2>5 DEF ReportExportFinished, ApplyRecycleBatch, Completion, Next
  <2>6. QED
    BY <2>1, <2>2, <2>3, <2>4, <2>5
<1>4. CASE Terminated \/ UNCHANGED vars
  BY <1>4 DEF Terminated, vars
<1>5. QED
  BY <1>1, <1>2, <1>3, <1>4 DEF WorkflowNext

\* The invariants of the state machine hold of the running application.
THEOREM WorkflowOpInv == WorkflowSpec => []OpInv
<1>1. WorkflowInit => OpInv
  BY InitEstablishes DEF WorkflowInit
<1>2. OpInv /\ [WorkflowNext]_vars => OpInv'
  BY StepPreserves, WorkflowStepsAreCalls
<1>3. QED
  BY <1>1, <1>2, PTL DEF WorkflowSpec

-----------------------------------------------------------------------------
(* Type correctness.                                                       *)

\* What a completion carries and what the dialogs capture are in range.
LEMMA WorkflowTypes ==
  ASSUME OpInv, OpInv', WorkflowTypeOK, [WorkflowNext]_vars
  PROVE  WorkflowTypeOK'
<1> USE OperationAssumption, WorkflowAssumption
    DEF WorkflowTypeOK, OperationAssumption, WorkflowAssumption
<1>1. TypeOK'
  BY DEF OpInv
<1>2. folderRevision \in 0..MaxRevision /\ folderRevision' \in 0..MaxRevision
  BY DEF OpInv, TypeOK
<1>3. NoRows \in Rows
  BY DEF NoRows, Rows, RowKinds
<1>4. ASSUME NEW kind, NEW to, NEW data \in 0..MaxRevision, NEW timed \in BOOLEAN,
             BeginOperation(kind, to), StartGoroutines(data, timed)
      PROVE  /\ worker' \in [Generations -> WorkerStates]
             /\ input' \in [Generations -> 0..MaxRevision]
             /\ outcome' \in [Generations -> Outcomes]
             /\ updates' \in [Generations -> 0..ProgressCapacity]
             /\ ticker' \in [Generations -> BOOLEAN]
  <2>1. nextGeneration' \in Generations
    BY <1>4 DEF BeginOperation, NewToken, TypeOK, Generations
  <2>2. QED
    BY <1>4, <2>1 DEF StartGoroutines, WorkerStates
<1>5. CASE \/ MessageShown \/ SelectFolderClicked \/ ExportClicked \/ DeleteClicked
           \/ DismissDialog
           \/ \E f \in Folders : FolderChosen(f)
           \/ CancelClicked \/ ClearClicked \/ ResetAll
  BY <1>1, <1>3, <1>5
  DEF MessageShown, SelectFolderClicked, ExportClicked, DeleteClicked, DismissDialog,
      OpenDialog, DialogClosed, FolderChosen, DiscardFolderData, RewriteLabels, CancelClicked,
      ClearClicked, ResetAll, HandlerStatus, viewVars, dialogVars, goVars, Modals
<1>6. CASE WindowClosing
  <2>1. allowClose' \in BOOLEAN
    BY <1>1 DEF TypeOK
  <2>2. QED
    BY <1>1, <1>6, <2>1 DEF WindowClosing, viewVars, dialogVars, goVars
<1>7. CASE StartSurfaceScan \/ StartDuplicateScan
  <2>1. /\ worker' \in [Generations -> WorkerStates]
        /\ input' \in [Generations -> 0..MaxRevision]
        /\ outcome' \in [Generations -> Outcomes]
        /\ updates' \in [Generations -> 0..ProgressCapacity]
        /\ ticker' \in [Generations -> BOOLEAN]
    <3>1. TRUE \in BOOLEAN /\ 0 \in 0..MaxRevision /\ surfaceReport \in 0..MaxRevision
      OBVIOUS
    <3>2. CASE StartSurfaceScan
      <4>1. BeginOperation("surface", "SurfaceScanning") /\ StartGoroutines(0, TRUE)
        BY <3>2 DEF StartSurfaceScan, BeginSurfaceScan
      <4>2. QED
        BY <3>1, <4>1, <1>4
    <3>3. CASE StartDuplicateScan
      <4>1. /\ BeginOperation("duplicate", "DuplicateScanning")
            /\ StartGoroutines(surfaceReport, TRUE)
        BY <3>3 DEF StartDuplicateScan, BeginDuplicateScan
      <4>2. QED
        BY <3>1, <4>1, <1>4
    <3>4. QED
      BY <1>7, <3>2, <3>3
  <2>2. /\ surfaceReport' \in 0..MaxRevision /\ rows' \in Rows
        /\ statusOf' \in 0..MaxGeneration /\ progressOf' \in 0..MaxGeneration
        /\ elapsedOf' \in 0..MaxGeneration
    BY <1>3, <1>7
    DEF StartSurfaceScan, StartDuplicateScan, DiscardFolderData, RewriteLabels,
        StartGoroutines
  <2>3. UNCHANGED <<modal, captured, uiClosing, posted>>
    BY <1>7 DEF StartSurfaceScan, StartDuplicateScan, dialogVars
  <2>4. QED
    BY <1>1, <2>1, <2>2, <2>3
<1>8. CASE ExportDestinationChosen \/ DeleteConfirmed
  <2>1. captured.revision \in 0..MaxRevision
    BY DEF Rows
  <2>2. FALSE \in BOOLEAN
    OBVIOUS
  <2>3. /\ worker' \in [Generations -> WorkerStates]
        /\ input' \in [Generations -> 0..MaxRevision]
        /\ outcome' \in [Generations -> Outcomes]
        /\ updates' \in [Generations -> 0..ProgressCapacity]
        /\ ticker' \in [Generations -> BOOLEAN]
    <3>1. /\ \/ BeginOperation("export", "Exporting")
             \/ BeginOperation("delete", "Deleting")
          /\ StartGoroutines(captured.revision, FALSE)
      BY <1>8 DEF ExportDestinationChosen, DeleteConfirmed, BeginExport, BeginDelete
    <3>2. QED
      BY <2>1, <2>2, <3>1, <1>4
  <2>4. /\ modal' \in Modals /\ captured' \in Rows /\ statusOf' \in 0..MaxGeneration
        /\ UNCHANGED <<surfaceReport, rows, progressOf, elapsedOf, uiClosing, posted>>
    BY <1>3, <1>8
    DEF ExportDestinationChosen, DeleteConfirmed, DialogClosed, HandlerStatus,
        Modals, StartGoroutines
  <2>5. QED
    BY <1>1, <2>3, <2>4
<1>9. ASSUME NEW g \in Generations, Goroutine(g) PROVE WorkflowTypeOK'
  <2>1. ASSUME NEW type \in {"progress", "tick", "done"}, PostCallback(type, g)
        PROVE  posted' \in Seq(Callbacks)
    <3>1. [type |-> type, generation |-> g] \in Callbacks
      BY DEF Callbacks
    <3>2. QED
      BY <2>1, <3>1 DEF PostCallback
  <2>2. CASE WorkerReportsProgress(g) \/ TickerStops(g)
    <3>1. CASE WorkerReportsProgress(g)
      <4>1. updates' \in [Generations -> 0..ProgressCapacity]
        BY <3>1 DEF WorkerReportsProgress
      <4>2. QED
        BY <1>1, <3>1, <4>1 DEF WorkerReportsProgress, viewVars, dialogVars
    <3>2. CASE TickerStops(g)
      <4>1. FALSE \in BOOLEAN /\ ticker' = [ticker EXCEPT ![g] = FALSE]
        BY <3>2 DEF TickerStops
      <4>2. ticker' \in [Generations -> BOOLEAN]
        BY <4>1
      <4>3. QED
        BY <1>1, <3>2, <4>2 DEF TickerStops, viewVars, dialogVars
    <3>3. QED
      BY <2>2, <3>1, <3>2
  <2>3. CASE WorkerReturns(g)
    <3>1. PICK o \in OutcomesOf(issued[g])
                   \cup (IF g \in cancelled THEN {"canceled"} ELSE {}) :
            outcome' = [outcome EXCEPT ![g] = o]
      BY <2>3 DEF WorkerReturns
    <3>2. o \in Outcomes
      BY DEF OutcomesOf, Outcomes
    <3>3. outcome' \in [Generations -> Outcomes]
      BY <3>1, <3>2
    <3>4. QED
      BY <1>1, <2>3, <3>3 DEF WorkerReturns, WorkerStates, viewVars, dialogVars
  <2>4. CASE WorkerPostsCompletion(g)
    BY <1>1, <2>1, <2>4
    DEF WorkerPostsCompletion, WorkerStates, viewVars, dialogVars
  <2>5. CASE ConsumeProgress(g) \/ TickElapsed(g)
    <3>1. posted' \in Seq(Callbacks)
      BY <2>1, <2>5 DEF ConsumeProgress, TickElapsed
    <3>2. updates' \in [Generations -> 0..ProgressCapacity]
      <4>1. CASE ConsumeProgress(g)
        <5>1. updates[g] \in 1..ProgressCapacity
          BY <4>1 DEF ConsumeProgress
        <5>2. QED
          BY <4>1, <5>1 DEF ConsumeProgress
      <4>2. CASE TickElapsed(g)
        BY <4>2 DEF TickElapsed, goVars
      <4>3. QED
        BY <2>5, <4>1, <4>2
    <3>3. QED
      BY <1>1, <2>5, <3>1, <3>2
      DEF ConsumeProgress, TickElapsed, viewVars, dialogVars, goVars
  <2>6. QED
    BY <1>9, <2>2, <2>3, <2>4, <2>5 DEF Goroutine
<1>10. CASE RunCallback
  <2>1. ASSUME NEW type, NEW g, NextCallback(type, g)
        PROVE  posted' \in Seq(Callbacks)
    BY <2>1 DEF NextCallback
  <2>2. ASSUME NEW shown, MessageBox(shown)
        PROVE  modal' \in Modals /\ captured' = captured
    BY <2>2 DEF MessageBox, Modals
  <2>3. PICK g \in Generations :
          \/ \E type \in {"progress", "tick", "done"} : DropCallback(type, g)
          \/ ShowProgress(g)
          \/ ShowElapsed(g)
          \/ SurfaceScanFinished(g)
          \/ ScanFinished(g)
          \/ ReportExportFinished(g)
          \/ ApplyRecycleBatch(g)
    BY <1>10 DEF RunCallback
  <2>4. g \in 0..MaxGeneration
    BY DEF Generations
  <2>11. ASSUME ForgetResult(g)
         PROVE  outcome' \in [Generations -> Outcomes] /\ UNCHANGED <<worker, input, updates, ticker>>
    BY <2>11 DEF ForgetResult, Outcomes
  <2>5. CASE \/ \E type \in {"progress", "tick", "done"} : DropCallback(type, g)
             \/ ShowProgress(g)
             \/ ShowElapsed(g)
    BY <1>1, <2>1, <2>4, <2>5
    DEF DropCallback, ShowProgress, ShowElapsed, viewVars, dialogVars, goVars
  <2>6. CASE SurfaceScanFinished(g)
    <3>1. issued[g].folderRevision \in 0..MaxRevision
      BY <2>6
      DEF SurfaceScanFinished, Current, Accepts, TypeOK, OpInv, Tokens
    <3>2. ASSUME Publishes(g)
          PROVE  /\ surfaceReport' \in 0..MaxRevision
                 /\ rows' \in Rows
                 /\ elapsedOf' \in 0..MaxGeneration
      <4>1. /\ surfaceReport' = issued[g].folderRevision
            /\ rows' = [kind |-> "surface", revision |-> issued[g].folderRevision]
            /\ elapsedOf' = g
        BY <2>6, <3>2 DEF SurfaceScanFinished
      <4>2. rows' \in Rows
        BY <3>1, <4>1 DEF Rows, RowKinds
      <4>3. QED
        BY <2>4, <3>1, <4>1, <4>2
    <3>3. ASSUME ~Publishes(g)
          PROVE  UNCHANGED <<surfaceReport, rows, elapsedOf>>
      BY <2>6, <3>3 DEF SurfaceScanFinished
    <3>4. QED
      <4>1. /\ surfaceReport' \in 0..MaxRevision
            /\ rows' \in Rows
            /\ elapsedOf' \in 0..MaxGeneration
        BY <3>2, <3>3
      <4>2. /\ statusOf' = 0 /\ 0 \in 0..MaxGeneration /\ UNCHANGED <<progressOf, uiClosing>>
            /\ outcome' \in [Generations -> Outcomes] /\ UNCHANGED <<worker, input, updates, ticker>>
        BY <2>6, <2>11 DEF SurfaceScanFinished, HandlerStatus
      <4>3. posted' \in Seq(Callbacks) /\ modal' \in Modals /\ captured' = captured
        BY <2>1, <2>2, <2>6 DEF SurfaceScanFinished
      <4>4. QED
        BY <1>1, <4>1, <4>2, <4>3
  <2>7. CASE ScanFinished(g)
    <3>1. rows' \in Rows /\ elapsedOf' \in 0..MaxGeneration
      BY <2>4, <2>7 DEF ScanFinished, Rows, RowKinds
    <3>2. QED
      BY <1>1, <2>1, <2>2, <2>7, <2>11, <3>1 DEF ScanFinished, HandlerStatus
  <2>8. CASE ReportExportFinished(g)
    <3>1. uiClosing' \in BOOLEAN
      BY <1>1, <2>8 DEF ReportExportFinished, TypeOK
    <3>2. QED
      BY <1>1, <2>1, <2>2, <2>8, <2>11, <3>1 DEF ReportExportFinished, HandlerStatus
  <2>9. CASE ApplyRecycleBatch(g)
    <3>1. uiClosing' \in BOOLEAN
      BY <1>1, <2>9 DEF ApplyRecycleBatch, TypeOK
    <3>2. rows' \in Rows
      BY <1>3, <2>9 DEF ApplyRecycleBatch
    <3>3. QED
      BY <1>1, <2>1, <2>2, <2>9, <2>11, <3>1, <3>2 DEF ApplyRecycleBatch, HandlerStatus
  <2>10. QED
    BY <2>3, <2>5, <2>6, <2>7, <2>8, <2>9
<1>11. CASE Terminated \/ UNCHANGED vars
  BY <1>1, <1>11 DEF Terminated, vars, viewVars, dialogVars, goVars
<1>12. QED
  BY <1>5, <1>6, <1>7, <1>8, <1>9, <1>10, <1>11 DEF WorkflowNext, UserInput

-----------------------------------------------------------------------------
(* The goroutine invariant.                                                *)

GoInv ==
  /\ ClosingGranted
  /\ WorkersWereIssued
  /\ OneWorkerAtATime
  /\ CompletionsPostedOnce
  /\ ActiveIsBacked
  /\ NoProtectedWorkerAtExit

GoVars == <<active, issued, allowClose, uiClosing, worker, posted>>

\* Steps that leave token, worker, window and queue alone preserve it.
LEMMA QuietSteps ==
  ASSUME GoInv, UNCHANGED GoVars PROVE GoInv'
BY DEF GoInv, GoVars, ClosingGranted, WorkersWereIssued, OneWorkerAtATime,
       CompletionsPostedOnce, ActiveIsBacked, AtWork, NoProtectedWorkerAtExit

\* In an idle phase no worker is at work and the window is open.
LEMMA IdleMeansNoWorker ==
  ASSUME OpInv, GoInv, phase \in IdlePhases
  PROVE  /\ active = NoToken /\ ~uiClosing /\ ~allowClose
         /\ \A g \in Generations : ~AtWork(g)
<1>1. active = NoToken
  BY PhaseSplit DEF OpInv, OpSafety, ActiveMatchesPhase, IdlePhases
<1>2. ~allowClose /\ ~uiClosing
  BY DEF OpInv, OpSafety, CloseIsRemembered, IdlePhases, GoInv, ClosingGranted
<1>3. \A g \in Generations : ~AtWork(g)
  BY <1>1, <1>2, OperationAssumption
  DEF GoInv, OneWorkerAtATime, AtWork, NoToken, Generations, OperationAssumption
<1>4. QED
  BY <1>1, <1>2, <1>3

\* Beginning an operation puts its worker, and no other, to work.
LEMMA BeginGoInv ==
  ASSUME OpInv, WorkflowTypeOK, GoInv, phase \in IdlePhases,
         NEW kind, NEW to, BeginOperation(kind, to),
         worker' = [worker EXCEPT ![nextGeneration'] = "running"],
         UNCHANGED <<uiClosing, posted>>
  PROVE  GoInv'
<1> DEFINE n == nextGeneration'
<1>1. n \in Generations /\ n = nextGeneration + 1 /\ NewToken(kind) # NoToken
  BY OperationAssumption
  DEF BeginOperation, NewToken, NoToken, OpInv, TypeOK, Generations, OperationAssumption
<1>2. active' = NewToken(kind) /\ active'.generation = n /\ issued' = [issued EXCEPT ![n] = NewToken(kind)]
  BY DEF BeginOperation, NewToken
<1>3. /\ \A g \in Generations : ~AtWork(g)
      /\ ~uiClosing /\ ~allowClose /\ allowClose' = allowClose
  BY IdleMeansNoWorker DEF BeginOperation
<1>4. /\ worker'[n] = "running" /\ worker[n] = "none"
      /\ \A g \in Generations \ {n} : worker'[g] = worker[g]
      /\ worker \in [Generations -> WorkerStates]
  <2>1. issued[n] = NoToken
    BY <1>1, OperationAssumption
    DEF OpInv, IssuedInOrder, TypeOK, Generations, OperationAssumption
  <2>2. QED
    BY <1>1, <2>1 DEF GoInv, WorkersWereIssued, WorkflowTypeOK
<1>5. WorkersWereIssued'
  BY <1>1, <1>2, <1>4 DEF GoInv, WorkersWereIssued, OpInv, TypeOK
<1>6. OneWorkerAtATime'
  BY <1>2, <1>3, <1>4 DEF OneWorkerAtATime, AtWork
<1>7. CompletionsPostedOnce'
  <2>1. \A i \in 1..Len(posted) : posted[i] \in Callbacks
    BY DEF WorkflowTypeOK
  <2>2. \A i \in 1..Len(posted) : posted[i].generation \in Generations
    BY <2>1 DEF Callbacks
  <2>3. QED
    BY <1>4, <2>2 DEF GoInv, CompletionsPostedOnce
<1>8. ActiveIsBacked'
  BY <1>2, <1>4 DEF ActiveIsBacked, AtWork
<1>9. ClosingGranted' /\ NoProtectedWorkerAtExit'
  BY <1>3 DEF GoInv, ClosingGranted, NoProtectedWorkerAtExit
<1>10. QED
  BY <1>5, <1>6, <1>7, <1>8, <1>9 DEF GoInv

\* A worker that returns is still the one at work.
LEMMA ReturnGoInv ==
  ASSUME OpInv, WorkflowTypeOK, GoInv, NEW g \in Generations, WorkerReturns(g)
  PROVE  GoInv'
<1> USE DEF WorkflowTypeOK
<1>1. /\ worker' = [worker EXCEPT ![g] = "returned"] /\ worker[g] = "running"
      /\ UNCHANGED <<active, issued, allowClose, uiClosing, posted>>
  BY DEF WorkerReturns, opVars
<1>2. \A h \in Generations :
        /\ (worker'[h] \in {"running", "returned"}) <=> AtWork(h)
        /\ worker'[h] # "none" <=> worker[h] # "none"
        /\ worker'[h] = "finished" <=> worker[h] = "finished"
  BY <1>1 DEF AtWork
<1>3. WorkersWereIssued' /\ OneWorkerAtATime' /\ NoProtectedWorkerAtExit'
  BY <1>1, <1>2
  DEF GoInv, WorkersWereIssued, OneWorkerAtATime, NoProtectedWorkerAtExit, AtWork
<1>4. CompletionsPostedOnce'
  <2>1. \A i \in 1..Len(posted) : posted[i] \in Callbacks
    OBVIOUS
  <2>2. \A i \in 1..Len(posted) : posted[i].generation \in Generations
    BY <2>1 DEF Callbacks
  <2>3. SUFFICES ASSUME NEW i \in 1..Len(posted), NEW j \in 1..Len(posted),
                        posted[i].type = "done"
                 PROVE  /\ worker'[posted[i].generation] = "finished"
                        /\ posted[i] = posted[j] => i = j
    BY <1>1 DEF CompletionsPostedOnce
  <2>4. worker[posted[i].generation] = "finished" /\ (posted[i] = posted[j] => i = j)
    BY <2>3 DEF GoInv, CompletionsPostedOnce
  <2>5. QED
    BY <1>2, <2>2, <2>4
<1>5. ActiveIsBacked'
  <2>1. active # NoToken => active.generation \in Generations
    BY DEF OpInv, TypeOK, Tokens
  <2>2. QED
    BY <1>1, <1>2, <2>1 DEF GoInv, ActiveIsBacked, AtWork
<1>6. QED
  BY <1>1, <1>3, <1>4, <1>5 DEF GoInv, ClosingGranted

\* Posting a progress or tick callback adds no completion.
LEMMA PostProgressGoInv ==
  ASSUME WorkflowTypeOK, GoInv, NEW type \in {"progress", "tick"},
         NEW g \in Generations, PostCallback(type, g),
         UNCHANGED <<active, issued, allowClose, uiClosing, worker>>
  PROVE  GoInv'
<1> DEFINE m == [type |-> type, generation |-> g]
<1>1. CASE posted' = posted
  BY <1>1, QuietSteps DEF GoVars
<1>2. CASE posted' = Append(posted, m)
  <2>1. /\ Len(posted') = Len(posted) + 1 /\ Len(posted) \in Nat
        /\ \A i \in 1..Len(posted) : posted'[i] = posted[i]
        /\ posted'[Len(posted) + 1] = m
    BY <1>2 DEF WorkflowTypeOK
  <2>2. m.type # "done"
    OBVIOUS
  <2>3. CompletionsPostedOnce'
    BY <2>1, <2>2 DEF GoInv, CompletionsPostedOnce
  <2>4. ActiveIsBacked'
    BY <2>1 DEF GoInv, ActiveIsBacked, AtWork
  <2>5. QED
    BY <2>3, <2>4
    DEF GoInv, ClosingGranted, WorkersWereIssued, OneWorkerAtATime,
        NoProtectedWorkerAtExit
<1>3. QED
  BY <1>1, <1>2 DEF PostCallback

\* A worker that has returned posts its completion, its first and only one.
LEMMA PostCompletionGoInv ==
  ASSUME OpInv, WorkflowTypeOK, GoInv, NEW g \in Generations,
         WorkerPostsCompletion(g)
  PROVE  GoInv'
<1>1. /\ worker[g] = "returned" /\ worker' = [worker EXCEPT ![g] = "finished"]
      /\ UNCHANGED <<active, issued, allowClose, uiClosing>>
      /\ posted' = IF uiClosing THEN posted ELSE Append(posted, DoneOf(g))
  BY DEF WorkerPostsCompletion, PostCallback, DoneOf, opVars
<1>2. /\ worker'[g] = "finished"
      /\ \A h \in Generations : h # g => worker'[h] = worker[h]
  BY <1>1 DEF WorkflowTypeOK
<1>3. \A i \in 1..Len(posted) : posted[i].generation \in Generations
  <2>1. \A i \in 1..Len(posted) : posted[i] \in Callbacks
    BY DEF WorkflowTypeOK
  <2>2. QED
    BY <2>1 DEF Callbacks
<1>4. \A i \in 1..Len(posted) : posted[i].type = "done" =>
        posted[i].generation # g /\ worker[posted[i].generation] = "finished"
  BY <1>1 DEF GoInv, CompletionsPostedOnce
<1>5. WorkersWereIssued' /\ OneWorkerAtATime' /\ NoProtectedWorkerAtExit'
  BY <1>1, <1>2
  DEF GoInv, WorkersWereIssued, OneWorkerAtATime, NoProtectedWorkerAtExit
<1>6. CompletionsPostedOnce'
  <2>1. CASE uiClosing
    BY <1>1, <1>2, <1>3, <1>4, <2>1 DEF GoInv, CompletionsPostedOnce
  <2>2. CASE ~uiClosing
    <3>1. /\ Len(posted') = Len(posted) + 1 /\ Len(posted) \in Nat
          /\ \A i \in 1..Len(posted) : posted'[i] = posted[i]
          /\ posted'[Len(posted) + 1] = DoneOf(g)
      BY <1>1, <2>2 DEF WorkflowTypeOK
    <3>2. SUFFICES ASSUME NEW i \in 1..Len(posted'), NEW j \in 1..Len(posted'),
                          posted'[i].type = "done"
                   PROVE  /\ worker'[posted'[i].generation] = "finished"
                          /\ posted'[i] = posted'[j] => i = j
      BY DEF CompletionsPostedOnce
    <3>3. CASE i \in 1..Len(posted) /\ j \in 1..Len(posted)
      BY SMTT(30), <1>2, <1>3, <3>1, <3>2, <3>3 DEF GoInv, CompletionsPostedOnce
    <3>4. CASE i \in 1..Len(posted) /\ j = Len(posted) + 1
      BY <1>2, <1>3, <1>4, <3>1, <3>2, <3>4 DEF DoneOf
    <3>5. CASE i = Len(posted) + 1 /\ j \in 1..Len(posted)
      BY <1>2, <1>3, <1>4, <3>1, <3>2, <3>5 DEF DoneOf
    <3>6. CASE i = Len(posted) + 1 /\ j = Len(posted) + 1
      BY <1>2, <3>1, <3>6 DEF DoneOf
    <3>7. QED
      BY <3>1, <3>3, <3>4, <3>5, <3>6
  <2>3. QED
    BY <2>1, <2>2
<1>7. ActiveIsBacked'
  <2>1. SUFFICES ASSUME active # NoToken
                 PROVE  \E i \in 1..Len(posted') : posted'[i] = DoneOf(active.generation)
    BY <1>1 DEF ActiveIsBacked
  <2>2. ~uiClosing
    BY <2>1, PhaseSplit
    DEF GoInv, ClosingGranted, OpInv, OpSafety, ActiveMatchesPhase, CloseIsRemembered
  <2>3. active.generation = g
    BY <1>1, <2>2 DEF GoInv, OneWorkerAtATime
  <2>4. Len(posted) + 1 \in 1..Len(posted') /\ posted'[Len(posted) + 1] = DoneOf(g)
    BY <1>1, <2>2 DEF WorkflowTypeOK
  <2>5. QED
    BY <2>3, <2>4
<1>8. QED
  BY <1>1, <1>5, <1>6, <1>7 DEF GoInv, ClosingGranted

\* Running a callback takes the oldest one off the queue.
LEMMA PopFacts ==
  ASSUME WorkflowTypeOK, NEW type, NEW g, NextCallback(type, g)
  PROVE  /\ Len(posted) \in Nat /\ Len(posted') \in Nat
         /\ Len(posted) = Len(posted') + 1
         /\ posted[1] = [type |-> type, generation |-> g]
         /\ \A i \in 1..Len(posted') : posted'[i] = posted[i + 1]
<1>1. /\ posted \in Seq(Callbacks) /\ posted # <<>>
      /\ Head(posted) = [type |-> type, generation |-> g]
      /\ posted' = Tail(posted)
  BY DEF WorkflowTypeOK, NextCallback
<1> DEFINE q == posted
           r == Tail(q)
<1>2. /\ Len(q) \in Nat /\ Len(q) # 0
      /\ q[1] = Head(q)
  BY <1>1
<1>3. /\ Len(r) = Len(q) - 1
      /\ \A i \in 1..Len(r) : r[i] = q[i + 1]
  BY <1>1, HeadTailProperties
<1>4. Len(r) \in Nat /\ Len(q) = Len(r) + 1
  BY <1>2, <1>3
<1>5. posted' = r
  BY <1>1
<1> HIDE DEF q, r
<1>6. QED
  BY <1>1, <1>2, <1>3, <1>4, <1>5 DEF q

LEMMA PopKeepsOnce ==
  ASSUME WorkflowTypeOK, CompletionsPostedOnce, UNCHANGED worker,
         NEW type, NEW g, NextCallback(type, g)
  PROVE  CompletionsPostedOnce'
<1>0. /\ Len(posted) \in Nat /\ Len(posted') \in Nat
      /\ Len(posted) = Len(posted') + 1
      /\ posted[1] = [type |-> type, generation |-> g]
      /\ \A i \in 1..Len(posted') : posted'[i] = posted[i + 1]
  BY PopFacts
<1> SUFFICES ASSUME NEW i \in 1..Len(posted'), NEW j \in 1..Len(posted'),
                    posted'[i].type = "done"
             PROVE  /\ worker[posted'[i].generation] = "finished"
                    /\ posted'[i] = posted'[j] => i = j
  BY DEF CompletionsPostedOnce
<1>1. /\ i + 1 \in 1..Len(posted) /\ j + 1 \in 1..Len(posted)
      /\ posted'[i] = posted[i + 1] /\ posted'[j] = posted[j + 1]
  BY <1>0
<1>2. i \in Nat /\ j \in Nat
  BY <1>0
<1>3. i + 1 = j + 1 => i = j
  BY <1>2
<1>4. worker[posted[i + 1].generation] = "finished"
      /\ (posted[i + 1] = posted[j + 1] => i + 1 = j + 1)
  BY <1>1 DEF CompletionsPostedOnce
<1>5. QED
  BY <1>1, <1>3, <1>4

\* A callback that is dropped, or only writes a label, retires nothing.
LEMMA DropGoInv ==
  ASSUME OpInv, WorkflowTypeOK, GoInv, NEW g \in Generations,
         NEW type \in {"progress", "tick", "done"}, NextCallback(type, g),
         type = "done" => ~Current(g),
         UNCHANGED <<active, issued, allowClose, uiClosing, worker>>
  PROVE  GoInv'
<1>0. /\ Len(posted) \in Nat /\ Len(posted') \in Nat
      /\ Len(posted) = Len(posted') + 1
      /\ posted[1] = [type |-> type, generation |-> g]
      /\ \A i \in 1..Len(posted') : posted'[i] = posted[i + 1]
  BY PopFacts
<1>1. CompletionsPostedOnce'
  BY PopKeepsOnce DEF GoInv
<1>2. ActiveIsBacked'
  <2>1. SUFFICES ASSUME active # NoToken, ~AtWork(active.generation)
                 PROVE  \E i \in 1..Len(posted') : posted'[i] = DoneOf(active.generation)
    BY DEF ActiveIsBacked, AtWork
  <2>2. PICK i \in 1..Len(posted) : posted[i] = DoneOf(active.generation)
    BY <2>1 DEF GoInv, ActiveIsBacked
  <2>3. i # 1
    <3>1. SUFFICES ASSUME i = 1 PROVE FALSE
      OBVIOUS
    <3>2. type = "done" /\ g = active.generation
      BY <2>2, <3>1, <1>0 DEF DoneOf
    <3>3. Accepts(issued[g])
      BY <2>1, <3>2 DEF OpInv, OpSafety, ActiveMatchesPhase, Accepts
    <3>4. ~uiClosing
      BY <2>1, PhaseSplit
      DEF GoInv, ClosingGranted, OpInv, OpSafety, ActiveMatchesPhase, CloseIsRemembered
    <3>5. QED
      BY <3>2, <3>3, <3>4 DEF Current
  <2>4. i - 1 \in 1..Len(posted') /\ posted'[i - 1] = posted[i]
    BY <2>3, <1>0
  <2>5. QED
    BY <2>2, <2>4
<1>3. QED
  BY <1>1, <1>2
  DEF GoInv, ClosingGranted, WorkersWereIssued, OneWorkerAtATime,
      NoProtectedWorkerAtExit

\* The completion of the token in force: its worker has finished and no other
\* is at work, so nothing runs when the operation is retired.
LEMMA CompleteGoInv ==
  ASSUME OpInv, OpInv', WorkflowTypeOK, GoInv, NEW g \in Generations,
         NextCallback("done", g), Current(g), Completion(issued[g]),
         uiClosing' = allowClose', UNCHANGED worker
  PROVE  GoInv'
<1>0. /\ Len(posted) \in Nat /\ Len(posted') \in Nat
      /\ Len(posted) = Len(posted') + 1
      /\ posted[1] = [type |-> "done", generation |-> g]
      /\ \A i \in 1..Len(posted') : posted'[i] = posted[i + 1]
  BY PopFacts
<1>1. active = issued[g] /\ active # NoToken /\ active.generation = g /\ ~uiClosing
  BY DEF Current, Accepts, OpInv, IssuedInOrder
<1>2. worker[g] = "finished"
  <2>1. 1 \in 1..Len(posted) /\ posted[1].type = "done" /\ posted[1].generation = g
    BY <1>0
  <2>2. QED
    BY <2>1 DEF GoInv, CompletionsPostedOnce
<1>3. \A h \in Generations : ~AtWork(h)
  BY <1>1, <1>2 DEF GoInv, OneWorkerAtATime, AtWork
<1>4. active' = NoToken /\ issued' = issued
  BY DEF Completion, CompleteSurfaceScan, CompleteDuplicateScan, CompleteExport,
         CompleteDelete, CompleteProtected, ClearActiveOperation
<1>5. CompletionsPostedOnce'
  BY PopKeepsOnce DEF GoInv
<1>6. QED
  BY <1>3, <1>4, <1>5
  DEF GoInv, ClosingGranted, WorkersWereIssued, OneWorkerAtATime,
      ActiveIsBacked, NoProtectedWorkerAtExit, AtWork

\* A close is granted at once only in a phase without a protected operation, so
\* the worker it may leave behind is a scan's.
LEMMA CloseGoInv ==
  ASSUME OpInv, GoInv, ~uiClosing, RequestClose, uiClosing' = allowClose',
         UNCHANGED <<worker, posted>>
  PROVE  GoInv'
<1>1. ~allowClose
  BY DEF GoInv, ClosingGranted
<1>2. CASE UNCHANGED <<active, allowClose>>
  <2>1. issued' = issued
    BY <1>1 DEF RequestClose
  <2>2. uiClosing' = uiClosing
    BY <1>2 DEF GoInv, ClosingGranted
  <2>3. QED
    BY <1>2, <2>1, <2>2, QuietSteps DEF GoVars
<1>3. CASE CloseAtOnce
  <2>1. /\ active' = NoToken /\ issued' = issued /\ allowClose' /\ uiClosing'
        /\ phase \notin PhasesOf["export"] \cup PhasesOf["delete"]
    BY <1>1, <1>3 DEF RequestClose, CloseAtOnce, InvalidateActiveOperation
  <2>2. ASSUME NEW g \in Generations, AtWork(g)
        PROVE  issued[g].kind \notin {"export", "delete"}
    <3>1. active.generation = g
      BY <2>2 DEF GoInv, OneWorkerAtATime, AtWork
    <3>2. active # NoToken
      BY <3>1, OperationAssumption DEF NoToken, Generations, OperationAssumption
    <3>3. issued[g] = active /\ phase \in PhasesOf[active.kind]
      BY <3>1, <3>2 DEF OpInv, OpSafety, ActiveMatchesPhase
    <3>4. QED
      BY <2>1, <3>3
  <2>3. NoProtectedWorkerAtExit'
    BY <2>1, <2>2 DEF NoProtectedWorkerAtExit, AtWork
  <2>4. OneWorkerAtATime'
    BY <2>1 DEF GoInv, OneWorkerAtATime
  <2>5. QED
    BY <2>1, <2>3, <2>4
    DEF GoInv, ClosingGranted, WorkersWereIssued, CompletionsPostedOnce,
        ActiveIsBacked
<1>4. QED
  BY <1>1, <1>2, <1>3
  DEF RequestClose, DeferCloseForExport, DeferCloseForDelete, StayDeferred

-----------------------------------------------------------------------------
(* The step and the theorems.                                              *)

LEMMA HandlersGoInv ==
  ASSUME OpInv, WorkflowTypeOK, GoInv, UserInput
  PROVE  GoInv'
<1>1. CASE \/ MessageShown \/ SelectFolderClicked \/ CancelClicked \/ ClearClicked
           \/ ExportClicked \/ DeleteClicked \/ DismissDialog
  <2>1. UNCHANGED GoVars
    BY <1>1
    DEF MessageShown, SelectFolderClicked, CancelClicked, ClearClicked, ExportClicked,
        DeleteClicked, DismissDialog, OpenDialog, RequestScanCancellation,
        RequestExportCancellation, ClearResults, GoVars, opVars, goVars
  <2>2. QED
    BY <2>1, QuietSteps
<1>2. CASE (\E f \in Folders : FolderChosen(f)) \/ ResetAll
  <2>1. /\ phase \in IdlePhases /\ active' = NoToken
        /\ UNCHANGED <<issued, allowClose, uiClosing, worker, posted>>
    BY <1>2
    DEF FolderChosen, ResetAll, SelectFolder, Reset, ChangeFolder,
        CanChangeFolder, InvalidateActiveOperation, goVars
  <2>2. active = NoToken
    BY <2>1, IdleMeansNoWorker
  <2>3. QED
    BY <2>1, <2>2, QuietSteps DEF GoVars
<1>3. CASE StartSurfaceScan \/ StartDuplicateScan
           \/ ExportDestinationChosen \/ DeleteConfirmed
  <2>1. /\ phase \in IdlePhases
        /\ \/ BeginOperation("surface", "SurfaceScanning")
           \/ BeginOperation("duplicate", "DuplicateScanning")
           \/ BeginOperation("export", "Exporting")
           \/ BeginOperation("delete", "Deleting")
        /\ worker' = [worker EXCEPT ![nextGeneration'] = "running"]
        /\ UNCHANGED <<uiClosing, posted>>
    BY <1>3
    DEF StartSurfaceScan, StartDuplicateScan, ExportDestinationChosen,
        DeleteConfirmed, BeginSurfaceScan, BeginDuplicateScan, BeginExport,
        BeginDelete, StartGoroutines, IdlePhases
  <2>2. QED
    BY <2>1, BeginGoInv
<1>4. CASE WindowClosing
  BY <1>4, CloseGoInv DEF WindowClosing, goVars
<1>5. QED
  BY <1>1, <1>2, <1>3, <1>4 DEF UserInput

LEMMA GoroutinesGoInv ==
  ASSUME OpInv, WorkflowTypeOK, GoInv, NEW g \in Generations, Goroutine(g)
  PROVE  GoInv'
<1>1. CASE WorkerReportsProgress(g) \/ TickerStops(g)
  <2>1. UNCHANGED GoVars
    BY <1>1 DEF WorkerReportsProgress, TickerStops, GoVars, opVars
  <2>2. QED
    BY <2>1, QuietSteps
<1>2. CASE ConsumeProgress(g) \/ TickElapsed(g)
  <2>1. /\ PostCallback("progress", g) \/ PostCallback("tick", g)
        /\ UNCHANGED <<active, issued, allowClose, uiClosing, worker>>
    BY <1>2 DEF ConsumeProgress, TickElapsed, opVars, goVars
  <2>2. QED
    BY <2>1, PostProgressGoInv
<1>3. CASE WorkerReturns(g)
  BY <1>3, ReturnGoInv
<1>4. CASE WorkerPostsCompletion(g)
  BY <1>4, PostCompletionGoInv
<1>5. QED
  BY <1>1, <1>2, <1>3, <1>4 DEF Goroutine

LEMMA CallbacksGoInv ==
  ASSUME OpInv, OpInv', WorkflowTypeOK, GoInv, RunCallback
  PROVE  GoInv'
<1>1. PICK g \in Generations :
        \/ \E type \in {"progress", "tick", "done"} : DropCallback(type, g)
        \/ ShowProgress(g)
        \/ ShowElapsed(g)
        \/ SurfaceScanFinished(g)
        \/ ScanFinished(g)
        \/ ReportExportFinished(g)
        \/ ApplyRecycleBatch(g)
  BY DEF RunCallback
<1>2. CASE \/ \E type \in {"progress", "tick", "done"} : DropCallback(type, g)
           \/ ShowProgress(g)
           \/ ShowElapsed(g)
  <2>1. PICK type \in {"progress", "tick", "done"} :
          /\ NextCallback(type, g)
          /\ type = "done" => ~Current(g)
          /\ UNCHANGED <<active, issued, allowClose, uiClosing, worker>>
    BY <1>2 DEF DropCallback, ShowProgress, ShowElapsed, opVars, goVars
  <2>2. QED
    BY <2>1, DropGoInv
<1>3. CASE SurfaceScanFinished(g) \/ ScanFinished(g)
  <2>1. /\ NextCallback("done", g) /\ Current(g)
        /\ UNCHANGED <<worker, uiClosing>>
    BY <1>3 DEF SurfaceScanFinished, ScanFinished, ForgetResult
  <2>2. Completion(issued[g]) /\ allowClose' = allowClose
    <3>1. CASE SurfaceScanFinished(g)
      <4>1. CompleteSurfaceScan(issued[g], outcome[g] = "ok")
        BY <3>1 DEF SurfaceScanFinished
      <4>2. (outcome[g] = "ok") \in BOOLEAN
        OBVIOUS
      <4>3. QED
        BY <4>1, <4>2 DEF Completion, CompleteSurfaceScan
    <3>2. CASE ScanFinished(g)
      <4>1. CompleteDuplicateScan(issued[g], outcome[g] \in {"ok", "empty"})
        BY <3>2 DEF ScanFinished
      <4>2. (outcome[g] \in {"ok", "empty"}) \in BOOLEAN
        OBVIOUS
      <4>3. QED
        BY <4>1, <4>2 DEF Completion, CompleteDuplicateScan
    <3>3. QED
      BY <1>3, <3>1, <3>2
  <2>3. uiClosing' = allowClose'
    BY <2>1, <2>2 DEF GoInv, ClosingGranted
  <2>4. QED
    BY <2>1, <2>2, <2>3, CompleteGoInv
<1>4. CASE ReportExportFinished(g) \/ ApplyRecycleBatch(g)
  <2>1. /\ NextCallback("done", g) /\ Current(g) /\ Completion(issued[g])
        /\ uiClosing' = allowClose' /\ UNCHANGED worker
    BY <1>4 DEF ReportExportFinished, ApplyRecycleBatch, Completion, ForgetResult
  <2>2. QED
    BY <2>1, CompleteGoInv
<1>5. QED
  BY <1>1, <1>2, <1>3, <1>4

\* The types of the workflow's variables, for every value of the constants.
THEOREM WorkflowTypeCorrect == WorkflowSpec => []WorkflowTypeOK
<1>1. WorkflowInit => WorkflowTypeOK
  <2> SUFFICES ASSUME WorkflowInit PROVE WorkflowTypeOK
    OBVIOUS
  <2>1. TypeOK
    BY InitEstablishes DEF WorkflowInit, OpInv
  <2>2. NoRows \in Rows
    BY OperationAssumption DEF NoRows, Rows, RowKinds, OperationAssumption
  <2>3. /\ 0 \in 0..MaxRevision /\ 0 \in 0..MaxGeneration
        /\ 0 \in 0..ProgressCapacity
    BY OperationAssumption, WorkflowAssumption
    DEF OperationAssumption, WorkflowAssumption
  <2>4. FALSE \in BOOLEAN
    OBVIOUS
  <2>5. ticker \in [Generations -> BOOLEAN]
    BY <2>4 DEF WorkflowInit
  <2>6. /\ worker \in [Generations -> WorkerStates]
        /\ input \in [Generations -> 0..MaxRevision]
        /\ outcome \in [Generations -> Outcomes]
        /\ updates \in [Generations -> 0..ProgressCapacity]
    BY <2>3 DEF WorkflowInit, WorkerStates, Outcomes
  <2>7. posted \in Seq(Callbacks) /\ modal \in Modals
    BY DEF WorkflowInit, Modals
  <2>8. uiClosing \in BOOLEAN
    BY <2>4 DEF WorkflowInit
  <2>9. /\ surfaceReport \in 0..MaxRevision /\ rows \in Rows /\ captured \in Rows
        /\ statusOf \in 0..MaxGeneration /\ progressOf \in 0..MaxGeneration
        /\ elapsedOf \in 0..MaxGeneration
    BY <2>2, <2>3 DEF WorkflowInit
  <2>10. QED
    BY <2>1, <2>5, <2>6, <2>7, <2>8, <2>9 DEF WorkflowTypeOK
<1>2. WorkflowTypeOK /\ OpInv /\ OpInv' /\ [WorkflowNext]_vars => WorkflowTypeOK'
  BY WorkflowTypes
<1>3. QED
  BY <1>1, <1>2, WorkflowOpInv, PTL DEF WorkflowSpec

\* The goroutine invariant holds of the running application.
THEOREM WorkflowGoInv == WorkflowSpec => []GoInv
<1>1. WorkflowInit => GoInv
  <2> SUFFICES ASSUME WorkflowInit PROVE GoInv
    OBVIOUS
  <2>1. /\ ~uiClosing /\ ~allowClose /\ active = NoToken
        /\ \A g \in Generations : worker[g] = "none"
    BY DEF WorkflowInit, Init
  <2>2. posted = <<>> /\ 1..Len(posted) = {}
    BY DEF WorkflowInit
  <2>3. CompletionsPostedOnce /\ ActiveIsBacked
    BY <2>1, <2>2 DEF CompletionsPostedOnce, ActiveIsBacked
  <2>4. WorkersWereIssued /\ OneWorkerAtATime /\ NoProtectedWorkerAtExit
    BY <2>1 DEF WorkersWereIssued, OneWorkerAtATime, NoProtectedWorkerAtExit
  <2>5. ClosingGranted
    BY DEF ClosingGranted, WorkflowInit, Init
  <2>6. QED
    BY <2>3, <2>4, <2>5 DEF GoInv
<1>2. ASSUME OpInv, OpInv', WorkflowTypeOK, GoInv, [WorkflowNext]_vars
      PROVE  GoInv'
  <2>1. CASE Terminated \/ UNCHANGED vars
    <3>1. UNCHANGED GoVars
      BY <2>1 DEF Terminated, vars, GoVars, opVars, goVars
    <3>2. QED
      BY <1>2, <3>1, QuietSteps
  <2>2. CASE \E g \in Generations : Goroutine(g)
    BY <1>2, <2>2, GoroutinesGoInv
  <2>3. QED
    BY <1>2, <2>1, <2>2, HandlersGoInv, CallbacksGoInv DEF WorkflowNext
<1>3. QED
  BY <1>1, <1>2, WorkflowOpInv, WorkflowTypeCorrect, PTL DEF WorkflowSpec

\* Two worker goroutines are never at work together, whatever the user clicks
\* and however the callbacks of earlier operations are delayed.
THEOREM OneWorker == WorkflowSpec => []OneWorkerAtATime
<1>1. GoInv => OneWorkerAtATime
  BY DEF GoInv
<1>2. QED
  BY <1>1, WorkflowGoInv, PTL

\* The window is never closed under a report writer or a recycle batch.
THEOREM ProtectedWorkersOutliveWindow == WorkflowSpec => []NoProtectedWorkerAtExit
<1>1. GoInv => NoProtectedWorkerAtExit
  BY DEF GoInv
<1>2. QED
  BY <1>1, WorkflowGoInv, PTL

\* No operation is left in force with nobody to acknowledge it, and none is
\* acknowledged twice.
THEOREM AcknowledgementNeverLost == WorkflowSpec => []AcknowledgementPending
<1>1. ASSUME OpInv, WorkflowTypeOK, GoInv PROVE AcknowledgementPending
  <2> DEFINE pending(g) == {i \in 1..Len(posted) :
                              posted[i] = [type |-> "done", generation |-> g]}
  <2>1. active # NoToken =>
          \/ worker[active.generation] \in {"running", "returned"}
          \/ pending(active.generation) # {}
    BY <1>1 DEF GoInv, ActiveIsBacked, AtWork, DoneOf
  <2>2. ASSUME NEW g \in Generations, NEW i \in pending(g)
        PROVE  worker[g] = "finished" /\ \A j \in pending(g) : i = j
    <3>1. i \in 1..Len(posted) /\ posted[i].type = "done" /\ posted[i].generation = g
      BY <2>2
    <3>2. QED
      BY <1>1, <2>2, <3>1 DEF GoInv, CompletionsPostedOnce
  <2> HIDE DEF pending
  <2>3. \A g \in Generations :
          /\ pending(g) # {} => worker[g] = "finished"
          /\ \A i, j \in pending(g) : i = j
    BY <2>2
  <2>4. QED
    BY <2>1, <2>3 DEF AcknowledgementPending, pending
<1>2. QED
  BY <1>1, WorkflowOpInv, WorkflowTypeCorrect, WorkflowGoInv, PTL

-----------------------------------------------------------------------------
(* The data invariant: what the window shows and what the workers are given. *)

\* A worker has an outcome of its kind, and none before it returns.
OutcomesFit ==
  \A g \in Generations :
    /\ worker[g] \in {"none", "running"} => outcome[g] = "none"
    /\ outcome[g] \in OutcomesOf(issued[g]) \cup {"none", "canceled"}

\* Only groups are captured for an export or a recycle batch.
GroupsAreCaptured ==
  modal \in {"export", "delete"} => captured.kind = "groups"

DataInv ==
  /\ ResultsMatchPhase
  /\ LabelsAreCurrent
  /\ CapturedStaysFresh
  /\ OutcomesFit
  /\ GroupsAreCaptured

DataVars == <<phase, folderRevision, active, issued, surfaceReport, rows, statusOf,
              progressOf, elapsedOf, modal, captured, input, outcome, worker, uiClosing>>

\* Steps that leave all of it alone preserve the invariant.
LEMMA QuietData ==
  ASSUME DataInv, WorkflowTypeOK', UNCHANGED DataVars PROVE DataInv'
<1>1. ResultsMatchPhase'
  BY DEF DataInv, DataVars, ResultsMatchPhase, Accepts
<1>2. QED
  BY <1>1
  DEF DataInv, DataVars, LabelsAreCurrent, NewestScan, CapturedStaysFresh, OutcomesFit,
      GroupsAreCaptured

\* The table, spelled out by phase.
TableMatches ==
  /\ phase \in {"NoFolder", "FolderReady", "SurfaceScanning", "SurfaceCancelling"} =>
       surfaceReport = 0 /\ rows = NoRows
  /\ phase \in {"SurfaceReady", "DuplicateScanning", "DuplicateCancelling"} =>
       /\ surfaceReport = folderRevision
       /\ rows \in {NoRows, [kind |-> "surface", revision |-> folderRevision]}
  /\ phase \in {"ResultsReady", "Exporting", "ExportCancelling", "ClosingAfterExport",
                "Deleting", "ClosingAfterDelete"} =>
       /\ surfaceReport = folderRevision
       /\ rows.kind \in {"none", "unique", "groups"}
       /\ rows.kind # "none" => rows.revision = folderRevision

InputsMatch ==
  \A g \in Generations :
    Accepts(issued[g]) /\ issued[g].kind # "surface" => input[g] = folderRevision

LEMMA DataSplit ==
  /\ ResultsMatchPhase <=> WorkflowTypeOK /\ TableMatches /\ InputsMatch
  /\ ResultsMatchPhase' <=> (WorkflowTypeOK /\ TableMatches /\ InputsMatch)'
BY PhasesOfKinds DEF ResultsMatchPhase, TableMatches, InputsMatch

\* No scan was begun after the operation in force.
LEMMA InForceIsNewest ==
  ASSUME OpInv, NEW g \in Generations, Current(g)
  PROVE  active.generation = g /\ active = issued[g] /\ NewestScan(g)
<1>1. active = issued[g] /\ active # NoToken /\ active.generation = g
  BY DEF Current, Accepts, OpInv, IssuedInOrder
<1>2. g = nextGeneration /\ issued[g].folderRevision = folderRevision
  BY <1>1 DEF OpInv, OpSafety, ActiveMatchesPhase
<1>3. ASSUME NEW h \in Generations, issued[h].kind \in {"surface", "duplicate"}
      PROVE  h <= g
  <2>1. issued[h] # NoToken
    BY <1>3 DEF NoToken
  <2>2. QED
    BY <2>1, <1>2 DEF OpInv, IssuedInOrder
<1>4. QED
  BY <1>1, <1>2, <1>3 DEF NewestScan

\* Message boxes and folder dialogs capture nothing; a handler that captures the
\* groups, like one that opens the folder dialog, does so in an idle phase.
LEMMA OpenDialogData ==
  ASSUME OpInv, GoInv, DataInv, WorkflowTypeOK', NEW kind, NEW snapshot,
         OpenDialog(kind, snapshot), kind # "none",
         kind # "message" => phase \in IdlePhases,
         kind \in {"export", "delete"} =>
           phase = "ResultsReady" /\ rows.kind = "groups" /\ snapshot = rows
  PROVE  DataInv'
<1>1. /\ modal' = kind /\ captured' = snapshot
      /\ UNCHANGED <<phase, folderRevision, active, issued, surfaceReport, rows, statusOf,
                     progressOf, elapsedOf, input, outcome, worker, uiClosing>>
  BY DEF OpenDialog, opVars, viewVars, goVars
<1>2. kind # "message" => active = NoToken
  BY IdleMeansNoWorker
<1>3. ResultsMatchPhase' /\ LabelsAreCurrent' /\ OutcomesFit'
  BY <1>1
  DEF DataInv, ResultsMatchPhase, LabelsAreCurrent, NewestScan, OutcomesFit, Accepts
<1>4. CapturedStaysFresh' /\ GroupsAreCaptured'
  BY <1>1, <1>2 DEF CapturedStaysFresh, GroupsAreCaptured
<1>5. QED
  BY <1>3, <1>4 DEF DataInv

\* An operation begins with data of the selected folder.
LEMMA BeginData ==
  ASSUME OpInv, OpInv', WorkflowTypeOK, WorkflowTypeOK', GoInv, DataInv,
         NEW kind \in Kinds, NEW to, NEW data, NEW timed,
         BeginOperation(kind, to), StartGoroutines(data, timed),
         \/ kind = "surface" /\ phase = "FolderReady" /\ to = "SurfaceScanning"
         \/ kind = "duplicate" /\ phase = "SurfaceReady" /\ to = "DuplicateScanning"
         \/ kind \in {"export", "delete"} /\ phase = "ResultsReady"
            /\ to \in {"Exporting", "Deleting"},
         kind # "surface" => data = folderRevision,
         modal' = "none", statusOf' = 0,
         \/ progressOf' = 0 /\ elapsedOf' = 0
         \/ kind \in {"export", "delete"} /\ UNCHANGED <<progressOf, elapsedOf>>,
         UNCHANGED <<surfaceReport, rows, uiClosing>>
  PROVE  DataInv'
<1> DEFINE n == nextGeneration'
           token == NewToken(kind)
<1>1. /\ active' = token /\ issued' = [issued EXCEPT ![n] = token] /\ phase' = to
      /\ token.generation = n /\ token.kind = kind /\ token.folderRevision = folderRevision
      /\ n = nextGeneration + 1 /\ n \in Generations
      /\ folderRevision' = folderRevision
      /\ worker' = [worker EXCEPT ![n] = "running"] /\ input' = [input EXCEPT ![n] = data]
      /\ outcome' = outcome
  BY OperationAssumption
  DEF BeginOperation, NewToken, StartGoroutines, OpInv, TypeOK, Generations,
      OperationAssumption
<1>2. issued[n] = NoToken /\ worker[n] = "none" /\ outcome[n] = "none"
  <2>1. issued[n] = NoToken
    BY <1>1, OperationAssumption
    DEF OpInv, IssuedInOrder, TypeOK, Generations, OperationAssumption
  <2>2. QED
    BY <1>1, <2>1 DEF GoInv, WorkersWereIssued, DataInv, OutcomesFit
<1>3. /\ issued \in [Generations -> Tokens \cup {NoToken}]
      /\ worker \in [Generations -> WorkerStates]
      /\ input \in [Generations -> 0..MaxRevision]
      /\ outcome \in [Generations -> Outcomes]
  BY DEF WorkflowTypeOK, TypeOK
<1>4. TableMatches'
  BY <1>1, DataSplit DEF DataInv, TableMatches
<1>5. InputsMatch'
  <2> SUFFICES ASSUME NEW g \in Generations, Accepts(issued[g])', issued'[g].kind # "surface"
               PROVE  input'[g] = folderRevision'
    BY DEF InputsMatch
  <2>1. issued'[g] = token /\ issued'[g] # NoToken
    BY <1>1 DEF Accepts
  <2>2. g = n
    BY <2>1, <1>1 DEF OpInv, IssuedInOrder
  <2>3. QED
    BY <2>1, <2>2, <1>1, <1>3
<1>6. LabelsAreCurrent'
  <2>1. ASSUME ~uiClosing, NEW shown \in {progressOf', elapsedOf'} \ {0}
        PROVE  NewestScan(shown)'
    <3>1. /\ kind \in {"export", "delete"} /\ shown \in {progressOf, elapsedOf}
          /\ shown \in Generations
      BY <2>1 DEF WorkflowTypeOK, Generations
    <3>2. NewestScan(shown)
      BY <2>1, <3>1 DEF DataInv, LabelsAreCurrent
    <3>3. issued'[shown].folderRevision = folderRevision
      BY <3>1, <3>2, <1>1, <1>3 DEF NewestScan
    <3>4. \A h \in Generations : issued'[h].kind \in {"surface", "duplicate"} =>
            issued[h].kind \in {"surface", "duplicate"}
      BY <1>1, <1>3, <3>1
    <3>5. QED
      BY <3>2, <3>3, <3>4, <1>1 DEF NewestScan
  <2>2. QED
    BY <2>1, <1>1 DEF LabelsAreCurrent
<1>7. CapturedStaysFresh' /\ GroupsAreCaptured'
  BY DEF CapturedStaysFresh, GroupsAreCaptured
<1>8. OutcomesFit'
  BY <1>1, <1>2, <1>3 DEF DataInv, OutcomesFit
<1>9. QED
  BY <1>4, <1>5, <1>6, <1>7, <1>8, DataSplit DEF DataInv

\* A folder is chosen, or the window is reset: nothing of the old one is left.
LEMMA ChangeFolderData ==
  ASSUME OpInv, GoInv, DataInv, WorkflowTypeOK', NEW f, NEW to \in {"FolderReady", "NoFolder"},
         ChangeFolder(f, to), DiscardFolderData, modal' \in {"none", modal},
         modal \in {"none", "folder"},
         UNCHANGED <<uiClosing, goVars>>
  PROVE  DataInv'
<1>1. /\ active' = NoToken /\ phase' = to /\ surfaceReport' = 0 /\ rows' = NoRows
      /\ statusOf' = 0 /\ progressOf' = 0 /\ elapsedOf' = 0 /\ modal' \in {"none", "folder"}
      /\ UNCHANGED <<issued, worker, outcome, input, uiClosing>>
  BY DEF ChangeFolder, DiscardFolderData, RewriteLabels, InvalidateActiveOperation, goVars
<1>2. TableMatches' /\ InputsMatch'
  BY <1>1 DEF TableMatches, InputsMatch, Accepts
<1>3. LabelsAreCurrent' /\ CapturedStaysFresh' /\ GroupsAreCaptured'
  BY <1>1 DEF LabelsAreCurrent, CapturedStaysFresh, GroupsAreCaptured
<1>4. OutcomesFit'
  BY <1>1 DEF DataInv, OutcomesFit
<1>5. QED
  BY <1>2, <1>3, <1>4, DataSplit DEF DataInv

\* A request to cancel or to close moves the phase; the data stays as it is.
LEMMA CancelOrCloseData ==
  ASSUME OpInv, GoInv, DataInv, WorkflowTypeOK',
         \/ /\ RequestScanCancellation \/ RequestExportCancellation
            /\ uiClosing' = uiClosing
         \/ RequestClose /\ ~uiClosing /\ uiClosing' = allowClose',
         statusOf' \in {0, statusOf}, ~uiClosing' => statusOf' = 0,
         UNCHANGED <<surfaceReport, rows, progressOf, elapsedOf, dialogVars, goVars>>
  PROVE  DataInv'
<1>1. /\ UNCHANGED <<folderRevision, issued, surfaceReport, rows, progressOf, elapsedOf,
                     modal, captured, worker, input, outcome>>
      /\ active' \in {active, NoToken}
  BY DEF RequestScanCancellation, RequestExportCancellation, RequestClose, opVars,
         DeferCloseForExport, DeferCloseForDelete, StayDeferred, CloseAtOnce,
         InvalidateActiveOperation, dialogVars, goVars
<1>2. \/ phase' = phase \/ phase' = "Closing"
      \/ phase = "SurfaceScanning" /\ phase' = "SurfaceCancelling"
      \/ phase = "DuplicateScanning" /\ phase' = "DuplicateCancelling"
      \/ phase \in {"Exporting", "ExportCancelling"}
         /\ phase' \in {"ExportCancelling", "ClosingAfterExport"}
      \/ phase = "Deleting" /\ phase' = "ClosingAfterDelete"
  BY DEF RequestScanCancellation, RequestExportCancellation, RequestClose, opVars,
         DeferCloseForExport, DeferCloseForDelete, StayDeferred, CloseAtOnce
<1>3. TableMatches'
  BY <1>1, <1>2, DataSplit DEF DataInv, TableMatches
<1>4. ASSUME NEW g \in Generations, Accepts(issued[g])' PROVE Accepts(issued[g])
  <2>1. issued'[g] = issued[g] /\ issued[g] # NoToken /\ active = issued[g]
    BY <1>1, <1>4 DEF Accepts
  <2>2. QED
    BY <2>1 DEF OpInv, OpSafety, ActiveMatchesPhase, Accepts
<1>5. InputsMatch'
  BY <1>1, <1>4, DataSplit DEF DataInv, InputsMatch
<1>6. LabelsAreCurrent'
  <2>1. ~uiClosing' => ~uiClosing
    BY DEF GoInv, ClosingGranted, RequestClose, DeferCloseForExport, DeferCloseForDelete,
           StayDeferred, CloseAtOnce
  <2>2. QED
    BY <2>1, <1>1 DEF DataInv, LabelsAreCurrent, NewestScan
<1>7. CapturedStaysFresh' /\ GroupsAreCaptured'
  <2>1. active = NoToken => active' = NoToken
    BY <1>1
  <2>2. phase = "ResultsReady" \/ phase = "Closing" => phase' \in {"ResultsReady", "Closing"}
    BY <1>2
  <2>3. QED
    BY <2>1, <2>2, <1>1 DEF DataInv, CapturedStaysFresh, GroupsAreCaptured
<1>8. OutcomesFit'
  BY <1>1 DEF DataInv, OutcomesFit
<1>9. QED
  BY <1>3, <1>5, <1>6, <1>7, <1>8, DataSplit DEF DataInv

\* The results are cleared: the table falls back to the surface report.
LEMMA ClearData ==
  ASSUME OpInv, GoInv, DataInv, WorkflowTypeOK', ClearClicked
  PROVE  DataInv'
<1>1. /\ UNCHANGED <<folderRevision, active, issued, surfaceReport, elapsedOf, modal,
                     captured, worker, input, outcome, uiClosing>>
      /\ phase \in {"ResultsReady", "SurfaceReady"} /\ phase' = "SurfaceReady"
      /\ rows' = NoRows /\ statusOf' = 0 /\ progressOf' = 0 /\ modal = "none"
  BY DEF ClearClicked, UserCanAct, ClearResults, opVars, HandlerStatus, dialogVars, goVars
<1>2. active = NoToken
  BY <1>1, IdleMeansNoWorker DEF IdlePhases
<1>3. TableMatches' /\ InputsMatch'
  BY <1>1, <1>2, DataSplit DEF DataInv, TableMatches, InputsMatch, Accepts
<1>4. LabelsAreCurrent' /\ CapturedStaysFresh' /\ GroupsAreCaptured'
  BY <1>1 DEF DataInv, LabelsAreCurrent, NewestScan, CapturedStaysFresh, GroupsAreCaptured
<1>5. OutcomesFit'
  BY <1>1 DEF DataInv, OutcomesFit
<1>6. QED
  BY <1>3, <1>4, <1>5, DataSplit DEF DataInv

\* Every handler.
LEMMA HandlersData ==
  ASSUME OpInv, OpInv', WorkflowTypeOK, WorkflowTypeOK', GoInv, DataInv, UserInput
  PROVE  DataInv'
<1>1. CASE MessageShown \/ SelectFolderClicked
  BY <1>1, OpenDialogData DEF MessageShown, SelectFolderClicked, CanChangeFolder
<1>2. CASE ExportClicked \/ DeleteClicked
  BY <1>2, OpenDialogData DEF ExportClicked, DeleteClicked, IdlePhases
<1>3. CASE DismissDialog
  <2>1. /\ modal' = "none" /\ UNCHANGED <<opVars, viewVars, uiClosing, goVars>>
    BY <1>3 DEF DismissDialog, DialogClosed
  <2>2. ResultsMatchPhase'
    BY <2>1 DEF DataInv, ResultsMatchPhase, Accepts, opVars, viewVars, goVars
  <2>3. QED
    BY <2>1, <2>2
    DEF DataInv, LabelsAreCurrent, NewestScan, CapturedStaysFresh, OutcomesFit,
        GroupsAreCaptured, opVars, viewVars, goVars
<1>4. ASSUME NEW f \in Folders, FolderChosen(f) PROVE DataInv'
  BY <1>4, ChangeFolderData DEF FolderChosen, SelectFolder, DialogClosed
<1>5. CASE ResetAll
  BY <1>5, ChangeFolderData DEF ResetAll, Reset, UserCanAct, dialogVars
<1>6. CASE CancelClicked
  <2>1. ~uiClosing
    BY <1>6 DEF CancelClicked, UserCanAct
  <2>2. QED
    BY <2>1, <1>6, CancelOrCloseData DEF CancelClicked, HandlerStatus
<1>7. CASE WindowClosing
  BY <1>7, CancelOrCloseData DEF WindowClosing
<1>8. CASE ClearClicked
  BY <1>8, ClearData
<1>9. CASE StartSurfaceScan
  <2>1. /\ phase = "FolderReady" /\ surfaceReport = 0 /\ rows = NoRows
    BY <1>9, DataSplit DEF StartSurfaceScan, BeginSurfaceScan, DataInv, TableMatches
  <2>2. /\ BeginOperation("surface", "SurfaceScanning") /\ StartGoroutines(0, TRUE)
        /\ modal' = "none" /\ statusOf' = 0 /\ progressOf' = 0 /\ elapsedOf' = 0
        /\ UNCHANGED <<surfaceReport, rows, uiClosing>>
    BY <1>9, <2>1
    DEF StartSurfaceScan, BeginSurfaceScan, DiscardFolderData, RewriteLabels, UserCanAct,
        dialogVars
  <2>3. QED
    BY <2>1, <2>2, BeginData DEF Kinds
<1>10. CASE StartDuplicateScan
  <2>1. phase = "SurfaceReady" /\ surfaceReport = folderRevision
    BY <1>10, DataSplit DEF StartDuplicateScan, BeginDuplicateScan, DataInv, TableMatches
  <2>2. /\ BeginOperation("duplicate", "DuplicateScanning")
        /\ StartGoroutines(surfaceReport, TRUE)
        /\ modal' = "none" /\ statusOf' = 0 /\ progressOf' = 0 /\ elapsedOf' = 0
        /\ UNCHANGED <<surfaceReport, rows, uiClosing>>
    BY <1>10
    DEF StartDuplicateScan, BeginDuplicateScan, RewriteLabels, UserCanAct, dialogVars
  <2>3. QED
    BY <2>1, <2>2, BeginData DEF Kinds
<1>11. CASE ExportDestinationChosen \/ DeleteConfirmed
  <2>1. phase = "ResultsReady" /\ captured.revision = folderRevision
    <3>1. /\ phase = "ResultsReady" /\ captured = rows /\ captured.kind = "groups"
      BY <1>11
      DEF ExportDestinationChosen, DeleteConfirmed, BeginExport, BeginDelete, DataInv,
          CapturedStaysFresh, GroupsAreCaptured
    <3>2. QED
      BY <3>1, DataSplit DEF DataInv, TableMatches
  <2>2. /\ \/ BeginOperation("export", "Exporting")
           \/ BeginOperation("delete", "Deleting")
        /\ StartGoroutines(captured.revision, FALSE)
        /\ modal' = "none" /\ statusOf' = 0 /\ UNCHANGED <<progressOf, elapsedOf>>
        /\ UNCHANGED <<surfaceReport, rows, uiClosing>>
    BY <1>11
    DEF ExportDestinationChosen, DeleteConfirmed, BeginExport, BeginDelete, DialogClosed,
        HandlerStatus
  <2>3. QED
    BY <2>1, <2>2, BeginData DEF Kinds
<1>12. QED
  BY <1>1, <1>2, <1>3, <1>4, <1>5, <1>6, <1>7, <1>8, <1>9, <1>10, <1>11 DEF UserInput

\* The goroutines touch the data only by returning an outcome of their kind.
LEMMA GoroutinesData ==
  ASSUME OpInv, WorkflowTypeOK, WorkflowTypeOK', GoInv, DataInv,
         NEW g \in Generations, Goroutine(g)
  PROVE  DataInv'
<1>1. CASE \/ WorkerReportsProgress(g) \/ TickerStops(g) \/ ConsumeProgress(g)
           \/ TickElapsed(g)
  BY <1>1, QuietData
  DEF WorkerReportsProgress, TickerStops, ConsumeProgress, TickElapsed, DataVars, opVars,
      viewVars, dialogVars, goVars
<1>2. CASE WorkerReturns(g) \/ WorkerPostsCompletion(g)
  <2>1. UNCHANGED <<phase, folderRevision, active, issued, surfaceReport, rows, statusOf,
                    progressOf, elapsedOf, modal, captured, input, uiClosing>>
    BY <1>2 DEF WorkerReturns, WorkerPostsCompletion, opVars, viewVars, dialogVars
  <2>2. /\ worker \in [Generations -> WorkerStates] /\ outcome \in [Generations -> Outcomes]
    BY DEF WorkflowTypeOK
  <2>3. OutcomesFit'
    <3>1. CASE WorkerReturns(g)
      <4>1. PICK o \in OutcomesOf(issued[g])
                     \cup (IF g \in cancelled THEN {"canceled"} ELSE {}) :
              outcome' = [outcome EXCEPT ![g] = o]
        BY <3>1 DEF WorkerReturns
      <4>2. worker' = [worker EXCEPT ![g] = "returned"]
        BY <3>1 DEF WorkerReturns
      <4>3. \A h \in Generations :
              /\ h # g => worker'[h] = worker[h] /\ outcome'[h] = outcome[h]
              /\ worker'[g] = "returned" /\ outcome'[g] = o
        BY <2>2, <4>1, <4>2
      <4>4. o \in OutcomesOf(issued[g]) \cup {"none", "canceled"}
        BY <4>1
      <4>5. QED
        BY <2>1, <4>3, <4>4 DEF DataInv, OutcomesFit
    <3>2. CASE WorkerPostsCompletion(g)
      BY <2>1, <2>2, <3>2 DEF WorkerPostsCompletion, DataInv, OutcomesFit
    <3>3. QED
      BY <1>2, <3>1, <3>2
  <2>4. ResultsMatchPhase'
    BY <2>1 DEF DataInv, ResultsMatchPhase, Accepts
  <2>5. QED
    BY <2>1, <2>3, <2>4
    DEF DataInv, LabelsAreCurrent, NewestScan, CapturedStaysFresh, GroupsAreCaptured
<1>3. QED
  BY <1>1, <1>2 DEF Goroutine

\* A callback of the token in force writes its own progress to the labels.
LEMMA LabelsData ==
  ASSUME OpInv, WorkflowTypeOK, WorkflowTypeOK', GoInv, DataInv,
         NEW g \in Generations, ShowProgress(g) \/ ShowElapsed(g)
  PROVE  DataInv'
<1>1. /\ UNCHANGED <<phase, folderRevision, active, issued, surfaceReport, rows,
                     modal, captured, input, outcome, worker, uiClosing>>
      /\ \/ statusOf' \in {statusOf, g} /\ progressOf' = g /\ elapsedOf' = elapsedOf
         \/ UNCHANGED <<statusOf, progressOf>> /\ elapsedOf' = g
  BY DEF ShowProgress, ShowElapsed, opVars, dialogVars, goVars
<1>2. active.generation = g /\ NewestScan(g)
  BY InForceIsNewest DEF ShowProgress, ShowElapsed
<1>3. LabelsAreCurrent'
  BY <1>1, <1>2 DEF DataInv, LabelsAreCurrent, NewestScan
<1>4. ResultsMatchPhase'
  BY <1>1 DEF DataInv, ResultsMatchPhase, Accepts
<1>5. QED
  BY <1>1, <1>3, <1>4 DEF DataInv, CapturedStaysFresh, OutcomesFit, GroupsAreCaptured

\* What a completion of the token in force finds.
LEMMA CompletionFacts ==
  ASSUME OpInv, WorkflowTypeOK, DataInv, NEW g \in Generations,
         Current(g), Completion(issued[g])
  PROVE  /\ active = issued[g] /\ active # NoToken /\ active.generation = g
         /\ issued[g].folderRevision = folderRevision /\ phase \in PhasesOf[issued[g].kind]
         /\ modal \notin {"folder", "export", "delete"} /\ ~uiClosing
         /\ active' = NoToken /\ issued' = issued /\ folderRevision' = folderRevision
         /\ outcome[g] \in OutcomesOf(issued[g]) \cup {"none", "canceled"}
         /\ issued[g].kind # "surface" => input[g] = folderRevision
<1>1. active = issued[g] /\ active # NoToken /\ phase \in PhasesOf[issued[g].kind]
      /\ ~uiClosing
  BY DEF Current, Accepts
<1>2. active.generation = g /\ issued[g].folderRevision = folderRevision
  BY <1>1 DEF OpInv, OpSafety, ActiveMatchesPhase, IssuedInOrder
<1>3. modal \notin {"folder", "export", "delete"}
  BY <1>1 DEF DataInv, CapturedStaysFresh
<1>4. active' = NoToken /\ issued' = issued /\ folderRevision' = folderRevision
  BY DEF Completion, CompleteSurfaceScan, CompleteDuplicateScan, CompleteExport,
         CompleteDelete, CompleteProtected, ClearActiveOperation
<1>5. outcome[g] \in OutcomesOf(issued[g]) \cup {"none", "canceled"}
  BY DEF DataInv, OutcomesFit
<1>6. issued[g].kind # "surface" => input[g] = folderRevision
  BY DataSplit DEF DataInv, InputsMatch, Current
<1>7. QED
  BY <1>1, <1>2, <1>3, <1>4, <1>5, <1>6

\* A completion retires the operation and leaves the table as the phase promises.
LEMMA CompletionData ==
  ASSUME OpInv, WorkflowTypeOK, WorkflowTypeOK', GoInv, DataInv, NEW g \in Generations,
         \/ SurfaceScanFinished(g) \/ ScanFinished(g)
         \/ ReportExportFinished(g) \/ ApplyRecycleBatch(g)
  PROVE  DataInv'
<1>1. Current(g) /\ statusOf' = 0 /\ progressOf' = progressOf /\ elapsedOf' \in {g, elapsedOf}
      /\ (uiClosing' = uiClosing \/ uiClosing' = allowClose')
      /\ modal' \in {"message", modal} /\ captured' = captured
      /\ UNCHANGED <<worker, input>> /\ outcome' = [outcome EXCEPT ![g] = "none"]
  BY DEF SurfaceScanFinished, ScanFinished, ReportExportFinished, ApplyRecycleBatch,
         MessageBox, HandlerStatus, ForgetResult
<1>2. Completion(issued[g])
  <2>1. (outcome[g] = "ok") \in BOOLEAN /\ (outcome[g] \in {"ok", "empty"}) \in BOOLEAN
    OBVIOUS
  <2>2. \/ CompleteSurfaceScan(issued[g], outcome[g] = "ok")
        \/ CompleteDuplicateScan(issued[g], outcome[g] \in {"ok", "empty"})
        \/ CompleteExport(issued[g]) \/ CompleteDelete(issued[g])
    BY DEF SurfaceScanFinished, ScanFinished, ReportExportFinished, ApplyRecycleBatch
  <2>3. QED
    BY <2>1, <2>2 DEF Completion
<1>3. /\ active = issued[g] /\ active # NoToken /\ active.generation = g
      /\ issued[g].folderRevision = folderRevision /\ phase \in PhasesOf[issued[g].kind]
      /\ modal \notin {"folder", "export", "delete"} /\ ~uiClosing
      /\ active' = NoToken /\ issued' = issued /\ folderRevision' = folderRevision
      /\ outcome[g] \in OutcomesOf(issued[g]) \cup {"none", "canceled"}
      /\ issued[g].kind # "surface" => input[g] = folderRevision
  BY <1>1, <1>2, CompletionFacts
<1>4. TableMatches
  BY DataSplit DEF DataInv
<1>5. TableMatches'
  <2>1. CASE SurfaceScanFinished(g)
    <3>1. /\ issued[g].kind = "surface"
          /\ phase' = IF outcome[g] = "ok" /\ phase # "SurfaceCancelling"
                      THEN "SurfaceReady" ELSE "FolderReady"
      BY <2>1 DEF SurfaceScanFinished, CompleteSurfaceScan
    <3>2. outcome[g] # "empty" /\ phase \in {"SurfaceScanning", "SurfaceCancelling"}
      BY <1>3, <3>1, PhasesOfKinds DEF OutcomesOf
    <3>3. Publishes(g) <=> phase' = "SurfaceReady"
      BY <3>1, <3>2 DEF Publishes
    <3>4. CASE Publishes(g)
      BY <2>1, <3>3, <3>4, <1>3 DEF SurfaceScanFinished, TableMatches
    <3>5. CASE ~Publishes(g)
      BY <2>1, <3>1, <3>2, <3>3, <3>5, <1>4 DEF SurfaceScanFinished, TableMatches
    <3>6. QED
      BY <3>4, <3>5
  <2>2. CASE ScanFinished(g)
    <3>1. /\ issued[g].kind = "duplicate"
          /\ phase' = IF outcome[g] \in {"ok", "empty"} /\ phase # "DuplicateCancelling"
                      THEN "ResultsReady" ELSE "SurfaceReady"
      BY <2>2 DEF ScanFinished, CompleteDuplicateScan
    <3>2. phase \in {"DuplicateScanning", "DuplicateCancelling"} /\ input[g] = folderRevision
      BY <1>3, <3>1, PhasesOfKinds
    <3>3. Publishes(g) <=> phase' = "ResultsReady"
      BY <3>1, <3>2 DEF Publishes
    <3>4. surfaceReport' = surfaceReport /\ surfaceReport = folderRevision
      BY <2>2, <3>2, <1>4 DEF ScanFinished, TableMatches
    <3>5. CASE Publishes(g)
      <4>1. rows' \in {[kind |-> "groups", revision |-> folderRevision],
                       [kind |-> "unique", revision |-> folderRevision]}
        BY <2>2, <3>2, <3>4, <3>5 DEF ScanFinished
      <4>2. QED
        BY <4>1, <3>3, <3>4, <3>5, <1>3 DEF TableMatches
    <3>6. CASE ~Publishes(g)
      BY <2>2, <3>1, <3>2, <3>3, <3>4, <3>6, <1>3, <1>4 DEF ScanFinished, TableMatches
    <3>7. QED
      BY <3>5, <3>6
  <2>3. CASE ReportExportFinished(g) \/ ApplyRecycleBatch(g)
    <3>1. /\ issued[g].kind \in {"export", "delete"} /\ phase' \in {"Closing", "ResultsReady"}
          /\ rows' \in {NoRows, rows} /\ surfaceReport' = surfaceReport
      BY <2>3
      DEF ReportExportFinished, ApplyRecycleBatch, CompleteExport, CompleteDelete,
          CompleteProtected
    <3>2. phase \in {"Exporting", "ExportCancelling", "ClosingAfterExport", "Deleting",
                     "ClosingAfterDelete"}
      BY <1>3, <3>1, PhasesOfKinds
    <3>3. QED
      BY <3>1, <3>2, <1>3, <1>4 DEF TableMatches, NoRows
  <2>4. QED
    BY <2>1, <2>2, <2>3
<1>6. InputsMatch'
  BY <1>3 DEF InputsMatch, Accepts
<1>7. LabelsAreCurrent'
  <2>1. NewestScan(g)
    BY <1>1, InForceIsNewest
  <2>2. QED
    BY <2>1, <1>1, <1>3 DEF DataInv, LabelsAreCurrent, NewestScan
<1>8. CapturedStaysFresh' /\ GroupsAreCaptured'
  BY <1>1, <1>3 DEF CapturedStaysFresh, GroupsAreCaptured
<1>9. OutcomesFit'
  BY <1>1, <1>3 DEF DataInv, OutcomesFit, WorkflowTypeOK
<1>10. QED
  BY <1>5, <1>6, <1>7, <1>8, <1>9, DataSplit DEF DataInv

LEMMA CallbacksData ==
  ASSUME OpInv, WorkflowTypeOK, WorkflowTypeOK', GoInv, DataInv, RunCallback
  PROVE  DataInv'
<1>1. PICK g \in Generations :
        \/ \E type \in {"progress", "tick", "done"} : DropCallback(type, g)
        \/ ShowProgress(g)
        \/ ShowElapsed(g)
        \/ SurfaceScanFinished(g)
        \/ ScanFinished(g)
        \/ ReportExportFinished(g)
        \/ ApplyRecycleBatch(g)
  BY DEF RunCallback
<1>2. CASE \E type \in {"progress", "tick", "done"} : DropCallback(type, g)
  BY <1>2, QuietData DEF DropCallback, DataVars, opVars, viewVars, dialogVars, goVars
<1>3. QED
  BY <1>1, <1>2, LabelsData, CompletionData

\* The data invariant holds of the running application.
THEOREM WorkflowDataInv == WorkflowSpec => []DataInv
<1>1. WorkflowInit /\ WorkflowTypeOK => DataInv
  <2> SUFFICES ASSUME WorkflowInit, WorkflowTypeOK PROVE DataInv
    OBVIOUS
  <2>1. /\ phase = "NoFolder" /\ surfaceReport = 0 /\ rows = NoRows /\ modal = "none"
        /\ statusOf = 0 /\ progressOf = 0 /\ elapsedOf = 0 /\ active = NoToken
        /\ \A g \in Generations : outcome[g] = "none"
    BY DEF WorkflowInit, Init
  <2>2. TableMatches /\ InputsMatch
    BY <2>1 DEF TableMatches, InputsMatch, Accepts
  <2>3. QED
    BY <2>1, <2>2, DataSplit
    DEF DataInv, LabelsAreCurrent, CapturedStaysFresh, OutcomesFit, GroupsAreCaptured
<1>2. ASSUME OpInv, OpInv', WorkflowTypeOK, WorkflowTypeOK', GoInv, DataInv,
             [WorkflowNext]_vars
      PROVE  DataInv'
  <2>1. CASE Terminated \/ UNCHANGED vars
    BY <1>2, <2>1, QuietData
    DEF Terminated, vars, DataVars, opVars, viewVars, dialogVars, goVars
  <2>2. CASE \E g \in Generations : Goroutine(g)
    BY <1>2, <2>2, GoroutinesData
  <2>3. QED
    BY <1>2, <2>1, <2>2, HandlersData, CallbacksData DEF WorkflowNext
<1>3. QED
  BY <1>1, <1>2, WorkflowOpInv, WorkflowTypeCorrect, WorkflowGoInv, PTL DEF WorkflowSpec

\* What is shown is of the folder now selected and of the phase the window is in,
\* and so is what every running worker was given.
THEOREM ResultsAlwaysMatch == WorkflowSpec => []ResultsMatchPhase
<1>1. DataInv => ResultsMatchPhase
  BY DEF DataInv
<1>2. QED
  BY <1>1, WorkflowDataInv, PTL

\* Callbacks of an earlier operation never overwrite the labels: the status line
\* is of the operation in force, and what a retired operation leaves in the other
\* labels is of the selected folder and never outlives the start of a new scan.
THEOREM LabelsAlwaysCurrent == WorkflowSpec => []LabelsAreCurrent
<1>1. DataInv => LabelsAreCurrent
  BY DEF DataInv
<1>2. QED
  BY <1>1, WorkflowDataInv, PTL

\* What a handler captured before its dialog is not stale when the dialog returns,
\* although a message box may open, and callbacks run, during any operation.
THEOREM CapturedAlwaysFresh == WorkflowSpec => []CapturedStaysFresh
<1>1. DataInv => CapturedStaysFresh
  BY DEF DataInv
<1>2. QED
  BY <1>1, WorkflowDataInv, PTL

\* Every step but the publishing completion of a scan leaves the table alone or
\* empties it.
LEMMA RowsChange ==
  ASSUME [WorkflowNext]_vars, rows' # rows, rows' # NoRows
  PROVE  \E g \in Generations :
           Publishes(g) /\ Current(g) /\ issued[g].kind \in {"surface", "duplicate"}
<1>1. CASE UserInput
  BY <1>1
  DEF UserInput, MessageShown, SelectFolderClicked, OpenDialog, FolderChosen, StartSurfaceScan,
      StartDuplicateScan, CancelClicked, ClearClicked, ResetAll, ExportClicked,
      ExportDestinationChosen, DeleteClicked, DeleteConfirmed, DismissDialog,
      WindowClosing, DiscardFolderData, viewVars
<1>2. ASSUME NEW g \in Generations, Goroutine(g) PROVE FALSE
  BY <1>2
  DEF Goroutine, WorkerReportsProgress, WorkerReturns, WorkerPostsCompletion,
      ConsumeProgress, TickElapsed, TickerStops, viewVars
<1>3. CASE RunCallback
  BY <1>3
  DEF RunCallback, DropCallback, ShowProgress, ShowElapsed, SurfaceScanFinished,
      ScanFinished, ReportExportFinished, ApplyRecycleBatch, CompleteSurfaceScan,
      CompleteDuplicateScan, viewVars
<1>4. CASE Terminated \/ UNCHANGED vars
  BY <1>4 DEF Terminated, vars, viewVars
<1>5. QED
  BY <1>1, <1>2, <1>3, <1>4 DEF WorkflowNext

\* A scan that was cancelled publishes nothing, even when it had already finished
\* and its completion was waiting to be run.
THEOREM CancelledScansPublishNothing == WorkflowSpec => CancelledNeverPublishes
<1>1. ASSUME OpInv, [WorkflowNext]_vars
      PROVE  [rows' # rows /\ rows' # NoRows => active.generation \notin cancelled]_vars
  <2> SUFFICES ASSUME rows' # rows, rows' # NoRows
               PROVE  active.generation \notin cancelled
    OBVIOUS
  <2>1. PICK g \in Generations :
          Publishes(g) /\ Current(g) /\ issued[g].kind \in {"surface", "duplicate"}
    BY <1>1, RowsChange
  <2>2. phase \in {"SurfaceScanning", "DuplicateScanning"} /\ active # NoToken
    BY <2>1, PhasesOfKinds DEF Publishes, Current, Accepts
  <2>3. cancel = active.generation /\ cancel # 0
    BY <1>1, <2>2
    DEF OpInv, OpSafety, CancellationReachesWorker, TypeOK, Tokens, Generations
  <2>4. QED
    BY <1>1, <2>3 DEF OpInv, OpSafety, CancelFuncIsFresh
<1>2. QED
  BY <1>1, WorkflowOpInv, PTL DEF WorkflowSpec, CancelledNeverPublishes

-----------------------------------------------------------------------------
(* The refinement of ForegroundOperation.                                  *)

\* The state of the contract, as AppWorkflow makes it up.
WindowSeen == IF uiClosing THEN "closed" ELSE IF closeRequested THEN "closing" ELSE "open"
ProtectedSeen == active.kind \in {"export", "delete"}
BegunSeen == {g \in Generations : issued[g] # NoToken}
SeenVars == <<uiClosing, closeRequested, active, issued>>

\* A step that leaves all four alone is a stutter of the contract.
LEMMA UnseenStutters ==
  UNCHANGED SeenVars => UNCHANGED Contract!contractVars
BY DEF SeenVars, Contract!contractVars

\* In the window's terms: a token in force, its kind, and the close pending.
LEMMA SeenFacts ==
  ASSUME OpInv, GoInv
  PROVE  /\ active.generation = 0 <=> active = NoToken
         /\ uiClosing <=> phase = "Closing"
         /\ closeRequested <=> phase \in {"ClosingAfterExport", "ClosingAfterDelete", "Closing"}
         /\ ProtectedSeen <=> phase \in PhasesOf["export"] \cup PhasesOf["delete"]
         /\ phase \notin BusyPhases => active = NoToken
         /\ closeRequested \in BOOLEAN /\ uiClosing \in BOOLEAN
<1>1. active.generation = 0 <=> active = NoToken
  BY OperationAssumption DEF OpInv, TypeOK, Tokens, NoToken, Generations, OperationAssumption
<1>2. uiClosing <=> phase = "Closing"
  BY DEF OpInv, OpSafety, CloseIsRemembered, GoInv, ClosingGranted
<1>3. closeRequested <=> phase \in {"ClosingAfterExport", "ClosingAfterDelete", "Closing"}
  BY DEF OpInv, OpSafety, CloseIsRemembered
<1>4. ProtectedSeen <=> phase \in PhasesOf["export"] \cup PhasesOf["delete"]
  <2>1. CASE active = NoToken
    BY <2>1, PhaseSplit, PhasesOfKinds
    DEF OpInv, OpSafety, ActiveMatchesPhase, ProtectedSeen, NoToken
  <2>2. CASE active # NoToken
    <3>1. phase \in PhasesOf[active.kind] /\ active.kind \in Kinds
      BY <2>2 DEF OpInv, OpSafety, ActiveMatchesPhase, TypeOK, Tokens
    <3>2. QED
      BY <3>1, PhasesOfKinds DEF Kinds, ProtectedSeen
  <2>3. QED
    BY <2>1, <2>2
<1>5. phase \notin BusyPhases => active = NoToken
  BY DEF OpInv, OpSafety, ActiveMatchesPhase
<1>6. closeRequested \in BOOLEAN /\ uiClosing \in BOOLEAN
  BY DEF OpInv, TypeOK, GoInv, ClosingGranted
<1>7. QED
  BY <1>1, <1>2, <1>3, <1>4, <1>5, <1>6

\* An operation begun in an idle phase is one the contract lets begin.
LEMMA BeginKeepsContract ==
  ASSUME OpInv, GoInv, phase \in IdlePhases, NEW kind \in Kinds, NEW to,
         BeginOperation(kind, to), uiClosing' = uiClosing
  PROVE  Contract!ContractNext
<1> DEFINE n == nextGeneration'
<1>1. /\ n \in Generations /\ active' = NewToken(kind) /\ active'.generation = n
      /\ active'.kind = kind /\ NewToken(kind) # NoToken
      /\ issued' = [issued EXCEPT ![n] = NewToken(kind)] /\ issued[n] = NoToken
      /\ closeRequested' = closeRequested
      /\ issued \in [Generations -> Tokens \cup {NoToken}]
  BY OperationAssumption
  DEF BeginOperation, NewToken, NoToken, OpInv, TypeOK, IssuedInOrder, Generations,
      OperationAssumption
<1>2. ~uiClosing /\ ~closeRequested /\ active.generation = 0
  BY SeenFacts, PhaseSplit DEF IdlePhases
<1>3. BegunSeen' = BegunSeen \cup {n} /\ n \notin BegunSeen
  BY <1>1 DEF BegunSeen
<1>4. ProtectedSeen' \in BOOLEAN
  BY <1>1 DEF ProtectedSeen
<1>5. Contract!Begin(n)
  BY <1>1, <1>2, <1>3, <1>4 DEF Contract!Begin, BegunSeen, ProtectedSeen
<1>6. QED
  BY <1>1, <1>5 DEF Contract!ContractNext, Contract!Begin

\* A completion ends the operation, and with it a close that was deferred.
LEMMA CompletionKeepsContract ==
  ASSUME OpInv, OpInv', GoInv, GoInv', NEW g \in Generations, Current(g),
         Completion(issued[g])
  PROVE  Contract!ContractNext
<1>1. active = issued[g] /\ active # NoToken /\ ~uiClosing
      /\ phase \in PhasesOf[issued[g].kind]
  BY DEF Current, Accepts
<1>2. /\ active' = NoToken /\ issued' = issued /\ closeRequested' = closeRequested
      /\ phase' = "Closing" <=> phase \in {"ClosingAfterExport", "ClosingAfterDelete"}
  BY <1>1, PhasesOfKinds
  DEF Completion, CompleteSurfaceScan, CompleteDuplicateScan, CompleteExport,
      CompleteDelete, CompleteProtected, ClearActiveOperation
<1>3. active.generation # 0
  BY <1>1, SeenFacts
<1>4. uiClosing' <=> phase' = "Closing"
  BY DEF OpInv, OpSafety, CloseIsRemembered, GoInv, ClosingGranted
<1>5. closeRequested <=> phase \in {"ClosingAfterExport", "ClosingAfterDelete"}
  BY <1>1, SeenFacts
<1>6. ~ProtectedSeen' /\ active'.generation = 0 /\ BegunSeen' = BegunSeen
  BY <1>2 DEF ProtectedSeen, NoToken, BegunSeen
<1>7. WindowSeen' = IF WindowSeen = "closing" THEN "closed" ELSE WindowSeen
  BY <1>1, <1>2, <1>4, <1>5 DEF WindowSeen
<1>8. Contract!End
  BY <1>3, <1>6, <1>7 DEF Contract!End, WindowSeen, ProtectedSeen, BegunSeen
<1>9. QED
  BY <1>8 DEF Contract!ContractNext

\* A close request is granted, deferred, or was already pending.
LEMMA CloseKeepsContract ==
  ASSUME OpInv, OpInv', GoInv, GoInv', ~uiClosing, RequestClose
  PROVE  Contract!ContractNext \/ UNCHANGED Contract!contractVars
<1>1. /\ ~allowClose /\ closeRequested' = TRUE /\ issued' = issued
      /\ phase # "Closing"
  BY SeenFacts DEF GoInv, ClosingGranted, RequestClose
<1>2. uiClosing' <=> phase' = "Closing"
  BY DEF OpInv, OpSafety, CloseIsRemembered, GoInv, ClosingGranted
<1>3. BegunSeen' = BegunSeen
  BY <1>1 DEF BegunSeen
<1>4. CASE DeferCloseForExport \/ DeferCloseForDelete
  <2>1. /\ active' = active /\ ~uiClosing' /\ ~closeRequested /\ ProtectedSeen
    BY <1>2, <1>4, SeenFacts, PhasesOfKinds DEF DeferCloseForExport, DeferCloseForDelete
  <2>2. Contract!DeferClose
    BY <2>1, <1>1, <1>3 DEF Contract!DeferClose, ProtectedSeen, BegunSeen
  <2>3. QED
    BY <2>2 DEF Contract!ContractNext
<1>5. CASE StayDeferred
  <2>1. closeRequested /\ active' = active
    BY <1>5, SeenFacts DEF StayDeferred
  <2>2. uiClosing' = uiClosing
    BY <1>5 DEF StayDeferred, GoInv, ClosingGranted
  <2>3. closeRequested' = closeRequested
    BY <2>1, <1>1, SeenFacts
  <2>4. QED
    BY <2>1, <2>2, <2>3, <1>1, UnseenStutters DEF SeenVars
<1>6. CASE CloseAtOnce
  <2>1. /\ active' = NoToken /\ uiClosing' /\ ~ProtectedSeen /\ ~closeRequested
    BY <1>1, <1>2, <1>6, SeenFacts, PhasesOfKinds DEF CloseAtOnce, InvalidateActiveOperation
  <2>2. active'.generation = 0 /\ ProtectedSeen' = ProtectedSeen
    BY <2>1 DEF ProtectedSeen, NoToken
  <2>3. Contract!CloseNow
    BY <2>1, <2>2, <1>1, <1>3 DEF Contract!CloseNow, ProtectedSeen, BegunSeen
  <2>4. QED
    BY <2>3 DEF Contract!ContractNext
<1>7. QED
  BY <1>1, <1>4, <1>5, <1>6 DEF RequestClose

\* Every step of the workflow is a step of the contract or a stutter.
LEMMA StepKeepsContract ==
  ASSUME OpInv, OpInv', GoInv, GoInv', [WorkflowNext]_vars
  PROVE  Contract!ContractNext \/ UNCHANGED Contract!contractVars
<1>1. CASE \/ MessageShown \/ SelectFolderClicked \/ CancelClicked \/ ClearClicked
           \/ ExportClicked
           \/ DeleteClicked \/ DismissDialog \/ Terminated \/ UNCHANGED vars
  <2>1. UNCHANGED SeenVars
    BY <1>1
    DEF MessageShown, SelectFolderClicked, CancelClicked, ClearClicked, ExportClicked, DeleteClicked,
        DismissDialog, OpenDialog, RequestScanCancellation, RequestExportCancellation,
        ClearResults, Terminated, vars, opVars, SeenVars
  <2>2. QED
    BY <2>1, UnseenStutters
<1>2. CASE (\E f \in Folders : FolderChosen(f)) \/ ResetAll
  <2>1. /\ phase \in IdlePhases /\ active' = NoToken
        /\ UNCHANGED <<uiClosing, closeRequested, issued>>
    BY <1>2
    DEF FolderChosen, ResetAll, SelectFolder, Reset, ChangeFolder, CanChangeFolder,
        InvalidateActiveOperation
  <2>2. UNCHANGED SeenVars
    BY <2>1, IdleMeansNoWorker DEF SeenVars
  <2>3. QED
    BY <2>2, UnseenStutters
<1>3. CASE StartSurfaceScan \/ StartDuplicateScan \/ ExportDestinationChosen
           \/ DeleteConfirmed
  <2>1. /\ phase \in IdlePhases /\ uiClosing' = uiClosing
        /\ \/ BeginOperation("surface", "SurfaceScanning")
           \/ BeginOperation("duplicate", "DuplicateScanning")
           \/ BeginOperation("export", "Exporting")
           \/ BeginOperation("delete", "Deleting")
    BY <1>3
    DEF StartSurfaceScan, StartDuplicateScan, ExportDestinationChosen, DeleteConfirmed,
        BeginSurfaceScan, BeginDuplicateScan, BeginExport, BeginDelete, IdlePhases
  <2>2. QED
    BY <2>1, BeginKeepsContract DEF Kinds
<1>4. CASE WindowClosing
  BY <1>4, CloseKeepsContract DEF WindowClosing
<1>5. ASSUME NEW g \in Generations, Goroutine(g) PROVE UNCHANGED Contract!contractVars
  <2>1. UNCHANGED SeenVars
    BY <1>5
    DEF Goroutine, WorkerReportsProgress, WorkerReturns, WorkerPostsCompletion,
        ConsumeProgress, TickElapsed, TickerStops, opVars, SeenVars
  <2>2. QED
    BY <2>1, UnseenStutters
<1>6. CASE RunCallback
  <2>1. PICK g \in Generations :
          \/ \E type \in {"progress", "tick", "done"} : DropCallback(type, g)
          \/ ShowProgress(g)
          \/ ShowElapsed(g)
          \/ SurfaceScanFinished(g)
          \/ ScanFinished(g)
          \/ ReportExportFinished(g)
          \/ ApplyRecycleBatch(g)
    BY <1>6 DEF RunCallback
  <2>2. CASE \/ \E type \in {"progress", "tick", "done"} : DropCallback(type, g)
             \/ ShowProgress(g) \/ ShowElapsed(g)
    <3>1. UNCHANGED SeenVars
      BY <2>2 DEF DropCallback, ShowProgress, ShowElapsed, opVars, SeenVars
    <3>2. QED
      BY <3>1, UnseenStutters
  <2>3. CASE \/ SurfaceScanFinished(g) \/ ScanFinished(g)
             \/ ReportExportFinished(g) \/ ApplyRecycleBatch(g)
    <3>1. (outcome[g] = "ok") \in BOOLEAN /\ (outcome[g] \in {"ok", "empty"}) \in BOOLEAN
      OBVIOUS
    <3>2. /\ Current(g)
          /\ \/ CompleteSurfaceScan(issued[g], outcome[g] = "ok")
             \/ CompleteDuplicateScan(issued[g], outcome[g] \in {"ok", "empty"})
             \/ CompleteExport(issued[g]) \/ CompleteDelete(issued[g])
      BY <2>3
      DEF SurfaceScanFinished, ScanFinished, ReportExportFinished, ApplyRecycleBatch
    <3>3. Completion(issued[g])
      BY <3>1, <3>2 DEF Completion
    <3>4. QED
      BY <3>2, <3>3, CompletionKeepsContract
  <2>4. QED
    BY <2>1, <2>2, <2>3
<1>7. QED
  BY <1>1, <1>2, <1>3, <1>4, <1>5, <1>6 DEF WorkflowNext, UserInput

\* The window, its goroutines and their callbacks together implement the contract
\* of foreground operations: none begins beside another or twice, a protected one
\* is never abandoned, and a deferred close is carried out with its operation.
\* (That every operation ends is left to the model checker.)
THEOREM WorkflowKeepsContract == WorkflowSpec => Contract!ContractSafety
<1>1. WorkflowInit => Contract!ContractInit
  BY DEF WorkflowInit, Init, Contract!ContractInit, NoToken
<1>2. OpInv /\ OpInv' /\ GoInv /\ GoInv' /\ [WorkflowNext]_vars
        => [Contract!ContractNext]_Contract!contractVars
  BY StepKeepsContract
<1>3. QED
  BY <1>1, <1>2, WorkflowOpInv, WorkflowGoInv, PTL
  DEF WorkflowSpec, Contract!ContractSafety
=============================================================================
