--------------------------- MODULE SurfaceScan_proofs ---------------------------
(***************************************************************************)
(* Proofs about SurfaceScan, for any number of workers, every directory    *)
(* graph, every list of roots and all limits.                              *)
(***************************************************************************)
EXTENDS SurfaceScan, FiniteSetTheorems, SequenceTheorems, TLAPS

Recording == {"record", "cas", "store", "add"}
Listing == Recording \cup {"entries"}
Gone == {"idle", "exited"}
Full == fileCount = MaxFiles \/ dirCount = MaxDirectories

\* The calling goroutine, the watcher and the workers come and go in order.
PhaseInv ==
  /\ main \in {"roots", "rootFile"} =>
       watcher = "idle" /\ (scanCancelled => ctxCancelled)
  /\ main = "rootFile" =>
       rootIx <= Len(Roots) /\ Roots[rootIx] \in Files \cap seenRoots
  /\ watcher = "idle" =>
       /\ \A w \in Workers : pc[w] = "idle"
       /\ waiting = {} /\ ~closed /\ failOnce = "open"
  /\ watcher # "idle" => \A w \in Workers : pc[w] # "idle"
  /\ watcher = "closing" => scanCancelled
  /\ main \in {"waiting", "waited"} => watcher # "idle" /\ rootIx > Len(Roots)
  /\ main \in {"waited", "returned"} => \A w \in Workers : pc[w] \in Gone
  /\ main = "returned" <=> result # "none"
  /\ main = "returned" => scanCancelled

\* What a worker holds at each place.
HoldsAt(w) ==
  /\ work[w] \in Works <=> pc[w] \in Holding
  /\ item[w] # NoItem <=> pc[w] \in Recording
  /\ pc[w] \in {"record", "store"} => item[w] \in Files
  /\ pc[w] = "add" => item[w] \in Dirs
  /\ pc[w] \notin Listing => todo[w] = {}
  /\ pc[w] = "cas" => seen[w] <= CounterFor(item[w])

HoldInv == \A w \in Workers : HoldsAt(w)

\* An error is in hand only on the way to fail, and each has its cause; the first
\* one cancels the walk before it closes the queue.
CauseOf(e) ==
  /\ e = "canceled" => ctxCancelled \/ failOnce # "open"
  /\ e = "rootChanged" => rootsLost # {}
  /\ e = "limit" => Full
  /\ e # "queueClosed"

ErrorAt(w) ==
  /\ CauseOf(err[w])
  /\ pc[w] = "fail" => err[w] # "none"
  /\ pc[w] \in {"cancelling", "closing"} => failOnce = "running"
  /\ pc[w] = "closing" => scanCancelled
  /\ err[w] # "none" =>
       pc[w] \in {"done", "fail"} \/ (pc[w] \notin Holding \cup {"next"} /\ scanErr # "none")

FailInv ==
  /\ failOnce = "open" <=> scanErr = "none"
  /\ failOnce = "done" => scanCancelled
  /\ scanCancelled => ctxCancelled \/ failOnce # "open" \/ main = "returned"
  /\ closed => scanCancelled
  /\ CauseOf(scanErr) /\ (scanErr = "canceled" => ctxCancelled)
  /\ \A w \in Workers : ErrorAt(w)
  /\ \A v, w \in Workers :
       pc[v] \in {"cancelling", "closing"} /\ pc[w] \in {"cancelling", "closing"} => v = w

BaseInv == TypeOK /\ PhaseInv /\ HoldInv /\ FailInv /\ FailureHasItsCause

\* The queue and the workers asleep.
QueueInv ==
  /\ PendingCountsWork
  /\ QueuedWorkIsServed
  /\ waiting \subseteq WorkersAt({"next"})
  /\ closed => waiting = {}
  /\ ~scanCancelled /\ WorkersAt({"exited"}) # {} => pending = 0

BudgetInv == IsFiniteSet(Records) /\ BudgetMatchesReport

\* As long as nothing has been cut short, whatever has been found is accounted
\* for, queued or in hand, or still to come out of a listing.
Undisturbed == result = "none" /\ ~scanCancelled /\ \A w \in Workers : err[w] = "none"
UnderWay(i) ==
  \/ \E k \in DOMAIN dirs : dirs[k].dir = i
  \/ \E w \in Workers : pc[w] = "open" /\ work[w].dir = i
  \/ \E w \in Workers : item[w] = i
ToCome(d, i) == \E w \in Workers : work[w].dir = d /\ i \in todo[w]
CompleteInv ==
  /\ Undisturbed =>
       /\ \A r \in seenRoots :
            Accounted(r) \/ UnderWay(r) \/ (main = "rootFile" /\ r = Roots[rootIx])
       /\ \A k \in 1..(rootIx - 1) : Accounted(Roots[k]) \/ Roots[k] \in seenRoots
       /\ \A d \in scanned \ ignored : \A i \in Entries[d] :
            Accounted(i) \/ UnderWay(i) \/ ToCome(d, i)
  /\ SuccessIsComplete

\* With separate roots, whatever the walk has come to is in one place only, and
\* no listing will bring it up again.
Started(i) ==
  \/ \E k \in DOMAIN dirs : dirs[k].dir = i
  \/ \E w \in Workers : work[w].dir = i \/ item[w] = i
  \/ i \in scanned
  \/ i \in Files /\ listed[i] > 0
QueuedOnce ==
  /\ \A k, l \in DOMAIN dirs : dirs[k].dir = dirs[l].dir => k = l
  /\ \A k \in DOMAIN dirs : dirs[k].dir \notin scanned
QueuedNotHeld ==
  \A k \in DOMAIN dirs : \A w \in Workers :
    dirs[k].dir # work[w].dir /\ dirs[k].dir # item[w]
HeldOnce ==
  \A v, w \in Workers :
    /\ work[v].dir = work[w].dir /\ work[v] # NoWork => v = w
    /\ item[v] = item[w] /\ item[v] # NoItem => v = w
    /\ item[v] # NoItem => item[v] # work[w].dir
HeldNew(w) ==
  /\ pc[w] = "open" => work[w].dir \notin scanned
  /\ item[w] \notin scanned
  /\ item[w] \in Files => listed[item[w]] = 0
  /\ todo[w] # {} => work[w].dir \in scanned /\ todo[w] \subseteq Entries[work[w].dir]
OnePlace ==
  /\ QueuedOnce
  /\ QueuedNotHeld
  /\ HeldOnce
  /\ \A w \in Workers : HeldNew(w)
  /\ main = "rootFile" => listed[Roots[rootIx]] = 0
NotAgain(R) ==
  \A i \in Items : Started(i) =>
    /\ i \in R
    /\ i \in Range(Roots) => i \in seenRoots
    /\ \A d \in R \cap Dirs : i \in Entries[d] =>
         d \in scanned /\ \A w \in Workers : i \notin todo[w]
OnceAt(R) == OnePlace /\ NotAgain(R) /\ \A f \in Files : listed[f] <= 1
OnceInv == \A R \in SUBSET Items : Apart(R) => OnceAt(R)

-----------------------------------------------------------------------------
(* Facts about the call.                                                   *)

LEMMA ScanFacts ==
  ASSUME TypeOK
  PROVE  /\ Roots \in Seq(Items) /\ Len(Roots) \in Nat
         /\ MaxFiles \in Nat /\ MaxDirectories \in Nat
         /\ \A k \in 1..Len(Roots) : Roots[k] \in Items /\ Roots[k] \in Range(Roots)
         /\ \A r \in Range(Roots) : \E k \in 1..Len(Roots) : Roots[k] = r
         /\ NoWork \notin Works /\ NoItem \notin Items
         /\ \A x \in Works : x.dir \in Dirs /\ x.scope \in Range(Roots)
         /\ \A d \in Dirs, r \in Range(Roots) : [dir |-> d, scope |-> r] \in Works
BY ScanAssumption DEF TypeOK, Roots, MaxFiles, MaxDirectories, Range, NoWork, Works, Items

LEMMA FrontFacts ==
  ASSUME NEW S, NEW s \in Seq(S), s # <<>>
  PROVE  /\ Front(s) \in Seq(S) /\ Len(s) >= 1 /\ Len(Front(s)) = Len(s) - 1
         /\ \A k \in 1..(Len(s) - 1) : Front(s)[k] = s[k]
         /\ Last(s) = s[Len(s)] /\ Len(s) \in DOMAIN s
<1>1. Len(s) \in Nat /\ Len(s) # 0 /\ DOMAIN s = 1..Len(s)
  BY EmptySeq
<1>2. 1 \in 1..(Len(s) + 1) /\ Len(s) - 1 \in 0..Len(s)
  BY <1>1
<1>3. /\ Front(s) \in Seq(S) /\ Len(Front(s)) = IF 1 <= Len(s) - 1 THEN Len(s) - 1 ELSE 0
      /\ \A k \in 1..(Len(s) - 1) : Front(s)[k] = s[k]
  BY <1>1, <1>2, SubSeqProperties DEF Front
<1>4. \A n \in Nat : n # 0 => n >= 1 /\ (IF 1 <= n - 1 THEN n - 1 ELSE 0) = n - 1 /\ n \in 1..n
  OBVIOUS
<1>5. Len(s) >= 1 /\ Len(Front(s)) = Len(s) - 1 /\ Len(s) \in 1..Len(s)
  BY ONLY <1>1, <1>3, <1>4
<1>6. Last(s) = s[Len(s)]
  BY DEF Last
<1>7. QED
  BY ONLY <1>1, <1>3, <1>5, <1>6

\* The variables of the queue keep their types.
QueueTypes ==
  dirs \in Seq(Works) /\ pending \in Nat /\ closed \in BOOLEAN /\ waiting \subseteq Workers

QueueStep ==
  \/ UNCHANGED queueVars
  \/ NewQueue \/ Close \/ Done
  \/ \E w \in Workers : Wait(w)
  \/ \E d \in Works : Add(d) \/ Take(d)

LEMMA QueueTyped ==
  ASSUME QueueTypes, scan' = scan, QueueStep
  PROVE  QueueTypes'
<1>1. Works' = Works
  BY DEF Works, Roots
<1>2. dirs' \in Seq(Works)
  <2>1. ASSUME NEW d \in Works, Add(d) PROVE dirs' \in Seq(Works)
    BY <2>1 DEF Add, QueueTypes
  <2>2. ASSUME NEW d \in Works, Take(d) PROVE dirs' \in Seq(Works)
    BY <2>2 DEF Take, Front, QueueTypes
  <2>3. QED
    BY <2>1, <2>2 DEF QueueStep, QueueTypes, queueVars, NewQueue, Close, Done, Wait
<1>3. pending' \in Nat
  <2>1. Len(dirs) \in Nat
    BY DEF QueueTypes
  <2>2. QED
    BY <2>1 DEF QueueTypes, QueueStep, queueVars, NewQueue, Close, Done, Wait, Add, Take
<1>4. closed' \in BOOLEAN
  BY DEF QueueTypes, QueueStep, queueVars, NewQueue, Close, Done, Wait, Add, Take
<1>5. waiting' \subseteq Workers
  BY DEF QueueTypes, QueueStep, queueVars, NewQueue, Close, Done, Wait, Add, Take, Broadcast,
         Signal
<1>6. QED
  BY <1>1, <1>2, <1>3, <1>4, <1>5 DEF QueueTypes

CoreTypes ==
  /\ scan \in Scans
  /\ class \in [Items -> Classes]
  /\ rootsLost \in SUBSET Range(Roots)
  /\ ctxCancelled \in BOOLEAN /\ scanCancelled \in BOOLEAN
  /\ main \in {"roots", "rootFile", "waiting", "waited", "returned"}
  /\ rootIx \in 1..(Len(Roots) + 1)
  /\ seenRoots \in SUBSET Range(Roots)
  /\ result \in Results
  /\ watcher \in {"idle", "watching", "closing", "ended"}
  /\ scanErr \in Errors
  /\ failOnce \in {"open", "running", "done"}
ReportTypes ==
  /\ fileCount \in 0..MaxFiles /\ dirCount \in 0..MaxDirectories
  /\ listed \in [Files -> Nat]
  /\ scanned \in SUBSET Dirs
  /\ ignored \in SUBSET Items
WorkerTypes ==
  /\ pc \in [Workers -> Counters]
  /\ work \in [Workers -> Works \cup {NoWork}]
  /\ todo \in [Workers -> SUBSET Items]
  /\ item \in [Workers -> Items \cup {NoItem}]
  /\ seen \in [Workers -> Nat]
  /\ err \in [Workers -> Errors]

LEMMA TypeParts == TypeOK <=> CoreTypes /\ ReportTypes /\ WorkerTypes /\ QueueTypes
BY DEF TypeOK, CoreTypes, ReportTypes, WorkerTypes, QueueTypes

-----------------------------------------------------------------------------
(* Who changes what.                                                       *)

Outside == UserCancels \/ (\E r \in Range(Roots) : RootReplaced(r)) \/ Watcher

LEMMA Actors ==
  ASSUME [Next]_vars
  PROVE  UNCHANGED vars \/ Outside \/ Main \/ \E w \in Workers : Worker(w)
BY DEF Next, Outside, Terminated

LEMMA OutsideFrame ==
  ASSUME Outside
  PROVE  /\ UNCHANGED <<scan, class, mainVars, failVars, reportVars, workerVars>>
         /\ UserCancels \/ UNCHANGED <<ctxCancelled, scanCancelled>>
         /\ (\E r \in Range(Roots) : RootReplaced(r)) \/ UNCHANGED rootsLost
         /\ WatcherCloses \/ UNCHANGED queueVars
         /\ Watcher \/ UNCHANGED watcher
BY DEF Outside, UserCancels, RootReplaced, Watcher, WatcherWakes, WatcherCloses, WatcherReleased,
       WatcherStep, envVars

LEMMA MainFrame ==
  ASSUME Main
  PROVE  /\ UNCHANGED <<envVars, failVars, scanned, work, todo, item, seen, err>>
         /\ StartWorkers \/ UNCHANGED <<pc, watcher>>
         /\ StartWorkers \/ (\E r \in Items : RootDirectory(r)) \/ UNCHANGED queueVars
         /\ RecordRootFile \/ UNCHANGED <<fileCount, listed>>
         /\ (\E r \in Items : RootDirectory(r)) \/ UNCHANGED dirCount
         /\ (\E r \in Items : RootSkipped(r)) \/ RootFileFails \/ UNCHANGED ignored
<1> USE DEF failVars, reportVars, workerVars
<1>1. CASE RootsCancelled
  BY <1>1 DEF RootsCancelled
<1>2. CASE \E r \in Items : RootUnsafe(r) \/ RootFile(r) \/ RootBeyondLimit(r)
  BY <1>2 DEF RootUnsafe, RootFile, RootBeyondLimit, envVars
<1>3. CASE \E r \in Items : RootSkipped(r)
  BY <1>3 DEF RootSkipped
<1>4. CASE \E r \in Items : RootDirectory(r)
  BY <1>4 DEF RootDirectory
<1>5. CASE RecordRootFile \/ RootFileFails
  BY <1>5 DEF RecordRootFile, RootFileFails
<1>6. CASE NothingToRead \/ WorkersGone \/ JudgeOutcome
  BY <1>6 DEF NothingToRead, WorkersGone, JudgeOutcome
<1>7. CASE StartWorkers
  BY <1>7 DEF StartWorkers
<1>8. QED
  BY <1>1, <1>2, <1>3, <1>4, <1>5, <1>6, <1>7 DEF Main

\* readDirectory returns.
Returning(w) ==
  \/ ReadCancelled(w) \/ OpenFails(w) \/ OpenFindsRootChanged(w)
  \/ ReadFails(w) \/ ReadEnds(w) \/ ReserveFails(w) \/ AddIsRefused(w)

LEMMA WorkerFrame ==
  ASSUME NEW w \in Workers, Worker(w)
  PROVE  /\ UNCHANGED <<envVars, mainVars, watcher>>
         /\ CancelsScan(w) \/ UNCHANGED scanCancelled
         /\ FailsFirst(w) \/ ClosesQueue(w) \/ UNCHANGED failVars
         /\ Reserves(w) \/ UNCHANGED <<fileCount, dirCount>>
         /\ StoresRecord(w) \/ UNCHANGED listed
         /\ Opens(w) \/ UNCHANGED scanned
         /\ OpenFails(w) \/ ReadFails(w) \/ RecordFails(w) \/ UNCHANGED ignored
         /\ \/ WorkerWaits(w) \/ WorkerTakes(w) \/ AddsDirectory(w) \/ FinishesDirectory(w)
            \/ ClosesQueue(w) \/ UNCHANGED queueVars
<1> USE DEF failVars, reportVars
<1>1. CASE ReadCancelled(w) \/ OpenFails(w) \/ OpenFindsRootChanged(w) \/ Opens(w)
  BY <1>1 DEF ReadCancelled, OpenFails, OpenFindsRootChanged, Opens
<1>2. CASE ReadFails(w) \/ ReadEnds(w) \/ TakesEntry(w)
  BY <1>2 DEF ReadFails, ReadEnds, TakesEntry
<1>3. CASE RecordCancelled(w) \/ RecordFails(w) \/ RecordOpens(w) \/ StoresRecord(w)
  BY <1>3 DEF RecordCancelled, RecordFails, RecordOpens, StoresRecord
<1>4. CASE ReserveFails(w) \/ Reserves(w) \/ ReserveRetries(w)
  BY <1>4 DEF ReserveFails, Reserves, ReserveRetries
<1>5. CASE AddsDirectory(w) \/ AddIsRefused(w) \/ WorkerTakes(w)
  BY <1>5 DEF AddsDirectory, AddIsRefused, AddRefused, WorkerTakes
<1>6. CASE WorkerWaits(w) \/ WorkerLeaves(w) \/ FinishesDirectory(w)
  BY <1>6 DEF WorkerWaits, WorkerLeaves, Exhausted, FinishesDirectory
<1>7. CASE FailsFirst(w) \/ CancelsScan(w) \/ ClosesQueue(w) \/ FailsLater(w)
  BY <1>7 DEF FailsFirst, CancelsScan, ClosesQueue, FailsLater
<1>8. QED
  BY <1>1, <1>2, <1>3, <1>4, <1>5, <1>6, <1>7 DEF Worker, Reads, Ends

-----------------------------------------------------------------------------
(* The types.                                                              *)

LEMMA CoreTypesStep ==
  ASSUME TypeOK, PhaseInv, [Next]_vars
  PROVE  CoreTypes'
<1> USE ScanFacts
<1> USE DEF Errors, Results, Return, NextRoot
<1>0. CoreTypes /\ WorkerTypes
  BY TypeParts
<1>1. CASE UNCHANGED vars
  BY <1>1, <1>0 DEF vars, envVars, mainVars, failVars, CoreTypes, Roots
<1>2. CASE Outside
  <2>1. UNCHANGED <<scan, class, mainVars, failVars>>
    BY <1>2, OutsideFrame
  <2>2. rootsLost' \in SUBSET Range(Roots)
    BY <1>2, <1>0, OutsideFrame DEF CoreTypes, RootReplaced
  <2>3. ctxCancelled' \in BOOLEAN /\ scanCancelled' \in BOOLEAN
    BY <1>2, <1>0, OutsideFrame DEF CoreTypes, UserCancels
  <2>4. watcher' \in {"idle", "watching", "closing", "ended"}
    BY <1>2, <1>0, OutsideFrame
    DEF CoreTypes, Watcher, WatcherWakes, WatcherCloses, WatcherReleased, WatcherStep
  <2>5. QED
    BY <2>1, <2>2, <2>3, <2>4, <1>0 DEF CoreTypes, Roots, mainVars, failVars
<1>3. CASE Main
  <2>1. UNCHANGED <<envVars, failVars>> /\ (StartWorkers \/ UNCHANGED watcher)
    BY <1>3, MainFrame
  <2>2. watcher' \in {"idle", "watching", "closing", "ended"}
    BY <2>1, <1>0 DEF CoreTypes, StartWorkers
  <2> DEFINE Typed ==
        /\ scanCancelled' \in BOOLEAN /\ result' \in Results
        /\ main' \in {"roots", "rootFile", "waiting", "waited", "returned"}
        /\ rootIx' \in 1..(Len(Roots) + 1) /\ seenRoots' \in SUBSET Range(Roots)
  <2>3. Typed
    <3>1. CASE RootsCancelled \/ NothingToRead \/ StartWorkers \/ WorkersGone
      BY <3>1, <1>0 DEF RootsCancelled, NothingToRead, StartWorkers, WorkersGone, CoreTypes
    <3>2. ASSUME NEW r \in Items, RootUnsafe(r) \/ RootBeyondLimit(r)
          PROVE  Typed
      BY <3>2, <1>0 DEF RootUnsafe, RootBeyondLimit, CoreTypes
    <3>6. ASSUME NEW r \in Items, RootFile(r)
          PROVE  Typed
      BY <3>6, <1>0 DEF RootFile, RootAuthorized, AtRoot, CoreTypes
    <3>3. ASSUME NEW r \in Items, RootSkipped(r) \/ RootDirectory(r)
          PROVE  Typed
      BY <3>3, <1>0 DEF RootSkipped, RootDirectory, RootAuthorized, AtRoot, CoreTypes
    <3>4. CASE RecordRootFile \/ RootFileFails
      BY <3>4, <1>0 DEF RecordRootFile, RootFileFails, CoreTypes, PhaseInv
    <3>5. CASE JudgeOutcome
      BY <3>5, <1>0 DEF JudgeOutcome, Verdict, CoreTypes
    <3>7. QED
      BY <1>3, <3>1, <3>2, <3>3, <3>4, <3>5, <3>6 DEF Main
  <2>4. QED
    BY <2>1, <2>2, <2>3, <1>0 DEF CoreTypes, Roots, envVars, failVars
<1>4. ASSUME NEW w \in Workers, Worker(w)
      PROVE  CoreTypes'
  <2>1. UNCHANGED <<envVars, mainVars, watcher>>
    BY <1>4, WorkerFrame
  <2>2. scanCancelled' \in BOOLEAN
    BY <1>4, WorkerFrame, <1>0 DEF CoreTypes, CancelsScan
  <2>3. scanErr' \in Errors /\ failOnce' \in {"open", "running", "done"}
    BY <1>4, WorkerFrame, <1>0 DEF CoreTypes, WorkerTypes, FailsFirst, ClosesQueue, failVars
  <2>4. QED
    BY <2>1, <2>2, <2>3, <1>0 DEF CoreTypes, Roots, envVars, mainVars
<1>5. QED
  BY <1>1, <1>2, <1>3, <1>4, Actors

LEMMA ReportTypesStep ==
  ASSUME TypeOK, PhaseInv, HoldInv, [Next]_vars
  PROVE  ReportTypes'
<1> USE ScanFacts
<1> USE DEF Items
<1>0. ReportTypes /\ WorkerTypes
  BY TypeParts
<1>1. CASE UNCHANGED vars \/ Outside
  <2>1. UNCHANGED <<scan, reportVars>>
    BY <1>1, OutsideFrame DEF vars, envVars
  <2>2. QED
    BY <2>1, <1>0 DEF ReportTypes, reportVars, MaxFiles, MaxDirectories
<1>2. CASE Main
  <2>1. scan' = scan /\ scanned' = scanned
    BY <1>2, MainFrame DEF envVars
  <2>2. fileCount' \in 0..MaxFiles /\ listed' \in [Files -> Nat]
    <3>1. CASE RecordRootFile
      <4>1. fileCount' \in 0..MaxFiles
        BY <3>1, <1>0 DEF ReportTypes, RecordRootFile
      <4>2. listed' \in [Files -> Nat]
        BY <3>1, <1>0 DEF ReportTypes, RecordRootFile, PhaseInv
      <4>3. QED
        BY <4>1, <4>2
    <3>2. QED
      BY <1>2, MainFrame, <1>0, <3>1 DEF ReportTypes
  <2>3. dirCount' \in 0..MaxDirectories
    <3>1. ASSUME NEW r \in Items, RootDirectory(r) PROVE dirCount' \in 0..MaxDirectories
      BY <3>1, <1>0 DEF ReportTypes, RootDirectory
    <3>2. QED
      BY <1>2, MainFrame, <1>0, <3>1 DEF ReportTypes
  <2>4. ignored' \in SUBSET Items
    BY <1>2, MainFrame, <1>0 DEF ReportTypes, RootSkipped, RootFileFails, PhaseInv
  <2>5. QED
    BY <2>1, <2>2, <2>3, <2>4, <1>0 DEF ReportTypes, MaxFiles, MaxDirectories
<1>3. ASSUME NEW w \in Workers, Worker(w)
      PROVE  ReportTypes'
  <2>1. scan' = scan
    BY <1>3, WorkerFrame DEF envVars
  <2>2. fileCount' \in 0..MaxFiles /\ dirCount' \in 0..MaxDirectories
    BY <1>3, WorkerFrame, <1>0 DEF ReportTypes, Reserves, LimitFor, CounterFor
  <2>3. listed' \in [Files -> Nat]
    BY <1>3, WorkerFrame, <1>0 DEF ReportTypes, StoresRecord, HoldInv, HoldsAt
  <2>4. scanned' \in SUBSET Dirs
    BY <1>3, WorkerFrame, <1>0 DEF ReportTypes, Opens, HoldInv, HoldsAt, Holding
  <2>5. ignored' \in SUBSET Items
    BY <1>3, WorkerFrame, <1>0 DEF ReportTypes, OpenFails, ReadFails, RecordFails, HoldInv, HoldsAt, Holding
  <2>6. QED
    BY <2>1, <2>2, <2>3, <2>4, <2>5, <1>0 DEF ReportTypes, MaxFiles, MaxDirectories
<1>4. QED
  BY <1>1, <1>2, <1>3, Actors

LEMMA QueueTypesStep ==
  ASSUME TypeOK, HoldInv, [Next]_vars
  PROVE  QueueTypes'
<1> USE ScanFacts
<1>0. QueueTypes /\ WorkerTypes
  BY TypeParts
<1>1. CASE UNCHANGED vars \/ Outside
  <2>1. scan' = scan /\ (UNCHANGED queueVars \/ Close)
    BY <1>1, OutsideFrame DEF vars, envVars, WatcherCloses
  <2>2. QED
    BY <2>1, <1>0, QueueTyped DEF QueueStep
<1>2. CASE Main
  <2>1. scan' = scan
    BY <1>2, MainFrame DEF envVars
  <2>2. CASE UNCHANGED queueVars \/ StartWorkers
    BY <2>1, <2>2, <1>0, QueueTyped DEF QueueStep, StartWorkers
  <2>3. ASSUME NEW r \in Items, RootDirectory(r)
        PROVE  QueueTypes'
    <3>1. [dir |-> r, scope |-> r] \in Works
      BY <2>3 DEF RootDirectory, RootAuthorized, AtRoot
    <3>2. QED
      BY <3>1, <2>1, <2>3, <1>0 DEF RootDirectory, QueueTypes, Works, Roots
  <2>4. QED
    BY <1>2, <2>2, <2>3, MainFrame
<1>3. ASSUME NEW w \in Workers, Worker(w)
      PROVE  QueueTypes'
  <2>1. scan' = scan
    BY <1>3, WorkerFrame DEF envVars
  <2>2. QueueStep
    <3>1. CASE UNCHANGED queueVars \/ FinishesDirectory(w) \/ ClosesQueue(w)
      BY <3>1 DEF QueueStep, FinishesDirectory, ClosesQueue
    <3>2. CASE WorkerWaits(w)
      BY <3>2 DEF QueueStep, WorkerWaits
    <3>3. CASE WorkerTakes(w)
      BY <3>3 DEF QueueStep, WorkerTakes
    <3>4. CASE AddsDirectory(w)
      <4>1. [dir |-> item[w], scope |-> work[w].scope] \in Works
        BY <3>4, <1>0 DEF AddsDirectory, HoldInv, HoldsAt, Holding
      <4>2. QED
        BY <3>4, <4>1 DEF AddsDirectory, QueueStep
    <3>5. QED
      BY <1>3, <3>1, <3>2, <3>3, <3>4, WorkerFrame
  <2>3. QED
    BY <2>1, <2>2, <1>0, QueueTyped
<1>4. QED
  BY <1>1, <1>2, <1>3, Actors

LEMMA WorkerTypesStep ==
  ASSUME TypeOK, HoldInv, [Next]_vars
  PROVE  WorkerTypes'
<1> USE ScanFacts
<1> USE DEF Counters, Holding, Goto, ReadReturns, NextEntry
<1>0. CoreTypes /\ ReportTypes /\ WorkerTypes
  BY TypeParts
<1>1. CASE UNCHANGED vars \/ Outside
  <2>1. UNCHANGED <<scan, workerVars>>
    BY <1>1, OutsideFrame DEF vars, envVars
  <2>2. QED
    BY <2>1, <1>0 DEF WorkerTypes, workerVars, Works, Roots
<1>2. CASE Main
  <2>1. scan' = scan /\ UNCHANGED <<work, todo, item, seen, err>>
    BY <1>2, MainFrame DEF envVars
  <2>2. pc' \in [Workers -> Counters]
    BY <1>2, MainFrame, <1>0 DEF StartWorkers, WorkerTypes
  <2>3. QED
    BY <2>1, <2>2, <1>0 DEF WorkerTypes, Works, Roots
<1>3. ASSUME NEW w \in Workers, Worker(w)
      PROVE  WorkerTypes'
  <2>1. scan' = scan
    BY <1>3, WorkerFrame DEF envVars
  <2>2. Works' = Works
    BY <2>1 DEF Works, Roots
  <2>3. ASSUME NEW e \in Errors, ReadReturns(w, e)
        PROVE  WorkerTypes'
    BY <2>2, <2>3, <1>0 DEF WorkerTypes
  <2>4. CASE Returning(w)
    <3>1. \E e \in Errors : ReadReturns(w, e)
      BY <2>4 DEF Returning, ReadCancelled, OpenFails, OpenFindsRootChanged, ReadFails, ReadEnds,
                  ReserveFails, AddIsRefused, Errors
    <3>2. QED
      BY <3>1, <2>3
  <2>5. CASE RecordCancelled(w) \/ RecordFails(w) \/ StoresRecord(w) \/ AddsDirectory(w)
    <3>1. NextEntry(w)
      BY <2>5 DEF RecordCancelled, RecordFails, StoresRecord, AddsDirectory
    <3>2. QED
      BY <3>1, <2>2, <1>0 DEF WorkerTypes
  <2>6. CASE Opens(w)
    <3>1. Entries[work[w].dir] \in SUBSET Items
      BY <2>6, <1>0, ScanAssumption DEF Opens, HoldInv, HoldsAt
    <3>2. QED
      BY <3>1, <2>2, <2>6, <1>0 DEF Opens, WorkerTypes
  <2>7. CASE TakesEntry(w)
    <3>1. PICK i \in todo[w] : TakesEntry(w)!3!(i)
      BY <2>7 DEF TakesEntry
    <3>2. i \in Items /\ dirCount \in Nat
      BY <3>1, <1>0 DEF WorkerTypes, ReportTypes
    <3>3. pc' \in [Workers -> Counters] /\ todo' \in [Workers -> SUBSET Items]
      BY <3>1, <3>2, <1>0 DEF WorkerTypes
    <3>4. item' \in [Workers -> Items \cup {NoItem}] /\ seen' \in [Workers -> Nat]
      BY <3>1, <3>2, <1>0 DEF WorkerTypes
    <3>5. QED
      BY <2>7, <3>3, <3>4, <2>2, <1>0 DEF WorkerTypes, TakesEntry
  <2>8. CASE RecordOpens(w) \/ Reserves(w) \/ ReserveRetries(w)
    <3>1. fileCount \in Nat /\ dirCount \in Nat
      BY <1>0 DEF ReportTypes
    <3>2. CASE RecordOpens(w)
      BY <3>1, <3>2, <2>2, <1>0 DEF RecordOpens, WorkerTypes
    <3>3. CASE Reserves(w) \/ ReserveRetries(w)
      BY <3>1, <3>3, <2>2, <1>0 DEF Reserves, ReserveRetries, CounterFor, WorkerTypes
    <3>4. QED
      BY <2>8, <3>2, <3>3
  <2>9. CASE FinishesDirectory(w)
    BY <2>2, <2>9, <1>0 DEF FinishesDirectory, WorkerTypes
  <2>13. CASE WorkerTakes(w)
    BY <2>2, <2>13, <1>0 DEF WorkerTakes, WorkerTypes
  <2>10. CASE WorkerWaits(w) \/ WorkerLeaves(w)
    BY <2>2, <2>10, <1>0 DEF WorkerWaits, WorkerLeaves, WorkerTypes, workerVars
  <2>11. CASE FailsFirst(w) \/ CancelsScan(w) \/ ClosesQueue(w) \/ FailsLater(w)
    BY <2>2, <2>11, <1>0 DEF FailsFirst, CancelsScan, ClosesQueue, FailsLater, WorkerTypes
  <2>12. QED
    BY <1>3, <2>4, <2>5, <2>6, <2>7, <2>8, <2>9, <2>10, <2>11, <2>13 DEF Worker, Reads, Ends,
       Returning
<1>4. QED
  BY <1>1, <1>2, <1>3, Actors

LEMMA TypeStep ==
  ASSUME TypeOK, PhaseInv, HoldInv, [Next]_vars
  PROVE  TypeOK'
BY CoreTypesStep, ReportTypesStep, WorkerTypesStep, QueueTypesStep
DEF TypeOK, CoreTypes, ReportTypes, WorkerTypes, QueueTypes

-----------------------------------------------------------------------------
(* The order of coming and going.                                          *)

\* What another worker has in hand is its own.
LEMMA WorkerMoves ==
  ASSUME TypeOK, PhaseInv, NEW w \in Workers, Worker(w)
  PROVE  /\ pc[w] \notin Gone /\ pc'[w] # "idle"
         /\ main = "waiting" /\ watcher # "idle" /\ result = "none"
         /\ \A v \in Workers \ {w} :
              /\ pc'[v] = pc[v] /\ work'[v] = work[v] /\ todo'[v] = todo[v]
              /\ item'[v] = item[v] /\ seen'[v] = seen[v] /\ err'[v] = err[v]
<1> DEFINE Elsewhere == \A v \in Workers \ {w} :
              /\ pc'[v] = pc[v] /\ work'[v] = work[v] /\ todo'[v] = todo[v]
              /\ item'[v] = item[v] /\ seen'[v] = seen[v] /\ err'[v] = err[v]
<1> USE DEF Goto, ReadReturns, NextEntry, Gone
<1>0. WorkerTypes
  BY TypeParts
<1>1. /\ pc[w] \notin Gone /\ pc'[w] # "idle" /\ Elsewhere
  <2>1. CASE ReadCancelled(w) \/ OpenFails(w) \/ OpenFindsRootChanged(w) \/ ReadFails(w)
    BY <2>1, <1>0 DEF WorkerTypes, ReadCancelled, OpenFails, OpenFindsRootChanged, ReadFails
  <2>2. CASE ReadEnds(w) \/ ReserveFails(w) \/ AddIsRefused(w)
    BY <2>2, <1>0 DEF WorkerTypes, ReadEnds, ReserveFails, AddIsRefused
  <2>3. CASE RecordCancelled(w) \/ RecordFails(w) \/ StoresRecord(w) \/ AddsDirectory(w)
    BY <2>3, <1>0 DEF WorkerTypes, RecordCancelled, RecordFails, StoresRecord, AddsDirectory
  <2>4. CASE Opens(w) \/ TakesEntry(w) \/ RecordOpens(w)
    BY <2>4, <1>0 DEF WorkerTypes, Opens, TakesEntry, RecordOpens
  <2>5. CASE Reserves(w) \/ ReserveRetries(w) \/ WorkerTakes(w) \/ FinishesDirectory(w)
    BY <2>5, <1>0 DEF WorkerTypes, Reserves, ReserveRetries, WorkerTakes, FinishesDirectory
  <2>6. CASE WorkerWaits(w) \/ WorkerLeaves(w)
    BY <2>6, <1>0 DEF WorkerTypes, WorkerWaits, WorkerLeaves, workerVars
  <2>7. CASE FailsFirst(w) \/ CancelsScan(w) \/ ClosesQueue(w) \/ FailsLater(w)
    BY <2>7, <1>0 DEF WorkerTypes, FailsFirst, CancelsScan, ClosesQueue, FailsLater
  <2>8. QED
    BY <2>1, <2>2, <2>3, <2>4, <2>5, <2>6, <2>7 DEF Worker, Reads, Ends
<1>2. main = "waiting" /\ watcher # "idle" /\ result = "none"
  BY <1>1 DEF PhaseInv, TypeOK
<1>3. QED
  BY <1>1, <1>2

LEMMA PhaseStep ==
  ASSUME TypeOK, PhaseInv, FailInv, [Next]_vars
  PROVE  PhaseInv'
<1> USE ScanFacts
<1>0. CoreTypes /\ WorkerTypes
  BY TypeParts
<1>1. CASE UNCHANGED vars
  BY <1>1 DEF vars, envVars, mainVars, failVars, workerVars, queueVars, PhaseInv, Roots
<1>2. CASE Outside
  <2>1. UNCHANGED <<scan, mainVars, failVars, workerVars>>
    BY <1>2, OutsideFrame
  <2>2. CASE UserCancels \/ \E r \in Range(Roots) : RootReplaced(r)
    BY <2>1, <2>2 DEF UserCancels, RootReplaced, PhaseInv, Roots, mainVars, failVars, workerVars,
                      queueVars
  <2>3. CASE Watcher
    BY <2>1, <2>3, <1>0 DEF Watcher, WatcherWakes, WatcherCloses, WatcherReleased, WatcherStep,
       envVars, PhaseInv, Roots, mainVars, failVars, workerVars, queueVars, CoreTypes
  <2>4. QED
    BY <1>2, <2>2, <2>3 DEF Outside
<1>3. CASE Main
  <2> USE DEF PhaseInv, Roots, Return, NextRoot, CoreTypes, Results
  <2>1. UNCHANGED <<envVars, failVars, scan, ctxCancelled>>
    BY <1>3, MainFrame DEF envVars
  <2>2. CASE RootsCancelled
    BY <2>1, <2>2, <1>0 DEF RootsCancelled, failVars, workerVars, queueVars, Gone
  <2>3. ASSUME NEW r \in Items, RootUnsafe(r) \/ RootBeyondLimit(r)
        PROVE  PhaseInv'
    BY <2>1, <2>3, <1>0 DEF RootUnsafe, RootBeyondLimit, RootAuthorized, AtRoot, failVars,
       workerVars, queueVars, Gone
  <2>4. ASSUME NEW r \in Items, RootSkipped(r) \/ RootDirectory(r) \/ RootFile(r)
        PROVE  PhaseInv'
    BY <2>1, <2>4, <1>0 DEF RootSkipped, RootDirectory, RootFile, RootAuthorized, AtRoot, failVars,
       workerVars, queueVars, mainVars
  <2>5. CASE RecordRootFile \/ RootFileFails
    BY <2>1, <2>5, <1>0 DEF RecordRootFile, RootFileFails, failVars, workerVars, queueVars
  <2>6. CASE NothingToRead
    BY <2>1, <2>6, <1>0 DEF NothingToRead, failVars, workerVars, queueVars, Gone
  <2>7. CASE StartWorkers
    BY <2>1, <2>7, <1>0 DEF StartWorkers, NewQueue, failVars
  <2>8. CASE WorkersGone
    BY <2>1, <2>8, <1>0 DEF WorkersGone, failVars, workerVars, queueVars, Gone
  <2>9. CASE JudgeOutcome
    BY <2>1, <2>9, <1>0 DEF JudgeOutcome, Verdict, failVars, workerVars, queueVars, Gone, FailInv
  <2>10. QED
    BY <1>3, <2>2, <2>3, <2>4, <2>5, <2>6, <2>7, <2>8, <2>9 DEF Main
<1>4. ASSUME NEW w \in Workers, Worker(w)
      PROVE  PhaseInv'
  <2>1. UNCHANGED <<envVars, mainVars, watcher>> /\ (scanCancelled => scanCancelled')
    BY <1>4, WorkerFrame DEF CancelsScan
  <2>2. main = "waiting" /\ watcher # "idle" /\ result = "none"
        /\ \A v \in Workers : pc'[v] # "idle"
    BY <1>4, WorkerMoves DEF PhaseInv
  <2>3. QED
    BY <2>1, <2>2 DEF PhaseInv, envVars, mainVars, Roots
<1>5. QED
  BY <1>1, <1>2, <1>3, <1>4, Actors

\* What is never taken back.
Kept ==
  /\ scan' = scan /\ class' = class
  /\ ctxCancelled => ctxCancelled'
  /\ scanCancelled => scanCancelled'
  /\ rootsLost \subseteq rootsLost' /\ seenRoots \subseteq seenRoots'
  /\ scanErr # "none" => scanErr' = scanErr
  /\ failOnce # "open" => failOnce' # "open"
  /\ fileCount <= fileCount' /\ dirCount <= dirCount'
  /\ scanned \subseteq scanned' /\ ignored \subseteq ignored'
  /\ \A f \in Files : listed[f] <= listed'[f]

LEMMA NothingTakenBack ==
  ASSUME TypeOK, PhaseInv, HoldInv, FailInv, [Next]_vars
  PROVE  Kept
<1>0. CoreTypes /\ ReportTypes /\ WorkerTypes
  BY TypeParts
<1>a. fileCount \in Nat /\ dirCount \in Nat /\ \A f \in Files : listed[f] \in Nat
  BY <1>0, ScanFacts DEF ReportTypes
<1>1. CASE UNCHANGED vars
  BY <1>1, <1>a DEF vars, envVars, mainVars, failVars, reportVars, Kept
<1>2. CASE Outside
  <2>1. UNCHANGED <<scan, class, mainVars, failVars, reportVars>>
    BY <1>2, OutsideFrame
  <2>2. (ctxCancelled => ctxCancelled') /\ (scanCancelled => scanCancelled')
    <3>1. CASE UserCancels
      BY <3>1 DEF UserCancels
    <3>2. CASE UNCHANGED <<ctxCancelled, scanCancelled>>
      BY <3>2
    <3>3. QED
      BY <1>2, <3>1, <3>2, OutsideFrame
  <2>3. rootsLost \subseteq rootsLost'
    BY <1>2, OutsideFrame DEF RootReplaced
  <2>4. QED
    BY <2>1, <2>2, <2>3, <1>a DEF Kept, mainVars, failVars, reportVars
<1>3. CASE Main
  <2>1. UNCHANGED <<scan, class, rootsLost, ctxCancelled, failVars, scanned>>
    BY <1>3, MainFrame DEF envVars
  <2>2. scanCancelled => scanCancelled'
    BY <1>3 DEF Main, RootsCancelled, RootUnsafe, RootSkipped, RootDirectory, RootFile,
       RootBeyondLimit, RecordRootFile, RootFileFails, NothingToRead, StartWorkers, WorkersGone, JudgeOutcome,
       Return
  <2>3. seenRoots \subseteq seenRoots'
    BY <1>3 DEF Main, RootsCancelled, RootUnsafe, RootSkipped, RootDirectory, RootFile,
       RootBeyondLimit, RecordRootFile, RootFileFails, NothingToRead, StartWorkers, WorkersGone, JudgeOutcome,
       Return
  <2>4. fileCount <= fileCount' /\ \A f \in Files : listed[f] <= listed'[f]
    <3>1. CASE RecordRootFile
      BY <3>1, <1>0, <1>a DEF RecordRootFile, ReportTypes
    <3>2. QED
      BY <3>1, <1>3, <1>a, MainFrame
  <2>5. dirCount <= dirCount'
    <3>1. ASSUME NEW r \in Items, RootDirectory(r) PROVE dirCount <= dirCount'
      BY <3>1, <1>a DEF RootDirectory
    <3>2. QED
      BY <3>1, <1>3, <1>a, MainFrame
  <2>6. ignored \subseteq ignored'
    BY <1>3, MainFrame DEF RootSkipped, RootFileFails
  <2>7. QED
    BY <2>1, <2>2, <2>3, <2>4, <2>5, <2>6 DEF Kept, failVars
<1>4. ASSUME NEW w \in Workers, Worker(w)
      PROVE  Kept
  <2>1. UNCHANGED <<scan, class, rootsLost, ctxCancelled, seenRoots>>
    BY <1>4, WorkerFrame DEF envVars, mainVars
  <2>2. scanCancelled => scanCancelled'
    BY <1>4, WorkerFrame DEF CancelsScan
  <2>3. (scanErr # "none" => scanErr' = scanErr) /\ (failOnce # "open" => failOnce' # "open")
    BY <1>4, WorkerFrame DEF FailsFirst, ClosesQueue, failVars, FailInv
  <2>4. fileCount <= fileCount' /\ dirCount <= dirCount'
    <3>1. CASE Reserves(w)
      <4>1. seen[w] = CounterFor(item[w])
        BY <3>1 DEF Reserves
      <4>2. QED
        BY <3>1, <4>1, <1>a DEF Reserves, CounterFor
    <3>2. QED
      BY <1>4, <3>1, <1>a, WorkerFrame
  <2>5. \A f \in Files : listed[f] <= listed'[f]
    BY <1>4, <1>0, <1>a, WorkerFrame DEF StoresRecord, ReportTypes
  <2>6. scanned \subseteq scanned' /\ ignored \subseteq ignored'
    BY <1>4, WorkerFrame DEF Opens, OpenFails, ReadFails, RecordFails
  <2>7. QED
    BY <2>1, <2>2, <2>3, <2>4, <2>5, <2>6 DEF Kept
<1>5. QED
  BY <1>1, <1>2, <1>3, <1>4, Actors

\* What each step of a worker finds and leaves in its hands.
LEMMA HoldStep ==
  ASSUME TypeOK, PhaseInv, HoldInv, FailInv, [Next]_vars
  PROVE  HoldInv'
<1> USE ScanFacts
<1>0. CoreTypes /\ ReportTypes /\ WorkerTypes
  BY TypeParts
<1>a. Kept
  BY NothingTakenBack
<1>b. TypeOK'
  BY TypeStep
<1>c. /\ fileCount \in Nat /\ dirCount \in Nat /\ fileCount' \in Nat /\ dirCount' \in Nat
      /\ seen \in [Workers -> Nat] /\ seen' \in [Workers -> Nat]
  BY <1>b DEF TypeOK, Kept, MaxFiles, MaxDirectories
<1>d. Works' = Works
  BY <1>a DEF Kept, Works, Roots
<1>1. ASSUME NEW v \in Workers, pc'[v] = pc[v], work'[v] = work[v], todo'[v] = todo[v],
             item'[v] = item[v], seen'[v] = seen[v]
      PROVE  HoldsAt(v)'
  <2>1. HoldsAt(v)
    BY DEF HoldInv
  <2>2. QED
    BY <1>1, <2>1, <1>a, <1>c, <1>d DEF HoldsAt, Kept, CounterFor
<1>2. CASE UNCHANGED vars \/ Outside
  BY <1>2, <1>1, OutsideFrame DEF HoldInv, vars, workerVars
<1>3. CASE Main
  <2>1. UNCHANGED <<work, todo, item, seen>> /\ (StartWorkers \/ UNCHANGED pc)
    BY <1>3, MainFrame
  <2>2. CASE UNCHANGED pc
    BY <2>1, <2>2, <1>1 DEF HoldInv
  <2>3. CASE StartWorkers
    BY <2>1, <2>3, <1>d DEF StartWorkers, HoldInv, HoldsAt, PhaseInv, Holding, Recording, Listing
  <2>4. QED
    BY <2>1, <2>2, <2>3
<1>4. ASSUME NEW w \in Workers, Worker(w)
      PROVE  HoldInv'
  <2>1. \A v \in Workers \ {w} : HoldsAt(v)'
    BY <1>4, <1>1, WorkerMoves
  <2> SUFFICES HoldsAt(w)'
    BY <2>1 DEF HoldInv
  <2>2. HoldsAt(w)
    BY DEF HoldInv
  <2> USE DEF HoldsAt, Holding, Recording, Listing, Goto, ReadReturns, NextEntry, WorkerTypes
  <2>3. CASE Returning(w)
    <3>1. pc[w] \in Holding /\ \E e \in Errors : ReadReturns(w, e)
      BY <2>3, <2>2 DEF Returning, ReadCancelled, OpenFails, OpenFindsRootChanged, ReadFails,
                  ReadEnds, ReserveFails, AddIsRefused, Errors
    <3>2. QED
      BY <3>1, <2>2, <1>0, <1>d
  <2>4. CASE RecordCancelled(w) \/ RecordFails(w) \/ StoresRecord(w) \/ AddsDirectory(w)
    <3>1. pc[w] \in Holding /\ NextEntry(w)
      BY <2>4 DEF RecordCancelled, RecordFails, StoresRecord, AddsDirectory
    <3>2. QED
      BY <3>1, <2>2, <1>0, <1>d
  <2>5. CASE Opens(w)
    BY <2>5, <2>2, <1>0, <1>d DEF Opens
  <2>6. CASE TakesEntry(w)
    <3>1. PICK i \in todo[w] : TakesEntry(w)!3!(i)
      BY <2>6 DEF TakesEntry
    <3>2. i \in Items /\ i # NoItem /\ UNCHANGED <<work, fileCount, dirCount>>
      BY <2>6, <3>1, <1>0 DEF TakesEntry, reportVars
    <3>3. pc[w] = "entries"
      BY <2>6 DEF TakesEntry
    <3>4. CASE class[i] \in {"reparse", "system"}
      <4>1. pc'[w] = "entries" /\ item'[w] = NoItem
        BY <3>1, <3>4, <1>0
      <4>2. QED
        BY <4>1, <3>2, <3>3, <2>2, <1>d
    <3>5. CASE class[i] \notin {"reparse", "system"} /\ i \in Dirs
      <4>1. pc'[w] = "cas" /\ item'[w] = i /\ seen'[w] = dirCount
        BY <3>1, <3>5, <1>0
      <4>2. QED
        BY <4>1, <3>2, <3>3, <3>5, <2>2, <1>c, <1>d DEF CounterFor
    <3>6. CASE class[i] \notin {"reparse", "system"} /\ i \notin Dirs
      <4>1. pc'[w] = "record" /\ item'[w] = i /\ i \in Files
        BY <3>1, <3>2, <3>6, <1>0 DEF Items
      <4>2. QED
        BY <4>1, <3>2, <3>3, <2>2, <1>d
    <3>7. QED
      BY <3>4, <3>5, <3>6
  <2>7. CASE RecordOpens(w)
    <3>1. item[w] \in Files /\ item[w] \notin Dirs
      BY <2>7, <2>2, ScanAssumption DEF RecordOpens
    <3>2. QED
      BY <3>1, <2>7, <2>2, <1>0, <1>c, <1>d DEF RecordOpens, reportVars, CounterFor
  <2>8. CASE Reserves(w)
    BY <2>8, <2>2, <1>0, <1>d, ScanAssumption DEF Reserves, Items
  <2>9. CASE ReserveRetries(w)
    BY <2>9, <2>2, <1>0, <1>c, <1>d DEF ReserveRetries, reportVars, CounterFor
  <2>10. CASE WorkerTakes(w)
    BY <2>10, <2>2, <1>0, <1>d DEF WorkerTakes
  <2>11. CASE FinishesDirectory(w)
    BY <2>11, <2>2, <1>0, <1>d DEF FinishesDirectory
  <2>12. CASE WorkerWaits(w) \/ WorkerLeaves(w)
    BY <2>12, <2>2, <1>0, <1>d DEF WorkerWaits, WorkerLeaves, workerVars
  <2>13. CASE FailsFirst(w) \/ CancelsScan(w) \/ ClosesQueue(w) \/ FailsLater(w)
    BY <2>13, <2>2, <1>0, <1>d DEF FailsFirst, CancelsScan, ClosesQueue, FailsLater
  <2>14. QED
    BY <1>4, <2>3, <2>4, <2>5, <2>6, <2>7, <2>8, <2>9, <2>10, <2>11, <2>12, <2>13
    DEF Worker, Reads, Ends, Returning
<1>5. QED
  BY <1>2, <1>3, <1>4, Actors

-----------------------------------------------------------------------------
(* Errors and their causes.                                                *)

LEMMA CausesStay ==
  ASSUME TypeOK, TypeOK', Kept, NEW e, CauseOf(e)
  PROVE  /\ e = "canceled" => ctxCancelled' \/ failOnce' # "open"
         /\ e = "rootChanged" => rootsLost' # {}
         /\ e = "limit" => Full'
         /\ e # "queueClosed"
<1>1. fileCount' \in 0..MaxFiles /\ dirCount' \in 0..MaxDirectories
  BY DEF TypeOK, Kept, MaxFiles, MaxDirectories
<1>2. Full => Full'
  <2>1. /\ fileCount \in Nat /\ fileCount' \in Nat /\ MaxFiles \in Nat /\ MaxFiles' = MaxFiles
        /\ dirCount \in Nat /\ dirCount' \in Nat /\ MaxDirectories \in Nat
        /\ MaxDirectories' = MaxDirectories
    BY <1>1, ScanFacts DEF TypeOK, Kept, MaxFiles, MaxDirectories
  <2>2. QED
    BY <1>1, <2>1 DEF Full, Kept
<1>3. QED
  BY <1>2 DEF CauseOf, Kept

\* A worker that stays where it is keeps its error and the cause of it.
LEMMA ErrorStays ==
  ASSUME TypeOK, TypeOK', Kept, FailInv, NEW v \in Workers, pc'[v] = pc[v], err'[v] = err[v],
         failOnce' = failOnce \/ pc[v] \notin {"cancelling", "closing"}
  PROVE  ErrorAt(v)'
<1>1. ErrorAt(v)
  BY DEF FailInv
<1>2. CauseOf(err[v])'
  BY <1>1, CausesStay DEF ErrorAt, CauseOf
<1>3. QED
  BY <1>1, <1>2 DEF ErrorAt, Kept

\* Each error of readDirectory has its cause when it returns.
LEMMA ReturningHasCause ==
  ASSUME TypeOK, PhaseInv, HoldInv, FailInv, NEW w \in Workers, Worker(w), Returning(w)
  PROVE  \E e \in Errors : ReadReturns(w, e) /\ CauseOf(e)
<1>0. CoreTypes /\ ReportTypes /\ WorkerTypes
  BY TypeParts
<1>1. CASE ReadCancelled(w)
  <2>1. ctxCancelled \/ failOnce # "open"
    BY <1>1, WorkerMoves DEF ReadCancelled, FailInv
  <2>2. QED
    BY <1>1, <2>1 DEF ReadCancelled, Errors, CauseOf
<1>2. CASE OpenFails(w) \/ ReadFails(w) \/ ReadEnds(w)
  BY <1>2 DEF OpenFails, ReadFails, ReadEnds, Errors, CauseOf
<1>3. CASE OpenFindsRootChanged(w)
  BY <1>3 DEF OpenFindsRootChanged, Errors, CauseOf
<1>4. CASE ReserveFails(w)
  <2>1. seen[w] >= LimitFor(item[w]) /\ seen[w] <= CounterFor(item[w])
    BY <1>4 DEF ReserveFails, HoldInv, HoldsAt
  <2>2. Full
    <3>1. /\ fileCount \in 0..MaxFiles /\ dirCount \in 0..MaxDirectories
          /\ MaxFiles \in Nat /\ MaxDirectories \in Nat /\ seen[w] \in Nat
      BY <1>0, ScanFacts DEF ReportTypes, WorkerTypes
    <3>2. QED
      BY <2>1, <3>1 DEF LimitFor, CounterFor, Full
  <2>3. QED
    BY <1>4, <2>2 DEF ReserveFails, Errors, CauseOf
<1>5. CASE AddIsRefused(w)
  <2>1. scanCancelled /\ (ctxCancelled \/ failOnce # "open")
    BY <1>5, WorkerMoves DEF AddIsRefused, AddRefused, FailInv, PhaseInv
  <2>2. QED
    BY <1>5, <2>1 DEF AddIsRefused, Errors, CauseOf
<1>6. QED
  BY <1>1, <1>2, <1>3, <1>4, <1>5 DEF Returning

LEMMA ClosingStep ==
  ASSUME TypeOK, PhaseInv, HoldInv, FailInv, [Next]_vars
  PROVE  closed' => scanCancelled'
<1>1. closed' => closed \/ scanCancelled
  <2>1. CASE UNCHANGED vars \/ Outside
    BY <2>1, OutsideFrame DEF vars, queueVars, WatcherCloses, WatcherStep, PhaseInv
  <2>2. CASE Main
    BY <2>2, MainFrame DEF StartWorkers, NewQueue, RootDirectory, queueVars
  <2>3. ASSUME NEW w \in Workers, Worker(w)
        PROVE  closed' => closed \/ scanCancelled
    BY <2>3, WorkerFrame DEF WorkerWaits, Wait, WorkerTakes, Take, AddsDirectory, Add,
       FinishesDirectory, Done, ClosesQueue, FailInv, ErrorAt, queueVars
  <2>4. QED
    BY <2>1, <2>2, <2>3, Actors
<1>2. QED
  BY <1>1, NothingTakenBack DEF FailInv, Kept

LEMMA CancellingStep ==
  ASSUME TypeOK, PhaseInv, HoldInv, FailInv, [Next]_vars
  PROVE  scanCancelled' => ctxCancelled' \/ failOnce' # "open" \/ main' = "returned"
<1>a. Kept
  BY NothingTakenBack
<1>b. main = "returned" => main' = "returned"
  <2>1. CASE UNCHANGED vars \/ Outside
    BY <2>1, OutsideFrame DEF vars, mainVars
  <2>2. CASE Main
    BY <2>2 DEF Main, RootsCancelled, RootUnsafe, RootSkipped, RootDirectory, RootFile,
       RootBeyondLimit, RootAuthorized, AtRoot, RecordRootFile, RootFileFails, NothingToRead, StartWorkers,
       WorkersGone, JudgeOutcome
  <2>3. CASE \E w \in Workers : Worker(w)
    BY <2>3, WorkerFrame DEF mainVars
  <2>4. QED
    BY <2>1, <2>2, <2>3, Actors
<1>1. scanCancelled' => scanCancelled \/ ctxCancelled' \/ failOnce # "open" \/ main' = "returned"
  <2>1. CASE UNCHANGED vars \/ Outside
    BY <2>1, OutsideFrame DEF vars, UserCancels
  <2>2. CASE Main
    BY <2>2 DEF Main, RootsCancelled, RootUnsafe, RootSkipped, RootDirectory, RootFile,
       RootBeyondLimit, RecordRootFile, RootFileFails, NothingToRead, StartWorkers, WorkersGone, JudgeOutcome,
       Return
  <2>3. ASSUME NEW w \in Workers, Worker(w)
        PROVE  scanCancelled' => scanCancelled \/ failOnce # "open"
    BY <2>3, WorkerFrame DEF CancelsScan, FailInv, ErrorAt
  <2>4. QED
    BY <2>1, <2>2, <2>3, Actors
<1>2. QED
  BY <1>1, <1>a, <1>b DEF FailInv, Kept

\* The first error a worker brings is kept, with its cause.
FirstErrorOK ==
  /\ failOnce = "open" <=> scanErr = "none"
  /\ failOnce = "done" => scanCancelled
  /\ CauseOf(scanErr) /\ (scanErr = "canceled" => ctxCancelled)

LEMMA FirstErrorStep ==
  ASSUME TypeOK, PhaseInv, HoldInv, FailInv, [Next]_vars
  PROVE  FirstErrorOK'
<1>a. Kept /\ TypeOK'
  BY NothingTakenBack, TypeStep
<1>1. CASE UNCHANGED failVars
  BY <1>1, <1>a, CausesStay DEF FailInv, failVars, CauseOf, Kept, FirstErrorOK
<1>2. ASSUME NEW w \in Workers, FailsFirst(w)
      PROVE  FirstErrorOK'
  <2>1. ErrorAt(w) /\ CauseOf(err[w])
    BY DEF FailInv, ErrorAt
  <2>2. CauseOf(scanErr)'
    BY <1>2, <1>a, <2>1, CausesStay DEF FailsFirst, CauseOf
  <2>3. QED
    BY <1>2, <1>a, <2>1, <2>2 DEF FailsFirst, ErrorAt, CauseOf, Kept, FirstErrorOK
<1>3. ASSUME NEW w \in Workers, ClosesQueue(w)
      PROVE  FirstErrorOK'
  <2>1. ErrorAt(w) /\ scanErr' = scanErr
    BY <1>3 DEF FailInv, ClosesQueue
  <2>2. CauseOf(scanErr)'
    BY <1>3, <1>a, <2>1, CausesStay DEF FailInv, CauseOf
  <2>3. QED
    BY <1>3, <1>a, <2>1, <2>2 DEF ClosesQueue, ErrorAt, FailInv, Kept, FirstErrorOK
<1>4. UNCHANGED failVars \/ \E w \in Workers : FailsFirst(w) \/ ClosesQueue(w)
  BY Actors, OutsideFrame, MainFrame, WorkerFrame DEF vars
<1>5. QED
  BY <1>1, <1>2, <1>3, <1>4

LEMMA ErrorsStep ==
  ASSUME TypeOK, PhaseInv, HoldInv, FailInv, [Next]_vars, NEW v \in Workers
  PROVE  ErrorAt(v)'
<1>0. CoreTypes /\ ReportTypes /\ WorkerTypes
  BY TypeParts
<1>a. Kept /\ TypeOK'
  BY NothingTakenBack, TypeStep
<1>b. ErrorAt(v) /\ CauseOf(err[v])
  BY DEF FailInv, ErrorAt
<1>1. CASE UNCHANGED <<failVars, pc, err>>
  BY <1>1, <1>a, ErrorStays DEF failVars
<1>2. CASE StartWorkers
  <2>1. pc[v] = "idle" /\ pc'[v] = "next" /\ UNCHANGED <<err, failVars>>
    BY <1>2 DEF StartWorkers, PhaseInv
  <2>2. err[v] = "none"
    BY <1>2, <1>b, <2>1 DEF ErrorAt, StartWorkers, PhaseInv, FailInv
  <2>3. QED
    BY <2>1, <2>2 DEF ErrorAt, CauseOf
<1>3. ASSUME NEW w \in Workers, Worker(w)
      PROVE  ErrorAt(v)'
  <2> USE DEF Goto, ReadReturns, NextEntry, WorkerTypes, Holding
  <2>1. CASE w # v /\ (failOnce' = failOnce \/ pc[v] \notin {"cancelling", "closing"})
    BY <1>3, <1>a, <2>1, WorkerMoves, ErrorStays
  <2>2. CASE Returning(w)
    <3>1. PICK e \in Errors : ReadReturns(w, e) /\ CauseOf(e)
      BY <1>3, <2>2, ReturningHasCause
    <3>2. CASE v = w
      <4>1. pc'[v] = "done" /\ err'[v] = e
        BY <3>1, <3>2, <1>0
      <4>2. QED
        BY <4>1, <3>1, <1>a, CausesStay DEF ErrorAt, CauseOf
    <3>3. CASE v # w
      <4>1. failOnce' = failOnce
        BY <2>2 DEF Returning, ReadCancelled, OpenFails, OpenFindsRootChanged, ReadFails, ReadEnds,
           ReserveFails, AddIsRefused, failVars
      <4>2. QED
        BY <4>1, <3>3, <2>1
    <3>4. QED
      BY <3>2, <3>3
  <2>3. CASE v = w /\ UNCHANGED <<err, failVars>>
             /\ pc[w] \in {"next", "open", "entries", "record", "cas", "store", "add"}
             /\ pc'[w] \in {"next", "open", "entries", "record", "cas", "store", "add", "exited"}
    <3>1. err[v] = "none"
      BY <1>b, <2>3 DEF ErrorAt
    <3>2. QED
      BY <3>1, <2>3 DEF ErrorAt, CauseOf
  <2>4. CASE \/ RecordCancelled(w) \/ RecordFails(w) \/ StoresRecord(w) \/ AddsDirectory(w)
             \/ Opens(w) \/ TakesEntry(w) \/ RecordOpens(w) \/ Reserves(w) \/ ReserveRetries(w)
             \/ WorkerTakes(w) \/ WorkerWaits(w) \/ WorkerLeaves(w)
    <3>1. UNCHANGED <<err, failVars>>
      BY <2>4 DEF RecordCancelled, RecordFails, StoresRecord, AddsDirectory, Opens, TakesEntry,
         RecordOpens, Reserves, ReserveRetries, WorkerTakes, WorkerWaits, WorkerLeaves, workerVars
    <3>2. /\ pc[w] \in {"next", "open", "entries", "record", "cas", "store", "add"}
          /\ pc'[w] \in {"next", "open", "entries", "record", "cas", "store", "add", "exited"}
      BY <2>4, <1>0 DEF RecordCancelled, RecordFails, StoresRecord, AddsDirectory, Opens,
         TakesEntry, RecordOpens, Reserves, ReserveRetries, WorkerTakes, WorkerWaits, WorkerLeaves,
         workerVars
    <3>3. QED
      BY <3>1, <3>2, <2>1, <2>3 DEF failVars
  <2>5. CASE FinishesDirectory(w)
    <3>1. UNCHANGED <<err, failVars>> /\ pc[w] = "done"
          /\ pc'[w] = IF err[w] = "none" THEN "next" ELSE "fail"
      BY <2>5, <1>0 DEF FinishesDirectory
    <3>2. QED
      BY <3>1, <2>1, <1>a, <1>b, CausesStay DEF ErrorAt, CauseOf, failVars
  <2>6. CASE FailsFirst(w)
    <3>1. v # w => failOnce = "open" /\ pc[v] \notin {"cancelling", "closing"}
      BY <2>6, <1>b DEF FailsFirst, ErrorAt
    <3>2. CASE v = w
      <4>1. pc'[v] = "cancelling" /\ err'[v] = err[v] /\ failOnce' = "running" /\ scanErr' # "none"
        BY <2>6, <3>2, <1>0, <1>b DEF FailsFirst, ErrorAt
      <4>2. QED
        BY <4>1, <1>a, <1>b, CausesStay DEF ErrorAt, CauseOf
    <3>3. QED
      BY <3>1, <3>2, <2>1
  <2>7. CASE CancelsScan(w)
    <3>1. UNCHANGED <<err, failVars>> /\ pc[w] = "cancelling" /\ pc'[w] = "closing" /\ scanCancelled'
      BY <2>7, <1>0 DEF CancelsScan
    <3>2. QED
      BY <3>1, <2>1, <1>a, <1>b, CausesStay DEF ErrorAt, CauseOf, failVars
  <2>8. CASE ClosesQueue(w)
    <3>1. /\ err' = err /\ scanErr' = scanErr /\ failOnce' = "done"
          /\ pc[w] = "closing" /\ pc'[w] = "exited"
      BY <2>8, <1>0 DEF ClosesQueue
    <3>2. CASE v = w
      <4>1. scanErr # "none"
        BY <3>1, <3>2, <1>b DEF ErrorAt, FailInv
      <4>2. QED
        BY <3>1, <3>2, <4>1, <1>a, <1>b, CausesStay DEF ErrorAt, CauseOf
    <3>3. v # w => pc[v] \notin {"cancelling", "closing"}
      BY <3>1 DEF FailInv
    <3>4. QED
      BY <3>1, <3>2, <3>3, <2>1
  <2>9. CASE FailsLater(w)
    <3>1. UNCHANGED <<err, failVars>> /\ pc[w] = "fail" /\ pc'[w] = "exited" /\ failOnce = "done"
      BY <2>9, <1>0 DEF FailsLater
    <3>2. scanErr # "none"
      BY <3>1 DEF FailInv
    <3>3. QED
      BY <3>1, <3>2, <2>1, <1>a, <1>b, CausesStay DEF ErrorAt, CauseOf, failVars
  <2>10. QED
    BY <1>3, <2>2, <2>4, <2>5, <2>6, <2>7, <2>8, <2>9 DEF Worker, Reads, Ends, Returning
<1>4. QED
  BY <1>1, <1>2, <1>3, Actors, OutsideFrame, MainFrame DEF vars, workerVars

\* Only one worker at a time cancels the walk and closes the queue.
OneFails ==
  \A v, w \in Workers :
    pc[v] \in {"cancelling", "closing"} /\ pc[w] \in {"cancelling", "closing"} => v = w

LEMMA OneFailsStep ==
  ASSUME TypeOK, PhaseInv, HoldInv, FailInv, [Next]_vars
  PROVE  OneFails'
<1>0. WorkerTypes
  BY TypeParts
<1>1. CASE UNCHANGED pc
  BY <1>1 DEF OneFails, FailInv
<1>2. CASE StartWorkers
  BY <1>2 DEF StartWorkers, OneFails
<1>3. ASSUME NEW w \in Workers, Worker(w), ~FailsFirst(w)
      PROVE  pc'[w] \in {"cancelling", "closing"} => pc[w] \in {"cancelling", "closing"}
  <2> USE DEF Goto, ReadReturns, NextEntry, WorkerTypes
  <2>1. CASE Returning(w) \/ Opens(w) \/ TakesEntry(w) \/ RecordOpens(w)
    BY <2>1, <1>0 DEF Returning, ReadCancelled, OpenFails, OpenFindsRootChanged, ReadFails,
       ReadEnds, ReserveFails, AddIsRefused, Opens, TakesEntry, RecordOpens
  <2>2. CASE \/ RecordCancelled(w) \/ RecordFails(w) \/ StoresRecord(w) \/ AddsDirectory(w)
             \/ Reserves(w) \/ ReserveRetries(w) \/ WorkerTakes(w)
    BY <2>2, <1>0 DEF RecordCancelled, RecordFails, StoresRecord, AddsDirectory, Reserves,
       ReserveRetries, WorkerTakes
  <2>3. CASE \/ WorkerWaits(w) \/ WorkerLeaves(w) \/ FinishesDirectory(w) \/ CancelsScan(w)
             \/ ClosesQueue(w) \/ FailsLater(w)
    BY <2>3, <1>0 DEF WorkerWaits, WorkerLeaves, FinishesDirectory, CancelsScan, ClosesQueue,
       FailsLater, workerVars
  <2>4. QED
    BY <1>3, <2>1, <2>2, <2>3 DEF Worker, Reads, Ends, Returning
<1>4. ASSUME NEW w \in Workers, Worker(w)
      PROVE  OneFails'
  <2>1. CASE FailsFirst(w)
    BY <1>4, <2>1, WorkerMoves DEF FailsFirst, FailInv, ErrorAt, OneFails
  <2>2. CASE ~FailsFirst(w)
    BY <1>3, <1>4, <2>2, WorkerMoves DEF FailInv, OneFails
  <2>3. QED
    BY <2>1, <2>2
<1>5. QED
  BY <1>1, <1>2, <1>4, Actors, OutsideFrame, MainFrame DEF vars, workerVars

LEMMA FailStep ==
  ASSUME TypeOK, PhaseInv, HoldInv, FailInv, [Next]_vars
  PROVE  FailInv'
BY ClosingStep, CancellingStep, FirstErrorStep, ErrorsStep, OneFailsStep
DEF FailInv, FirstErrorOK, OneFails

LEMMA VerdictStep ==
  ASSUME TypeOK, PhaseInv, HoldInv, FailInv, FailureHasItsCause, [Next]_vars
  PROVE  FailureHasItsCause'
<1>0. CoreTypes /\ ReportTypes
  BY TypeParts
<1>a. Kept /\ TypeOK'
  BY NothingTakenBack, TypeStep
<1>1. ASSUME NEW e, CauseOf(e), e = "canceled" => ctxCancelled', result' = e
      PROVE  FailureHasItsCause'
  BY <1>1, <1>a, CausesStay DEF FailureHasItsCause, Full
<1>2. CASE UNCHANGED result
  <2>1. /\ result = "limit" => CauseOf("limit")
        /\ result = "rootChanged" => CauseOf("rootChanged")
        /\ result = "canceled" => ctxCancelled'
        /\ result # "queueClosed"
    BY <1>a DEF FailureHasItsCause, CauseOf, Full, Kept
  <2>2. QED
    BY <1>2, <1>a, <2>1, CausesStay DEF FailureHasItsCause, Full
<1>3. CASE Main
  <2>1. CASE RootsCancelled
    BY <1>a, <2>1 DEF RootsCancelled, Return, PhaseInv, FailureHasItsCause, Kept
  <2>2. CASE NothingToRead \/ \E r \in Items : RootUnsafe(r)
    BY <2>2 DEF NothingToRead, RootUnsafe, Return, FailureHasItsCause
  <2>3. ASSUME NEW r \in Items, RootBeyondLimit(r)
        PROVE  FailureHasItsCause'
    <3>1. result' = "limit" /\ (fileCount >= MaxFiles \/ dirCount >= MaxDirectories)
      BY <2>3 DEF RootBeyondLimit, Return
    <3>2. Full
      BY <3>1, <1>0, ScanFacts DEF ReportTypes, Full
    <3>3. QED
      BY <3>1, <3>2, <1>1 DEF CauseOf
  <2>4. CASE JudgeOutcome
    <3>1. result' = Verdict
      BY <2>4 DEF JudgeOutcome, Return
    <3>2. CASE ctxCancelled
      BY <3>1, <3>2, <1>a DEF Verdict, FailureHasItsCause, Kept
    <3>3. CASE ~ctxCancelled /\ scanErr # "none"
      <4>1. result' = scanErr /\ CauseOf(scanErr) /\ scanErr # "canceled"
        BY <3>1, <3>3 DEF Verdict, FailInv
      <4>2. QED
        BY <4>1, <1>1
    <3>4. CASE ~ctxCancelled /\ scanErr = "none"
      <4>1. result' = "ok" \/ (result' = "rootChanged" /\ rootsLost # {})
        BY <3>1, <3>4 DEF Verdict
      <4>2. QED
        BY <4>1, <1>a DEF FailureHasItsCause, Kept
    <3>5. QED
      BY <3>2, <3>3, <3>4
  <2>5. \/ UNCHANGED result \/ RootsCancelled \/ NothingToRead \/ JudgeOutcome
        \/ \E r \in Items : RootUnsafe(r) \/ RootBeyondLimit(r)
    BY <1>3 DEF Main, RootSkipped, RootDirectory, RootFile, RecordRootFile, RootFileFails, StartWorkers,
       WorkersGone, NextRoot
  <2>6. QED
    BY <1>2, <2>1, <2>2, <2>3, <2>4, <2>5
<1>4. QED
  BY <1>2, <1>3, Actors, OutsideFrame, WorkerFrame DEF vars, mainVars

LEMMA BaseInit == Init => BaseInv
<1> SUFFICES ASSUME Init PROVE BaseInv
  OBVIOUS
<1>1. TypeOK
  <2> USE DEF Init
  <2>1. scan \in [roots : Seq(Items), maxFiles : Nat, maxDirectories : Nat]
    BY ScanAssumption
  <2>2. CoreTypes
    <3>1. Len(Roots) \in Nat /\ class \in [Items -> Classes] /\ scan \in Scans
      BY <2>1, ScanAssumption DEF Roots
    <3>2. /\ rootsLost \in SUBSET Range(Roots) /\ seenRoots \in SUBSET Range(Roots)
          /\ rootIx \in 1..(Len(Roots) + 1)
      BY <3>1
    <3>3. QED
      BY <3>1, <3>2 DEF CoreTypes, Results, Errors
  <2>3. ReportTypes
    BY <2>1 DEF ReportTypes, MaxFiles, MaxDirectories
  <2>4. WorkerTypes
    BY DEF WorkerTypes, Counters, Errors
  <2>5. QueueTypes
    <3>1. dirs = <<>> /\ pending = 0 /\ closed = FALSE /\ waiting = {}
      OBVIOUS
    <3>2. dirs \in Seq(Works)
      BY <3>1
    <3>3. QED
      BY ONLY <3>1, <3>2 DEF QueueTypes
  <2>6. QED
    BY <2>2, <2>3, <2>4, <2>5, TypeParts
<1>2. PhaseInv
  BY <1>1 DEF Init, PhaseInv
<1>3. HoldInv
  BY <1>1, ScanFacts DEF Init, HoldInv, HoldsAt, Holding, Recording, Listing
<1>4. FailInv
  BY DEF Init, FailInv, ErrorAt, CauseOf
<1>5. FailureHasItsCause
  BY DEF Init, FailureHasItsCause
<1>6. QED
  BY <1>1, <1>2, <1>3, <1>4, <1>5 DEF BaseInv

LEMMA BaseStep == BaseInv /\ [Next]_vars => BaseInv'
BY TypeStep, PhaseStep, HoldStep, FailStep, VerdictStep DEF BaseInv

\* The phases of a scan, what a worker holds at each place, and the cause of every
\* error a worker has in hand: what the other invariants rest on (engine.go,
\* collectSurfaceRecords).
THEOREM WalkBaseInvariant == Spec => []BaseInv
BY BaseInit, BaseStep, PTL DEF Spec

-----------------------------------------------------------------------------
(* The queue.                                                              *)

\* Sets of workers are finite, and a worker that moves joins or leaves them.
LEMMA WorkersFinite ==
  \A S \in SUBSET Workers : IsFiniteSet(S) /\ Cardinality(S) \in Nat
BY ScanAssumption, FS_Subset, FS_CardinalityType

LEMMA CountOne ==
  ASSUME NEW S \in SUBSET Workers, NEW w \in Workers
  PROVE  /\ Cardinality(S \cup {w}) = IF w \in S THEN Cardinality(S) ELSE Cardinality(S) + 1
         /\ Cardinality(S \ {w}) = IF w \in S THEN Cardinality(S) - 1 ELSE Cardinality(S)
         /\ w \in S => Cardinality(S) >= 1
<1>1. IsFiniteSet(S) /\ IsFiniteSet(S \ {w})
  BY WorkersFinite
<1>2. /\ Cardinality(S \cup {w}) = IF w \in S THEN Cardinality(S) ELSE Cardinality(S) + 1
      /\ Cardinality(S \ {w}) = IF w \in S THEN Cardinality(S) - 1 ELSE Cardinality(S)
  BY <1>1, FS_AddElement, FS_RemoveElement
<1>3. w \in S => Cardinality(S) >= 1
  BY <1>2, WorkersFinite
<1>4. QED
  BY <1>2, <1>3

LEMMA MovesAt ==
  ASSUME NEW w \in Workers, NEW C, \A v \in Workers \ {w} : pc'[v] = pc[v]
  PROVE  {v \in Workers : pc'[v] \in C} =
           IF pc'[w] \in C THEN WorkersAt(C) \cup {w} ELSE WorkersAt(C) \ {w}
BY DEF WorkersAt

\* Most steps of a worker leave the queue and its own share in it alone.
LEMMA QueueMoves ==
  ASSUME BaseInv, NEW w \in Workers, Worker(w)
  PROVE  \/ WorkerWaits(w) \/ WorkerLeaves(w) \/ WorkerTakes(w) \/ AddsDirectory(w)
         \/ FinishesDirectory(w) \/ ClosesQueue(w)
         \/ /\ UNCHANGED queueVars
            /\ pc[w] \in Holding <=> pc'[w] \in Holding
            /\ pc[w] # "next" /\ pc'[w] # "next"
            /\ pc'[w] = "exited" => scanCancelled
<1> USE DEF Goto, ReadReturns, NextEntry, WorkerTypes, Holding
<1>0. WorkerTypes
  BY TypeParts DEF BaseInv
<1>1. CASE Returning(w)
  BY <1>1, <1>0 DEF Returning, ReadCancelled, OpenFails, OpenFindsRootChanged, ReadFails,
     ReadEnds, ReserveFails, AddIsRefused, AddRefused
<1>2. CASE Opens(w) \/ TakesEntry(w) \/ RecordOpens(w)
  BY <1>2, <1>0 DEF Opens, TakesEntry, RecordOpens
<1>3. CASE RecordCancelled(w) \/ RecordFails(w) \/ StoresRecord(w)
  BY <1>3, <1>0 DEF RecordCancelled, RecordFails, StoresRecord
<1>4. CASE Reserves(w) \/ ReserveRetries(w)
  BY <1>4, <1>0 DEF Reserves, ReserveRetries
<1>5. CASE FailsFirst(w) \/ CancelsScan(w)
  BY <1>5, <1>0 DEF FailsFirst, CancelsScan
<1>6. CASE FailsLater(w)
  BY <1>6, <1>0 DEF FailsLater, BaseInv, FailInv
<1>7. QED
  BY <1>1, <1>2, <1>3, <1>4, <1>5, <1>6 DEF Worker, Reads, Ends, Returning

\* The directories that are queued and those being read.
LEMMA QueueStepWorker ==
  ASSUME BaseInv, QueueInv, [Next]_vars, NEW w \in Workers, Worker(w)
  PROVE  QueueInv'
<1> DEFINE H  == WorkersAt(Holding)
           H1 == {v \in Workers : pc'[v] \in Holding}
           N  == WorkersAt({"next"})
           N1 == {v \in Workers : pc'[v] \in {"next"}}
<1>0. WorkerTypes /\ QueueTypes
  BY TypeParts DEF BaseInv
<1>1. /\ main = "waiting" /\ watcher # "idle" /\ main' = main /\ watcher' = watcher
      /\ \A v \in Workers \ {w} : pc'[v] = pc[v]
      /\ scanCancelled => scanCancelled'
  BY WorkerMoves, WorkerFrame DEF BaseInv, mainVars, CancelsScan
<1>2. /\ H1 = IF pc'[w] \in Holding THEN H \cup {w} ELSE H \ {w}
      /\ N1 = IF pc'[w] \in {"next"} THEN N \cup {w} ELSE N \ {w}
  BY <1>1, MovesAt
<1>3. H1 = WorkersAt(Holding)' /\ N1 = WorkersAt({"next"})'
  BY DEF WorkersAt, Holding
<1>4. pending = Len(dirs) + Cardinality(H) /\ Len(dirs) \in Nat /\ Cardinality(H) \in Nat
  BY <1>0, <1>1, WorkersFinite DEF QueueInv, PendingCountsWork, QueueTypes, WorkersAt
<1>5. /\ H \in SUBSET Workers /\ N \in SUBSET Workers /\ waiting \in SUBSET Workers
      /\ waiting \subseteq N /\ (closed => waiting = {})
      /\ w \in H <=> pc[w] \in Holding
      /\ w \in N <=> pc[w] = "next"
      /\ waiting # {} => Len(dirs) <= Cardinality(N \ waiting)
  BY <1>0 DEF QueueInv, QueueTypes, WorkersAt, QueuedWorkIsServed
<1>6. WorkersAt({"exited"}) # {} /\ ~scanCancelled => pending = 0
  BY DEF QueueInv
<1> SUFFICES /\ pending' = Len(dirs') + Cardinality(H1)
             /\ waiting' # {} => Len(dirs') <= Cardinality(N1 \ waiting')
             /\ waiting' \subseteq N1
             /\ closed' => waiting' = {}
             /\ ~scanCancelled' /\ WorkersAt({"exited"})' # {} => pending' = 0
  BY <1>3 DEF QueueInv, PendingCountsWork, QueuedWorkIsServed
<1> HIDE DEF H, H1, N, N1
<1>7. CASE /\ UNCHANGED queueVars
           /\ pc[w] \in Holding <=> pc'[w] \in Holding
           /\ pc[w] # "next" /\ pc'[w] # "next"
           /\ pc'[w] = "exited" => scanCancelled
  <2>1. H1 = H /\ N1 = N
    BY <1>2, <1>5, <1>7
  <2>2. ~scanCancelled' /\ WorkersAt({"exited"})' # {} => pending = 0
    BY <1>1, <1>6, <1>7 DEF WorkersAt
  <2>3. QED
    BY <1>4, <1>5, <1>7, <2>1, <2>2 DEF queueVars
<1>8. CASE WorkerWaits(w)
  <2>1. /\ pc' = pc /\ pc[w] = "next" /\ dirs = <<>> /\ waiting' = waiting \cup {w}
        /\ UNCHANGED <<dirs, pending, closed>> /\ ~closed
    BY <1>8 DEF WorkerWaits, Wait, workerVars
  <2>2. H1 = H /\ N1 = N /\ w \in N
    BY <2>1, <1>2, <1>5 DEF Holding
  <2>3. Cardinality(N1 \ waiting') \in Nat /\ Len(dirs') = 0
    BY <2>1, <2>2, <1>5, WorkersFinite
  <2>4. ~scanCancelled' /\ WorkersAt({"exited"})' # {} => pending' = 0
    BY <1>1, <1>6, <2>1 DEF WorkersAt
  <2>5. QED
    BY <2>1, <2>2, <2>3, <2>4, <1>4, <1>5
<1>9. CASE WorkerLeaves(w)
  <2>1. /\ pc[w] = "next" /\ pc'[w] = "exited" /\ w \notin waiting
        /\ UNCHANGED queueVars /\ (closed \/ pending = 0)
    BY <1>9, <1>0 DEF WorkerLeaves, Exhausted, Goto, WorkerTypes
  <2>2. H1 = H /\ N1 = N \ {w}
    BY <2>1, <1>2, <1>5 DEF Holding
  <2>3. waiting # {} => Len(dirs) = 0 /\ Cardinality(N1 \ waiting) \in Nat
    <3>1. waiting # {} => pending = 0
      BY <2>1, <1>5
    <3>2. N1 \ waiting \in SUBSET Workers
      BY <2>2, <1>5
    <3>3. QED
      BY <3>1, <3>2, <1>4, WorkersFinite
  <2>4. ~scanCancelled => pending = 0
    BY <2>1 DEF BaseInv, FailInv
  <2>5. QED
    BY <2>1, <2>2, <2>3, <2>4, <1>1, <1>4, <1>5 DEF queueVars
<1>10. CASE WorkerTakes(w)
  <2>1. /\ pc[w] = "next" /\ pc'[w] = "open" /\ w \notin waiting
        /\ dirs # <<>> /\ dirs' = Front(dirs) /\ UNCHANGED <<pending, closed, waiting>>
        /\ pending > 0
    BY <1>10, <1>0 DEF WorkerTakes, Take, Goto, WorkerTypes
  <2>2. H1 = H \cup {w} /\ w \notin H /\ N1 = N \ {w} /\ w \in N
    BY <2>1, <1>2, <1>5 DEF Holding
  <2>3. Len(dirs') = Len(dirs) - 1 /\ Len(dirs) >= 1
    BY <2>1, <1>0, FrontFacts DEF QueueTypes
  <2>4. Cardinality(H1) = Cardinality(H) + 1
    BY <2>2, <1>5, CountOne
  <2>5. Cardinality(N1 \ waiting') = Cardinality(N \ waiting) - 1
    <3>1. N1 \ waiting' = (N \ waiting) \ {w} /\ w \in N \ waiting /\ N \ waiting \in SUBSET Workers
      BY <2>1, <2>2, <1>5
    <3>2. QED
      BY <3>1, CountOne
  <2>6. Cardinality(N \ waiting) \in Nat
    BY <1>5, WorkersFinite
  <2>7. ~(~scanCancelled' /\ WorkersAt({"exited"})' # {})
    BY <2>1, <1>1, <1>4, <1>6 DEF WorkersAt
  <2>8. QED
    BY <2>1, <2>2, <2>3, <2>4, <2>5, <2>6, <2>7, <1>4, <1>5
<1>11. CASE AddsDirectory(w)
  <2>1. /\ pc[w] = "add" /\ pc'[w] = "entries" /\ pending' = pending + 1 /\ closed' = closed
        /\ dirs' = Append(dirs, [dir |-> item[w], scope |-> work[w].scope]) /\ Signal
    BY <1>11, <1>0 DEF AddsDirectory, Add, NextEntry, Goto, WorkerTypes
  <2>2. H1 = H /\ N1 = N /\ w \in H
    BY <2>1, <1>2, <1>5 DEF Holding
  <2>3. Len(dirs') = Len(dirs) + 1
    BY <2>1, <1>0 DEF QueueTypes
  <2>4. \/ waiting' = {}
        \/ \E v \in waiting : waiting' = waiting \ {v}
    BY <2>1 DEF Signal
  <2>5. waiting' # {} => Len(dirs') <= Cardinality(N1 \ waiting')
    <3>1. ASSUME NEW v \in waiting, waiting' = waiting \ {v}
          PROVE  Len(dirs') <= Cardinality(N1 \ waiting')
      <4>1. /\ N1 \ waiting' = (N \ waiting) \cup {v} /\ v \notin N \ waiting
            /\ N \ waiting \in SUBSET Workers /\ v \in Workers
        BY <3>1, <2>2, <1>5
      <4>2. Cardinality(N1 \ waiting') = Cardinality(N \ waiting) + 1
        BY <4>1, CountOne
      <4>3. Cardinality(N \ waiting) \in Nat
        BY <4>1, WorkersFinite
      <4>4. QED
        BY <4>2, <4>3, <2>3, <1>4, <1>5
    <3>2. QED
      BY <3>1, <2>4
  <2>6. Cardinality(H) >= 1
    BY <2>2, <1>5, CountOne
  <2>7. ~(~scanCancelled' /\ WorkersAt({"exited"})' # {})
    BY <2>1, <2>6, <1>1, <1>4, <1>6 DEF WorkersAt
  <2>8. QED
    BY <2>1, <2>2, <2>3, <2>4, <2>5, <2>7, <1>4, <1>5
<1>12. CASE FinishesDirectory(w)
  <2>1. /\ pc[w] = "done" /\ pc'[w] \in {"next", "fail"} /\ Done
    BY <1>12, <1>0 DEF FinishesDirectory, Goto, WorkerTypes
  <2>2. H1 = H \ {w} /\ w \in H /\ w \notin N
    BY <2>1, <1>2, <1>5 DEF Holding
  <2>3. Cardinality(H1) = Cardinality(H) - 1 /\ Cardinality(H) >= 1
    BY <2>2, <1>5, CountOne
  <2>4. pending' = pending - 1 /\ UNCHANGED <<dirs, closed>> /\ waiting' \in {waiting, {}}
    BY <2>1, <2>3, <1>4 DEF Done, Broadcast
  <2>5. N \subseteq N1 /\ N1 \in SUBSET Workers
    BY <2>2, <1>2, <1>5
  <2>6. waiting' # {} => Len(dirs') <= Cardinality(N1 \ waiting')
    <3>1. N \ waiting \in SUBSET (N1 \ waiting) /\ IsFiniteSet(N1 \ waiting)
      BY <2>5, WorkersFinite
    <3>2. Cardinality(N \ waiting) <= Cardinality(N1 \ waiting)
      BY <3>1, FS_Subset
    <3>3. Cardinality(N \ waiting) \in Nat /\ Cardinality(N1 \ waiting) \in Nat
      BY <2>5, <1>5, WorkersFinite
    <3>4. waiting' # {} => waiting' = waiting /\ waiting # {}
      BY <2>4
    <3>5. waiting # {} => Len(dirs) <= Cardinality(N1 \ waiting)
      BY <3>2, <3>3, <1>4, <1>5
    <3>6. QED
      BY <3>4, <3>5, <2>4
  <2>7. ~(~scanCancelled' /\ WorkersAt({"exited"})' # {})
    BY <2>1, <2>3, <1>1, <1>4, <1>6 DEF WorkersAt
  <2>8. QED
    BY <2>3, <2>4, <2>5, <2>6, <2>7, <1>4, <1>5
<1>13. CASE ClosesQueue(w)
  <2>1. /\ pc[w] = "closing" /\ pc'[w] = "exited" /\ waiting' = {} /\ UNCHANGED <<dirs, pending>>
    BY <1>13, <1>0 DEF ClosesQueue, Close, Broadcast, Goto, WorkerTypes
  <2>2. H1 = H
    BY <2>1, <1>2, <1>5 DEF Holding
  <2>3. scanCancelled'
    BY <2>1, <1>1 DEF BaseInv, FailInv, ErrorAt
  <2>4. QED
    BY <2>1, <2>2, <2>3, <1>4
<1>14. QED
  BY <1>7, <1>8, <1>9, <1>10, <1>11, <1>12, <1>13, QueueMoves

LEMMA QueueStepElse ==
  ASSUME BaseInv, QueueInv, [Next]_vars, UNCHANGED vars \/ Outside \/ Main
  PROVE  QueueInv'
<1> USE DEF QueueInv, PendingCountsWork, QueuedWorkIsServed
<1>a. UNCHANGED pc => /\ WorkersAt({"next"})' = WorkersAt({"next"})
                      /\ WorkersAt({"exited"})' = WorkersAt({"exited"})
                      /\ WorkersAt(Holding)' = WorkersAt(Holding)
  BY DEF WorkersAt, Holding
<1>0. Kept /\ PhaseInv /\ PhaseInv'
  BY NothingTakenBack, BaseStep DEF BaseInv
<1>1. CASE UNCHANGED vars
  BY <1>a, <1>1 DEF vars, envVars, mainVars, workerVars, queueVars
<1>2. CASE Outside
  <2>1. UNCHANGED <<main, pc>>
    BY <1>2, OutsideFrame DEF mainVars, workerVars
  <2>2. watcher = "idle" <=> watcher' = "idle"
    BY <1>2, OutsideFrame DEF Watcher, WatcherWakes, WatcherCloses, WatcherReleased, WatcherStep
  <2>3. UNCHANGED <<dirs, pending>> /\ (UNCHANGED <<waiting, closed>> \/ waiting' = {})
    BY <1>2, OutsideFrame DEF WatcherCloses, Close, Broadcast, queueVars
  <2>4. scanCancelled => scanCancelled'
    BY <1>0 DEF Kept
  <2>5. PendingCountsWork'
    BY <1>a, <2>1, <2>2, <2>3
  <2>6. QueuedWorkIsServed' /\ (waiting \subseteq WorkersAt({"next"}))' /\ (closed => waiting = {})'
    <3>1. CASE waiting' = {}
      BY <3>1
    <3>2. CASE UNCHANGED <<waiting, closed, dirs>>
      BY <1>a, <2>1, <3>2
    <3>3. QED
      BY <2>3, <3>1, <3>2
  <2>7. QED
    BY <1>a, <2>1, <2>3, <2>4, <2>5, <2>6
<1>3. CASE Main /\ watcher = "idle" /\ ~StartWorkers
  <2>1. UNCHANGED <<pc, watcher>> /\ (\A w \in Workers : pc[w] = "idle") /\ waiting = {}
    BY <1>0, <1>3, MainFrame DEF PhaseInv
  <2>2. waiting' = {}
    BY <1>3, <2>1, MainFrame DEF RootDirectory, queueVars
  <2>3. WorkersAt({"exited"}) = {}
    BY <2>1 DEF WorkersAt
  <2>4. QED
    BY <1>3, <1>a, <2>1, <2>2, <2>3
<1>4. CASE Main /\ watcher # "idle"
  <2>1. WorkersGone \/ JudgeOutcome
    <3>1. main \notin {"roots", "rootFile"}
      BY <1>0, <1>4 DEF PhaseInv
    <3>2. QED
      BY <1>4, <3>1 DEF Main, RootsCancelled, RootUnsafe, RootSkipped, RootDirectory, RootFile,
         RootBeyondLimit, RootAuthorized, AtRoot, RecordRootFile, RootFileFails, NothingToRead, StartWorkers
  <2>2. UNCHANGED <<pc, watcher, queueVars>> /\ main \in {"waiting", "waited"}
    BY <2>1 DEF WorkersGone, JudgeOutcome, workerVars
  <2>3. QED
    BY <1>a, <1>0, <2>2 DEF queueVars, Kept
<1>5. CASE StartWorkers
  <2>1. /\ \A w \in Workers : pc'[w] = "next"
        /\ pending' = Len(dirs') /\ waiting' = {} /\ closed' = FALSE
    BY <1>5 DEF StartWorkers, NewQueue
  <2>2. WorkersAt(Holding)' = {} /\ WorkersAt({"exited"})' = {}
    BY <2>1 DEF Holding, WorkersAt
  <2>3. Len(dirs') \in Nat
    BY QueueTypesStep DEF QueueTypes, BaseInv
  <2>4. pending' = Len(dirs') + Cardinality(WorkersAt(Holding)')
    BY <2>1, <2>2, <2>3, FS_EmptySet
  <2>5. QED
    BY <2>1, <2>2, <2>4
<1>6. QED
  BY <1>1, <1>2, <1>3, <1>4, <1>5

LEMMA QueueInit == Init => QueueInv
BY DEF Init, QueueInv, PendingCountsWork, QueuedWorkIsServed, WorkersAt

LEMMA QueueKeeps == BaseInv /\ QueueInv /\ [Next]_vars => QueueInv'
BY QueueStepWorker, QueueStepElse, Actors

\* The queue does what the workers rely on: pending is what the test for the end
\* takes it for, no wakeup is lost, and the queue is closed only after the
\* context is cancelled (directoryQueue, fail and the watcher of
\* collectSurfaceRecords).
THEOREM QueueAlwaysSound == Spec => []QueueIsSound
<1>1. Init => BaseInv /\ QueueInv
  BY BaseInit, QueueInit
<1>2. BaseInv /\ QueueInv /\ [Next]_vars => (BaseInv /\ QueueInv)'
  BY BaseStep, QueueKeeps
<1>3. BaseInv /\ QueueInv => QueueIsSound
  BY DEF BaseInv, QueueInv, QueueIsSound, ClosedOnlyWhenCancelled, FailInv, ErrorAt, CauseOf
<1>4. QED
  BY <1>1, <1>2, <1>3, PTL DEF Spec

-----------------------------------------------------------------------------
(* The budget.                                                             *)

LEMMA RecordAdded ==
  ASSUME listed \in [Files -> Nat], NEW f \in Files, IsFiniteSet(Records),
         listed' = [listed EXCEPT ![f] = @ + 1]
  PROVE  IsFiniteSet(Records') /\ Cardinality(Records') = Cardinality(Records) + 1
<1> DEFINE r == <<f, listed[f] + 1>>
<1>1. r \notin Records
  BY DEF Records
<1>2. \A g \in Files : 1..listed'[g] = IF g = f THEN (1..listed[g]) \cup {listed[g] + 1}
                                        ELSE 1..listed[g]
  <2>1. ASSUME NEW g \in Files, g # f PROVE listed'[g] = listed[g]
    BY <2>1
  <2>2. listed'[f] = listed[f] + 1 /\ listed[f] \in Nat
    OBVIOUS
  <2>3. 1..(listed[f] + 1) = (1..listed[f]) \cup {listed[f] + 1}
    BY <2>2
  <2>4. QED
    BY <2>1, <2>2, <2>3
<1>3. Records' = Records \cup {r}
  <2>1. ASSUME NEW x \in Records' PROVE x \in Records \cup {r}
    <3>1. PICK g \in Files : x \in {g} \X (1..listed'[g])
      BY DEF Records
    <3>2. QED
      BY <3>1, <1>2 DEF Records
  <2>2. ASSUME NEW x \in Records PROVE x \in Records'
    <3>1. PICK g \in Files : x \in {g} \X (1..listed[g])
      BY DEF Records
    <3>2. x \in {g} \X (1..listed'[g])
      BY <3>1, <1>2
    <3>3. QED
      BY <3>2 DEF Records
  <2>3. r \in Records'
    <3>1. r \in {f} \X (1..listed'[f])
      BY <1>2
    <3>2. QED
      BY <3>1 DEF Records
  <2>4. QED
    BY <2>1, <2>2, <2>3
<1>4. QED
  BY <1>1, <1>3, FS_AddElement

LEMMA StoreMoves ==
  ASSUME BaseInv, NEW w \in Workers, Worker(w)
  PROVE  Reserves(w) \/ StoresRecord(w) \/ (pc[w] # "store" /\ pc'[w] # "store")
<1> USE DEF Goto, ReadReturns, NextEntry, WorkerTypes
<1>0. WorkerTypes
  BY TypeParts DEF BaseInv
<1>1. CASE Returning(w)
  BY <1>1, <1>0 DEF Returning, ReadCancelled, OpenFails, OpenFindsRootChanged, ReadFails,
     ReadEnds, ReserveFails, AddIsRefused
<1>2. CASE Opens(w) \/ TakesEntry(w) \/ RecordOpens(w)
  BY <1>2, <1>0 DEF Opens, TakesEntry, RecordOpens
<1>3. CASE RecordCancelled(w) \/ RecordFails(w) \/ AddsDirectory(w) \/ ReserveRetries(w)
  BY <1>3, <1>0 DEF RecordCancelled, RecordFails, AddsDirectory, ReserveRetries
<1>4. CASE WorkerTakes(w) \/ WorkerLeaves(w) \/ WorkerWaits(w) \/ FinishesDirectory(w)
  BY <1>4, <1>0 DEF WorkerTakes, WorkerLeaves, WorkerWaits, FinishesDirectory, workerVars
<1>5. CASE FailsFirst(w) \/ CancelsScan(w) \/ ClosesQueue(w) \/ FailsLater(w)
  BY <1>5, <1>0 DEF FailsFirst, CancelsScan, ClosesQueue, FailsLater
<1>6. QED
  BY <1>1, <1>2, <1>3, <1>4, <1>5 DEF Worker, Reads, Ends, Returning

LEMMA BudgetStepWorker ==
  ASSUME BaseInv, BudgetInv, NEW w \in Workers, Worker(w)
  PROVE  IsFiniteSet(Records') /\ fileCount' = Cardinality(Records') + Cardinality(WorkersAt({"store"})')
<1> DEFINE S  == WorkersAt({"store"})
           S1 == {v \in Workers : pc'[v] \in {"store"}}
<1>0. WorkerTypes /\ ReportTypes
  BY TypeParts DEF BaseInv
<1>1. S1 = IF pc'[w] \in {"store"} THEN S \cup {w} ELSE S \ {w}
  BY WorkerMoves, MovesAt DEF BaseInv
<1>2. S1 = WorkersAt({"store"})' /\ (w \in S <=> pc[w] = "store") /\ S \in SUBSET Workers
  BY DEF WorkersAt
<1>3. /\ fileCount = Cardinality(Records) + Cardinality(S) /\ IsFiniteSet(Records)
      /\ Cardinality(Records) \in Nat /\ Cardinality(S) \in Nat /\ fileCount \in Nat
  BY <1>0, <1>2, WorkersFinite, FS_CardinalityType, ScanFacts
  DEF BudgetInv, BudgetMatchesReport, BaseInv, ReportTypes
<1>4. listed' = listed => Records' = Records
  BY DEF Records
<1> SUFFICES IsFiniteSet(Records') /\ fileCount' = Cardinality(Records') + Cardinality(S1)
  BY <1>2
<1> HIDE DEF S, S1
<1>5. CASE Reserves(w)
  <2>1. listed' = listed /\ pc[w] = "cas"
    BY <1>5 DEF Reserves
  <2>2. CASE item[w] \in Dirs
    <3>1. fileCount' = fileCount /\ pc'[w] = "add"
      BY <1>0, <1>5, <2>2 DEF Reserves, Goto, WorkerTypes
    <3>2. S1 = S
      BY <3>1, <2>1, <1>1, <1>2
    <3>3. QED
      BY <3>1, <3>2, <2>1, <1>3, <1>4
  <2>3. CASE item[w] \notin Dirs
    <3>1. fileCount' = fileCount + 1 /\ pc'[w] = "store"
      BY <1>0, <1>5, <2>3 DEF Reserves, Goto, WorkerTypes, CounterFor
    <3>2. S1 = S \cup {w} /\ w \notin S
      BY <3>1, <2>1, <1>1, <1>2
    <3>3. Cardinality(S1) = Cardinality(S) + 1
      BY <3>2, <1>2, CountOne
    <3>4. QED
      BY <3>1, <3>3, <2>1, <1>3, <1>4
  <2>4. QED
    BY <2>2, <2>3
<1>6. CASE StoresRecord(w)
  <2>1. /\ fileCount' = fileCount /\ pc[w] = "store" /\ pc'[w] = "entries"
        /\ item[w] \in Files /\ listed' = [listed EXCEPT ![item[w]] = @ + 1]
    BY <1>0, <1>6 DEF StoresRecord, NextEntry, Goto, WorkerTypes, BaseInv, HoldInv, HoldsAt
  <2>2. S1 = S \ {w} /\ w \in S
    BY <2>1, <1>1, <1>2
  <2>3. Cardinality(S1) = Cardinality(S) - 1
    BY <2>2, <1>2, CountOne
  <2>4. listed \in [Files -> Nat]
    BY <1>0 DEF ReportTypes
  <2>5. IsFiniteSet(Records') /\ Cardinality(Records') = Cardinality(Records) + 1
    BY <2>1, <2>4, <1>3, RecordAdded
  <2>6. QED
    BY <2>1, <2>3, <2>5, <1>3
<1>7. CASE ~Reserves(w) /\ ~StoresRecord(w)
  <2>1. listed' = listed /\ fileCount' = fileCount
    BY <1>7, WorkerFrame
  <2>2. S1 = S
    BY <1>7, <1>1, <1>2, StoreMoves
  <2>3. QED
    BY <2>1, <2>2, <1>3, <1>4
<1>8. QED
  BY <1>5, <1>6, <1>7

LEMMA BudgetStep == BaseInv /\ BudgetInv /\ [Next]_vars => BudgetInv'
<1> SUFFICES ASSUME BaseInv, BudgetInv, [Next]_vars
             PROVE  BudgetInv'
  OBVIOUS
<1> DEFINE Goal == /\ IsFiniteSet(Records')
                   /\ fileCount' = Cardinality(Records') + Cardinality(WorkersAt({"store"})')
<1>0. ReportTypes' /\ TypeOK' /\ ReportTypes
  BY BaseStep, TypeParts, ReportTypesStep DEF BaseInv
<1>a. fileCount' <= MaxFiles' /\ dirCount' <= MaxDirectories'
  BY <1>0 DEF ReportTypes
<1>b. /\ fileCount = Cardinality(Records) + Cardinality(WorkersAt({"store"}))
      /\ IsFiniteSet(Records) /\ Cardinality(Records) \in Nat
  BY FS_CardinalityType DEF BudgetInv, BudgetMatchesReport
<1>c. listed' = listed => Records' = Records
  BY DEF Records
<1>d. pc' = pc => WorkersAt({"store"})' = WorkersAt({"store"})
  BY DEF WorkersAt
<1>1. ASSUME UNCHANGED <<fileCount, listed, pc>> PROVE Goal
  BY <1>1, <1>b, <1>c, <1>d
<1>2. ASSUME RecordRootFile PROVE Goal
  <2>1. UNCHANGED pc
    BY <1>2 DEF RecordRootFile, workerVars
  <2>2. CASE scanCancelled
    BY <1>1, <1>2, <2>1, <2>2 DEF RecordRootFile
  <2>3. CASE ~scanCancelled
    <3>1. /\ fileCount' = fileCount + 1 /\ Roots[rootIx] \in Files
          /\ listed' = [listed EXCEPT ![Roots[rootIx]] = @ + 1]
      BY <1>2, <2>3 DEF RecordRootFile, BaseInv, PhaseInv
    <3>2. listed \in [Files -> Nat]
      BY <1>0 DEF ReportTypes
    <3>3. IsFiniteSet(Records') /\ Cardinality(Records') = Cardinality(Records) + 1
      BY <1>b, <3>1, <3>2, RecordAdded
    <3>4. Cardinality(WorkersAt({"store"})) \in Nat
      BY WorkersFinite DEF WorkersAt
    <3>5. QED
      BY <1>b, <1>d, <2>1, <3>1, <3>3, <3>4
  <2>4. QED
    BY <2>2, <2>3
<1>3. ASSUME StartWorkers PROVE Goal
  <2>1. UNCHANGED <<fileCount, listed>>
    BY <1>3 DEF StartWorkers, reportVars
  <2>2. WorkersAt({"store"}) = {} /\ WorkersAt({"store"})' = {}
    BY <1>3 DEF StartWorkers, WorkersAt, BaseInv, PhaseInv
  <2>3. QED
    BY <1>b, <1>c, <2>1, <2>2
<1>4. ASSUME NEW w \in Workers, Worker(w) PROVE Goal
  BY <1>4, BudgetStepWorker
<1>5. Goal
  BY <1>1, <1>2, <1>3, <1>4, Actors, OutsideFrame, MainFrame DEF vars, reportVars, workerVars
<1>6. QED
  BY <1>5, <1>a DEF BudgetInv, BudgetMatchesReport

LEMMA BudgetInit == Init => BudgetInv
<1> SUFFICES ASSUME Init PROVE BudgetInv
  OBVIOUS
<1>1. Records = {} /\ WorkersAt({"store"}) = {}
  BY DEF Init, Records, WorkersAt
<1>2. fileCount = 0 /\ dirCount = 0 /\ MaxFiles \in Nat /\ MaxDirectories \in Nat
  BY ScanFacts, BaseInit DEF Init, BaseInv
<1>3. QED
  BY <1>1, <1>2, FS_EmptySet DEF BudgetInv, BudgetMatchesReport

\* The limits hold, and a report's TotalFiles is the number of its records
\* (scanBudget and recordFile).
THEOREM BudgetAlwaysMatches == Spec => []BudgetMatchesReport
<1>1. Init => BaseInv /\ BudgetInv
  BY BaseInit, BudgetInit
<1>2. BaseInv /\ BudgetInv /\ [Next]_vars => (BaseInv /\ BudgetInv)'
  BY BaseStep, BudgetStep
<1>3. BudgetInv => BudgetMatchesReport
  BY DEF BudgetInv
<1>4. QED
  BY <1>1, <1>2, <1>3, PTL DEF Spec

-----------------------------------------------------------------------------
(* Completeness.                                                           *)

LEMMA AccountedStays ==
  ASSUME TypeOK, Kept, TypeOK'
  PROVE  /\ \A i \in Items : Accounted(i) => Accounted(i)'
         /\ \A d \in scanned' \ ignored' : d \in scanned => d \in scanned \ ignored
<1>1. \A f \in Files : listed[f] \in Nat /\ listed'[f] \in Nat /\ listed[f] <= listed'[f]
  BY TypeParts DEF ReportTypes, Kept, TypeOK
<1>2. class' = class /\ scanned \subseteq scanned' /\ ignored \subseteq ignored'
  BY DEF Kept
<1>3. \A f \in Files : listed[f] > 0 => listed'[f] > 0
  BY <1>1
<1>4. QED
  BY <1>2, <1>3 DEF Accounted

LEMMA UndisturbedBefore ==
  ASSUME BaseInv, [Next]_vars, Undisturbed'
  PROVE  Undisturbed
<1>1. ~scanCancelled
  BY NothingTakenBack DEF BaseInv, Kept, Undisturbed
<1>2. result = "none"
  <2>1. CASE UNCHANGED vars \/ Outside
    BY <2>1, OutsideFrame DEF vars, mainVars, Undisturbed
  <2>2. CASE \E w \in Workers : Worker(w)
    BY <2>2, WorkerFrame DEF mainVars, Undisturbed
  <2>3. CASE Main
    BY <2>3 DEF Main, RootsCancelled, RootUnsafe, RootSkipped, RootDirectory, RootFile,
       RootBeyondLimit, RootAuthorized, AtRoot, RecordRootFile, RootFileFails, NothingToRead, StartWorkers,
       WorkersGone, JudgeOutcome, BaseInv, PhaseInv
  <2>4. QED
    BY <2>1, <2>2, <2>3, Actors
<1>3. ASSUME NEW v \in Workers PROVE err[v] = "none"
  <2>1. CASE UNCHANGED vars \/ Outside
    BY <2>1, OutsideFrame DEF vars, workerVars, Undisturbed
  <2>2. CASE Main
    BY <2>2, MainFrame DEF Undisturbed
  <2>3. ASSUME NEW w \in Workers, Worker(w) PROVE err[v] = "none"
    <3>1. CASE v # w
      BY <2>3, <3>1, WorkerMoves DEF BaseInv, Undisturbed
    <3>2. CASE v = w /\ Returning(w)
      <4>1. pc[w] \in {"open", "entries", "cas", "add"}
        BY <3>2 DEF Returning, ReadCancelled, OpenFails, OpenFindsRootChanged, ReadFails, ReadEnds,
           ReserveFails, AddIsRefused
      <4>2. QED
        BY <4>1, <3>2 DEF BaseInv, FailInv, ErrorAt, Holding
    <3>3. CASE v = w /\ ~Returning(w)
      <4>1. err' = err
        BY <2>3, <3>3 DEF Worker, Reads, Ends, Returning, NextEntry, WorkerTakes, Opens, TakesEntry,
           RecordCancelled, RecordFails, RecordOpens, Reserves, ReserveRetries, StoresRecord,
           AddsDirectory, WorkerWaits, WorkerLeaves, FinishesDirectory, FailsFirst, CancelsScan,
           ClosesQueue, FailsLater, workerVars
      <4>2. QED
        BY <4>1 DEF Undisturbed
    <3>4. QED
      BY <3>1, <3>2, <3>3
  <2>4. QED
    BY <2>1, <2>2, <2>3, Actors
<1>4. QED
  BY <1>1, <1>2, <1>3 DEF Undisturbed

\* Nothing that is under way gets lost.
Forwarded ==
  /\ \A i \in Items : UnderWay(i) => UnderWay(i)' \/ Accounted(i)'
  /\ \A d \in scanned \ ignored' : \A i \in Items :
       ToCome(d, i) => ToCome(d, i)' \/ UnderWay(i)' \/ Accounted(i)'
  /\ \A d \in scanned' \ scanned : \A i \in Entries[d] : ToCome(d, i)'

\* A worker that neither takes nor hands over an item keeps what it holds.
LEMMA HeldIsForwarded ==
  ASSUME scanned' = scanned, dirs' = dirs, UNCHANGED <<work, item, todo>>,
         \A w \in Workers : pc[w] = "open" => pc'[w] = "open"
  PROVE  Forwarded
BY DEF Forwarded, UnderWay, ToCome

\* Of what another worker holds nothing is lost, nor of the queue if it is not
\* taken from.
LEMMA OthersForward ==
  ASSUME BaseInv, NEW w \in Workers, Worker(w), scanned' = scanned,
         \A k \in DOMAIN dirs : k \in DOMAIN dirs' /\ dirs'[k] = dirs[k],
         \A i \in Items :
           (pc[w] = "open" /\ work[w].dir = i) \/ item[w] = i => UnderWay(i)' \/ Accounted(i)',
         \A d \in scanned \ ignored' : \A i \in Items :
           work[w].dir = d /\ i \in todo[w] => ToCome(d, i)' \/ UnderWay(i)' \/ Accounted(i)'
  PROVE  Forwarded
<1>1. \A v \in Workers \ {w} : pc'[v] = pc[v] /\ work'[v] = work[v] /\ todo'[v] = todo[v]
                               /\ item'[v] = item[v]
  BY WorkerMoves DEF BaseInv
<1>2. ASSUME NEW i \in Items, UnderWay(i) PROVE UnderWay(i)' \/ Accounted(i)'
  <2>1. CASE \E k \in DOMAIN dirs : dirs[k].dir = i
    BY <2>1 DEF UnderWay
  <2>2. CASE \E v \in Workers \ {w} : (pc[v] = "open" /\ work[v].dir = i) \/ item[v] = i
    BY <2>2, <1>1 DEF UnderWay
  <2>3. CASE (pc[w] = "open" /\ work[w].dir = i) \/ item[w] = i
    BY <2>3
  <2>4. QED
    BY <1>2, <2>1, <2>2, <2>3 DEF UnderWay
<1>3. ASSUME NEW d \in scanned \ ignored', NEW i \in Items, ToCome(d, i)
      PROVE  ToCome(d, i)' \/ UnderWay(i)' \/ Accounted(i)'
  <2>1. CASE \E v \in Workers \ {w} : work[v].dir = d /\ i \in todo[v]
    BY <2>1, <1>1 DEF ToCome
  <2>2. QED
    BY <1>3, <2>1 DEF ToCome
<1>4. QED
  BY <1>2, <1>3 DEF Forwarded

LEMMA WorkerForwards ==
  ASSUME BaseInv, NEW w \in Workers, Worker(w), Undisturbed'
  PROVE  Forwarded
<1> USE DEF Goto, NextEntry
<1>0. WorkerTypes /\ ReportTypes /\ QueueTypes /\ HoldsAt(w)
  BY TypeParts DEF BaseInv, HoldInv
<1>a. ~scanCancelled /\ err'[w] = "none"
  BY WorkerFrame DEF Undisturbed, CancelsScan
<1>b. \A d \in Dirs : d \in Items /\ d # NoItem
  BY ScanAssumption DEF Items
<1>1. CASE WorkerTakes(w)
  <2>1. PICK d \in Works : Take(d) /\ work' = [work EXCEPT ![w] = d]
    BY <1>1 DEF WorkerTakes
  <2>2. /\ pc'[w] = "open" /\ work'[w] = d /\ pc[w] = "next" /\ scanned' = scanned
        /\ item' = item /\ todo' = todo /\ todo[w] = {} /\ item[w] = NoItem
    BY <1>0, <1>1, <2>1 DEF WorkerTakes, WorkerTypes, reportVars, HoldsAt, Recording, Listing
  <2>3. \A k \in DOMAIN dirs : dirs[k] = d \/ (k \in DOMAIN dirs' /\ dirs'[k] = dirs[k])
    <3>1. /\ dirs \in Seq(Works) /\ dirs # <<>> /\ dirs' = Front(dirs) /\ d = Last(dirs)
      BY <1>0, <2>1 DEF Take, QueueTypes
    <3>2. /\ Len(Front(dirs)) = Len(dirs) - 1 /\ Last(dirs) = dirs[Len(dirs)] /\ Front(dirs) \in Seq(Works)
          /\ \A k \in 1..(Len(dirs) - 1) : Front(dirs)[k] = dirs[k]
      BY <3>1, FrontFacts
    <3>3. DOMAIN dirs = 1..Len(dirs) /\ DOMAIN Front(dirs) = 1..(Len(dirs) - 1) /\ Len(dirs) \in Nat
      BY <3>1, <3>2
    <3>4. QED
      BY <3>1, <3>2, <3>3
  <2>4. ASSUME NEW i \in Items, UnderWay(i) PROVE UnderWay(i)'
    <3>1. CASE d.dir = i
      BY <2>2, <3>1 DEF UnderWay
    <3>2. CASE \E k \in DOMAIN dirs : dirs[k].dir = i
      BY <2>3, <3>1, <3>2 DEF UnderWay
    <3>3. CASE \E v \in Workers : pc[v] = "open" /\ work[v].dir = i
      BY <2>2, <3>3, <1>1, WorkerMoves DEF UnderWay, BaseInv
    <3>4. CASE \E v \in Workers : item[v] = i
      BY <2>2, <3>4 DEF UnderWay
    <3>5. QED
      BY <2>4, <3>2, <3>3, <3>4 DEF UnderWay
  <2>5. ASSUME NEW e \in scanned, NEW i \in Items, ToCome(e, i) PROVE ToCome(e, i)'
    BY <2>2, <2>5, WorkerMoves DEF ToCome, BaseInv
  <2>6. QED
    BY <2>2, <2>4, <2>5 DEF Forwarded
<1>2. CASE Opens(w)
  <2>1. /\ work' = work /\ item' = item /\ dirs' = dirs /\ pc[w] = "open"
        /\ scanned' = scanned \cup {work[w].dir} /\ todo'[w] = Entries[work[w].dir] /\ todo[w] = {}
    BY <1>0, <1>2 DEF Opens, queueVars, WorkerTypes, HoldsAt, Listing, Recording
  <2>2. \A v \in Workers \ {w} : pc'[v] = pc[v] /\ todo'[v] = todo[v]
    BY <1>2, WorkerMoves DEF BaseInv
  <2>3. work[w].dir \in Dirs
    BY <1>0, <2>1, ScanFacts DEF HoldsAt, Holding, BaseInv
  <2>4. Accounted(work[w].dir)'
    BY <2>1, <2>3 DEF Accounted
  <2>5. QED
    BY <2>1, <2>2, <2>4 DEF Forwarded, UnderWay, ToCome
<1>3. CASE OpenFails(w)
  <2>1. /\ scanned' = scanned /\ dirs' = dirs /\ item[w] = NoItem /\ todo[w] = {}
        /\ work[w].dir \in ignored' /\ work[w].dir \in Items
        /\ \A i \in ignored' : Accounted(i)'
    BY <1>0, <1>b, <1>3, ScanFacts
    DEF OpenFails, HoldsAt, Recording, Listing, Holding, queueVars, BaseInv, Accounted
  <2>2. NoItem \notin Items
    BY ScanAssumption
  <2>3. QED
    BY <2>1, <2>2, OthersForward
<1>4. CASE ReadFails(w)
  <2>1. /\ scanned' = scanned /\ dirs' = dirs /\ item[w] = NoItem /\ pc[w] # "open"
        /\ work[w].dir \in ignored'
    BY <1>0, <1>4 DEF ReadFails, HoldsAt, Recording, queueVars
  <2>2. NoItem \notin Items
    BY ScanAssumption
  <2>3. QED
    BY <2>1, <2>2, OthersForward
<1>5. CASE ReadEnds(w)
  <2>1. /\ scanned' = scanned /\ dirs' = dirs /\ item[w] = NoItem /\ pc[w] # "open" /\ todo[w] = {}
    BY <1>0, <1>5 DEF ReadEnds, HoldsAt, Recording, queueVars, reportVars
  <2>2. NoItem \notin Items
    BY ScanAssumption
  <2>3. QED
    BY <2>1, <2>2, OthersForward
<1>6. CASE TakesEntry(w)
  <2>1. /\ scanned' = scanned /\ dirs' = dirs /\ item[w] = NoItem /\ pc[w] # "open"
        /\ work'[w] = work[w]
    BY <1>0, <1>6 DEF TakesEntry, HoldsAt, Recording, queueVars, reportVars
  <2>2. PICK i \in todo[w] :
          /\ todo' = [todo EXCEPT ![w] = @ \ {i}]
          /\ item' = [item EXCEPT ![w] = IF class[i] \in {"reparse", "system"} THEN NoItem ELSE i]
    BY <1>6 DEF TakesEntry
  <2>3. todo'[w] = todo[w] \ {i} /\ i \in Items
    BY <1>0, <2>2 DEF WorkerTypes
  <2>4. UnderWay(i)' \/ Accounted(i)'
    <3>1. CASE class[i] \in {"reparse", "system"}
      BY <1>6, <3>1 DEF TakesEntry, Accounted, envVars
    <3>2. CASE class[i] \notin {"reparse", "system"}
      <4>1. item'[w] = i
        BY <1>0, <2>2, <3>2 DEF WorkerTypes
      <4>2. QED
        BY <4>1 DEF UnderWay
    <3>3. QED
      BY <3>1, <3>2
  <2>5. \A d \in scanned, j \in Items : work[w].dir = d /\ j \in todo[w] =>
          ToCome(d, j)' \/ UnderWay(j)' \/ Accounted(j)'
    BY <2>1, <2>3, <2>4 DEF ToCome
  <2>6. NoItem \notin Items
    BY ScanAssumption
  <2>7. QED
    BY <2>1, <2>5, <2>6, OthersForward
<1>7. CASE RecordFails(w) \/ StoresRecord(w) \/ AddsDirectory(w)
  <2>1. /\ scanned' = scanned /\ pc[w] # "open" /\ work' = work /\ todo' = todo
    BY <1>7 DEF RecordFails, StoresRecord, AddsDirectory, reportVars
  <2>i. PICK i \in Items : i = item[w]
    BY <1>0, <1>7 DEF RecordFails, StoresRecord, AddsDirectory, HoldsAt, Recording, WorkerTypes
  <2>2. \A k \in DOMAIN dirs : k \in DOMAIN dirs' /\ dirs'[k] = dirs[k]
    <3>1. CASE AddsDirectory(w)
      <4>1. dirs' = Append(dirs, [dir |-> item[w], scope |-> work[w].scope]) /\ dirs \in Seq(Works)
        BY <1>0, <3>1 DEF AddsDirectory, Add, QueueTypes
      <4>2. QED
        BY <4>1
    <3>2. QED
      BY <1>7, <3>1 DEF RecordFails, StoresRecord, queueVars
  <2>3. UnderWay(i)' \/ Accounted(i)'
    <3>1. CASE AddsDirectory(w)
      <4>1. dirs' = Append(dirs, [dir |-> item[w], scope |-> work[w].scope]) /\ dirs \in Seq(Works)
        BY <1>0, <3>1 DEF AddsDirectory, Add, QueueTypes
      <4>2. (Len(dirs) + 1) \in DOMAIN dirs' /\ dirs'[Len(dirs) + 1].dir = i
        BY <4>1, <2>i
      <4>3. QED
        BY <4>2 DEF UnderWay
    <3>2. CASE StoresRecord(w)
      <4>1. i \in Files /\ listed' = [listed EXCEPT ![i] = @ + 1] /\ listed \in [Files -> Nat]
        BY <1>0, <2>i, <3>2 DEF StoresRecord, HoldsAt, ReportTypes
      <4>2. listed'[i] > 0
        BY <4>1
      <4>3. QED
        BY <4>1, <4>2 DEF Accounted
    <3>3. CASE RecordFails(w)
      BY <2>i, <3>3 DEF RecordFails, Accounted
    <3>4. QED
      BY <1>7, <3>1, <3>2, <3>3
  <2>4. \A d \in scanned, j \in Items : work[w].dir = d /\ j \in todo[w] => ToCome(d, j)'
    BY <2>1 DEF ToCome
  <2>5. QED
    BY <2>1, <2>i, <2>2, <2>3, <2>4, OthersForward
<1>8. CASE RecordOpens(w) \/ Reserves(w) \/ ReserveRetries(w) \/ WorkerWaits(w) \/ WorkerLeaves(w)
  <2>1. /\ scanned' = scanned /\ dirs' = dirs /\ UNCHANGED <<work, item, todo>> /\ pc[w] # "open"
    BY <1>8 DEF RecordOpens, Reserves, ReserveRetries, WorkerWaits, WorkerLeaves, reportVars,
       queueVars, workerVars, Exhausted, Wait
  <2>2. \A v \in Workers : pc[v] = "open" => pc'[v] = "open"
    BY <2>1, WorkerMoves DEF BaseInv
  <2>3. QED
    BY <2>1, <2>2, HeldIsForwarded
<1>9. CASE FinishesDirectory(w)
  <2>1. /\ scanned' = scanned /\ dirs' = dirs /\ item[w] = NoItem /\ pc[w] # "open" /\ todo[w] = {}
    BY <1>0, <1>9 DEF FinishesDirectory, Done, HoldsAt, Recording, Listing, reportVars
  <2>2. NoItem \notin Items
    BY ScanAssumption
  <2>3. QED
    BY <2>1, <2>2, OthersForward
<1>10. CASE ReadCancelled(w) \/ OpenFindsRootChanged(w) \/ ReserveFails(w) \/ AddIsRefused(w)
  BY <1>0, <1>a, <1>10 DEF ReadCancelled, OpenFindsRootChanged, ReserveFails, AddIsRefused,
     ReadReturns, WorkerTypes
<1>11. CASE RecordCancelled(w) \/ CancelsScan(w)
  BY <1>a, <1>11 DEF RecordCancelled, CancelsScan, Undisturbed
<1>12. CASE FailsFirst(w) \/ ClosesQueue(w) \/ FailsLater(w)
  <2>1. err' = err /\ pc[w] \in {"fail", "closing"}
    BY <1>12 DEF FailsFirst, ClosesQueue, FailsLater
  <2>2. pc[w] = "closing"
    BY <1>a, <2>1 DEF BaseInv, FailInv, ErrorAt
  <2>3. QED
    BY <1>a, <2>2 DEF BaseInv, FailInv, ErrorAt
<1>13. QED
  BY <1>1, <1>2, <1>3, <1>4, <1>5, <1>6, <1>7, <1>8, <1>9, <1>10, <1>11, <1>12
  DEF Worker, Reads, Ends

LEMMA StepForwards ==
  ASSUME BaseInv, [Next]_vars, Undisturbed'
  PROVE  Forwarded
<1>0. QueueTypes
  BY TypeParts DEF BaseInv
<1>1. CASE UNCHANGED vars \/ Outside
  <2>1. UNCHANGED <<scanned, workerVars>>
    BY <1>1, OutsideFrame DEF vars, reportVars
  <2>2. dirs' = dirs
    BY <1>1, OutsideFrame DEF vars, queueVars, WatcherCloses, Close
  <2>3. QED
    BY <2>1, <2>2, HeldIsForwarded DEF workerVars
<1>2. CASE Main
  <2>1. UNCHANGED <<scanned, work, item, todo>>
    BY <1>2, MainFrame
  <2>2. \A w \in Workers : pc[w] = "open" => pc'[w] = "open"
    BY <1>2, MainFrame DEF StartWorkers, BaseInv, PhaseInv
  <2>3. ASSUME NEW r \in Items, RootDirectory(r) PROVE Forwarded
    <3>1. dirs' = Append(dirs, [dir |-> r, scope |-> r]) /\ dirs \in Seq(Works)
      BY <1>0, <2>3 DEF RootDirectory, QueueTypes
    <3>2. \A k \in DOMAIN dirs : k \in DOMAIN dirs' /\ dirs'[k] = dirs[k]
      BY <3>1
    <3>3. QED
      BY <2>1, <2>2, <3>2 DEF Forwarded, UnderWay, ToCome
  <2>4. CASE dirs' = dirs
    BY <2>1, <2>2, <2>4, HeldIsForwarded
  <2>5. QED
    BY <1>2, <2>3, <2>4, MainFrame DEF StartWorkers, NewQueue, queueVars
<1>3. ASSUME NEW w \in Workers, Worker(w) PROVE Forwarded
  BY <1>3, WorkerForwards
<1>4. QED
  BY <1>1, <1>2, <1>3, Actors

\* What the walk knows of the roots, and of what its listings hold.
RootsKnown ==
  /\ \A r \in seenRoots :
       Accounted(r) \/ UnderWay(r) \/ (main = "rootFile" /\ r = Roots[rootIx])
  /\ \A k \in 1..(rootIx - 1) : Accounted(Roots[k]) \/ Roots[k] \in seenRoots
EntriesKnown ==
  \A d \in scanned \ ignored : \A i \in Entries[d] :
    Accounted(i) \/ UnderWay(i) \/ ToCome(d, i)

LEMMA EntriesStep ==
  ASSUME BaseInv, TypeOK', Kept, Forwarded, EntriesKnown
  PROVE  EntriesKnown'
<1> SUFFICES ASSUME NEW d \in scanned' \ ignored', NEW i \in Entries[d]
             PROVE  Accounted(i)' \/ UnderWay(i)' \/ ToCome(d, i)'
  BY DEF EntriesKnown
<1>1. d \in Dirs /\ i \in Items
  BY ScanAssumption DEF TypeOK
<1>2. CASE d \notin scanned
  BY <1>2 DEF Forwarded
<1>3. CASE d \in scanned
  <2>1. d \in scanned \ ignored
    BY <1>3, AccountedStays DEF BaseInv
  <2>2. Accounted(i) \/ UnderWay(i) \/ ToCome(d, i)
    BY <2>1 DEF EntriesKnown
  <2>3. QED
    BY <1>1, <1>3, <2>2, AccountedStays DEF Forwarded, BaseInv
<1>4. QED
  BY <1>2, <1>3

LEMMA RootsStay ==
  ASSUME BaseInv, TypeOK', Kept, Forwarded, RootsKnown, mainVars' = mainVars
  PROVE  RootsKnown'
<1>1. Roots' = Roots /\ UNCHANGED <<main, rootIx, seenRoots>>
  BY DEF Kept, Roots, mainVars
<1>2. \A r \in seenRoots : r \in Items
  BY ScanFacts DEF BaseInv, TypeOK
<1>3. \A k \in 1..(rootIx - 1) : Roots[k] \in Items
  <2>1. rootIx \in 1..(Len(Roots) + 1) /\ Len(Roots) \in Nat
    BY ScanFacts DEF BaseInv, TypeOK
  <2>2. QED
    BY <2>1, ScanFacts DEF BaseInv
<1>4. QED
  BY <1>1, <1>2, <1>3, AccountedStays DEF RootsKnown, Forwarded, BaseInv

\* A root is passed over only if it is accounted for or has been seen before.
LEMMA RootsMove ==
  ASSUME BaseInv, TypeOK', Kept, Forwarded, RootsKnown, Main, Undisturbed', PhaseInv'
  PROVE  RootsKnown'
<1>0. Roots' = Roots /\ ~scanCancelled
  BY DEF Kept, Roots, Undisturbed
<1>a. CoreTypes /\ QueueTypes /\ ReportTypes
  BY TypeParts DEF BaseInv
<1>b. \A r \in seenRoots : r \in Items
  BY ScanFacts DEF BaseInv, TypeOK
<1>c. rootIx \in Nat /\ Len(Roots) \in Nat /\ rootIx <= Len(Roots) + 1
  BY <1>a, ScanFacts DEF CoreTypes, BaseInv
<1>d. \A k \in 1..(rootIx - 1) : Roots[k] \in Items
  BY <1>c, ScanFacts DEF BaseInv
<1>e. \A k \in 1..(rootIx - 1) : Accounted(Roots[k])' \/ Roots[k] \in seenRoots'
  BY <1>0, <1>d, AccountedStays DEF RootsKnown, BaseInv, Kept
<1>f. \A r \in seenRoots : Accounted(r)' \/ UnderWay(r)' \/ (main = "rootFile" /\ r = Roots[rootIx])
  BY <1>b, AccountedStays DEF RootsKnown, BaseInv, Forwarded
<1>1. ASSUME NEW r \in Items, RootSkipped(r) PROVE RootsKnown'
  <2>1. /\ seenRoots' = seenRoots /\ main = "roots" /\ rootIx' = rootIx + 1 /\ r = Roots[rootIx]
        /\ Accounted(r)' \/ r \in seenRoots'
    BY <1>0, <1>1 DEF RootSkipped, AtRoot, NextRoot, Accounted, envVars
  <2>2. ASSUME NEW k \in 1..(rootIx' - 1) PROVE Accounted(Roots[k])' \/ Roots[k] \in seenRoots'
    <3>1. k \in 1..(rootIx - 1) \/ k = rootIx
      BY <1>c, <2>1
    <3>2. QED
      BY <3>1, <1>0, <1>e, <2>1
  <2>3. QED
    BY <1>0, <1>f, <2>1, <2>2 DEF RootsKnown
<1>2. ASSUME NEW r \in Items, RootDirectory(r) PROVE RootsKnown'
  <2>1. /\ seenRoots' = seenRoots \cup {r} /\ main = "roots" /\ rootIx' = rootIx + 1
        /\ r = Roots[rootIx]
        /\ dirs' = Append(dirs, [dir |-> r, scope |-> r]) /\ dirs \in Seq(Works)
    BY <1>a, <1>2 DEF RootDirectory, RootAuthorized, AtRoot, NextRoot, QueueTypes
  <2>2. UnderWay(r)'
    <3>1. (Len(dirs) + 1) \in DOMAIN dirs' /\ dirs'[Len(dirs) + 1].dir = r
      BY <2>1
    <3>2. QED
      BY <3>1 DEF UnderWay
  <2>3. ASSUME NEW k \in 1..(rootIx' - 1) PROVE Accounted(Roots[k])' \/ Roots[k] \in seenRoots'
    <3>1. k \in 1..(rootIx - 1) \/ k = rootIx
      BY <1>c, <2>1
    <3>2. QED
      BY <3>1, <1>0, <1>e, <2>1
  <2>4. QED
    BY <1>0, <1>f, <2>1, <2>2, <2>3 DEF RootsKnown
<1>3. ASSUME NEW r \in Items, RootFile(r) PROVE RootsKnown'
  <2>1. /\ seenRoots' = seenRoots \cup {r} /\ main = "roots" /\ main' = "rootFile"
        /\ rootIx' = rootIx /\ r = Roots[rootIx]
    BY <1>3 DEF RootFile, RootAuthorized, AtRoot
  <2>2. QED
    BY <1>0, <1>e, <1>f, <2>1 DEF RootsKnown
<1>4. CASE RecordRootFile
  <2>1. /\ seenRoots' = seenRoots /\ main = "rootFile" /\ rootIx' = rootIx + 1
        /\ Roots[rootIx] \in Files \cap seenRoots
        /\ listed' = [listed EXCEPT ![Roots[rootIx]] = @ + 1] /\ listed \in [Files -> Nat]
    BY <1>0, <1>4, <1>a DEF RecordRootFile, NextRoot, BaseInv, PhaseInv, ReportTypes
  <2>2. Accounted(Roots[rootIx]) \/ listed'[Roots[rootIx]] > 0
    BY <2>1
  <2>3. \A r \in Files : listed'[r] > 0 => Accounted(r)'
    BY DEF Accounted
  <2>4. \A r \in seenRoots : Accounted(r)' \/ UnderWay(r)'
    BY <2>1, <2>2, <2>3, <1>b, <1>f, AccountedStays DEF BaseInv
  <2>5. ASSUME NEW k \in 1..(rootIx' - 1) PROVE Accounted(Roots[k])' \/ Roots[k] \in seenRoots'
    <3>1. k \in 1..(rootIx - 1) \/ k = rootIx
      BY <1>c, <2>1
    <3>2. QED
      BY <3>1, <1>0, <1>e, <2>1
  <2>6. QED
    BY <1>0, <2>1, <2>4, <2>5 DEF RootsKnown
<1>5. CASE StartWorkers \/ WorkersGone
  <2>1. seenRoots' = seenRoots /\ rootIx' = rootIx /\ main # "rootFile" /\ main' # "rootFile"
    BY <1>5 DEF StartWorkers, WorkersGone
  <2>2. QED
    BY <1>0, <1>e, <1>f, <2>1 DEF RootsKnown
<1>6. main' # "returned"
  BY DEF PhaseInv, Undisturbed
<1>7. CASE RootFileFails
  <2>1. /\ seenRoots' = seenRoots /\ main = "rootFile" /\ rootIx' = rootIx + 1
        /\ Roots[rootIx] \in ignored' /\ Roots[rootIx] \in seenRoots
    BY <1>7 DEF RootFileFails, NextRoot, BaseInv, PhaseInv
  <2>2. \A r \in ignored' : Accounted(r)'
    BY DEF Accounted
  <2>3. \A r \in seenRoots : Accounted(r)' \/ UnderWay(r)'
    BY <1>f, <2>1, <2>2
  <2>4. ASSUME NEW k \in 1..(rootIx' - 1) PROVE Accounted(Roots[k])' \/ Roots[k] \in seenRoots'
    <3>1. k \in 1..(rootIx - 1) \/ k = rootIx
      BY <1>c, <2>1
    <3>2. QED
      BY <3>1, <1>0, <1>e, <2>1
  <2>5. QED
    BY <1>0, <2>1, <2>3, <2>4 DEF RootsKnown
<1>8. QED
  BY <1>1, <1>2, <1>3, <1>4, <1>5, <1>6, <1>7 DEF Main, RootsCancelled, RootUnsafe, RootBeyondLimit,
     NothingToRead, JudgeOutcome, Return

LEMMA RootsStep ==
  ASSUME BaseInv, BaseInv', [Next]_vars, Kept, Forwarded, RootsKnown, Undisturbed'
  PROVE  RootsKnown'
<1>1. CASE Main
  BY <1>1, RootsMove DEF BaseInv
<1>2. CASE mainVars' = mainVars
  BY <1>2, RootsStay DEF BaseInv
<1>3. QED
  BY <1>1, <1>2, Actors, OutsideFrame, WorkerFrame DEF vars

\* When the walk is judged a success, nothing is under way any more.
LEMMA SuccessJudged ==
  ASSUME BaseInv, QueueInv, CompleteInv, JudgeOutcome, Verdict = "ok"
  PROVE  /\ \A r \in Range(Roots) : Accounted(r)
         /\ \A d \in scanned \ ignored : \A i \in Entries[d] : Accounted(i)
<1>0. CoreTypes /\ WorkerTypes /\ QueueTypes
  BY TypeParts DEF BaseInv
<1>1. main = "waited" /\ ~ctxCancelled /\ scanErr = "none"
  BY <1>0 DEF JudgeOutcome, Verdict, CoreTypes, Errors
<1>2. ~scanCancelled
  BY <1>1 DEF BaseInv, FailInv
<1>3. \A w \in Workers : pc[w] = "exited"
  BY <1>1 DEF BaseInv, PhaseInv, Gone
<1>4. \A w \in Workers : /\ err[w] = "none" /\ todo[w] = {} /\ item[w] = NoItem
  BY <1>1, <1>3 DEF BaseInv, FailInv, ErrorAt, HoldInv, HoldsAt, Listing, Recording
<1>5. dirs = <<>>
  <2>1. WorkersAt({"exited"}) # {} /\ WorkersAt(Holding) = {}
    BY <1>3, ScanAssumption DEF WorkersAt, Holding
  <2>2. pending = 0 /\ pending = Len(dirs) + Cardinality({})
    BY <1>1, <1>2, <2>1 DEF QueueInv, PendingCountsWork, BaseInv, PhaseInv
  <2>3. Len(dirs) = 0
    BY <2>2, <1>0, FS_EmptySet DEF QueueTypes
  <2>4. QED
    BY <2>3, <1>0, EmptySeq DEF QueueTypes
<1>6. \A i \in Items : ~UnderWay(i) /\ \A d : ~ToCome(d, i)
  BY <1>3, <1>4, <1>5, ScanAssumption DEF UnderWay, ToCome
<1>7. Undisturbed
  BY <1>1, <1>2, <1>4 DEF Undisturbed, BaseInv, PhaseInv
<1>8. ASSUME NEW r \in Range(Roots) PROVE Accounted(r)
  <2>1. PICK k \in 1..Len(Roots) : Roots[k] = r
    BY ScanFacts DEF BaseInv
  <2>2. k \in 1..(rootIx - 1) /\ r \in Items
    BY <1>0, <1>1, <2>1, ScanFacts DEF BaseInv, PhaseInv, CoreTypes
  <2>3. Accounted(r) \/ r \in seenRoots
    BY <1>7, <2>1, <2>2 DEF CompleteInv
  <2>4. QED
    BY <1>1, <1>6, <1>7, <2>2, <2>3 DEF CompleteInv
<1>9. ASSUME NEW d \in scanned \ ignored, NEW i \in Entries[d] PROVE Accounted(i)
  <2>1. i \in Items
    BY ScanAssumption DEF BaseInv, TypeOK
  <2>2. QED
    BY <1>6, <1>7, <2>1 DEF CompleteInv
<1>10. QED
  BY <1>8, <1>9

LEMMA SuccessStep ==
  ASSUME BaseInv, QueueInv, CompleteInv, [Next]_vars, Kept, TypeOK'
  PROVE  SuccessIsComplete'
<1> SUFFICES ASSUME result' = "ok" PROVE SuccessIsComplete'
  BY DEF SuccessIsComplete
<1>1. Roots' = Roots
  BY DEF Kept, Roots
<1>2. CASE JudgeOutcome
  <2>1. Verdict = "ok" /\ UNCHANGED <<class, reportVars>>
    BY <1>2 DEF JudgeOutcome, Return, envVars
  <2>2. QED
    BY <1>1, <1>2, <2>1, SuccessJudged DEF SuccessIsComplete, Accounted, reportVars
<1>3. CASE ~JudgeOutcome
  <2>1. result = "ok"
    BY <1>3, Actors, OutsideFrame, WorkerFrame DEF vars, mainVars, Main, RootsCancelled, RootUnsafe,
       RootSkipped, RootDirectory, RootFile, RootBeyondLimit, RecordRootFile, RootFileFails, NothingToRead,
       StartWorkers, WorkersGone, Return, NextRoot
  <2>2. main = "returned"
    BY <2>1 DEF BaseInv, PhaseInv
  <2>3. UNCHANGED <<class, reportVars>>
    <3>1. ~Main
      BY <2>2 DEF Main, RootsCancelled, RootUnsafe, RootSkipped, RootDirectory, RootFile, AtRoot,
         RootAuthorized, RootBeyondLimit, RecordRootFile, RootFileFails, NothingToRead, StartWorkers, WorkersGone,
         JudgeOutcome
    <3>2. ~ \E w \in Workers : Worker(w)
      BY <2>2, WorkerMoves DEF BaseInv
    <3>3. QED
      BY <3>1, <3>2, Actors, OutsideFrame DEF vars, envVars
  <2>4. QED
    BY <1>1, <2>1, <2>3 DEF CompleteInv, SuccessIsComplete, Accounted, reportVars
<1>4. QED
  BY <1>2, <1>3

LEMMA CompleteStep == BaseInv /\ QueueInv /\ CompleteInv /\ [Next]_vars => CompleteInv'
<1> SUFFICES ASSUME BaseInv, QueueInv, CompleteInv, [Next]_vars
             PROVE  CompleteInv'
  OBVIOUS
<1>1. BaseInv' /\ TypeOK' /\ Kept
  BY BaseStep, NothingTakenBack DEF BaseInv
<1>2. ASSUME Undisturbed' PROVE RootsKnown' /\ EntriesKnown'
  <2>1. Undisturbed /\ Forwarded
    BY <1>2, UndisturbedBefore, StepForwards
  <2>2. RootsKnown /\ EntriesKnown
    BY <2>1 DEF CompleteInv, RootsKnown, EntriesKnown
  <2>3. QED
    BY <1>1, <1>2, <2>1, <2>2, RootsStep, EntriesStep
<1>3. SuccessIsComplete'
  BY <1>1, SuccessStep
<1>4. QED
  BY <1>2, <1>3 DEF CompleteInv, RootsKnown, EntriesKnown

LEMMA CompleteInit == Init => CompleteInv
BY DEF Init, CompleteInv, SuccessIsComplete, Undisturbed

-----------------------------------------------------------------------------
(* No file is listed twice.                                                *)

\* A step by which a worker only lets go of things.
LEMMA OnceLetsGo ==
  ASSUME BaseInv, NEW R, OnceAt(R), NEW w \in Workers, Worker(w),
         UNCHANGED <<dirs, scanned, listed>>,
         item'[w] \in {item[w], NoItem}, work'[w] \in {work[w], NoWork},
         todo'[w] \subseteq todo[w], todo'[w] = {} \/ work'[w] = work[w],
         pc'[w] # "open"
  PROVE  OnceAt(R)'
<1>0. WorkerTypes
  BY TypeParts DEF BaseInv
<1>1. \A v \in Workers \ {w} : pc'[v] = pc[v] /\ work'[v] = work[v] /\ todo'[v] = todo[v]
                               /\ item'[v] = item[v]
  BY WorkerMoves DEF BaseInv
<1>2. main' = "waiting" /\ seenRoots' = seenRoots /\ Roots' = Roots
  BY WorkerMoves, WorkerFrame DEF BaseInv, mainVars, envVars, Roots
<1>3. NoItem \notin Items /\ NoWork.dir = NoItem
  BY ScanAssumption DEF NoWork
<1>4. /\ DOMAIN dirs = 1..Len(dirs)
      /\ \A k \in DOMAIN dirs : dirs[k].dir \in Items
      /\ \A d \in scanned : d \in Items
  BY TypeParts, ScanFacts DEF BaseInv, QueueTypes, ReportTypes, Items
<1>5. /\ \A v \in Workers : item'[v] \in {item[v], NoItem} /\ todo'[v] \subseteq todo[v]
      /\ \A v \in Workers : work'[v] \in {work[v], NoWork}
      /\ \A v \in Workers : todo'[v] = {} \/ work'[v] = work[v]
      /\ \A v \in Workers : pc'[v] = "open" => pc[v] = "open" /\ work'[v] = work[v]
  BY <1>1
<1>6. QueuedOnce'
  BY DEF OnceAt, OnePlace, QueuedOnce
<1>7. QueuedNotHeld'
  BY <1>3, <1>4, <1>5 DEF OnceAt, OnePlace, QueuedNotHeld
<1>8. HeldOnce'
  <2>1. \A v \in Workers : work[v] # NoWork => work[v].dir # NoItem
    BY <1>0, <1>3, ScanFacts DEF WorkerTypes, BaseInv, Items
  <2>2. ASSUME NEW u \in Workers, NEW v \in Workers, work'[u].dir = work'[v].dir, work'[u] # NoWork
        PROVE  u = v
    BY <1>3, <1>5, <2>1, <2>2 DEF OnceAt, OnePlace, HeldOnce
  <2>3. ASSUME NEW u \in Workers, NEW v \in Workers, item'[u] # NoItem
        PROVE  (item'[u] = item'[v] => u = v) /\ item'[u] # work'[v].dir
    BY <1>3, <1>5, <2>3 DEF OnceAt, OnePlace, HeldOnce
  <2>4. QED
    BY <2>2, <2>3 DEF HeldOnce, NoWork
<1>9. ASSUME NEW v \in Workers PROVE HeldNew(v)'
  BY <1>3, <1>4, <1>5 DEF OnceAt, OnePlace, HeldNew, Items
<1>10. \A i \in Items : Started(i)' => Started(i)
  BY <1>3, <1>5 DEF Started
<1>11. NotAgain(R)'
  BY <1>2, <1>5, <1>10 DEF OnceAt, NotAgain
<1>12. QED
  BY <1>2, <1>6, <1>7, <1>8, <1>9, <1>11 DEF OnceAt, OnePlace

LEMMA OnceTakes ==
  ASSUME BaseInv, NEW R, OnceAt(R), NEW w \in Workers, Worker(w), WorkerTakes(w)
  PROVE  OnceAt(R)'
<1>0. WorkerTypes /\ QueueTypes /\ HoldsAt(w)
  BY TypeParts DEF BaseInv, HoldInv
<1>1. \A v \in Workers \ {w} : pc'[v] = pc[v] /\ work'[v] = work[v]
  BY WorkerMoves DEF BaseInv
<1>2. main' = "waiting" /\ seenRoots' = seenRoots /\ Roots' = Roots
  BY WorkerMoves, WorkerFrame DEF BaseInv, mainVars, envVars, Roots
<1>3. NoItem \notin Items /\ NoWork.dir = NoItem /\ \A d \in Dirs : d \in Items
  BY ScanAssumption DEF NoWork, Items
<1>4. PICK d \in Works : Take(d) /\ work' = [work EXCEPT ![w] = d]
  BY DEF WorkerTakes
<1>5. /\ pc[w] = "next" /\ work[w] = NoWork /\ work'[w] = d /\ d # NoWork /\ d.dir \in Dirs
      /\ UNCHANGED <<todo, item, scanned, listed>> /\ todo[w] = {}
  BY <1>0, <1>4, ScanFacts DEF WorkerTakes, WorkerTypes, HoldsAt, Holding, Listing, Recording, reportVars,
     BaseInv
<1>6. /\ DOMAIN dirs' \subseteq DOMAIN dirs /\ \A k \in DOMAIN dirs' : dirs'[k] = dirs[k]
      /\ \E l \in DOMAIN dirs : dirs[l] = d /\ l \notin DOMAIN dirs'
  <2>1. /\ dirs \in Seq(Works) /\ dirs # <<>> /\ dirs' = Front(dirs) /\ d = Last(dirs)
    BY <1>0, <1>4 DEF Take, QueueTypes
  <2>2. /\ Len(Front(dirs)) = Len(dirs) - 1 /\ Last(dirs) = dirs[Len(dirs)] /\ Front(dirs) \in Seq(Works)
        /\ Len(dirs) >= 1
        /\ \A k \in 1..(Len(dirs) - 1) : Front(dirs)[k] = dirs[k]
    BY <2>1, FrontFacts
  <2>3. DOMAIN dirs = 1..Len(dirs) /\ DOMAIN Front(dirs) = 1..(Len(dirs) - 1) /\ Len(dirs) \in Nat
    BY <2>1, <2>2
  <2>4. QED
    BY <2>1, <2>2, <2>3
<1>7. PICK l \in DOMAIN dirs : dirs[l] = d /\ l \notin DOMAIN dirs'
  BY <1>6
<1>8. QueuedOnce'
  BY <1>5, <1>6 DEF OnceAt, OnePlace, QueuedOnce
<1>9. QueuedNotHeld'
  <2>1. ASSUME NEW k \in DOMAIN dirs' PROVE dirs'[k].dir # d.dir
    BY <1>6, <1>7 DEF OnceAt, OnePlace, QueuedOnce
  <2>2. QED
    BY <2>1, <1>1, <1>5, <1>6 DEF OnceAt, OnePlace, QueuedNotHeld
<1>10. HeldOnce'
  <2>1. \A v \in Workers : work[v].dir # d.dir /\ item[v] # d.dir
    BY <1>7 DEF OnceAt, OnePlace, QueuedNotHeld
  <2>2. \A v \in Workers \ {w} : work'[v].dir # d.dir
    BY <1>1, <2>1
  <2>3. \A v \in Workers : work'[v] = IF v = w THEN d ELSE work[v]
    BY <1>1, <1>5
  <2>4. QED
    BY <2>1, <2>3, <1>5 DEF OnceAt, OnePlace, HeldOnce
<1>11. ASSUME NEW v \in Workers PROVE HeldNew(v)'
  <2>1. d.dir \notin scanned
    BY <1>7 DEF OnceAt, OnePlace, QueuedOnce
  <2>2. CASE v = w
    BY <1>5, <2>1, <2>2 DEF OnceAt, OnePlace, HeldNew
  <2>3. CASE v # w
    BY <1>1, <1>5, <2>3 DEF OnceAt, OnePlace, HeldNew
  <2>4. QED
    BY <2>2, <2>3
<1>12. \A i \in Items : Started(i)' => Started(i)
  BY <1>1, <1>5, <1>6, <1>7 DEF Started
<1>13. NotAgain(R)'
  BY <1>2, <1>5, <1>12 DEF OnceAt, NotAgain
<1>14. QED
  BY <1>2, <1>5, <1>8, <1>9, <1>10, <1>11, <1>13 DEF OnceAt, OnePlace

LEMMA OnceOpens ==
  ASSUME BaseInv, NEW R, Apart(R), OnceAt(R), NEW w \in Workers, Worker(w), Opens(w)
  PROVE  OnceAt(R)'
<1> DEFINE D == work[w].dir
<1>0. WorkerTypes /\ HoldsAt(w)
  BY TypeParts DEF BaseInv, HoldInv
<1>1. \A v \in Workers \ {w} : pc'[v] = pc[v] /\ todo'[v] = todo[v]
  BY WorkerMoves DEF BaseInv
<1>2. main' = "waiting" /\ seenRoots' = seenRoots /\ Roots' = Roots
  BY WorkerMoves, WorkerFrame DEF BaseInv, mainVars, envVars, Roots
<1>3. /\ UNCHANGED <<dirs, work, item, listed>> /\ pc[w] = "open" /\ pc'[w] = "entries"
      /\ scanned' = scanned \cup {D} /\ todo'[w] = Entries[D]
  BY <1>0 DEF Opens, Goto, queueVars, WorkerTypes
<1>4. work[w] # NoWork /\ D \in Dirs /\ D \in Items
  BY <1>0, <1>3, ScanFacts, ScanAssumption DEF HoldsAt, Holding, BaseInv, Items
<1>5. D \notin scanned
  BY <1>3 DEF OnceAt, OnePlace, HeldNew
<1>6. QueuedOnce' /\ QueuedNotHeld'
  BY <1>3 DEF OnceAt, OnePlace, QueuedOnce, QueuedNotHeld
<1>7. HeldOnce'
  BY <1>3 DEF OnceAt, OnePlace, HeldOnce
<1>8. ASSUME NEW v \in Workers PROVE HeldNew(v)'
  <2>1. CASE v = w
    BY <2>1, <1>3, <1>4, ScanAssumption DEF OnceAt, OnePlace, HeldNew, HeldOnce, Items
  <2>2. CASE v # w
    <3>1. work[v].dir # D /\ item[v] # D
      BY <2>2, <1>4, ScanAssumption DEF OnceAt, OnePlace, HeldOnce
    <3>2. QED
      BY <2>2, <3>1, <1>1, <1>3 DEF OnceAt, OnePlace, HeldNew
  <2>3. QED
    BY <2>1, <2>2
<1>9. Started(D)
  BY DEF Started
<1>10. \A i \in Items : Started(i)' => Started(i)
  BY <1>3, <1>9 DEF Started
<1>11. ASSUME NEW i \in Items, Started(i), NEW d \in R \cap Dirs, i \in Entries[d]
       PROVE  d \in scanned' /\ \A v \in Workers : i \notin todo'[v]
  <2>1. d \in scanned /\ \A v \in Workers : i \notin todo[v]
    BY <1>11 DEF OnceAt, NotAgain
  <2>2. i \notin Entries[D]
    <3>1. D \in R
      BY <1>4, <1>9 DEF OnceAt, NotAgain
    <3>2. QED
      BY <1>4, <1>5, <1>11, <3>1 DEF OnceAt, NotAgain
  <2>3. QED
    BY <2>1, <2>2, <1>1, <1>3
<1>12. NotAgain(R)'
  BY <1>2, <1>10, <1>11 DEF OnceAt, NotAgain
<1>13. QED
  BY <1>2, <1>3, <1>6, <1>7, <1>8, <1>12 DEF OnceAt, OnePlace

LEMMA OnceTakesEntry ==
  ASSUME BaseInv, NEW R, Apart(R), OnceAt(R), NEW w \in Workers, Worker(w), TakesEntry(w)
  PROVE  OnceAt(R)'
<1> DEFINE D == work[w].dir
<1>0. WorkerTypes /\ HoldsAt(w)
  BY TypeParts DEF BaseInv, HoldInv
<1>1. \A v \in Workers \ {w} : pc'[v] = pc[v] /\ todo'[v] = todo[v] /\ item'[v] = item[v]
  BY WorkerMoves DEF BaseInv
<1>2. main' = "waiting" /\ seenRoots' = seenRoots /\ Roots' = Roots
  BY WorkerMoves, WorkerFrame DEF BaseInv, mainVars, envVars, Roots
<1>3. /\ UNCHANGED <<dirs, work, listed, scanned>> /\ pc[w] = "entries" /\ item[w] = NoItem
      /\ pc'[w] # "open"
  BY <1>0 DEF TakesEntry, Goto, queueVars, WorkerTypes, reportVars, HoldsAt, Recording
<1>4. PICK i \in todo[w] :
        /\ todo' = [todo EXCEPT ![w] = @ \ {i}]
        /\ item' = [item EXCEPT ![w] = IF class[i] \in {"reparse", "system"} THEN NoItem ELSE i]
  BY DEF TakesEntry
<1>5. todo'[w] = todo[w] \ {i} /\ i \in Items /\ item'[w] \in {NoItem, i}
  BY <1>0, <1>4 DEF WorkerTypes
<1>6. CASE item'[w] = NoItem
  BY <1>3, <1>5, <1>6, OnceLetsGo
<1>7. CASE item'[w] = i
  <2>1. NoItem \notin Items /\ D \in Dirs /\ D \in Items /\ D \in scanned /\ i \in Entries[D]
    BY <1>0, <1>3, <1>5, ScanFacts, ScanAssumption
    DEF OnceAt, OnePlace, HeldNew, HoldsAt, Holding, BaseInv, Items
  <2>2. D \in R
    BY <2>1 DEF OnceAt, NotAgain, Started
  <2>3. ~Started(i)
    BY <1>5, <2>1, <2>2 DEF OnceAt, NotAgain
  <2>4. /\ \A k \in DOMAIN dirs : dirs[k].dir # i
        /\ \A v \in Workers : work[v].dir # i /\ item[v] # i
        /\ i \notin scanned /\ (i \in Files => ~(listed[i] > 0))
    BY <2>3 DEF Started
  <2>5. i \in Files => listed[i] = 0
    BY <2>4, TypeParts DEF BaseInv, ReportTypes
  <2>6. \A v \in Workers : item'[v] = IF v = w THEN i ELSE item[v]
    BY <1>1, <1>7
  <2>7. QueuedOnce' /\ QueuedNotHeld'
    BY <1>3, <2>4, <2>6 DEF OnceAt, OnePlace, QueuedOnce, QueuedNotHeld
  <2>8. HeldOnce'
    BY <1>3, <2>4, <2>6 DEF OnceAt, OnePlace, HeldOnce
  <2>9. ASSUME NEW v \in Workers PROVE HeldNew(v)'
    <3>1. CASE v = w
      BY <3>1, <1>3, <1>5, <2>1, <2>4, <2>5, <2>6 DEF OnceAt, OnePlace, HeldNew
    <3>2. CASE v # w
      BY <3>2, <1>1, <1>3 DEF OnceAt, OnePlace, HeldNew
    <3>3. QED
      BY <3>1, <3>2
  <2>10. \A j \in Items : Started(j)' => Started(j) \/ j = i
    BY <1>3, <2>6 DEF Started
  <2>11. i \in R /\ i \notin Range(Roots)
    BY <2>1, <2>2 DEF Apart
  <2>12. ASSUME NEW d \in R \cap Dirs, i \in Entries[d] PROVE d = D
    BY <2>1, <2>2, <2>12 DEF Apart
  <2>13. ASSUME NEW v \in Workers PROVE i \notin todo'[v]
    <3>1. CASE v # w
      <4>1. SUFFICES ASSUME i \in todo[v] PROVE FALSE
        BY <3>1, <1>1
      <4>2. i \in Entries[work[v].dir] /\ work[v].dir \in scanned
        BY <4>1 DEF OnceAt, OnePlace, HeldNew
      <4>3. work[v].dir \in Dirs /\ work[v].dir \in Items
        BY <4>2, TypeParts DEF BaseInv, ReportTypes, Items
      <4>4. work[v].dir \in R
        BY <4>3 DEF OnceAt, NotAgain, Started
      <4>5. work[v].dir = D
        BY <2>12, <4>2, <4>3, <4>4
      <4>6. work[w] # NoWork
        BY <1>0, <1>3, ScanFacts DEF HoldsAt, Holding, BaseInv
      <4>7. QED
        BY <3>1, <4>5, <4>6 DEF OnceAt, OnePlace, HeldOnce
    <3>2. QED
      BY <3>1, <1>5
  <2>14. \A v \in Workers : todo'[v] \subseteq todo[v]
    BY <1>1, <1>5
  <2>15. NotAgain(R)'
    <3>1. ASSUME NEW j \in Items, Started(j)'
          PROVE  /\ j \in R
                 /\ j \in Range(Roots') => j \in seenRoots'
                 /\ \A d \in R \cap Dirs : j \in Entries[d] =>
                      d \in scanned' /\ \A v \in Workers : j \notin todo'[v]
      <4>1. CASE j = i
        BY <4>1, <1>2, <1>3, <2>1, <2>11, <2>12, <2>13
      <4>2. CASE Started(j)
        BY <4>2, <1>2, <1>3, <2>14 DEF OnceAt, NotAgain
      <4>3. QED
        BY <3>1, <2>10, <4>1, <4>2
    <3>2. QED
      BY <3>1 DEF NotAgain
  <2>16. QED
    BY <1>2, <1>3, <2>7, <2>8, <2>9, <2>15 DEF OnceAt, OnePlace
<1>8. QED
  BY <1>5, <1>6, <1>7

LEMMA OnceStores ==
  ASSUME BaseInv, NEW R, OnceAt(R), NEW w \in Workers, Worker(w), StoresRecord(w)
  PROVE  OnceAt(R)'
<1>0. WorkerTypes /\ HoldsAt(w) /\ listed \in [Files -> Nat]
  BY TypeParts DEF BaseInv, HoldInv, ReportTypes
<1>1. \A v \in Workers \ {w} : pc'[v] = pc[v] /\ item'[v] = item[v]
  BY WorkerMoves DEF BaseInv
<1>2. main' = "waiting" /\ seenRoots' = seenRoots /\ Roots' = Roots
  BY WorkerMoves, WorkerFrame DEF BaseInv, mainVars, envVars, Roots
<1>3. PICK f \in Files : f = item[w] /\ listed' = [listed EXCEPT ![f] = @ + 1]
  BY <1>0 DEF StoresRecord, HoldsAt
<1>4. /\ UNCHANGED <<dirs, work, todo, scanned>> /\ item'[w] = NoItem /\ pc'[w] # "open"
  BY <1>0 DEF StoresRecord, NextEntry, Goto, queueVars, WorkerTypes
<1>5. NoItem \notin Items /\ f \in Items /\ f # NoItem /\ \A d \in scanned : d # NoItem
  BY ScanAssumption, TypeParts DEF Items, BaseInv, ReportTypes
<1>6. listed[f] = 0 /\ listed'[f] = 1 /\ \A g \in Files \ {f} : listed'[g] = listed[g]
  BY <1>0, <1>3 DEF OnceAt, OnePlace, HeldNew
<1>7. \A v \in Workers : item'[v] = IF v = w THEN NoItem ELSE item[v]
  BY <1>1, <1>4
<1>8. \A v \in Workers \ {w} : item[v] # f
  BY <1>3, <1>5 DEF OnceAt, OnePlace, HeldOnce
<1>9. QueuedOnce'
  BY <1>4 DEF OnceAt, OnePlace, QueuedOnce
<1>10. QueuedNotHeld'
  <2>1. \A k \in DOMAIN dirs : dirs[k].dir # NoItem
    BY TypeParts, ScanFacts, ScanAssumption DEF BaseInv, QueueTypes, Items
  <2>2. QED
    BY <2>1, <1>4, <1>7 DEF OnceAt, OnePlace, QueuedNotHeld
<1>11. HeldOnce'
  BY <1>4, <1>7 DEF OnceAt, OnePlace, HeldOnce
<1>12. ASSUME NEW v \in Workers PROVE HeldNew(v)'
  <2>1. CASE v = w
    BY <2>1, <1>4, <1>5, <1>7 DEF OnceAt, OnePlace, HeldNew, Items
  <2>2. CASE v # w
    BY <2>2, <1>1, <1>4, <1>6, <1>7, <1>8 DEF OnceAt, OnePlace, HeldNew
  <2>3. QED
    BY <2>1, <2>2
<1>13. Started(f)
  BY <1>3 DEF Started
<1>14. \A i \in Items : Started(i)' => Started(i)
  BY <1>4, <1>5, <1>6, <1>7, <1>13 DEF Started
<1>15. NotAgain(R)'
  BY <1>2, <1>4, <1>14 DEF OnceAt, NotAgain
<1>16. \A g \in Files : listed'[g] <= 1
  BY <1>6 DEF OnceAt
<1>17. QED
  BY <1>2, <1>9, <1>10, <1>11, <1>12, <1>15, <1>16 DEF OnceAt, OnePlace

LEMMA OnceAdds ==
  ASSUME BaseInv, NEW R, OnceAt(R), NEW w \in Workers, Worker(w), AddsDirectory(w)
  PROVE  OnceAt(R)'
<1>0. WorkerTypes /\ QueueTypes /\ HoldsAt(w)
  BY TypeParts DEF BaseInv, HoldInv
<1>1. \A v \in Workers \ {w} : pc'[v] = pc[v] /\ item'[v] = item[v]
  BY WorkerMoves DEF BaseInv
<1>2. main' = "waiting" /\ seenRoots' = seenRoots /\ Roots' = Roots
  BY WorkerMoves, WorkerFrame DEF BaseInv, mainVars, envVars, Roots
<1>3. PICK d \in Dirs : d = item[w]
  BY <1>0 DEF AddsDirectory, HoldsAt
<1>4. /\ UNCHANGED <<work, todo, scanned, listed>> /\ item'[w] = NoItem /\ pc'[w] # "open"
  BY <1>0 DEF AddsDirectory, NextEntry, Goto, reportVars, WorkerTypes
<1>5. /\ NoItem \notin Items /\ d \in Items /\ d # NoItem /\ \A e \in scanned : e # NoItem
      /\ \A k \in DOMAIN dirs : dirs[k].dir # NoItem
  BY ScanAssumption, ScanFacts, TypeParts DEF Items, BaseInv, ReportTypes, QueueTypes
<1>6. /\ DOMAIN dirs' = DOMAIN dirs \cup {Len(dirs) + 1} /\ (Len(dirs) + 1) \notin DOMAIN dirs
      /\ \A k \in DOMAIN dirs : dirs'[k] = dirs[k]
      /\ dirs'[Len(dirs) + 1].dir = d
  <2>1. dirs' = Append(dirs, [dir |-> d, scope |-> work[w].scope]) /\ dirs \in Seq(Works)
    BY <1>0, <1>3 DEF AddsDirectory, Add, QueueTypes
  <2>2. QED
    BY <2>1
<1>7. \A v \in Workers : item'[v] = IF v = w THEN NoItem ELSE item[v]
  BY <1>1, <1>4
<1>8. /\ \A k \in DOMAIN dirs : dirs[k].dir # d
      /\ \A v \in Workers : work[v].dir # d /\ (v # w => item[v] # d)
      /\ d \notin scanned
  BY <1>3, <1>5 DEF OnceAt, OnePlace, QueuedNotHeld, HeldOnce, HeldNew
<1>9. QueuedOnce'
  BY <1>4, <1>6, <1>8 DEF OnceAt, OnePlace, QueuedOnce
<1>10. QueuedNotHeld'
  BY <1>4, <1>5, <1>6, <1>7, <1>8 DEF OnceAt, OnePlace, QueuedNotHeld
<1>11. HeldOnce'
  BY <1>4, <1>7 DEF OnceAt, OnePlace, HeldOnce
<1>12. ASSUME NEW v \in Workers PROVE HeldNew(v)'
  BY <1>1, <1>4, <1>5, <1>7 DEF OnceAt, OnePlace, HeldNew, Items
<1>13. Started(d)
  BY <1>3 DEF Started
<1>14. \A i \in Items : Started(i)' => Started(i)
  BY <1>4, <1>5, <1>6, <1>7, <1>13 DEF Started
<1>15. NotAgain(R)'
  BY <1>2, <1>4, <1>14 DEF OnceAt, NotAgain
<1>16. QED
  BY <1>2, <1>4, <1>9, <1>10, <1>11, <1>12, <1>15 DEF OnceAt, OnePlace

LEMMA OnceStepWorker ==
  ASSUME BaseInv, NEW R, Apart(R), OnceAt(R), NEW w \in Workers, Worker(w)
  PROVE  OnceAt(R)'
<1> USE DEF Goto, ReadReturns, NextEntry, reportVars, queueVars, workerVars
<1>0. WorkerTypes
  BY TypeParts DEF BaseInv
<1>1. CASE WorkerTakes(w) \/ Opens(w) \/ TakesEntry(w) \/ StoresRecord(w) \/ AddsDirectory(w)
  BY <1>1, OnceTakes, OnceOpens, OnceTakesEntry, OnceStores, OnceAdds
<1>2. CASE Returning(w)
  <2>1. UNCHANGED <<dirs, scanned, listed>>
    BY <1>2 DEF Returning, ReadCancelled, OpenFails, OpenFindsRootChanged, ReadFails, ReadEnds,
       ReserveFails, AddIsRefused, AddRefused
  <2>2. item'[w] = NoItem /\ work' = work /\ todo'[w] = {} /\ pc'[w] # "open"
    BY <1>0, <1>2, ReturningHasCause DEF BaseInv, WorkerTypes
  <2>3. QED
    BY <2>1, <2>2, OnceLetsGo
<1>3. CASE RecordCancelled(w) \/ RecordFails(w)
  <2>1. UNCHANGED <<dirs, scanned, listed, work, todo>> /\ item'[w] = NoItem /\ pc'[w] # "open"
    BY <1>0, <1>3 DEF RecordCancelled, RecordFails, WorkerTypes
  <2>2. QED
    BY <2>1, OnceLetsGo
<1>4. CASE RecordOpens(w) \/ Reserves(w) \/ ReserveRetries(w)
  <2>1. UNCHANGED <<dirs, scanned, listed, work, todo, item>> /\ pc'[w] # "open"
    BY <1>0, <1>4 DEF RecordOpens, Reserves, ReserveRetries, WorkerTypes
  <2>2. QED
    BY <2>1, OnceLetsGo
<1>5. CASE WorkerWaits(w) \/ WorkerLeaves(w) \/ ClosesQueue(w)
  <2>1. UNCHANGED <<dirs, scanned, listed, work, todo, item>> /\ pc'[w] # "open"
    BY <1>0, <1>5 DEF WorkerWaits, Wait, WorkerLeaves, Exhausted, ClosesQueue, Close, WorkerTypes
  <2>2. QED
    BY <2>1, OnceLetsGo
<1>6. CASE FinishesDirectory(w)
  <2>1. UNCHANGED <<dirs, scanned, listed, todo, item>> /\ pc'[w] # "open" /\ work'[w] = NoWork
    BY <1>0, <1>6 DEF FinishesDirectory, Done, WorkerTypes
  <2>2. todo[w] = {}
    BY <1>6 DEF FinishesDirectory, BaseInv, HoldInv, HoldsAt, Listing, Recording
  <2>3. QED
    BY <2>1, <2>2, OnceLetsGo
<1>7. CASE FailsFirst(w) \/ CancelsScan(w) \/ FailsLater(w)
  <2>1. UNCHANGED <<dirs, scanned, listed, work, todo, item>> /\ pc'[w] # "open"
    BY <1>0, <1>7 DEF FailsFirst, CancelsScan, FailsLater, WorkerTypes
  <2>2. QED
    BY <2>1, OnceLetsGo
<1>8. QED
  BY <1>1, <1>2, <1>3, <1>4, <1>5, <1>6, <1>7 DEF Worker, Reads, Ends, Returning

\* A step that moves no item.
LEMMA OnceRests ==
  ASSUME NEW R, OnceAt(R), UNCHANGED <<scan, dirs, scanned, listed, work, todo, item>>,
         seenRoots \subseteq seenRoots', \A w \in Workers : pc'[w] = "open" => pc[w] = "open",
         main' = "rootFile" => listed[Roots'[rootIx']] = 0
  PROVE  OnceAt(R)'
<1>1. Roots' = Roots
  BY DEF Roots
<1>2. QueuedOnce' /\ QueuedNotHeld' /\ HeldOnce'
  BY DEF OnceAt, OnePlace, QueuedOnce, QueuedNotHeld, HeldOnce
<1>3. \A w \in Workers : HeldNew(w)'
  BY DEF OnceAt, OnePlace, HeldNew
<1>4. \A i \in Items : Started(i)' => Started(i)
  BY DEF Started
<1>5. NotAgain(R)'
  BY <1>1, <1>4 DEF OnceAt, NotAgain
<1>6. QED
  BY <1>2, <1>3, <1>5 DEF OnceAt, OnePlace

LEMMA OnceRootDirectory ==
  ASSUME BaseInv, NEW R, Apart(R), OnceAt(R), NEW r \in Items, RootDirectory(r)
  PROVE  OnceAt(R)'
<1>0. QueueTypes /\ listed \in [Files -> Nat]
  BY TypeParts DEF BaseInv, ReportTypes
<1>1. /\ UNCHANGED <<scan, scanned, listed, pc, work, todo, item>> /\ main' = "roots"
      /\ seenRoots' = seenRoots \cup {r} /\ r \notin seenRoots
      /\ r = Roots[rootIx] /\ rootIx \in 1..Len(Roots)
  BY DEF RootDirectory, RootAuthorized, AtRoot, NextRoot, workerVars, envVars
<1>2. r \in Range(Roots) /\ Roots' = Roots
  BY <1>1, ScanFacts DEF BaseInv, Roots
<1>3. ~Started(r)
  BY <1>1, <1>2 DEF OnceAt, NotAgain
<1>4. /\ \A k \in DOMAIN dirs : dirs[k].dir # r
      /\ \A w \in Workers : work[w].dir # r /\ item[w] # r
      /\ r \notin scanned
  BY <1>3 DEF Started
<1>5. /\ DOMAIN dirs' = DOMAIN dirs \cup {Len(dirs) + 1} /\ (Len(dirs) + 1) \notin DOMAIN dirs
      /\ \A k \in DOMAIN dirs : dirs'[k] = dirs[k]
      /\ dirs'[Len(dirs) + 1].dir = r
  <2>1. dirs' = Append(dirs, [dir |-> r, scope |-> r]) /\ dirs \in Seq(Works)
    BY <1>0 DEF RootDirectory, QueueTypes
  <2>2. QED
    BY <2>1
<1>6. QueuedOnce'
  BY <1>1, <1>4, <1>5 DEF OnceAt, OnePlace, QueuedOnce
<1>7. QueuedNotHeld'
  BY <1>1, <1>4, <1>5 DEF OnceAt, OnePlace, QueuedNotHeld
<1>8. HeldOnce' /\ \A w \in Workers : HeldNew(w)'
  BY <1>1 DEF OnceAt, OnePlace, HeldOnce, HeldNew
<1>9. \A i \in Items : Started(i)' => Started(i) \/ i = r
  BY <1>1, <1>5 DEF Started
<1>10. r \in R /\ \A d \in R \cap Dirs : r \notin Entries[d]
  BY <1>2 DEF Apart
<1>11. NotAgain(R)'
  <2>1. ASSUME NEW i \in Items, Started(i)'
        PROVE  /\ i \in R
               /\ i \in Range(Roots') => i \in seenRoots'
               /\ \A d \in R \cap Dirs : i \in Entries[d] =>
                    d \in scanned' /\ \A w \in Workers : i \notin todo'[w]
    <3>1. CASE i = r
      BY <3>1, <1>1, <1>10
    <3>2. CASE Started(i)
      BY <3>2, <1>1, <1>2 DEF OnceAt, NotAgain
    <3>3. QED
      BY <2>1, <1>9, <3>1, <3>2
  <2>2. QED
    BY <2>1 DEF NotAgain
<1>12. QED
  BY <1>1, <1>6, <1>7, <1>8, <1>11 DEF OnceAt, OnePlace

LEMMA OnceRootFile ==
  ASSUME BaseInv, NEW R, Apart(R), OnceAt(R), RecordRootFile
  PROVE  OnceAt(R)'
<1>1. UNCHANGED <<scan, scanned, dirs, pc, work, todo, item, seenRoots>> /\ main' = "roots"
  BY DEF RecordRootFile, NextRoot, workerVars, envVars, queueVars
<1>2. CASE listed' = listed
  BY <1>1, <1>2, OnceRests
<1>3. CASE listed' # listed
  <2>1. PICK f \in Files : f = Roots[rootIx] /\ f \in seenRoots /\ main = "rootFile"
                           /\ watcher = "idle" /\ listed' = [listed EXCEPT ![f] = @ + 1]
    BY <1>3 DEF RecordRootFile, BaseInv, PhaseInv
  <2>2. listed \in [Files -> Nat] /\ listed[f] = 0
    BY <2>1, TypeParts DEF BaseInv, ReportTypes, OnceAt, OnePlace
  <2>3. listed'[f] = 1 /\ \A g \in Files \ {f} : listed'[g] = listed[g]
    BY <2>1, <2>2
  <2>4. \A w \in Workers : item[w] = NoItem /\ todo[w] = {}
    BY <2>1 DEF BaseInv, PhaseInv, HoldInv, HoldsAt, Recording, Listing
  <2>5. NoItem \notin Items /\ f \in Range(Roots) /\ Roots' = Roots
    <3>1. rootIx \in 1..Len(Roots)
      BY <2>1, TypeParts, ScanFacts DEF BaseInv, PhaseInv, CoreTypes
    <3>2. QED
      BY <3>1, <2>1, <1>1, ScanFacts, ScanAssumption DEF BaseInv, Roots
  <2>6. QueuedOnce' /\ QueuedNotHeld' /\ HeldOnce'
    BY <1>1 DEF OnceAt, OnePlace, QueuedOnce, QueuedNotHeld, HeldOnce
  <2>7. \A w \in Workers : HeldNew(w)'
    BY <1>1, <2>4, <2>5 DEF OnceAt, OnePlace, HeldNew, Items
  <2>8. \A i \in Items : Started(i)' => Started(i) \/ i = f
    BY <1>1, <2>3 DEF Started
  <2>9. NotAgain(R)'
    <3>1. f \in R /\ \A d \in R \cap Dirs : f \notin Entries[d]
      BY <2>5 DEF Apart
    <3>2. ASSUME NEW i \in Items, Started(i)'
          PROVE  /\ i \in R
                 /\ i \in Range(Roots') => i \in seenRoots'
                 /\ \A d \in R \cap Dirs : i \in Entries[d] =>
                      d \in scanned' /\ \A w \in Workers : i \notin todo'[w]
      <4>1. CASE i = f
        BY <4>1, <1>1, <2>1, <3>1
      <4>2. CASE Started(i)
        BY <4>2, <1>1, <2>5 DEF OnceAt, NotAgain
      <4>3. QED
        BY <3>2, <2>8, <4>1, <4>2
    <3>3. QED
      BY <3>2 DEF NotAgain
  <2>10. QED
    BY <1>1, <2>3, <2>6, <2>7, <2>9 DEF OnceAt, OnePlace
<1>4. QED
  BY <1>2, <1>3

LEMMA OnceStep == BaseInv /\ OnceInv /\ [Next]_vars => OnceInv'
<1> SUFFICES ASSUME BaseInv, OnceInv, [Next]_vars, NEW R \in SUBSET Items, Apart(R)'
             PROVE  OnceAt(R)'
  BY DEF OnceInv
<1>1. Roots' = Roots /\ seenRoots \subseteq seenRoots'
  BY NothingTakenBack DEF Kept, BaseInv, Roots
<1>2. Apart(R) /\ OnceAt(R)
  BY <1>1 DEF Apart, OnceInv
<1>3. ASSUME NEW w \in Workers, Worker(w) PROVE OnceAt(R)'
  BY <1>2, <1>3, OnceStepWorker
<1>4. CASE UNCHANGED vars \/ Outside
  <2>1. UNCHANGED <<scan, scanned, listed, pc, work, todo, item, mainVars>>
    BY <1>4, OutsideFrame DEF vars, envVars, reportVars, workerVars
  <2>2. dirs' = dirs
    BY <1>4, OutsideFrame DEF vars, queueVars, WatcherCloses, Close
  <2>3. QED
    BY <1>1, <1>2, <2>1, <2>2, OnceRests DEF mainVars, OnceAt, OnePlace
<1>5. ASSUME NEW r \in Items, RootDirectory(r) PROVE OnceAt(R)'
  BY <1>2, <1>5, OnceRootDirectory
<1>6. CASE RecordRootFile
  BY <1>2, <1>6, OnceRootFile
<1>7. ASSUME NEW r \in Items, RootFile(r) PROVE OnceAt(R)'
  <2>1. /\ UNCHANGED <<scan, scanned, listed, dirs, pc, work, todo, item, rootIx>>
        /\ r = Roots[rootIx] /\ rootIx \in 1..Len(Roots) /\ r \notin seenRoots /\ r \in Files
    BY <1>7 DEF RootFile, RootAuthorized, AtRoot, workerVars, envVars, queueVars, reportVars
  <2>2. ~Started(r)
    BY <1>2, <2>1, ScanFacts DEF OnceAt, NotAgain, BaseInv
  <2>3. listed[r] = 0
    BY <2>1, <2>2, TypeParts DEF BaseInv, ReportTypes, Started
  <2>4. QED
    BY <1>1, <1>2, <2>1, <2>3, OnceRests
<1>8. ASSUME Main, \A r \in Items : ~RootDirectory(r) /\ ~RootFile(r), ~RecordRootFile
      PROVE  OnceAt(R)'
  <2>1. UNCHANGED <<scan, scanned, work, todo, item, listed>> /\ dirs' = dirs
    BY <1>8, MainFrame DEF envVars, queueVars, StartWorkers, NewQueue
  <2>2. main' # "rootFile"
    BY <1>8 DEF Main, RootsCancelled, RootUnsafe, RootSkipped, RootBeyondLimit, RootFileFails,
       NothingToRead, StartWorkers, WorkersGone, JudgeOutcome, Return, NextRoot
  <2>3. \A w \in Workers : pc'[w] = "open" => pc[w] = "open"
    BY <1>8, MainFrame DEF StartWorkers
  <2>4. QED
    BY <1>1, <1>2, <2>1, <2>2, <2>3, OnceRests
<1>9. QED
  BY <1>3, <1>4, <1>5, <1>6, <1>7, <1>8, Actors

LEMMA OnceInit == Init => OnceInv
<1> SUFFICES ASSUME Init, NEW R \in SUBSET Items PROVE OnceAt(R)
  BY DEF OnceInv
<1>1. /\ dirs = <<>> /\ scanned = {} /\ listed = [f \in Files |-> 0] /\ main = "roots"
      /\ \A w \in Workers : /\ pc[w] = "idle" /\ work[w] = NoWork /\ item[w] = NoItem
                            /\ todo[w] = {}
  BY DEF Init
<1>2. NoItem \notin Items /\ NoWork.dir = NoItem
  BY ScanAssumption DEF NoWork
<1>3. OnePlace
  BY <1>1, <1>2 DEF OnePlace, QueuedOnce, QueuedNotHeld, HeldOnce, HeldNew, Items
<1>4. \A i \in Items : ~Started(i)
  BY <1>1, <1>2 DEF Started
<1>5. QED
  BY <1>1, <1>3, <1>4 DEF OnceAt, NotAgain

LEMMA WalkHonest ==
  ASSUME BaseInv, CompleteInv, OnceInv
  PROVE  VerdictIsHonest
<1>1. SuccessIsComplete /\ FailureHasItsCause
  BY DEF BaseInv, CompleteInv
<1>2. ListedOnce
  <2>1. SUFFICES ASSUME NEW f \in Files, listed[f] > 1, NEW R \in SUBSET Items, Apart(R)
                 PROVE  FALSE
    BY DEF ListedOnce
  <2>2. listed[f] <= 1 /\ listed[f] \in Nat
    BY <2>1, TypeParts DEF OnceInv, OnceAt, BaseInv, ReportTypes
  <2>3. QED
    BY <2>1, <2>2
<1>3. QED
  BY <1>1, <1>2 DEF VerdictIsHonest

\* What a scan returns is true of the walk: success means that everything found was
\* recorded, listed, skipped by a rule or counted; an error has its cause outside
\* the walk; and no file is listed twice below separate roots
\* (collectSurfaceRecords, readDirectory and recordFile).
THEOREM WalkIsHonest == Spec => []VerdictIsHonest
<1>1. Init => BaseInv /\ QueueInv /\ CompleteInv /\ OnceInv
  BY BaseInit, QueueInit, CompleteInit, OnceInit
<1>2. BaseInv /\ QueueInv /\ CompleteInv /\ OnceInv /\ [Next]_vars
        => (BaseInv /\ QueueInv /\ CompleteInv /\ OnceInv)'
  BY BaseStep, QueueKeeps, CompleteStep, OnceStep
<1>3. BaseInv /\ CompleteInv /\ OnceInv => VerdictIsHonest
  BY WalkHonest
<1>4. QED
  BY <1>1, <1>2, <1>3, PTL DEF Spec
=============================================================================
