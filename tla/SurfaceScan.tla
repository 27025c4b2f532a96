----------------------------- MODULE SurfaceScan -----------------------------
(***************************************************************************)
(* collectSurfaceRecords of internal/scanner/engine.go: the concurrent walk *)
(* of the selected roots.  The calling goroutine authorizes the roots,     *)
(* starts the workers and a watcher that turns cancellation into a closed  *)
(* queue, waits for the workers and judges the outcome.  Workers read      *)
(* directories entry by entry, reserve places in the budget with           *)
(* compare-and-swap, and append to the shared report.                      *)
(*                                                                         *)
(* The file system is a fixed forest, except that a root may be replaced   *)
(* at any time; how each item answers (class) is chosen at the start.      *)
(***************************************************************************)
EXTENDS DirectoryQueue, FiniteSets, Functions

CONSTANTS
  Dirs, Files,
  Entries,          \* [Dirs -> SUBSET (Dirs \cup Files)]: the directory tree
  Classifications,  \* the functions from items to classes to consider
  Scans,            \* the calls to consider: the roots, in order, and the limits
  NoItem

Items == Dirs \cup Files

\* plain: readable and eligible; system: skipped by name (ShouldSkipDirectory,
\* IsUserCreatedFilePath); reparse: a link or a path out of the scope;
\* unreadable: cannot be opened; flaky: the listing of a directory may break
\* off, a file may fail to open or to answer, a root after its authorization too.
Classes == {"plain", "system", "reparse", "unreadable", "flaky"}

ASSUME ScanAssumption ==
  /\ Dirs \cap Files = {}
  /\ NoItem \notin Items
  /\ Entries \in [Dirs -> SUBSET Items]
  /\ Classifications \subseteq [Items -> Classes]
  /\ Scans \subseteq [roots : Seq(Items), maxFiles : Nat, maxDirectories : Nat]
  /\ IsFiniteSet(Workers) /\ Workers # {}

VARIABLES
  scan,             \* the call: an element of Scans
  class,
  rootsLost,        \* roots whose path no longer names the authorized object
  ctxCancelled,     \* ctx: cancelled by the user
  scanCancelled,    \* scanCtx: cancelled by the user, a failure or the return
  main,             \* the calling goroutine
  rootIx,           \* the root it looks at
  seenRoots,
  result,           \* what the call returned, "none" while it runs
  watcher,
  scanErr, failOnce,
  fileCount, dirCount,  \* scanBudget
  listed,           \* report.Files: how often each file was appended
  scanned,          \* directories opened and listed
  ignored,          \* items counted in errorsIgnored because of their own error
  pc, work, todo, item, seen, err  \* per worker: locals of readDirectory

Roots == scan.roots
MaxFiles == scan.maxFiles
MaxDirectories == scan.maxDirectories

mainVars == <<main, rootIx, seenRoots, result>>
failVars == <<scanErr, failOnce>>
reportVars == <<fileCount, dirCount, listed, scanned, ignored>>
workerVars == <<pc, work, todo, item, seen, err>>
envVars == <<scan, class, rootsLost, ctxCancelled>>
vars == <<envVars, scanCancelled, mainVars, watcher, failVars, reportVars,
          workerVars, queueVars>>

NoWork == [dir |-> NoItem, scope |-> NoItem]
Works == [dir : Dirs, scope : Range(Roots)]
Errors == {"none", "canceled", "limit", "rootChanged", "queueClosed"}
Results == {"none", "ok", "empty", "unsafe"} \cup (Errors \ {"none"})

\* The program counters of a worker that holds a directory.
Holding == {"open", "entries", "record", "cas", "store", "add", "done"}
Counters == Holding \cup {"idle", "next", "fail", "cancelling", "closing",
                          "exited"}

Init ==
  /\ scan \in Scans
  /\ class \in Classifications
  /\ rootsLost = {}
  /\ ctxCancelled = FALSE
  /\ scanCancelled = FALSE
  /\ main = "roots"
  /\ rootIx = 1
  /\ seenRoots = {}
  /\ result = "none"
  /\ watcher = "idle"
  /\ scanErr = "none"
  /\ failOnce = "open"
  /\ fileCount = 0 /\ dirCount = 0
  /\ listed = [f \in Files |-> 0]
  /\ scanned = {}
  /\ ignored = {}
  /\ pc = [w \in Workers |-> "idle"]
  /\ work = [w \in Workers |-> NoWork]
  /\ todo = [w \in Workers |-> {}]
  /\ item = [w \in Workers |-> NoItem]
  /\ seen = [w \in Workers |-> 0]
  /\ err = [w \in Workers |-> "none"]
  /\ dirs = <<>> /\ pending = 0 /\ closed = FALSE /\ waiting = {}

-----------------------------------------------------------------------------
(* The environment.                                                        *)

UserCancels ==
  /\ ~ctxCancelled
  /\ result = "none"
  /\ ctxCancelled' = TRUE
  /\ scanCancelled' = TRUE
  /\ UNCHANGED <<scan, class, rootsLost, mainVars, watcher, failVars, reportVars,
                 workerVars, queueVars>>

\* Before it is authorized, replacing a root makes no difference.
RootReplaced(r) ==
  /\ r \in seenRoots \ rootsLost
  /\ result = "none"
  /\ rootsLost' = rootsLost \cup {r}
  /\ UNCHANGED <<scan, class, ctxCancelled, scanCancelled, mainVars, watcher,
                 failVars, reportVars, workerVars, queueVars>>

-----------------------------------------------------------------------------
(* The calling goroutine.                                                  *)

\* Every return runs the deferred cancel of scanCtx.
Return(r) ==
  /\ main' = "returned"
  /\ result' = r
  /\ scanCancelled' = TRUE
  /\ UNCHANGED <<rootIx, seenRoots>>

NextRoot ==
  /\ main' = "roots"
  /\ rootIx' = rootIx + 1
  /\ UNCHANGED result

AtRoot(r) ==
  /\ main = "roots"
  /\ rootIx \in 1..Len(Roots)
  /\ r = Roots[rootIx]
  /\ ~scanCancelled

RootsCancelled ==
  /\ main = "roots"
  /\ rootIx \in 1..Len(Roots)
  /\ scanCancelled
  /\ Return("canceled")
  /\ UNCHANGED <<envVars, watcher, failVars, reportVars, workerVars, queueVars>>

RootUnsafe(r) ==
  /\ AtRoot(r)
  /\ class[r] = "reparse"
  /\ Return("unsafe")
  /\ UNCHANGED <<envVars, watcher, failVars, reportVars, workerVars, queueVars>>

RootSkipped(r) ==
  /\ AtRoot(r)
  /\ class[r] \in {"system", "unreadable"} \/ r \in seenRoots
  /\ ignored' = IF class[r] = "unreadable" THEN ignored \cup {r} ELSE ignored
  /\ NextRoot
  /\ UNCHANGED <<envVars, scanCancelled, seenRoots, watcher, failVars, fileCount,
                 dirCount, listed, scanned, workerVars, queueVars>>

\* authorizeScanRoot succeeded for a root not seen before.
RootAuthorized(r) ==
  /\ AtRoot(r)
  /\ class[r] \in {"plain", "flaky"}
  /\ r \notin seenRoots

RootDirectory(r) ==
  /\ RootAuthorized(r)
  /\ r \in Dirs
  /\ dirCount < MaxDirectories
  /\ dirCount' = dirCount + 1
  /\ dirs' = Append(dirs, [dir |-> r, scope |-> r])
  /\ seenRoots' = seenRoots \cup {r}
  /\ NextRoot
  /\ UNCHANGED <<envVars, scanCancelled, watcher, failVars, fileCount, listed,
                 scanned, ignored, workerVars, pending, closed, waiting>>

RootFile(r) ==
  /\ RootAuthorized(r)
  /\ r \in Files
  /\ seenRoots' = seenRoots \cup {r}
  /\ main' = "rootFile"
  /\ UNCHANGED <<envVars, scanCancelled, rootIx, result, watcher, failVars,
                 reportVars, workerVars, queueVars>>

RootBeyondLimit(r) ==
  /\ \/ RootAuthorized(r) /\ r \in Dirs /\ dirCount >= MaxDirectories
     \/ /\ main = "rootFile" /\ r = Roots[rootIx] /\ ~scanCancelled
        /\ fileCount >= MaxFiles
  /\ Return("limit")
  /\ UNCHANGED <<envVars, watcher, failVars, reportVars, workerVars, queueVars>>

\* recordFile of a root that is a file; cancelled, it is counted as an error.
RecordRootFile ==
  /\ main = "rootFile"
  /\ scanCancelled \/ fileCount < MaxFiles
  /\ IF scanCancelled THEN UNCHANGED <<fileCount, listed>>
     ELSE /\ fileCount' = fileCount + 1
          /\ listed' = [listed EXCEPT ![Roots[rootIx]] = @ + 1]
  /\ NextRoot
  /\ UNCHANGED <<envVars, scanCancelled, seenRoots, watcher, failVars, dirCount,
                 scanned, ignored, workerVars, queueVars>>

\* recordFile cannot read a root file that could be authorized.
RootFileFails ==
  /\ main = "rootFile"
  /\ ~scanCancelled
  /\ class[Roots[rootIx]] = "flaky"
  /\ ignored' = ignored \cup {Roots[rootIx]}
  /\ NextRoot
  /\ UNCHANGED <<envVars, scanCancelled, seenRoots, watcher, failVars, fileCount,
                 dirCount, listed, scanned, workerVars, queueVars>>

NothingToRead ==
  /\ main = "roots"
  /\ rootIx > Len(Roots)
  /\ dirs = <<>> /\ fileCount = 0
  /\ Return("empty")
  /\ UNCHANGED <<envVars, watcher, failVars, reportVars, workerVars, queueVars>>

StartWorkers ==
  /\ main = "roots"
  /\ rootIx > Len(Roots)
  /\ dirs # <<>> \/ fileCount > 0
  /\ main' = "waiting"
  /\ NewQueue
  /\ watcher' = "watching"
  /\ pc' = [w \in Workers |-> "next"]
  /\ UNCHANGED <<envVars, scanCancelled, rootIx, seenRoots, result, failVars,
                 reportVars, work, todo, item, seen, err>>

\* wg.Wait returns, and closing queueWatcherDone releases the watcher.
WorkersGone ==
  /\ main = "waiting"
  /\ \A w \in Workers : pc[w] = "exited"
  /\ main' = "waited"
  /\ UNCHANGED <<envVars, scanCancelled, rootIx, seenRoots, result, watcher,
                 failVars, reportVars, workerVars, queueVars>>

\* Mutant: ctx is not looked at again after the workers have ended.
VerdictWithoutContext ==
  IF scanErr # "none" THEN scanErr
  ELSE IF rootsLost \cap seenRoots # {} THEN "rootChanged"
  ELSE "ok"

Verdict ==
  IF ctxCancelled THEN "canceled"
  ELSE IF scanErr # "none" THEN scanErr
  ELSE IF rootsLost \cap seenRoots # {} THEN "rootChanged"
  ELSE "ok"

JudgeOutcome ==
  /\ main = "waited"
  /\ Return(Verdict)
  /\ UNCHANGED <<envVars, watcher, failVars, reportVars, workerVars, queueVars>>

-----------------------------------------------------------------------------
(* The watcher goroutine.                                                  *)

WatcherStep(from, to) == watcher = from /\ watcher' = to

WatcherWakes ==
  /\ WatcherStep("watching", "closing")
  /\ scanCancelled
  /\ UNCHANGED <<envVars, scanCancelled, mainVars, failVars, reportVars,
                 workerVars, queueVars>>

WatcherCloses ==
  /\ WatcherStep("closing", "ended")
  /\ Close
  /\ UNCHANGED <<envVars, scanCancelled, mainVars, failVars, reportVars,
                 workerVars>>

WatcherReleased ==
  /\ WatcherStep("watching", "ended")
  /\ main \in {"waited", "returned"}
  /\ UNCHANGED <<envVars, scanCancelled, mainVars, failVars, reportVars,
                 workerVars, queueVars>>

-----------------------------------------------------------------------------
(* The workers.                                                            *)

Goto(w, to) == pc' = [pc EXCEPT ![w] = to]

\* readDirectory returns e; the worker then calls queue.done.
ReadReturns(w, e) ==
  /\ Goto(w, "done")
  /\ err' = [err EXCEPT ![w] = e]
  /\ todo' = [todo EXCEPT ![w] = {}]
  /\ item' = [item EXCEPT ![w] = NoItem]
  /\ seen' = [seen EXCEPT ![w] = 0]
  /\ UNCHANGED work

NextEntry(w) ==
  /\ Goto(w, "entries")
  /\ item' = [item EXCEPT ![w] = NoItem]
  /\ seen' = [seen EXCEPT ![w] = 0]
  /\ UNCHANGED <<work, todo, err>>

WorkerWaits(w) ==
  /\ pc[w] = "next" /\ w \notin waiting
  /\ Wait(w)
  /\ UNCHANGED <<envVars, scanCancelled, mainVars, watcher, failVars,
                 reportVars, workerVars>>

WorkerLeaves(w) ==
  /\ pc[w] = "next" /\ w \notin waiting
  /\ Exhausted
  /\ Goto(w, "exited")
  /\ UNCHANGED <<envVars, scanCancelled, mainVars, watcher, failVars,
                 reportVars, work, todo, item, seen, err>>

WorkerTakes(w) ==
  /\ pc[w] = "next" /\ w \notin waiting
  /\ \E d \in Works : Take(d) /\ work' = [work EXCEPT ![w] = d]
  /\ Goto(w, "open")
  /\ UNCHANGED <<envVars, scanCancelled, mainVars, watcher, failVars,
                 reportVars, todo, item, seen, err>>

\* ctx.Err is checked before the directory is opened and before each read and
\* entry.
ReadCancelled(w) ==
  /\ pc[w] \in {"open", "entries"}
  /\ scanCancelled
  /\ ReadReturns(w, "canceled")
  /\ UNCHANGED <<envVars, scanCancelled, mainVars, watcher, failVars,
                 reportVars, queueVars>>

OpenFails(w) ==
  /\ pc[w] = "open"
  /\ ~scanCancelled
  /\ work[w].scope \notin rootsLost
  /\ class[work[w].dir] = "unreadable"
  /\ ignored' = ignored \cup {work[w].dir}
  /\ ReadReturns(w, "none")
  /\ UNCHANGED <<envVars, scanCancelled, mainVars, watcher, failVars, fileCount,
                 dirCount, listed, scanned, queueVars>>

OpenFindsRootChanged(w) ==
  /\ pc[w] = "open"
  /\ ~scanCancelled
  /\ work[w].scope \in rootsLost
  /\ ReadReturns(w, "rootChanged")
  /\ UNCHANGED <<envVars, scanCancelled, mainVars, watcher, failVars,
                 reportVars, queueVars>>

Opens(w) ==
  /\ pc[w] = "open"
  /\ ~scanCancelled
  /\ work[w].scope \notin rootsLost
  /\ class[work[w].dir] # "unreadable"
  /\ scanned' = scanned \cup {work[w].dir}
  /\ Goto(w, "entries")
  /\ todo' = [todo EXCEPT ![w] = Entries[work[w].dir]]
  /\ UNCHANGED <<envVars, scanCancelled, mainVars, watcher, failVars, fileCount,
                 dirCount, listed, ignored, queueVars, work, item, seen, err>>

\* A listing that breaks off is counted, and what was not listed is lost.
ReadFails(w) ==
  /\ pc[w] = "entries"
  /\ ~scanCancelled
  /\ class[work[w].dir] = "flaky"
  /\ ignored' = ignored \cup {work[w].dir}
  /\ ReadReturns(w, "none")
  /\ UNCHANGED <<envVars, scanCancelled, mainVars, watcher, failVars, fileCount,
                 dirCount, listed, scanned, queueVars>>

ReadEnds(w) ==
  /\ pc[w] = "entries"
  /\ ~scanCancelled
  /\ todo[w] = {}
  /\ ReadReturns(w, "none")
  /\ UNCHANGED <<envVars, scanCancelled, mainVars, watcher, failVars,
                 reportVars, queueVars>>

\* The next entry: links and system items are skipped, a file goes to
\* recordFile, a directory to the first load of its compare-and-swap loop.
TakesEntry(w) ==
  /\ pc[w] = "entries"
  /\ ~scanCancelled
  /\ \E i \in todo[w] :
       LET skip == class[i] \in {"reparse", "system"} IN
       /\ todo' = [todo EXCEPT ![w] = @ \ {i}]
       /\ Goto(w, IF skip THEN "entries" ELSE IF i \in Dirs THEN "cas" ELSE "record")
       /\ item' = [item EXCEPT ![w] = IF skip THEN NoItem ELSE i]
       /\ seen' = [seen EXCEPT ![w] = IF i \in Dirs /\ ~skip THEN dirCount ELSE 0]
  /\ UNCHANGED <<envVars, scanCancelled, mainVars, watcher, failVars,
                 reportVars, queueVars, work, err>>

\* recordFile: a cancelled context comes back as an error like any other, and
\* the file is passed over.
RecordCancelled(w) ==
  /\ pc[w] = "record"
  /\ scanCancelled
  /\ NextEntry(w)
  /\ UNCHANGED <<envVars, scanCancelled, mainVars, watcher, failVars,
                 reportVars, queueVars>>

RecordFails(w) ==
  /\ pc[w] = "record"
  /\ ~scanCancelled
  /\ class[item[w]] \in {"unreadable", "flaky"}
  /\ ignored' = ignored \cup {item[w]}
  /\ NextEntry(w)
  /\ UNCHANGED <<envVars, scanCancelled, mainVars, watcher, failVars, fileCount,
                 dirCount, listed, scanned, queueVars>>

RecordOpens(w) ==
  /\ pc[w] = "record"
  /\ ~scanCancelled
  /\ class[item[w]] # "unreadable"
  /\ Goto(w, "cas")
  /\ seen' = [seen EXCEPT ![w] = fileCount]
  /\ UNCHANGED <<envVars, scanCancelled, mainVars, watcher, failVars,
                 reportVars, queueVars, work, todo, item, err>>

\* reserveCardinality, after its load.
CounterFor(i) == IF i \in Dirs THEN dirCount ELSE fileCount
LimitFor(i) == IF i \in Dirs THEN MaxDirectories ELSE MaxFiles

ReserveFails(w) ==
  /\ pc[w] = "cas"
  /\ seen[w] >= LimitFor(item[w])
  /\ ReadReturns(w, "limit")
  /\ UNCHANGED <<envVars, scanCancelled, mainVars, watcher, failVars,
                 reportVars, queueVars>>

\* Mutant: load and store instead of compare-and-swap.
ReservesByStore(w) ==
  /\ pc[w] = "cas"
  /\ seen[w] < LimitFor(item[w])
  /\ IF item[w] \in Dirs
       THEN dirCount' = seen[w] + 1 /\ UNCHANGED fileCount
       ELSE fileCount' = seen[w] + 1 /\ UNCHANGED dirCount
  /\ Goto(w, IF item[w] \in Dirs THEN "add" ELSE "store")
  /\ UNCHANGED <<envVars, scanCancelled, mainVars, watcher, failVars, listed,
                 scanned, ignored, queueVars, work, todo, item, seen, err>>

Reserves(w) ==
  /\ pc[w] = "cas"
  /\ seen[w] < LimitFor(item[w])
  /\ seen[w] = CounterFor(item[w])
  /\ IF item[w] \in Dirs
       THEN dirCount' = seen[w] + 1 /\ UNCHANGED fileCount
       ELSE fileCount' = seen[w] + 1 /\ UNCHANGED dirCount
  /\ Goto(w, IF item[w] \in Dirs THEN "add" ELSE "store")
  /\ UNCHANGED <<envVars, scanCancelled, mainVars, watcher, failVars, listed,
                 scanned, ignored, queueVars, work, todo, item, seen, err>>

ReserveRetries(w) ==
  /\ pc[w] = "cas"
  /\ seen[w] < LimitFor(item[w])
  /\ seen[w] # CounterFor(item[w])
  /\ seen' = [seen EXCEPT ![w] = CounterFor(item[w])]
  /\ UNCHANGED <<envVars, scanCancelled, mainVars, watcher, failVars,
                 reportVars, queueVars, pc, work, todo, item, err>>

\* The append under mu, after which recordFile returns nil.
StoresRecord(w) ==
  /\ pc[w] = "store"
  /\ listed' = [listed EXCEPT ![item[w]] = @ + 1]
  /\ NextEntry(w)
  /\ UNCHANGED <<envVars, scanCancelled, mainVars, watcher, failVars, fileCount,
                 dirCount, scanned, ignored, queueVars>>

AddsDirectory(w) ==
  /\ pc[w] = "add"
  /\ Add([dir |-> item[w], scope |-> work[w].scope])
  /\ NextEntry(w)
  /\ UNCHANGED <<envVars, scanCancelled, mainVars, watcher, failVars,
                 reportVars>>

\* A refused add reports the cancellation, or else that the queue was closed.
AddIsRefused(w) ==
  /\ pc[w] = "add"
  /\ AddRefused
  /\ ReadReturns(w, IF scanCancelled THEN "canceled" ELSE "queueClosed")
  /\ UNCHANGED <<envVars, scanCancelled, mainVars, watcher, failVars,
                 reportVars>>

FinishesDirectory(w) ==
  /\ pc[w] = "done"
  /\ Done
  /\ Goto(w, IF err[w] = "none" THEN "next" ELSE "fail")
  /\ work' = [work EXCEPT ![w] = NoWork]
  /\ UNCHANGED <<envVars, scanCancelled, mainVars, watcher, failVars,
                 reportVars, todo, item, seen, err>>

\* fail: the first error is kept, then scanCtx cancelled, then the queue closed.
FailsFirst(w) ==
  /\ pc[w] = "fail" /\ failOnce = "open"
  /\ failOnce' = "running"
  /\ scanErr' = err[w]
  /\ Goto(w, "cancelling")
  /\ UNCHANGED <<envVars, scanCancelled, mainVars, watcher, reportVars,
                 queueVars, work, todo, item, seen, err>>

CancelsScan(w) ==
  /\ pc[w] = "cancelling"
  /\ scanCancelled' = TRUE
  /\ Goto(w, "closing")
  /\ UNCHANGED <<envVars, mainVars, watcher, failVars, reportVars, queueVars,
                 work, todo, item, seen, err>>

ClosesQueue(w) ==
  /\ pc[w] = "closing"
  /\ Close
  /\ failOnce' = "done"
  /\ Goto(w, "exited")
  /\ UNCHANGED <<envVars, scanCancelled, mainVars, watcher, scanErr,
                 reportVars, work, todo, item, seen, err>>

\* sync.Once makes a later caller wait for the first one.
FailsLater(w) ==
  /\ pc[w] = "fail" /\ failOnce = "done"
  /\ Goto(w, "exited")
  /\ UNCHANGED <<envVars, scanCancelled, mainVars, watcher, failVars,
                 reportVars, queueVars, work, todo, item, seen, err>>

Reads(w) ==
  \/ WorkerTakes(w)
  \/ ReadCancelled(w) \/ OpenFails(w) \/ OpenFindsRootChanged(w) \/ Opens(w)
  \/ ReadFails(w) \/ ReadEnds(w) \/ TakesEntry(w)
  \/ RecordCancelled(w) \/ RecordFails(w) \/ RecordOpens(w)
  \/ ReserveFails(w) \/ Reserves(w) \/ ReserveRetries(w) \/ StoresRecord(w)
  \/ AddsDirectory(w) \/ AddIsRefused(w)

Ends(w) ==
  \/ WorkerWaits(w) \/ WorkerLeaves(w) \/ FinishesDirectory(w)
  \/ FailsFirst(w) \/ CancelsScan(w) \/ ClosesQueue(w) \/ FailsLater(w)

Worker(w) == Reads(w) \/ Ends(w)

Watcher == WatcherWakes \/ WatcherCloses \/ WatcherReleased

Main ==
  \/ RootsCancelled
  \/ \E r \in Items : \/ RootUnsafe(r) \/ RootSkipped(r) \/ RootDirectory(r)
                      \/ RootFile(r) \/ RootBeyondLimit(r)
  \/ RecordRootFile \/ RootFileFails \/ NothingToRead \/ StartWorkers \/ WorkersGone
  \/ JudgeOutcome

Terminated ==
  /\ main = "returned"
  /\ watcher \in {"idle", "ended"}
  /\ UNCHANGED vars

Next ==
  \/ UserCancels
  \/ \E r \in Range(Roots) : RootReplaced(r)
  \/ Main
  \/ Watcher
  \/ \E w \in Workers : Worker(w)
  \/ Terminated

Spec == Init /\ [][Next]_vars

\* Each goroutine keeps running, and file operations return.
FairSpec ==
  /\ Spec
  /\ WF_vars(Main) /\ WF_vars(Watcher)
  /\ \A w \in Workers : WF_vars(Worker(w))

-----------------------------------------------------------------------------
(* Properties.                                                             *)

WorkersAt(counters) == {w \in Workers : pc[w] \in counters}

\* The types of the walk's variables.
TypeOK ==
  /\ scan \in Scans
  /\ class \in [Items -> Classes]
  /\ rootsLost \in SUBSET Range(Roots)
  /\ ctxCancelled \in BOOLEAN /\ scanCancelled \in BOOLEAN
  /\ main \in {"roots", "rootFile", "waiting", "waited", "returned"}
  /\ rootIx \in 1..(Len(Roots) + 1)
  /\ seenRoots \in SUBSET Range(Roots)
  /\ result \in Results
  /\ watcher \in {"idle", "watching", "closing", "ended"}
  /\ scanErr \in Errors
  /\ failOnce \in {"open", "running", "done"}
  /\ fileCount \in 0..MaxFiles /\ dirCount \in 0..MaxDirectories
  /\ listed \in [Files -> Nat]
  /\ scanned \in SUBSET Dirs
  /\ ignored \in SUBSET Items
  /\ pc \in [Workers -> Counters]
  /\ work \in [Workers -> Works \cup {NoWork}]
  /\ todo \in [Workers -> SUBSET Items]
  /\ item \in [Workers -> Items \cup {NoItem}]
  /\ seen \in [Workers -> Nat]
  /\ err \in [Workers -> Errors]
  /\ dirs \in Seq(Works)
  /\ pending \in Nat
  /\ closed \in BOOLEAN
  /\ waiting \in SUBSET Workers

\* pending is what the termination test takes it for: the directories queued
\* and those being read.  Too small and the walk ends early, too large and the
\* workers sleep for ever.
PendingCountsWork ==
  main \notin {"roots", "rootFile"} /\ watcher # "idle" =>
    pending = Len(dirs) + Cardinality(WorkersAt(Holding))

\* A worker sleeps in Wait only if every queued directory has another worker on
\* its way to it: no wakeup is lost, no parallelism is left unused.
QueuedWorkIsServed ==
  waiting # {} => Len(dirs) <= Cardinality(WorkersAt({"next"}) \ waiting)

\* The queue is closed only once the context is cancelled, so that the error
\* "directory queue closed before scan completed" is never reported.
ClosedOnlyWhenCancelled ==
  /\ closed => scanCancelled
  /\ \A w \in Workers : err[w] # "queueClosed"

\* The queue does what the workers rely on (and the variables have their types).
QueueIsSound ==
  /\ TypeOK
  /\ PendingCountsWork
  /\ QueuedWorkIsServed
  /\ ClosedOnlyWhenCancelled

\* The records of the report: the n-th of file f is <<f, n>>.
Records == UNION {{f} \X (1..listed[f]) : f \in Files}

\* The budget is never overdrawn, and a report's TotalFiles, taken from the
\* budget, is the number of the records it holds.
BudgetMatchesReport ==
  /\ fileCount <= MaxFiles /\ dirCount <= MaxDirectories
  /\ fileCount = Cardinality(Records) + Cardinality(WorkersAt({"store"}))

Accounted(i) ==
  \/ class[i] \in {"system", "reparse"}
  \/ i \in ignored
  \/ i \in Dirs /\ i \in scanned
  \/ i \in Files /\ listed[i] > 0

\* A successful report is complete: nothing reachable was passed over because
\* of a cancellation, every file was recorded or counted as unreadable, every
\* directory was listed, or was counted because it could not be.
SuccessIsComplete ==
  result = "ok" =>
    /\ \A r \in Range(Roots) : Accounted(r)
    /\ \A d \in scanned \ ignored : \A i \in Entries[d] : Accounted(i)

\* An error returned has its cause outside the walk: a scan its own failure
\* cancelled is never reported as cancelled by the user.
FailureHasItsCause ==
  /\ result = "canceled" => ctxCancelled
  /\ result = "rootChanged" => rootsLost # {}
  /\ result = "limit" => fileCount = MaxFiles \/ dirCount = MaxDirectories
  /\ result = "queueClosed" => FALSE

\* R holds the roots and what lies below them, and there nothing lies in two
\* directories, and no root in any.
Apart(R) ==
  /\ Range(Roots) \subseteq R
  /\ \A d \in R \cap Dirs :
       /\ Entries[d] \subseteq R
       /\ Entries[d] \cap Range(Roots) = {}
       /\ \A e \in R \cap Dirs : Entries[d] \cap Entries[e] # {} => d = e

\* With roots none of which lies below another, no file is listed twice, even
\* if a root is selected twice.
ListedOnce ==
  (\E f \in Files : listed[f] > 1) => ~\E R \in SUBSET Items : Apart(R)

\* What the call says of the walk is true.
VerdictIsHonest == SuccessIsComplete /\ FailureHasItsCause /\ ListedOnce

\* Every scan returns, and no goroutine outlives it for ever.
ScanReturns == <>(result # "none")
NoGoroutineLeft ==
  <>[](\A w \in Workers : pc[w] \in {"idle", "exited"}) /\ <>[](watcher \in {"idle", "ended"})
=============================================================================
