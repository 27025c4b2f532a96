-------------------------- MODULE PreviewWorker_proofs --------------------------
(***************************************************************************)
(* Proofs about PreviewWorker, for any bounds on the generations and on the *)
(* changes of the folder.                                                   *)
(***************************************************************************)
EXTENDS PreviewWorker, SequenceTheorems, TLAPS

Results == [token : Tokens, dir : 0..MaxGeneration, failed : BOOLEAN]

\* The generations of the requests on their way, 0 where there is none.
SubmittedGen == outgoing.token.generation
QueuedGen == queue.token.generation
RequestGen == request.token.generation
PostedGen(i) == posted[i].token.generation

\* The generations leave room for the end of a scan and for the close; all in
\* use are past ones.
WithinBounds ==
  /\ nextGeneration + (IF phase = "scan" THEN 1 ELSE 0)
                    + (IF closed THEN 0 ELSE 1) <= MaxGeneration
  /\ modelRevision <= nextGeneration
  /\ \A g \in cancelled \cup dirs \cup {currentDir} : g <= nextGeneration

\* The UI thread submits the request in force, and none after it is closed.
UIInv ==
  /\ ui = "loop" <=> outgoing = NoRequest
  /\ ui # "loop" => outgoing.token = active
  /\ ui = "resend" => queue = NoRequest
  /\ uiClosing => closed
  /\ closed => previewCancel = 0
  /\ previewCancel \notin cancelled

\* What the goroutine has at each position.
WorkerInv ==
  /\ pc \in {"waiting", "ended"} <=> request = NoRequest
  /\ pc \notin {"prepared", "posting"} => result = NoResult
  /\ pc \in {"prepared", "posting"} =>
       /\ result \in Results
       /\ result.token = request.token
       /\ result.dir \in {0, RequestGen}
       /\ RequestGen \in dirs => result.dir = RequestGen
  /\ pc = "start" => RequestGen \notin dirs
  /\ pc = "page" => RequestGen \in dirs

\* Requests are on their way in the order of their generations, from the UI
\* thread through the queue and the goroutine to the posted results.
InOrder ==
  /\ posted \in Seq(Results)
  /\ \A i \in DOMAIN posted :
       /\ posted[i].dir \in {0, PostedGen(i)}
       /\ \A j \in DOMAIN posted : i < j => PostedGen(i) < PostedGen(j)
       /\ PostedGen(i) <= nextGeneration
       /\ \A g \in {RequestGen, QueuedGen, SubmittedGen} : g # 0 => PostedGen(i) < g
  /\ QueuedGen # 0 => RequestGen < QueuedGen
  /\ SubmittedGen # 0 => RequestGen < SubmittedGen /\ QueuedGen < SubmittedGen
  /\ \A g \in {RequestGen, QueuedGen, SubmittedGen} : g <= nextGeneration

\* A directory belongs to one request: that of the result that names it, the one
\* being prepared, or the one on display.
DirectoriesOwned ==
  /\ \A r \in InFlight : r.dir # 0 => r.dir \in dirs
  /\ QueuedGen \notin dirs /\ SubmittedGen \notin dirs
  /\ currentDir # 0 =>
       /\ currentDir \notin {RequestGen, QueuedGen, SubmittedGen}
       /\ \A i \in DOMAIN posted : PostedGen(i) # currentDir

\* The inductive invariant.
PreviewInv ==
  /\ TypeOK
  /\ WithinBounds
  /\ UIInv
  /\ WorkerInv
  /\ InOrder
  /\ DirectoriesOwned
  /\ DirectoriesAccounted
  /\ NewestInFlight

-----------------------------------------------------------------------------
(* Requests and results.                                                   *)

\* What is on its way is a request with a generation, or nothing with 0.
LEMMA RequestFacts ==
  ASSUME NEW x \in Requests \cup {NoRequest}
  PROVE  /\ x.token \in Tokens \cup {NoToken}
         /\ x.token.generation \in 0..MaxGeneration
         /\ x = NoRequest <=> x.token.generation = 0
         /\ x = NoRequest <=> x.token = NoToken
BY PreviewAssumption DEF Requests, NoRequest, Tokens, NoToken

LEMMA GenerationsTyped ==
  ASSUME TypeOK
  PROVE  /\ SubmittedGen \in 0..MaxGeneration /\ QueuedGen \in 0..MaxGeneration
         /\ RequestGen \in 0..MaxGeneration
         /\ outgoing = NoRequest <=> SubmittedGen = 0
         /\ queue = NoRequest <=> QueuedGen = 0
         /\ request = NoRequest <=> RequestGen = 0
         /\ outgoing.token \in Tokens \cup {NoToken}
         /\ queue.token \in Tokens \cup {NoToken}
         /\ request.token \in Tokens \cup {NoToken}
<1>1. /\ outgoing \in Requests \cup {NoRequest}
      /\ queue \in Requests \cup {NoRequest}
      /\ request \in Requests \cup {NoRequest}
  BY DEF TypeOK
<1>2. QED
  BY <1>1, RequestFacts DEF SubmittedGen, QueuedGen, RequestGen

\* The token in force has a generation, that of the last one begun.
LEMMA ActiveFacts ==
  ASSUME TypeOK
  PROVE  /\ nextGeneration \in Nat /\ modelRevision \in Nat /\ MaxGeneration \in Nat
         /\ active.generation \in 0..MaxGeneration
         /\ active = NoToken <=> active.generation = 0
         /\ active # NoToken => active.generation = nextGeneration
         /\ previewCancel # 0 => active # NoToken /\ previewCancel = active.generation
BY PreviewAssumption DEF TypeOK, Tokens, NoToken

LEMMA ResultFacts ==
  /\ NoResult.dir = 0 /\ NoResult.token = NoToken
  /\ \A r \in Results : /\ r.token \in Tokens /\ r.dir \in 0..MaxGeneration
                         /\ r.token.generation \in 1..MaxGeneration
                         /\ r.token # NoToken
BY DEF NoResult, Results, Tokens, NoToken

LEMMA PostedFacts ==
  ASSUME InOrder, NEW i \in DOMAIN posted
  PROVE  /\ posted[i] \in Results /\ posted[i] \in InFlight
         /\ PostedGen(i) \in 1..MaxGeneration
         /\ posted[i].dir \in {0, PostedGen(i)}
<1>1. posted \in Seq(Results) /\ posted[i].dir \in {0, PostedGen(i)}
  BY DEF InOrder
<1>2. posted[i] \in Results
  BY <1>1, ElementOfSeq
<1>3. QED
  BY <1>1, <1>2, ResultFacts DEF InFlight, PostedGen

\* A directory in flight is that of a posted request or of the one prepared.
LEMMA DirInFlight ==
  ASSUME InOrder, WorkerInv, NEW r \in InFlight, r.dir # 0
  PROVE  \/ r = result /\ r.dir = RequestGen /\ pc \in {"prepared", "posting"}
         \/ \E i \in DOMAIN posted : r = posted[i] /\ r.dir = PostedGen(i)
BY ResultFacts DEF InFlight, WorkerInv, InOrder

-----------------------------------------------------------------------------
(* The initial state.                                                      *)

LEMMA InitEstablishes == Init => PreviewInv
<1> SUFFICES ASSUME Init PROVE PreviewInv
  OBVIOUS
<1>1. TypeOK
  <2>1. 0 \in 0..MaxGeneration /\ 0 \in 0..MaxFolderRevision
    BY PreviewAssumption
  <2>2. active = NoToken /\ previewCancel = 0
    BY DEF Init
  <2>3. {outgoing, queue, request} \subseteq Requests \cup {NoRequest}
    BY DEF Init
  <2>4. QED
    BY <2>1, <2>2, <2>3 DEF Init, TypeOK
<1>2. WithinBounds
  BY PreviewAssumption DEF Init, WithinBounds
<1>3. UIInv /\ WorkerInv
  BY DEF Init, UIInv, WorkerInv
<1>4. RequestGen = 0 /\ QueuedGen = 0 /\ SubmittedGen = 0
  BY DEF Init, RequestGen, QueuedGen, SubmittedGen, NoRequest, NoToken
<1>5. InOrder
  BY <1>4 DEF Init, InOrder
<1>6. InFlight = {NoResult}
  BY DEF Init, InFlight
<1>7. DirectoriesOwned /\ DirectoriesAccounted
  BY <1>4, <1>6, ResultFacts DEF Init, DirectoriesOwned, DirectoriesAccounted
<1>8. NewestInFlight
  BY DEF Init, NewestInFlight
<1>9. QED
  BY <1>1, <1>2, <1>3, <1>5, <1>7, <1>8 DEF PreviewInv

-----------------------------------------------------------------------------
(* The UI thread.                                                          *)

\* A preview that is invalidated preserves the invariant, whatever the operation
\* that does it makes of the phase, the folder and the window.
LEMMA InvalidatePreserves ==
  ASSUME PreviewInv, AtLoop, Invalidate,
         UNCHANGED <<submitVars, queue, workerVars, posted>>,
         folderRevision' \in 0..MaxFolderRevision,
         phase' \in {"ready", "scan", "export"},
         closed' \in BOOLEAN, uiClosing' \in BOOLEAN, uiClosing' => closed',
         nextGeneration + 1 + (IF phase' = "scan" THEN 1 ELSE 0)
                        + (IF closed' THEN 0 ELSE 1) <= MaxGeneration
  PROVE  PreviewInv'
<1>1. /\ nextGeneration' = nextGeneration + 1 /\ modelRevision' = modelRevision + 1
      /\ active' = NoToken /\ previewCancel' = 0 /\ currentDir' = 0
      /\ cancelled' = cancelled \cup ({previewCancel} \ {0})
      /\ dirs' = dirs \ {currentDir} /\ interrupted' = FALSE
  BY DEF Invalidate, Without
<1>2. /\ ui' = ui /\ outgoing' = outgoing /\ queue' = queue /\ pc' = pc
      /\ request' = request /\ result' = result /\ posted' = posted
      /\ InFlight' = InFlight /\ RequestGen' = RequestGen
      /\ QueuedGen' = QueuedGen /\ SubmittedGen' = SubmittedGen
      /\ \A i \in DOMAIN posted : PostedGen(i)' = PostedGen(i)
  BY DEF submitVars, workerVars, InFlight, RequestGen, QueuedGen, SubmittedGen, PostedGen
<1>3. /\ TypeOK /\ nextGeneration \in Nat /\ modelRevision \in Nat
      /\ MaxGeneration \in Nat /\ nextGeneration + 1 <= MaxGeneration
      /\ modelRevision <= nextGeneration
      /\ previewCancel \in 0..nextGeneration /\ cancelled \subseteq 1..MaxGeneration
      /\ dirs \subseteq 1..MaxGeneration /\ currentDir \in 0..MaxGeneration
  BY ActiveFacts DEF PreviewInv, WithinBounds, TypeOK
<1>4. TypeOK'
  <2>1. /\ nextGeneration' \in 0..MaxGeneration /\ modelRevision' \in 0..MaxGeneration
        /\ cancelled' \in SUBSET (1..MaxGeneration) /\ dirs' \in SUBSET (1..MaxGeneration)
        /\ currentDir' \in 0..MaxGeneration
    BY <1>1, <1>3
  <2>2. QED
    BY <2>1, <1>1, <1>2 DEF PreviewInv, TypeOK
<1>5. WithinBounds'
  BY <1>1, <1>3 DEF PreviewInv, WithinBounds
<1>6. UIInv'
  BY <1>1, <1>2, <1>3 DEF PreviewInv, UIInv, AtLoop
<1>7. WorkerInv'
  BY <1>1, <1>2, <1>3, GenerationsTyped DEF PreviewInv, WorkerInv, DirectoriesOwned, TypeOK
<1>8. InOrder'
  <2>1. \A g \in {RequestGen, QueuedGen, SubmittedGen} : g \in Nat
    BY <1>3, GenerationsTyped
  <2>2. \A i \in DOMAIN posted : PostedGen(i) \in Nat /\ PostedGen(i) <= nextGeneration'
    BY <1>1, <1>3, PostedFacts DEF PreviewInv, InOrder
  <2>3. \A g \in {RequestGen, QueuedGen, SubmittedGen} : g <= nextGeneration'
    BY <1>1, <1>3, <2>1 DEF PreviewInv, InOrder
  <2>4. \A i \in DOMAIN posted : PostedGen(i)' = PostedGen(i)
    BY <1>2
  <2>5. QED
    BY <1>2, <2>2, <2>3, <2>4 DEF PreviewInv, InOrder
<1>9. DirectoriesOwned'
  <2>1. ASSUME NEW r \in InFlight, r.dir # 0 PROVE r.dir \in dirs'
    <3>1. r.dir \in dirs
      BY <2>1 DEF PreviewInv, DirectoriesOwned
    <3>2. r.dir # currentDir
      BY <2>1, DirInFlight DEF PreviewInv, DirectoriesOwned
    <3>3. QED
      BY <3>1, <3>2, <1>1
  <2>2. QED
    BY <2>1, <1>1, <1>2 DEF PreviewInv, DirectoriesOwned
<1>10. DirectoriesAccounted'
  BY <1>1, <1>2 DEF PreviewInv, DirectoriesAccounted, AtLoop
<1>11. NewestInFlight'
  BY <1>1 DEF NewestInFlight
<1>12. QED
  BY <1>4, <1>5, <1>6, <1>7, <1>8, <1>9, <1>10, <1>11 DEF PreviewInv

\* A new request is newer than everything on its way, on display or cancelled.
LEMMA RequestPreserves ==
  ASSUME PreviewInv, NEW mode \in Modes, PreviewRequested(mode)
  PROVE  PreviewInv'
<1> DEFINE token == [generation     |-> nextGeneration + 2,
                     modelRevision  |-> modelRevision + 1,
                     folderRevision |-> folderRevision]
<1>1. /\ nextGeneration' = nextGeneration + 2 /\ modelRevision' = modelRevision + 1
      /\ active' = token /\ previewCancel' = nextGeneration + 2 /\ currentDir' = 0
      /\ outgoing' = [token |-> token, mode |-> mode]
      /\ cancelled' = cancelled \cup ({previewCancel} \ {0})
      /\ dirs' = dirs \ {currentDir} /\ interrupted' = FALSE
      /\ ui = "loop" /\ ~uiClosing /\ ui' = "send" /\ phase = "ready" /\ ~closed
      /\ nextGeneration + 2 + 2 <= MaxGeneration
  BY DEF PreviewRequested, Room, AtLoop, Without
<1>2. /\ queue' = queue /\ pc' = pc /\ request' = request /\ result' = result
      /\ posted' = posted /\ folderRevision' = folderRevision /\ phase' = phase
      /\ closed' = closed /\ uiClosing' = uiClosing
      /\ InFlight' = InFlight /\ RequestGen' = RequestGen /\ QueuedGen' = QueuedGen
      /\ \A i \in DOMAIN posted : PostedGen(i)' = PostedGen(i)
  BY DEF PreviewRequested, appVars, workerVars, InFlight, RequestGen, QueuedGen, PostedGen
<1>3. /\ TypeOK /\ WithinBounds /\ UIInv /\ WorkerInv /\ InOrder /\ DirectoriesOwned
      /\ DirectoriesAccounted
      /\ nextGeneration \in Nat /\ modelRevision \in Nat /\ MaxGeneration \in Nat
      /\ modelRevision <= nextGeneration /\ folderRevision \in 0..MaxFolderRevision
      /\ previewCancel \in 0..nextGeneration /\ cancelled \subseteq 1..MaxGeneration
      /\ dirs \subseteq 1..MaxGeneration /\ currentDir \in 0..MaxGeneration
      /\ \A g \in cancelled \cup dirs \cup {currentDir} : g <= nextGeneration
  BY ActiveFacts DEF PreviewInv, WithinBounds, TypeOK
<1>4. SubmittedGen' = nextGeneration + 2
  BY <1>1 DEF SubmittedGen
<1>5. token \in Tokens /\ token.generation = nextGeneration + 2 /\ token # NoToken
  BY <1>1, <1>3 DEF Tokens, NoToken
<1>6. TypeOK'
  <2>1. {outgoing', queue', request'} \subseteq Requests \cup {NoRequest}
    <3>1. outgoing' \in Requests
      BY <1>1, <1>5 DEF Requests
    <3>2. QED
      BY <1>2, <1>3, <3>1 DEF TypeOK
  <2>2. /\ nextGeneration' \in 0..MaxGeneration /\ modelRevision' \in 0..MaxGeneration
        /\ cancelled' \in SUBSET (1..MaxGeneration) /\ dirs' \in SUBSET (1..MaxGeneration)
        /\ currentDir' \in 0..MaxGeneration
    BY <1>1, <1>3
  <2>3. /\ active' \in Tokens \cup {NoToken}
        /\ previewCancel' \in {0, active'.generation}
        /\ active' = [generation |-> nextGeneration', modelRevision |-> modelRevision',
                      folderRevision |-> folderRevision']
    BY <1>1, <1>2, <1>5
  <2>4. QED
    BY <2>1, <2>2, <2>3, <1>1, <1>2, <1>3 DEF TypeOK
<1>7. WithinBounds'
  BY <1>1, <1>2, <1>3 DEF WithinBounds
<1>8. UIInv'
  <2>1. outgoing' # NoRequest
    BY <1>1, <1>5 DEF NoRequest
  <2>2. nextGeneration + 2 \notin cancelled'
    BY <1>1, <1>3
  <2>3. QED
    BY <2>1, <2>2, <1>1, <1>2 DEF UIInv
<1>9. WorkerInv'
  <2>1. pc \in {"prepared", "posting"} /\ RequestGen \in dirs' => RequestGen \in dirs
    BY <1>1
  <2>2. pc = "page" => RequestGen \in dirs'
    BY <1>1, <1>3, GenerationsTyped DEF WorkerInv, DirectoriesOwned
  <2>3. QED
    BY <2>1, <2>2, <1>1, <1>2, <1>3 DEF WorkerInv
<1>10. InOrder'
  <2>1. RequestGen \in Nat /\ QueuedGen \in Nat
    BY <1>3, GenerationsTyped
  <2>2. \A i \in DOMAIN posted :
          PostedGen(i) \in Nat /\ PostedGen(i) <= nextGeneration
    BY <1>3, PostedFacts DEF InOrder
  <2>3. RequestGen <= nextGeneration /\ QueuedGen <= nextGeneration
    BY <1>3 DEF InOrder
  <2>4. /\ \A i \in DOMAIN posted : PostedGen(i) < SubmittedGen' /\ PostedGen(i) <= nextGeneration'
        /\ RequestGen < SubmittedGen' /\ QueuedGen < SubmittedGen'
        /\ RequestGen <= nextGeneration' /\ QueuedGen <= nextGeneration'
        /\ SubmittedGen' <= nextGeneration'
    BY <2>1, <2>2, <2>3, <1>1, <1>3, <1>4
  <2>5. \A i \in DOMAIN posted :
          \A g \in {RequestGen, QueuedGen, SubmittedGen'} : g # 0 => PostedGen(i) < g
    BY <2>4, <1>3 DEF InOrder
  <2>6. QED
    BY <2>4, <2>5, <1>2, <1>3 DEF InOrder
<1>11. DirectoriesOwned'
  <2>1. ASSUME NEW r \in InFlight, r.dir # 0 PROVE r.dir \in dirs'
    <3>1. r.dir \in dirs
      BY <2>1, <1>3 DEF DirectoriesOwned
    <3>2. r.dir # currentDir
      BY <2>1, <1>3, DirInFlight DEF DirectoriesOwned
    <3>3. QED
      BY <3>1, <3>2, <1>1
  <2>2. SubmittedGen' \notin dirs'
    BY <1>1, <1>3, <1>4
  <2>3. QED
    BY <2>1, <2>2, <1>1, <1>2, <1>3 DEF DirectoriesOwned
<1>12. DirectoriesAccounted'
  BY <1>1, <1>2, <1>3 DEF DirectoriesAccounted
<1>13. NewestInFlight'
  BY <1>1 DEF NewestInFlight
<1>14. QED
  BY <1>6, <1>7, <1>8, <1>9, <1>10, <1>11, <1>12, <1>13 DEF PreviewInv

\* Submitting hands the request over, or throws away one that is superseded.
LEMMA SubmitPreserves ==
  ASSUME PreviewInv, Submitting
  PROVE  PreviewInv'
<1>1. /\ UNCHANGED <<requestVars, appVars, workerVars, posted, dirs>>
      /\ ui # "loop"
      /\ \/ ui' = "loop" /\ queue' = outgoing /\ outgoing' = NoRequest
         \/ /\ ui' \in {"drain", "resend"} /\ outgoing' = outgoing
            /\ queue' \in {queue, NoRequest}
            /\ ui' = "resend" => queue' = NoRequest
  BY DEF PreviewInv, UIInv, Submitting, Send, Drain, Resend, Submitted
<1>2. /\ pc' = pc /\ request' = request /\ result' = result /\ posted' = posted
      /\ dirs' = dirs /\ active' = active /\ currentDir' = currentDir
      /\ nextGeneration' = nextGeneration /\ modelRevision' = modelRevision
      /\ previewCancel' = previewCancel /\ cancelled' = cancelled
      /\ interrupted' = interrupted /\ folderRevision' = folderRevision
      /\ phase' = phase /\ closed' = closed /\ uiClosing' = uiClosing
      /\ InFlight' = InFlight /\ RequestGen' = RequestGen
      /\ \A i \in DOMAIN posted : PostedGen(i)' = PostedGen(i)
  BY <1>1 DEF requestVars, appVars, workerVars, InFlight, RequestGen, PostedGen
<1>3. /\ TypeOK /\ WithinBounds /\ UIInv /\ WorkerInv /\ InOrder /\ DirectoriesOwned
      /\ DirectoriesAccounted /\ NewestInFlight
  BY DEF PreviewInv
<1>4. /\ NoRequest.token.generation = 0 /\ NoRequest.token = NoToken
  BY DEF NoRequest, NoToken
<1>5. /\ outgoing # NoRequest /\ SubmittedGen # 0 /\ outgoing.token = active
      /\ SubmittedGen \in Nat /\ QueuedGen \in Nat /\ RequestGen \in Nat
      /\ nextGeneration \in Nat
  BY <1>1, <1>3, GenerationsTyped, ActiveFacts DEF UIInv
<1>6. \/ QueuedGen' = SubmittedGen /\ SubmittedGen' = 0
      \/ QueuedGen' \in {QueuedGen, 0} /\ SubmittedGen' = SubmittedGen
  BY <1>1, <1>4 DEF QueuedGen, SubmittedGen
<1>7. TypeOK'
  BY <1>1, <1>2, <1>3 DEF TypeOK
<1>8. WithinBounds' /\ WorkerInv' /\ DirectoriesAccounted'
  BY <1>2, <1>3 DEF WithinBounds, WorkerInv, DirectoriesAccounted
<1>9. UIInv'
  BY <1>1, <1>2, <1>3, <1>5 DEF UIInv
<1>10. InOrder'
  <2>1. \A i \in DOMAIN posted :
          PostedGen(i) < SubmittedGen /\ (QueuedGen # 0 => PostedGen(i) < QueuedGen)
    BY <1>3, <1>5 DEF InOrder
  <2>2. \A i \in DOMAIN posted :
          \A g \in {RequestGen, QueuedGen', SubmittedGen'} : g # 0 => PostedGen(i) < g
    BY <1>3, <1>6, <2>1 DEF InOrder
  <2>3. /\ QueuedGen' # 0 => RequestGen < QueuedGen'
        /\ SubmittedGen' # 0 => RequestGen < SubmittedGen' /\ QueuedGen' < SubmittedGen'
        /\ \A g \in {RequestGen, QueuedGen', SubmittedGen'} : g <= nextGeneration
    BY <1>3, <1>5, <1>6 DEF InOrder
  <2>4. QED
    BY <2>2, <2>3, <1>2, <1>3 DEF InOrder
<1>11. DirectoriesOwned'
  <2>1. 0 \notin dirs
    BY <1>3 DEF TypeOK
  <2>2. QED
    BY <2>1, <1>2, <1>3, <1>6 DEF DirectoriesOwned
<1>12. NewestInFlight'
  BY <1>1, <1>2, <1>5 DEF NewestInFlight
<1>13. QED
  BY <1>7, <1>8, <1>9, <1>10, <1>11, <1>12 DEF PreviewInv

\* An export changes the phase, and at its end the window may close.
LEMMA ExportPreserves ==
  ASSUME PreviewInv, ExportBegins \/ ExportEnds
  PROVE  PreviewInv'
<1>1. /\ UNCHANGED <<requestVars, folderRevision, closed, submitVars, queue, workerVars,
                     posted, dirs>>
      /\ phase # "scan" /\ phase' \in {"ready", "export"}
      /\ uiClosing' \in {uiClosing, closed} /\ ~uiClosing
  BY DEF ExportBegins, ExportEnds, AtLoop
<1>2. /\ UNCHANGED <<pc, request, result, posted, ui, outgoing, queue>>
      /\ dirs' = dirs /\ active' = active /\ currentDir' = currentDir
      /\ nextGeneration' = nextGeneration /\ modelRevision' = modelRevision
      /\ previewCancel' = previewCancel /\ cancelled' = cancelled
      /\ interrupted' = interrupted /\ folderRevision' = folderRevision
      /\ closed' = closed
      /\ InFlight' = InFlight /\ RequestGen' = RequestGen /\ QueuedGen' = QueuedGen
      /\ SubmittedGen' = SubmittedGen
      /\ \A i \in DOMAIN posted : PostedGen(i)' = PostedGen(i)
  BY <1>1 DEF requestVars, submitVars, workerVars, InFlight, RequestGen, QueuedGen,
              SubmittedGen, PostedGen
<1>3. TypeOK'
  BY <1>1, <1>2 DEF PreviewInv, TypeOK
<1>4. WithinBounds'
  BY <1>1, <1>2 DEF PreviewInv, WithinBounds
<1>5. UIInv' /\ WorkerInv'
  BY <1>1, <1>2 DEF PreviewInv, UIInv, WorkerInv
<1>6. InOrder'
  BY <1>2 DEF PreviewInv, InOrder
<1>7. DirectoriesOwned' /\ DirectoriesAccounted' /\ NewestInFlight'
  BY <1>1, <1>2 DEF PreviewInv, DirectoriesOwned, DirectoriesAccounted, NewestInFlight
<1>8. QED
  BY <1>3, <1>4, <1>5, <1>6, <1>7 DEF PreviewInv

-----------------------------------------------------------------------------
(* The callback.                                                           *)

\* What a callback leaves alone, and what the result it takes off has to itself:
\* its directory and its generation.
LEMMA DeliveryFacts ==
  ASSUME PreviewInv, Callback
  PROVE  /\ UNCHANGED <<ui, outgoing, queue, pc, request, result, folderRevision, phase,
                        closed, uiClosing, nextGeneration, modelRevision, active,
                        cancelled>>
         /\ ui = "loop" /\ posted # <<>> /\ posted' = Tail(posted)
         /\ Head(posted) \in Results /\ Head(posted) \in InFlight
         /\ Head(posted).dir \in {0, Head(posted).token.generation}
         /\ RequestGen' = RequestGen /\ QueuedGen' = QueuedGen
         /\ SubmittedGen' = SubmittedGen
         /\ InFlight = InFlight' \cup {Head(posted)}
         /\ \A r \in InFlight' : r.dir # 0 => r.dir \notin {Head(posted).dir, currentDir}
         /\ Head(posted).token.generation \notin {0, RequestGen, QueuedGen, SubmittedGen}
         /\ \A i \in DOMAIN posted' : PostedGen(i)' # Head(posted).token.generation
         /\ currentDir # 0 => Head(posted).token.generation # currentDir
         /\ \A i \in DOMAIN posted' : currentDir # 0 => PostedGen(i)' # currentDir
         /\ InOrder'
<1>1. /\ UNCHANGED <<ui, outgoing, queue, pc, request, result, folderRevision, phase,
                     closed, uiClosing, nextGeneration, modelRevision, active, cancelled>>
      /\ ui = "loop" /\ posted # <<>> /\ posted' = Tail(posted)
  BY DEF Callback, appVars, submitVars, workerVars, requestVars, Applied, ResultShown,
         ResultDropped
<1>2. /\ TypeOK /\ WorkerInv /\ InOrder /\ DirectoriesOwned /\ posted \in Seq(Results)
  BY DEF PreviewInv, InOrder
<1>3. RequestGen' = RequestGen /\ QueuedGen' = QueuedGen /\ SubmittedGen' = SubmittedGen
  BY <1>1 DEF RequestGen, QueuedGen, SubmittedGen
<1>4. /\ Len(posted) \in Nat \ {0} /\ DOMAIN posted = 1..Len(posted)
      /\ 1 \in DOMAIN posted /\ Head(posted) = posted[1]
      /\ posted' \in Seq(Results) /\ DOMAIN posted' = 1..(Len(posted) - 1)
      /\ \A i \in DOMAIN posted' : i + 1 \in DOMAIN posted /\ posted'[i] = posted[i + 1]
  BY <1>1, <1>2, HeadTailProperties, EmptySeq
<1>5. /\ Head(posted) \in Results /\ Head(posted) \in InFlight
      /\ Head(posted).token.generation = PostedGen(1) /\ PostedGen(1) \in 1..MaxGeneration
      /\ Head(posted).dir \in {0, PostedGen(1)}
  BY <1>2, <1>4, PostedFacts DEF PostedGen
<1>6. \A i \in DOMAIN posted' : /\ i + 1 \in DOMAIN posted
                                /\ PostedGen(i)' = PostedGen(i + 1)
                                /\ PostedGen(i)' \in 1..MaxGeneration
                                /\ PostedGen(1) < PostedGen(i)'
  <2> SUFFICES ASSUME NEW i \in DOMAIN posted'
               PROVE  /\ i + 1 \in DOMAIN posted
                      /\ PostedGen(i)' = PostedGen(i + 1)
                      /\ PostedGen(i)' \in 1..MaxGeneration
                      /\ PostedGen(1) < PostedGen(i)'
    OBVIOUS
  <2>1. i + 1 \in DOMAIN posted /\ PostedGen(i)' = PostedGen(i + 1) /\ 1 < i + 1
    BY <1>4 DEF PostedGen
  <2>2. PostedGen(i + 1) \in 1..MaxGeneration /\ PostedGen(1) < PostedGen(i + 1)
    BY <2>1, <1>2, <1>4, PostedFacts DEF InOrder
  <2>3. QED
    BY <2>1, <2>2
<1>7. InFlight = InFlight' \cup {Head(posted)}
  <2>1. \A r : r \in InFlight' => r \in InFlight
    BY <1>1, <1>4 DEF InFlight
  <2>2. \A r \in InFlight : r = Head(posted) \/ r \in InFlight'
    <3> SUFFICES ASSUME NEW i \in DOMAIN posted, i # 1
                 PROVE  \E j \in DOMAIN posted' : posted'[j] = posted[i]
      BY <1>1, <1>4 DEF InFlight
    <3>1. i - 1 \in DOMAIN posted' /\ posted'[i - 1] = posted[(i - 1) + 1]
          /\ (i - 1) + 1 = i
      BY <1>4
    <3>2. QED
      BY <3>1
  <2>3. QED
    BY <2>1, <2>2, <1>5
<1>8. \A g \in {RequestGen, QueuedGen, SubmittedGen} :
        g \in Nat /\ (g # 0 => PostedGen(1) < g)
  BY <1>2, <1>4, GenerationsTyped DEF InOrder
<1>9. InOrder'
  <2>1. \A i \in DOMAIN posted' :
          /\ posted'[i].dir \in {0, PostedGen(i)'}
          /\ \A j \in DOMAIN posted' : i < j => PostedGen(i)' < PostedGen(j)'
          /\ PostedGen(i)' <= nextGeneration
          /\ \A g \in {RequestGen, QueuedGen, SubmittedGen} : g # 0 => PostedGen(i)' < g
    <3> SUFFICES ASSUME NEW i \in DOMAIN posted'
                 PROVE  /\ posted'[i].dir \in {0, PostedGen(i)'}
                        /\ \A j \in DOMAIN posted' : i < j => PostedGen(i)' < PostedGen(j)'
                        /\ PostedGen(i)' <= nextGeneration
                        /\ \A g \in {RequestGen, QueuedGen, SubmittedGen} :
                              g # 0 => PostedGen(i)' < g
      OBVIOUS
    <3>1. i + 1 \in DOMAIN posted /\ PostedGen(i)' = PostedGen(i + 1)
          /\ posted'[i] = posted[i + 1]
      BY <1>4, <1>6
    <3>2. \A j \in DOMAIN posted' : i < j => PostedGen(i)' < PostedGen(j)'
      <4> SUFFICES ASSUME NEW j \in DOMAIN posted', i < j
                   PROVE  PostedGen(i)' < PostedGen(j)'
        OBVIOUS
      <4>1. j + 1 \in DOMAIN posted /\ PostedGen(j)' = PostedGen(j + 1) /\ i + 1 < j + 1
        BY <1>4, <1>6
      <4>2. QED
        BY <4>1, <3>1, <1>2 DEF InOrder
    <3>3. QED
      BY <3>1, <3>2, <1>2 DEF InOrder
  <2>2. QED
    BY <2>1, <1>1, <1>2, <1>3, <1>4 DEF InOrder
<1>10. ASSUME NEW r \in InFlight', r.dir # 0
       PROVE  r.dir \notin {Head(posted).dir, currentDir}
  <2>1. CASE r = result
    BY <2>1, <1>2, <1>5, <1>8, <1>10, ResultFacts DEF WorkerInv, DirectoriesOwned
  <2>2. CASE \E i \in DOMAIN posted' : r = posted'[i] /\ r.dir = PostedGen(i)'
    BY <2>2, <1>2, <1>5, <1>6, <1>10 DEF DirectoriesOwned
  <2>3. QED
    BY <2>1, <2>2, <1>1, <1>9, <1>10 DEF InFlight, InOrder
<1>11. /\ PostedGen(1) \notin {0, RequestGen, QueuedGen, SubmittedGen}
       /\ \A i \in DOMAIN posted' : PostedGen(i)' # PostedGen(1)
  BY <1>5, <1>6, <1>8
<1>12. currentDir # 0 => /\ PostedGen(1) # currentDir
                         /\ \A i \in DOMAIN posted' : PostedGen(i)' # currentDir
  BY <1>2, <1>4, <1>6 DEF DirectoriesOwned
<1>13. QED
  BY <1>1, <1>3, <1>5, <1>7, <1>9, <1>10, <1>11, <1>12

\* However a result is taken, the directories of the others are left alone and
\* its own is removed or put on display.
LEMMA CallbackPreserves ==
  ASSUME PreviewInv, Callback
  PROVE  PreviewInv'
<1> DEFINE r == Head(posted)
<1>1. /\ UNCHANGED <<ui, outgoing, queue, pc, request, result, folderRevision, phase,
                     closed, uiClosing, nextGeneration, modelRevision, active, cancelled>>
      /\ RequestGen' = RequestGen /\ QueuedGen' = QueuedGen
      /\ SubmittedGen' = SubmittedGen
      /\ InOrder' /\ ui = "loop"
  BY DeliveryFacts
<1>2. /\ r \in Results /\ r \in InFlight /\ r.dir \in {0, r.token.generation}
      /\ InFlight = InFlight' \cup {r}
      /\ r.token.generation \notin {0, RequestGen, QueuedGen, SubmittedGen}
      /\ r.token # NoToken /\ r.token.generation \in 1..MaxGeneration
      /\ r.dir \in 0..MaxGeneration
      /\ \A i \in DOMAIN posted' : PostedGen(i)' # r.token.generation
  BY DeliveryFacts, ResultFacts
<1>3. /\ \A x \in InFlight' : x.dir # 0 => x.dir \notin {r.dir, currentDir}
      /\ currentDir # 0 => r.token.generation # currentDir
      /\ \A i \in DOMAIN posted' : currentDir # 0 => PostedGen(i)' # currentDir
  BY DeliveryFacts
<1>4. /\ TypeOK /\ WithinBounds /\ UIInv /\ WorkerInv /\ DirectoriesOwned
      /\ DirectoriesAccounted /\ NewestInFlight
      /\ r.dir # 0 => r.dir \in dirs
      /\ dirs \subseteq 1..MaxGeneration
  BY <1>2 DEF PreviewInv, DirectoriesOwned, TypeOK
<1>5. /\ previewCancel' \in {previewCancel, 0} /\ interrupted' \in BOOLEAN
      /\ dirs' \subseteq dirs /\ dirs \ dirs' \subseteq {r.dir, currentDir}
      /\ currentDir' \in {currentDir, 0, r.token.generation}
      /\ currentDir' # 0 => currentDir' \in dirs' /\ currentDir' = active.generation
      /\ ~uiClosing => dirs' \subseteq (dirs \ {r.dir, currentDir}) \cup {currentDir'}
      /\ \/ previewCancel' = 0
         \/ active # r.token /\ ~interrupted
         \/ interrupted'
  <2>1. CASE uiClosing
    <3>1. UNCHANGED <<requestVars, dirs>> /\ previewCancel = 0
      BY <2>1, <1>4 DEF Callback, UIInv
    <3>2. QED
      BY <3>1, <2>1, <1>4 DEF requestVars, TypeOK, DirectoriesAccounted
  <2>2. CASE ~uiClosing /\ closed
    <3>1. dirs' = dirs \ {r.dir} /\ UNCHANGED requestVars /\ previewCancel = 0
      BY <2>2, <1>4 DEF Callback, Without, UIInv
    <3>2. currentDir # 0 => currentDir \in dirs' /\ currentDir = active.generation
      BY <3>1, <1>2, <1>3, <1>4 DEF DirectoriesAccounted
    <3>3. QED
      BY <3>1, <3>2, <2>2, <1>4 DEF requestVars, TypeOK
  <2>3. CASE ~uiClosing /\ ~closed /\ active = r.token /\ ResultShown(r)
    <3>1. PICK shown \in {0, r.dir} : /\ currentDir' = shown
                                     /\ dirs' = dirs \ ({currentDir, r.dir} \ {shown})
      BY <2>3 DEF ResultShown
    <3>2. previewCancel' = 0 /\ interrupted' = interrupted
      BY <2>3 DEF ResultShown
    <3>3. currentDir' # 0 => /\ currentDir' = r.dir /\ currentDir' \in dirs'
                             /\ currentDir' = active.generation
      BY <3>1, <2>3, <1>2, <1>4
    <3>4. dirs' \subseteq (dirs \ {r.dir, currentDir}) \cup {currentDir'}
      BY <3>1, <1>4
    <3>5. QED
      BY <3>1, <3>2, <3>3, <3>4, <1>2, <1>4 DEF TypeOK
  <2>4. CASE ~uiClosing /\ ~closed /\ ResultDropped(r)
    <3>1. /\ dirs' = dirs \ {r.dir} /\ currentDir' = currentDir
          /\ previewCancel' = previewCancel
          /\ interrupted' = (interrupted \/ active = r.token)
      BY <2>4 DEF ResultDropped, Without
    <3>2. currentDir # 0 => currentDir \in dirs' /\ currentDir = active.generation
      BY <3>1, <1>2, <1>3, <1>4 DEF DirectoriesAccounted
    <3>3. QED
      BY <3>1, <3>2, <1>4 DEF TypeOK
  <2>5. QED
    BY <2>1, <2>2, <2>3, <2>4 DEF Callback, Applied
<1>6. TypeOK'
  <2>1. currentDir' \in 0..MaxGeneration /\ dirs' \in SUBSET (1..MaxGeneration)
        /\ previewCancel' \in {0, active.generation}
    BY <1>2, <1>4, <1>5, ActiveFacts DEF TypeOK
  <2>2. QED
    BY <2>1, <1>1, <1>4, <1>5 DEF TypeOK
<1>7. WithinBounds'
  <2>1. nextGeneration \in Nat /\ (currentDir' = 0 \/ currentDir' \in dirs)
    BY <1>4, <1>5, ActiveFacts
  <2>2. \A g \in cancelled' \cup dirs' \cup {currentDir'} : g <= nextGeneration
    <3>1. \A g \in cancelled \cup dirs : g <= nextGeneration
      BY <1>4 DEF WithinBounds
    <3>2. cancelled' = cancelled /\ dirs' \subseteq dirs /\ 0 <= nextGeneration
      BY <2>1, <1>1, <1>5
    <3>3. QED
      BY <3>1, <3>2, <2>1
  <2>3. QED
    BY <2>2, <1>1, <1>4 DEF WithinBounds
<1>8. UIInv'
  <2>1. 0 \notin cancelled
    BY <1>4 DEF TypeOK
  <2>2. QED
    BY <2>1, <1>1, <1>4, <1>5 DEF UIInv
<1>9. WorkerInv'
  <2>1. RequestGen' \in dirs' => RequestGen \in dirs
    BY <1>1, <1>5
  <2>2. pc = "page" => RequestGen' \in dirs'
    BY <1>1, <1>2, <1>4, <1>5, GenerationsTyped DEF WorkerInv, DirectoriesOwned
  <2>3. QED
    BY <2>1, <2>2, <1>1, <1>4 DEF WorkerInv
<1>10. DirectoriesOwned'
  <2>1. \A x \in InFlight' : x.dir # 0 => x.dir \in dirs'
    BY <1>2, <1>3, <1>4, <1>5 DEF DirectoriesOwned
  <2>2. QueuedGen' \notin dirs' /\ SubmittedGen' \notin dirs'
    BY <1>1, <1>4, <1>5 DEF DirectoriesOwned
  <2>3. currentDir' # 0 =>
          /\ currentDir' \notin {RequestGen', QueuedGen', SubmittedGen'}
          /\ \A i \in DOMAIN posted' : PostedGen(i)' # currentDir'
    BY <1>1, <1>2, <1>3, <1>4, <1>5 DEF DirectoriesOwned
  <2>4. QED
    BY <2>1, <2>2, <2>3 DEF DirectoriesOwned
<1>11. DirectoriesAccounted'
  BY <1>1, <1>2, <1>4, <1>5 DEF DirectoriesAccounted
<1>12. NewestInFlight'
  BY <1>1, <1>2, <1>4, <1>5 DEF NewestInFlight, TypeOK
<1>13. QED
  BY <1>1, <1>6, <1>7, <1>8, <1>9, <1>10, <1>11, <1>12 DEF PreviewInv

-----------------------------------------------------------------------------
(* The goroutine.                                                          *)

\* What the goroutine's steps have in common: they leave the UI thread alone.
LEMMA WorkerFrame ==
  ASSUME NEW next, Worker(next)
  PROVE  /\ pc' = next
         /\ UNCHANGED <<ui, outgoing, folderRevision, phase, closed, uiClosing,
                        nextGeneration, modelRevision, active, previewCancel, cancelled,
                        currentDir, interrupted>>
         /\ SubmittedGen' = SubmittedGen
BY DEF Worker, requestVars, appVars, submitVars, SubmittedGen

\* A request taken from the queue.
LEMMA ReceivesPreserves ==
  ASSUME PreviewInv, Receives
  PROVE  PreviewInv'
<1>1. /\ pc = "waiting" /\ pc' = "start" /\ queue # NoRequest /\ request' = queue
      /\ queue' = NoRequest /\ result' = result /\ posted' = posted /\ dirs' = dirs
      /\ UNCHANGED <<ui, outgoing, folderRevision, phase, closed, uiClosing,
                     nextGeneration, modelRevision, active, previewCancel, cancelled,
                     currentDir, interrupted>>
      /\ SubmittedGen' = SubmittedGen
  BY WorkerFrame DEF Receives
<1>2. /\ TypeOK /\ WithinBounds /\ UIInv /\ WorkerInv /\ InOrder /\ DirectoriesOwned
      /\ DirectoriesAccounted /\ NewestInFlight
  BY DEF PreviewInv
<1>3. /\ RequestGen' = QueuedGen /\ QueuedGen' = 0 /\ RequestGen = 0 /\ QueuedGen # 0
      /\ request = NoRequest /\ result = NoResult /\ request' # NoRequest
      /\ request.token = NoToken /\ queue'.token = NoToken
      /\ \A i \in DOMAIN posted : PostedGen(i)' = PostedGen(i)
      /\ InFlight' = InFlight
  BY <1>1, <1>2, GenerationsTyped
  DEF WorkerInv, RequestGen, QueuedGen, PostedGen, InFlight, NoRequest, NoToken
<1>4. QueuedGen \in Nat /\ SubmittedGen \in Nat /\ nextGeneration \in Nat /\ 0 \notin dirs
  BY <1>2, GenerationsTyped, ActiveFacts DEF TypeOK
<1>5. TypeOK'
  BY <1>1, <1>2 DEF TypeOK
<1>6. WithinBounds' /\ UIInv'
  BY <1>1, <1>2 DEF WithinBounds, UIInv
<1>7. WorkerInv'
  BY <1>1, <1>2, <1>3 DEF WorkerInv, DirectoriesOwned
<1>8. InOrder'
  BY <1>1, <1>2, <1>3, <1>4 DEF InOrder
<1>9. DirectoriesOwned' /\ DirectoriesAccounted'
  BY <1>1, <1>2, <1>3, <1>4 DEF DirectoriesOwned, DirectoriesAccounted, RequestGen
<1>10. NewestInFlight'
  <2>1. previewCancel # 0 => active # NoToken
    BY <1>2, ActiveFacts
  <2>2. QED
    BY <2>1, <1>1, <1>2, <1>3 DEF NewestInFlight
<1>11. QED
  BY <1>5, <1>6, <1>7, <1>8, <1>9, <1>10 DEF PreviewInv

\* A request that is no longer wanted, thrown away with its directory.
LEMMA DiscardPreserves ==
  ASSUME PreviewInv, NEW dir, Discards(dir), request # NoRequest,
         dir \in {0, RequestGen}, RequestGen \in dirs => dir = RequestGen,
         previewCancel # 0 => RequestGen \in cancelled
  PROVE  PreviewInv'
<1>1. /\ pc' = "waiting" /\ queue' = queue /\ request' = NoRequest
      /\ result' = NoResult /\ posted' = posted /\ dirs' = dirs \ {dir}
      /\ UNCHANGED <<ui, outgoing, folderRevision, phase, closed, uiClosing,
                     nextGeneration, modelRevision, active, previewCancel, cancelled,
                     currentDir, interrupted>>
      /\ SubmittedGen' = SubmittedGen
  BY WorkerFrame DEF Discards, Without
<1>2. /\ TypeOK /\ WithinBounds /\ UIInv /\ WorkerInv /\ InOrder /\ DirectoriesOwned
      /\ DirectoriesAccounted /\ NewestInFlight
  BY DEF PreviewInv
<1>3. /\ RequestGen' = 0 /\ QueuedGen' = QueuedGen
      /\ \A i \in DOMAIN posted : PostedGen(i)' = PostedGen(i)
      /\ InFlight = {posted[i] : i \in DOMAIN posted} \cup {result}
      /\ InFlight' = {posted[i] : i \in DOMAIN posted} \cup {NoResult}
  BY <1>1 DEF RequestGen, QueuedGen, PostedGen, InFlight, NoRequest, NoToken
<1>4. /\ QueuedGen \in Nat /\ SubmittedGen \in Nat /\ RequestGen \in Nat
      /\ nextGeneration \in Nat /\ 0 \notin dirs /\ RequestGen # 0
      /\ queue.token \in Tokens \cup {NoToken}
  BY <1>2, GenerationsTyped, ActiveFacts DEF TypeOK
<1>5. \A i \in DOMAIN posted : posted[i].dir \in {0, PostedGen(i)} /\ PostedGen(i) # RequestGen
  <2>1. \A i \in DOMAIN posted : PostedGen(i) \in Nat
    BY <1>2, PostedFacts
  <2>2. QED
    BY <2>1, <1>2, <1>4 DEF InOrder
<1>6. /\ NoResult.dir = 0
      /\ \/ result = NoResult
         \/ result.dir \in {0, RequestGen} /\ result.token = request.token
  BY <1>2, ResultFacts DEF WorkerInv
<1>7. TypeOK'
  <2>1. {outgoing', queue', request'} \subseteq Requests \cup {NoRequest}
    BY <1>1, <1>2 DEF TypeOK
  <2>2. dirs' \in SUBSET (1..MaxGeneration)
    BY <1>1, <1>2 DEF TypeOK
  <2>3. QED
    BY <2>1, <2>2, <1>1, <1>2 DEF TypeOK
<1>8. WithinBounds' /\ UIInv'
  BY <1>1, <1>2 DEF WithinBounds, UIInv
<1>9. WorkerInv'
  BY <1>1 DEF WorkerInv
<1>10. InOrder'
  <2>1. /\ QueuedGen # 0 => 0 < QueuedGen
        /\ SubmittedGen # 0 => 0 < SubmittedGen
        /\ 0 <= nextGeneration
    BY <1>4
  <2>2. \A i \in DOMAIN posted :
          \A g \in {0, QueuedGen, SubmittedGen} : g # 0 => PostedGen(i) < g
    BY <1>2 DEF InOrder
  <2>3. QED
    BY <2>1, <2>2, <1>1, <1>2, <1>3 DEF InOrder
<1>11. DirectoriesOwned'
  <2>1. \A x \in InFlight' : x.dir # 0 => x.dir \in dirs'
    BY <1>1, <1>2, <1>3, <1>5, <1>6 DEF DirectoriesOwned
  <2>2. QED
    BY <2>1, <1>1, <1>2, <1>3, <1>4 DEF DirectoriesOwned
<1>12. DirectoriesAccounted'
  <2>1. ~uiClosing => dirs' \subseteq {currentDir} \cup {posted[i].dir : i \in DOMAIN posted}
    <3> SUFFICES ASSUME ~uiClosing, NEW d \in dirs', d # currentDir
                 PROVE  d \in {posted[i].dir : i \in DOMAIN posted}
      OBVIOUS
    <3>1. d \in dirs /\ d # dir /\ d # 0 /\ d # RequestGen
      BY <1>1, <1>4
    <3>2. d \in {x.dir : x \in InFlight}
      BY <3>1, <1>2 DEF DirectoriesAccounted, RequestGen
    <3>3. d # result.dir
      BY <3>1, <1>6
    <3>4. QED
      BY <3>2, <3>3, <1>3
  <2>2. currentDir # 0 => currentDir = active.generation /\ currentDir \in dirs'
    BY <1>1, <1>2 DEF DirectoriesAccounted, DirectoriesOwned
  <2>3. QED
    BY <2>1, <2>2, <1>1, <1>3 DEF DirectoriesAccounted
<1>13. NewestInFlight'
  <2>1. previewCancel # 0 => active # request.token /\ active # NoToken
    BY <1>2, ActiveFacts DEF UIInv, RequestGen
  <2>2. QED
    BY <2>1, <1>1, <1>2, <1>3, <1>6, ResultFacts DEF NewestInFlight
<1>14. QED
  BY <1>7, <1>8, <1>9, <1>10, <1>11, <1>12, <1>13 DEF PreviewInv

\* A step of the goroutine on the request it has: the request stays, the
\* directories but its own are left alone, and the result, if there is one, names
\* the directory exactly when it is there.
LEMMA PreparingPreserves ==
  ASSUME PreviewInv, NEW next \in {"page", "prepared", "posting"}, Worker(next),
         UNCHANGED <<queue, request, posted>>, request # NoRequest,
         dirs' \in {dirs, dirs \cup {RequestGen}, dirs \ {RequestGen}},
         \/ next = "page" /\ result' = NoResult /\ RequestGen \in dirs'
         \/ /\ next \in {"prepared", "posting"}
            /\ result' \in Results /\ result'.token = request.token
            /\ result'.dir = (IF RequestGen \in dirs' THEN RequestGen ELSE 0)
  PROVE  PreviewInv'
<1>1. /\ pc' = next /\ queue' = queue /\ request' = request /\ posted' = posted
      /\ UNCHANGED <<ui, outgoing, folderRevision, phase, closed, uiClosing,
                     nextGeneration, modelRevision, active, previewCancel, cancelled,
                     currentDir, interrupted>>
      /\ SubmittedGen' = SubmittedGen
  BY WorkerFrame
<1>2. /\ TypeOK /\ WithinBounds /\ UIInv /\ WorkerInv /\ InOrder /\ DirectoriesOwned
      /\ DirectoriesAccounted /\ NewestInFlight
  BY DEF PreviewInv
<1>3. /\ RequestGen' = RequestGen /\ QueuedGen' = QueuedGen
      /\ \A i \in DOMAIN posted : PostedGen(i)' = PostedGen(i)
      /\ InFlight = {posted[i] : i \in DOMAIN posted} \cup {result}
      /\ InFlight' = {posted[i] : i \in DOMAIN posted} \cup {result'}
  BY <1>1 DEF RequestGen, QueuedGen, PostedGen, InFlight
<1>4. /\ QueuedGen \in Nat /\ SubmittedGen \in Nat /\ RequestGen \in 1..MaxGeneration
      /\ nextGeneration \in Nat /\ 0 \notin dirs /\ RequestGen <= nextGeneration
      /\ RequestGen \notin {QueuedGen, SubmittedGen}
  <2>1. /\ QueuedGen \in Nat /\ SubmittedGen \in Nat /\ RequestGen \in 0..MaxGeneration
        /\ RequestGen # 0 /\ nextGeneration \in Nat
    BY <1>2, GenerationsTyped, ActiveFacts
  <2>2. QED
    BY <2>1, <1>2 DEF TypeOK, InOrder
<1>5. \A i \in DOMAIN posted : posted[i].dir \in {0, PostedGen(i)} /\ PostedGen(i) # RequestGen
  <2>1. \A i \in DOMAIN posted : PostedGen(i) \in Nat
    BY <1>2, PostedFacts
  <2>2. QED
    BY <2>1, <1>2, <1>4 DEF InOrder
<1>6. /\ NoResult.dir = 0 /\ NoResult.token = NoToken
      /\ \/ result = NoResult
         \/ result.dir \in {0, RequestGen} /\ result.token = request.token
      /\ result'.dir \in {0, RequestGen} /\ (result'.dir # 0 => result'.dir \in dirs')
  BY <1>2, <1>4, ResultFacts DEF WorkerInv
<1>7. TypeOK'
  <2>1. dirs' \in SUBSET (1..MaxGeneration)
    BY <1>2, <1>4 DEF TypeOK
  <2>2. QED
    BY <2>1, <1>1, <1>2 DEF TypeOK
<1>8. WithinBounds' /\ UIInv'
  BY <1>1, <1>2, <1>4 DEF WithinBounds, UIInv
<1>9. WorkerInv'
  BY <1>1, <1>3 DEF WorkerInv
<1>10. InOrder'
  BY <1>1, <1>2, <1>3 DEF InOrder
<1>11. DirectoriesOwned'
  <2>1. \A x \in InFlight' : x.dir # 0 => x.dir \in dirs'
    BY <1>2, <1>3, <1>5, <1>6 DEF DirectoriesOwned
  <2>2. QueuedGen \notin dirs' /\ SubmittedGen \notin dirs'
    BY <1>2, <1>4 DEF DirectoriesOwned
  <2>3. QED
    BY <2>1, <2>2, <1>1, <1>2, <1>3 DEF DirectoriesOwned
<1>12. DirectoriesAccounted'
  <2>1. ~uiClosing => dirs' \subseteq {currentDir, RequestGen}
                                       \cup {x.dir : x \in InFlight'}
    <3> SUFFICES ASSUME ~uiClosing, NEW d \in dirs', d \notin {currentDir, RequestGen}
                 PROVE  d \in {x.dir : x \in InFlight'}
      OBVIOUS
    <3>1. d \in dirs /\ d # 0
      BY <1>4
    <3>2. d \in {x.dir : x \in InFlight}
      BY <3>1, <1>2 DEF DirectoriesAccounted, RequestGen
    <3>3. d # result.dir
      BY <3>1, <1>6
    <3>4. QED
      BY <3>2, <3>3, <1>3
  <2>2. currentDir # 0 => currentDir = active.generation /\ currentDir \in dirs'
    BY <1>2 DEF DirectoriesAccounted, DirectoriesOwned
  <2>3. QED
    BY <2>1, <2>2, <1>1, <1>3 DEF DirectoriesAccounted, RequestGen
<1>13. NewestInFlight'
  <2>1. previewCancel # 0 => active # NoToken
    BY <1>2, ActiveFacts
  <2>2. QED
    BY <2>1, <1>1, <1>2, <1>3, <1>6 DEF NewestInFlight
<1>14. QED
  BY <1>7, <1>8, <1>9, <1>10, <1>11, <1>12, <1>13 DEF PreviewInv

\* A result is handed to the UI thread behind the older ones, or it is dropped
\* with the window.
LEMMA PostsPreserves ==
  ASSUME PreviewInv, Posts
  PROVE  PreviewInv'
<1>1. /\ pc = "posting" /\ pc' = "waiting" /\ queue' = queue /\ request' = NoRequest
      /\ result' = NoResult /\ dirs' = dirs
      /\ posted' = (IF uiClosing THEN posted ELSE Append(posted, result))
      /\ UNCHANGED <<ui, outgoing, folderRevision, phase, closed, uiClosing,
                     nextGeneration, modelRevision, active, previewCancel, cancelled,
                     currentDir, interrupted>>
      /\ SubmittedGen' = SubmittedGen
  BY WorkerFrame DEF Posts
<1>2. /\ TypeOK /\ WithinBounds /\ UIInv /\ WorkerInv /\ InOrder /\ DirectoriesOwned
      /\ DirectoriesAccounted /\ NewestInFlight
  BY DEF PreviewInv
<1>3. /\ RequestGen' = 0 /\ QueuedGen' = QueuedGen
      /\ InFlight = {posted[i] : i \in DOMAIN posted} \cup {result}
      /\ InFlight' = {posted'[i] : i \in DOMAIN posted'} \cup {NoResult}
  BY <1>1 DEF RequestGen, QueuedGen, InFlight, NoRequest, NoToken
<1>4. /\ result \in Results /\ result.token = request.token /\ result.dir \in {0, RequestGen}
      /\ RequestGen \in dirs => result.dir = RequestGen
      /\ result.token.generation = RequestGen /\ RequestGen \in 1..MaxGeneration
      /\ NoResult.dir = 0 /\ NoResult.token = NoToken
  BY <1>1, <1>2, ResultFacts DEF WorkerInv, RequestGen
<1>5. /\ QueuedGen \in Nat /\ SubmittedGen \in Nat /\ RequestGen \in Nat
      /\ nextGeneration \in Nat /\ 0 \notin dirs /\ RequestGen <= nextGeneration
  BY <1>2, GenerationsTyped, ActiveFacts DEF TypeOK, InOrder
<1>6. /\ posted' \in Seq(Results)
      /\ \A i \in DOMAIN posted' : i \in DOMAIN posted \/ (i = Len(posted) + 1 /\ ~uiClosing)
      /\ \A i \in DOMAIN posted : /\ i \in DOMAIN posted' /\ posted'[i] = posted[i]
                                 /\ i \in Nat /\ i <= Len(posted)
      /\ Len(posted) \in Nat /\ Len(posted) + 1 \notin DOMAIN posted
      /\ ~uiClosing => /\ Len(posted) + 1 \in DOMAIN posted'
                       /\ posted'[Len(posted) + 1] = result
  <2>1. /\ posted \in Seq(Results) /\ Len(posted) \in Nat /\ DOMAIN posted = 1..Len(posted)
    BY <1>2, LenProperties DEF InOrder
  <2>2. CASE uiClosing
    BY <2>1, <2>2, <1>1
  <2>3. CASE ~uiClosing
    <3>1. /\ posted' = Append(posted, result) /\ posted' \in Seq(Results)
          /\ DOMAIN posted' = 1..(Len(posted) + 1)
          /\ \A i \in 1..Len(posted) : posted'[i] = posted[i]
          /\ posted'[Len(posted) + 1] = result
      BY <2>1, <2>3, <1>1, <1>4, AppendProperties
    <3>2. QED
      BY <3>1, <2>1, <2>3
  <2>4. QED
    BY <2>2, <2>3
<1>7. /\ \A i \in DOMAIN posted : /\ PostedGen(i)' = PostedGen(i) /\ PostedGen(i) \in Nat
                                 /\ PostedGen(i) < RequestGen
      /\ ~uiClosing =>
           \A i : i = Len(posted) + 1 => posted'[i] = result /\ PostedGen(i)' = RequestGen
  <2>1. \A i \in DOMAIN posted : PostedGen(i)' = PostedGen(i)
    BY <1>6 DEF PostedGen
  <2>2. \A i \in DOMAIN posted : PostedGen(i) \in Nat /\ PostedGen(i) < RequestGen
    BY <1>2, <1>4, PostedFacts DEF InOrder
  <2>3. QED
    BY <2>1, <2>2, <1>4, <1>6 DEF PostedGen
<1>8. TypeOK'
  <2>1. {outgoing', queue', request'} \subseteq Requests \cup {NoRequest}
    BY <1>1, <1>2 DEF TypeOK
  <2>2. QED
    BY <2>1, <1>1, <1>2 DEF TypeOK
<1>9. WithinBounds' /\ UIInv' /\ WorkerInv'
  BY <1>1, <1>2 DEF WithinBounds, UIInv, WorkerInv
<1>10. InOrder'
  <2>1. \A i \in DOMAIN posted' :
          /\ posted'[i].dir \in {0, PostedGen(i)'}
          /\ PostedGen(i)' <= nextGeneration
          /\ \A g \in {0, QueuedGen, SubmittedGen} : g # 0 => PostedGen(i)' < g
    <3> SUFFICES ASSUME NEW i \in DOMAIN posted'
                 PROVE  /\ posted'[i].dir \in {0, PostedGen(i)'}
                        /\ PostedGen(i)' <= nextGeneration
                        /\ \A g \in {0, QueuedGen, SubmittedGen} :
                              g # 0 => PostedGen(i)' < g
      OBVIOUS
    <3>1. CASE i \in DOMAIN posted
      BY <3>1, <1>2, <1>6, <1>7 DEF InOrder
    <3>2. CASE i = Len(posted) + 1 /\ ~uiClosing
      <4>1. posted'[i] = result /\ PostedGen(i)' = RequestGen
        BY <3>2, <1>7
      <4>2. QED
        BY <4>1, <1>2, <1>4, <1>5 DEF InOrder
    <3>3. QED
      BY <3>1, <3>2, <1>6
  <2>2. \A i, j \in DOMAIN posted' : i < j => PostedGen(i)' < PostedGen(j)'
    <3> SUFFICES ASSUME NEW i \in DOMAIN posted', NEW j \in DOMAIN posted', i < j
                 PROVE  PostedGen(i)' < PostedGen(j)'
      OBVIOUS
    <3>1. i \in DOMAIN posted
      BY <1>6
    <3>2. CASE j \in DOMAIN posted
      BY <3>1, <3>2, <1>2, <1>7 DEF InOrder
    <3>3. CASE j = Len(posted) + 1 /\ ~uiClosing
      BY <3>1, <3>3, <1>7
    <3>4. QED
      BY <3>2, <3>3, <1>6
  <2>3. /\ QueuedGen # 0 => 0 < QueuedGen
        /\ SubmittedGen # 0 => 0 < SubmittedGen /\ QueuedGen < SubmittedGen
        /\ \A g \in {0, QueuedGen, SubmittedGen} : g <= nextGeneration
    BY <1>2, <1>5 DEF InOrder
  <2>4. QED
    BY <2>1, <2>2, <2>3, <1>1, <1>3, <1>6 DEF InOrder
<1>11. /\ InFlight' \subseteq InFlight \cup {NoResult}
       /\ ~uiClosing => InFlight \subseteq InFlight'
  BY <1>3, <1>6
<1>12. DirectoriesOwned'
  <2>1. \A x \in InFlight' : x.dir # 0 => x.dir \in dirs
    BY <1>2, <1>4, <1>11 DEF DirectoriesOwned
  <2>2. currentDir # 0 =>
          /\ currentDir \notin {0, QueuedGen, SubmittedGen}
          /\ \A i \in DOMAIN posted' : PostedGen(i)' # currentDir
    BY <1>2, <1>6, <1>7 DEF DirectoriesOwned
  <2>3. QED
    BY <2>1, <2>2, <1>1, <1>2, <1>3 DEF DirectoriesOwned
<1>13. DirectoriesAccounted'
  <2>1. ~uiClosing => dirs \subseteq {currentDir} \cup {x.dir : x \in InFlight'}
    <3> SUFFICES ASSUME ~uiClosing, NEW d \in dirs, d # currentDir
                 PROVE  d \in {x.dir : x \in InFlight'}
      OBVIOUS
    <3>1. d = RequestGen \/ d \in {x.dir : x \in InFlight}
      BY <1>2 DEF DirectoriesAccounted, RequestGen
    <3>2. result \in InFlight'
      BY <1>3, <1>11
    <3>3. d = RequestGen => d = result.dir
      BY <1>4
    <3>4. QED
      BY <3>1, <3>2, <3>3, <1>11
  <2>2. QED
    BY <2>1, <1>1, <1>2 DEF DirectoriesAccounted
<1>14. NewestInFlight'
  <2>1. uiClosing => previewCancel = 0
    BY <1>2 DEF UIInv
  <2>2. ~uiClosing => result \in InFlight'
    BY <1>3, <1>11
  <2>3. QED
    BY <2>1, <2>2, <1>1, <1>2, <1>4, <1>11 DEF NewestInFlight
<1>15. QED
  BY <1>8, <1>9, <1>10, <1>12, <1>13, <1>14 DEF PreviewInv

\* A step that changes nothing the invariant speaks of but the position of a
\* goroutine without a request, which ends.
LEMMA IdlePreserves ==
  ASSUME PreviewInv, UNCHANGED vars \/ Stops
  PROVE  PreviewInv'
<1>1. /\ UNCHANGED <<ui, outgoing, queue, request, result, posted, folderRevision, phase,
                     closed, uiClosing, nextGeneration, modelRevision, active,
                     previewCancel, cancelled, currentDir, interrupted, dirs>>
      /\ pc' = pc \/ (pc = "waiting" /\ pc' = "ended")
  BY WorkerFrame DEF vars, requestVars, appVars, submitVars, workerVars, Stops
<1>2. /\ InFlight' = InFlight /\ RequestGen' = RequestGen /\ QueuedGen' = QueuedGen
      /\ SubmittedGen' = SubmittedGen
      /\ \A i \in DOMAIN posted : PostedGen(i)' = PostedGen(i)
  BY <1>1 DEF InFlight, RequestGen, QueuedGen, SubmittedGen, PostedGen
<1>3. TypeOK' /\ WithinBounds'
  BY <1>1 DEF PreviewInv, TypeOK, WithinBounds
<1>4. UIInv' /\ WorkerInv'
  BY <1>1, <1>2 DEF PreviewInv, UIInv, WorkerInv
<1>5. InOrder' /\ DirectoriesOwned'
  BY <1>1, <1>2 DEF PreviewInv, InOrder, DirectoriesOwned
<1>6. DirectoriesAccounted' /\ NewestInFlight'
  BY <1>1, <1>2 DEF PreviewInv, DirectoriesAccounted, NewestInFlight
<1>7. QED
  BY <1>3, <1>4, <1>5, <1>6 DEF PreviewInv

\* Every step of the goroutine.
LEMMA GoroutinePreserves ==
  ASSUME PreviewInv, Goroutine
  PROVE  PreviewInv'
<1>1. /\ TypeOK /\ UIInv /\ WorkerInv /\ InOrder /\ DirectoriesOwned
  BY DEF PreviewInv
<1>2. pc \in {"start", "page", "prepared", "posting"} =>
        /\ request # NoRequest /\ request \in Requests /\ request.token \in Tokens
        /\ RequestGen \in 1..MaxGeneration /\ request.token.generation = RequestGen
  <2>1. pc \in {"start", "page", "prepared", "posting"} =>
          request # NoRequest /\ request \in Requests
    BY <1>1 DEF TypeOK, WorkerInv
  <2>2. QED
    BY <2>1 DEF Requests, Tokens, RequestGen
<1>3. CASE Stops
  BY <1>3, IdlePreserves
<1>4. CASE Receives
  BY <1>4, ReceivesPreserves
<1>5. CASE Abandons
  BY <1>1, <1>2, <1>5, DiscardPreserves DEF Abandons, Gone
<1>6. CASE PreparesSingle
  <2>1. /\ result' = [token |-> request.token, dir |-> 0,
                      failed |-> (request.mode = "comparison")]
        /\ Worker("prepared") /\ UNCHANGED <<queue, request, posted>> /\ dirs' = dirs
        /\ RequestGen \notin dirs'
    BY <1>1, <1>6 DEF PreparesSingle, Prepared, WorkerInv
  <2>2. result' \in Results
    BY <2>1, <1>2, <1>6, PreviewAssumption DEF PreparesSingle, Results
  <2>3. QED
    BY <2>1, <2>2, <1>2, <1>6, PreparingPreserves DEF PreparesSingle
<1>7. CASE MakesDirectory
  <2>1. /\ Worker("page") /\ UNCHANGED <<queue, request, posted>> /\ result' = NoResult
        /\ dirs' = dirs \cup {RequestGen} /\ pc = "start"
    BY <1>1, <1>7 DEF MakesDirectory, WorkerInv, RequestGen
  <2>2. QED
    BY <2>1, <1>2, PreparingPreserves
<1>8. CASE WritesPage
  <2>1. PICK failed \in BOOLEAN :
          /\ Prepared(IF failed THEN 0 ELSE RequestGen, failed)
          /\ dirs' = IF failed THEN Without(RequestGen) ELSE dirs
    BY <1>8 DEF WritesPage, RequestGen
  <2>2. Worker("prepared") /\ UNCHANGED <<queue, request, posted>> /\ pc = "page"
    BY <1>8 DEF WritesPage
  <2>3. RequestGen \in dirs /\ RequestGen # 0
    BY <2>2, <1>1, <1>2 DEF WorkerInv
  <2>4. /\ result' = [token |-> request.token, dir |-> IF failed THEN 0 ELSE RequestGen,
                      failed |-> failed]
        /\ dirs' = IF failed THEN dirs \ {RequestGen} ELSE dirs
    BY <2>1 DEF Prepared, Without
  <2>5. result' \in Results /\ result'.token = request.token
    BY <2>2, <2>4, <1>2, PreviewAssumption DEF Results
  <2>6. result'.dir = (IF RequestGen \in dirs' THEN RequestGen ELSE 0)
    BY <2>3, <2>4
  <2>7. dirs' \in {dirs, dirs \cup {RequestGen}, dirs \ {RequestGen}}
    BY <2>4
  <2>8. QED
    BY <2>2, <2>5, <2>6, <2>7, <1>2, PreparingPreserves
<1>9. CASE SeesClosed
  BY <1>1, <1>2, <1>9, DiscardPreserves DEF SeesClosed, WorkerInv, UIInv
<1>10. CASE SeesOpen
  <2>1. /\ Worker("posting") /\ UNCHANGED <<queue, request, posted>> /\ dirs' = dirs
        /\ result' = result /\ pc = "prepared"
    BY <1>10 DEF SeesOpen
  <2>2. result.dir = (IF RequestGen \in dirs THEN RequestGen ELSE 0)
    BY <2>1, <1>1 DEF WorkerInv, DirectoriesOwned, InFlight
  <2>3. QED
    BY <2>1, <2>2, <1>1, <1>2, PreparingPreserves DEF WorkerInv
<1>11. CASE Posts
  BY <1>11, PostsPreserves
<1>12. QED
  BY <1>3, <1>4, <1>5, <1>6, <1>7, <1>8, <1>9, <1>10, <1>11 DEF Goroutine

-----------------------------------------------------------------------------
(* Every step.                                                             *)

LEMMA StepPreserves ==
  ASSUME PreviewInv, [Next]_vars
  PROVE  PreviewInv'
<1>1. /\ nextGeneration \in Nat /\ MaxGeneration \in Nat /\ folderRevision \in 0..MaxFolderRevision
      /\ phase \in {"ready", "scan", "export"} /\ closed \in BOOLEAN
      /\ nextGeneration + (IF phase = "scan" THEN 1 ELSE 0)
                        + (IF closed THEN 0 ELSE 1) <= MaxGeneration
      /\ TypeOK
  BY ActiveFacts DEF PreviewInv, TypeOK, WithinBounds
<1>2. CASE RowsPublished
  <2>1. /\ AtLoop /\ Invalidate /\ UNCHANGED <<submitVars, queue, workerVars, posted>>
        /\ UNCHANGED <<folderRevision, phase, closed, uiClosing>>
    BY <1>2 DEF RowsPublished, appVars
  <2>2. nextGeneration + 1 + (IF phase' = "scan" THEN 1 ELSE 0)
                       + (IF closed' THEN 0 ELSE 1) <= MaxGeneration
    BY <2>1, <1>1, <1>2 DEF RowsPublished, Room
  <2>3. QED
    BY <2>1, <2>2, <1>1, InvalidatePreserves DEF AtLoop, TypeOK
<1>3. CASE \E mode \in Modes : PreviewRequested(mode)
  BY <1>3, RequestPreserves
<1>4. CASE ScanBegins
  <2>1. /\ AtLoop /\ Invalidate /\ UNCHANGED <<submitVars, queue, workerVars, posted>>
        /\ UNCHANGED <<folderRevision, closed, uiClosing>> /\ phase' = "scan"
    BY <1>4 DEF ScanBegins
  <2>2. nextGeneration + 1 + (IF phase' = "scan" THEN 1 ELSE 0)
                       + (IF closed' THEN 0 ELSE 1) <= MaxGeneration
    BY <2>1, <1>1, <1>4 DEF ScanBegins, Room
  <2>3. QED
    BY <2>1, <2>2, <1>1, InvalidatePreserves DEF AtLoop, TypeOK
<1>5. CASE ScanEnds
  <2>1. /\ AtLoop /\ Invalidate /\ UNCHANGED <<submitVars, queue, workerVars, posted>>
        /\ UNCHANGED <<folderRevision, closed, uiClosing>> /\ phase' = "ready"
    BY <1>5 DEF ScanEnds
  <2>2. nextGeneration + 1 + (IF phase' = "scan" THEN 1 ELSE 0)
                       + (IF closed' THEN 0 ELSE 1) <= MaxGeneration
    BY <2>1, <1>1, <1>5 DEF ScanEnds
  <2>3. QED
    BY <2>1, <2>2, <1>1, InvalidatePreserves DEF AtLoop, TypeOK
<1>6. CASE ExportBegins \/ ExportEnds
  BY <1>6, ExportPreserves
<1>7. CASE FolderSelected
  <2>1. folderRevision' \in 0..MaxFolderRevision
    BY <1>1, <1>7, PreviewAssumption DEF FolderSelected
  <2>2. QED
    <3>1. /\ AtLoop /\ Invalidate /\ UNCHANGED <<submitVars, queue, workerVars, posted>>
          /\ UNCHANGED <<phase, closed, uiClosing>>
      BY <1>7 DEF FolderSelected
    <3>2. nextGeneration + 1 + (IF phase' = "scan" THEN 1 ELSE 0)
                         + (IF closed' THEN 0 ELSE 1) <= MaxGeneration
      BY <3>1, <1>1, <1>7 DEF FolderSelected, Room
    <3>3. QED
      BY <2>1, <3>1, <3>2, <1>1, InvalidatePreserves DEF AtLoop, TypeOK
<1>8. CASE WindowClosing
  BY <1>1, <1>8, InvalidatePreserves DEF WindowClosing, AtLoop
<1>9. CASE Submitting
  BY <1>9, SubmitPreserves
<1>10. CASE Callback
  BY <1>10, CallbackPreserves
<1>11. CASE Goroutine
  BY <1>11, GoroutinePreserves
<1>12. CASE Terminated \/ UNCHANGED vars
  BY <1>12, IdlePreserves DEF Terminated
<1>13. QED
  BY <1>2, <1>3, <1>4, <1>5, <1>6, <1>7, <1>8, <1>9, <1>10, <1>11, <1>12 DEF Next

\* The invariant of the queue, the goroutine and the posted results.
THEOREM PreviewInvariant == Spec => []PreviewInv
<1>1. Init => PreviewInv
  BY InitEstablishes
<1>2. PreviewInv /\ [Next]_vars => PreviewInv'
  BY StepPreserves
<1>3. QED
  BY <1>1, <1>2, PTL DEF Spec

\* A newer request, a cancellation, an operation or the close of the window never
\* loses the newest request or a temporary directory, however the UI thread and
\* the goroutine interleave and however many requests there are.
THEOREM NothingEverLost == Spec => []NothingLost
<1>1. PreviewInv => NothingLost
  BY DEF PreviewInv, NothingLost
<1>2. QED
  BY <1>1, PreviewInvariant, PTL
=============================================================================
