---------------------------- MODULE HashPool_proofs ----------------------------
(***************************************************************************)
(* Proofs about HashPool, for any number of workers, every list of files    *)
(* and every outcome of hashing them.                                       *)
(***************************************************************************)
EXTENDS HashPool, FiniteSetTheorems, TLAPS

\* The files handed out, those of them the collector is done with, and the
\* workers that have one.
Out == {Jobs[i] : i \in 1..(nextJob - 1)}
Done == {n \in Out : n # held /\ \A w \in Workers : job[w] # n}
Busy == {w \in Workers : job[w] # NoJob}
Having(v) == {n \in Names : digest[n] = v}

\* A file handed out is with one worker, which reports what hashing it yields;
\* a worker leaves when no more files come, and the results are closed when all
\* have left.
WorkersInv ==
  /\ \A w \in Workers :
       /\ job[w] # NoJob <=> pc[w] \in {"hashing", "sending"}
       /\ job[w] \in Out \cup {NoJob}
       /\ pc[w] = "sending" =>
            verdict[w] = digest[job[w]] \/ (verdict[w] = "canceled" /\ cancelled)
       /\ pc[w] = "exited" => jobsClosed \/ cancelled
  /\ \A v, w \in Workers : job[v] = job[w] /\ job[v] # NoJob => v = w
  /\ resultsClosed => \A w \in Workers : pc[w] = "exited"
  /\ jobsClosed => nextJob > Len(Jobs) \/ cancelled

\* The result the collector holds is of a file no worker has any more.
CollectorInv ==
  /\ held # NoJob <=> collector = "processing"
  /\ held \in Out \cup {NoJob}
  /\ held # NoJob => \A w \in Workers : job[w] # held
  /\ collector = "processing" =>
       heldVerdict = digest[held] \/ (heldVerdict = "canceled" /\ cancelled)

\* Until the context is cancelled, the groups and the counts are exactly those
\* of the files the collector is done with.
AccountInv ==
  /\ ~cancelled /\ collector # "returned" =>
       /\ \A k \in Keys : groups[k] = {n \in Done : digest[n] = k}
       /\ fatalError <=> \E n \in Done : digest[n] = "rootChanged"
       /\ ~fatalError => errorsIgnored = Cardinality({n \in Done : digest[n] = "changed"})
  /\ fatalError => Having("rootChanged") # {}
  /\ errorsIgnored <= processed
  /\ Having("canceled") = {}

\* The inductive invariant.
PoolInv ==
  /\ TypeOK
  /\ WorkersInv
  /\ CollectorInv
  /\ NoFileLost
  /\ AccountInv

-----------------------------------------------------------------------------
(* Facts about the files and the sets of them.                             *)

LEMMA JobsFacts ==
  /\ Len(Jobs) \in Nat /\ DOMAIN Jobs = 1..Len(Jobs)
  /\ \A i \in 1..Len(Jobs) : Jobs[i] \in Names
  /\ \A n \in Names : \E i \in 1..Len(Jobs) : Jobs[i] = n
  /\ \A i, j \in 1..Len(Jobs) : Jobs[i] = Jobs[j] => i = j
  /\ NoJob \notin Names
BY PoolAssumption DEF Names, Range

LEMMA NamesFinite == IsFiniteSet(Names)
<1>1. Jobs \in Surjection(1..Len(Jobs), Names)
  BY JobsFacts, PoolAssumption DEF Surjection, Names, Range
<1>2. IsFiniteSet(1..Len(Jobs))
  BY JobsFacts, FS_Interval
<1>3. QED
  BY <1>1, <1>2, FS_Surjection

LEMMA OutFacts ==
  ASSUME TypeOK
  PROVE  /\ nextJob \in Nat /\ nextJob >= 1 /\ nextJob <= Len(Jobs) + 1
         /\ Out \subseteq Names /\ NoJob \notin Out
         /\ nextJob > Len(Jobs) => Out = Names
         /\ nextJob <= Len(Jobs) => Jobs[nextJob] \in Names \ Out
BY JobsFacts DEF TypeOK, Out

LEMMA CountsFinite ==
  /\ IsFiniteSet(Busy) /\ Cardinality(Busy) \in Nat
  /\ \A S \in SUBSET Names : IsFiniteSet(S) /\ Cardinality(S) \in Nat
<1>1. IsFiniteSet(Busy)
  BY PoolAssumption, FS_Subset DEF Busy
<1>2. \A S \in SUBSET Names : IsFiniteSet(S)
  BY NamesFinite, FS_Subset
<1>3. QED
  BY <1>1, <1>2, FS_CardinalityType

\* Before the context is cancelled, every file handed out counts.
LEMMA FilesBalance ==
  ASSUME NoFileLost, ~cancelled
  PROVE  nextJob - 1 = processed + Cardinality(Busy) + (IF held # NoJob THEN 1 ELSE 0)
BY DEF NoFileLost, Busy

\* As long as no file changes hands, nothing is added to the account.
LEMMA AccountStable ==
  ASSUME AccountInv, UNCHANGED <<digest, collector, groups, processed, errorsIgnored,
                                 fatalError>>,
         cancelled' \/ (~cancelled /\ Done' = Done)
  PROVE  AccountInv'
<1>1. \A v : Having(v)' = Having(v)
  BY DEF Having
<1>2. QED
  BY <1>1 DEF AccountInv

-----------------------------------------------------------------------------
(* The initial states.                                                     *)

LEMMA InitEstablishes == Init => PoolInv
<1> SUFFICES ASSUME Init PROVE PoolInv
  OBVIOUS
<1>1. TypeOK
  <2>1. digest \in [Names -> Verdicts]
    BY DEF Init
  <2>2. /\ nextJob \in 1..(Len(Jobs) + 1)
        /\ processed \in 0..Len(Jobs) /\ errorsIgnored \in 0..Len(Jobs)
    BY JobsFacts DEF Init
  <2>3. /\ cancelled \in BOOLEAN /\ jobsClosed \in BOOLEAN
        /\ resultsClosed \in BOOLEAN /\ fatalError \in BOOLEAN
    BY DEF Init
  <2>4. /\ pc \in [Workers -> {"receiving", "hashing", "sending", "exited"}]
        /\ job \in [Workers -> Names \cup {NoJob}]
        /\ verdict \in [Workers -> Verdicts \cup {"none"}]
        /\ groups \in [Keys -> SUBSET Names]
    BY DEF Init
  <2>5. /\ collector = "receiving" /\ held = NoJob /\ heldVerdict = "none"
        /\ result = "none"
    BY DEF Init
  <2>6. QED
    BY <2>1, <2>2, <2>3, <2>4, <2>5 DEF TypeOK
<1>2. Out = {} /\ Done = {} /\ Busy = {}
  BY DEF Init, Out, Done, Busy
<1>3. WorkersInv
  BY PoolAssumption DEF Init, WorkersInv
<1>4. CollectorInv
  BY DEF Init, CollectorInv
<1>5. NoFileLost
  <2>1. Cardinality({w \in Workers : job[w] # NoJob}) = 0
    BY <1>2, FS_EmptySet DEF Busy
  <2>2. nextJob = 1 /\ processed = 0 /\ held = NoJob
    BY DEF Init
  <2>3. QED
    BY <2>1, <2>2 DEF NoFileLost
<1>6. AccountInv
  <2>1. {n \in Done : digest[n] = "changed"} = {}
    BY <1>2
  <2>2. Having("canceled") = {}
    BY DEF Init, Having
  <2>3. QED
    BY <1>2, <2>1, <2>2, FS_EmptySet DEF Init, AccountInv
<1>7. QED
  BY <1>1, <1>3, <1>4, <1>5, <1>6 DEF PoolInv

-----------------------------------------------------------------------------
(* The context, the producer and the closer.                               *)

\* A step that hands no file over, and after which the workers may leave as
\* before, preserves the invariant.
LEMMA SignalPreserves ==
  ASSUME PoolInv,
         UNCHANGED <<digest, nextJob, pc, job, verdict, collectorVars>>,
         cancelled' \in BOOLEAN, jobsClosed' \in BOOLEAN, resultsClosed' \in BOOLEAN,
         cancelled => cancelled', jobsClosed => jobsClosed',
         jobsClosed' => nextJob > Len(Jobs) \/ cancelled',
         resultsClosed' => \A w \in Workers : pc[w] = "exited"
  PROVE  PoolInv'
<1>1. /\ collector' = collector /\ held' = held /\ heldVerdict' = heldVerdict
      /\ groups' = groups /\ processed' = processed
      /\ errorsIgnored' = errorsIgnored /\ fatalError' = fatalError
      /\ result' = result
  BY DEF collectorVars
<1>2. Out' = Out /\ Done' = Done
  BY <1>1 DEF Out, Done
<1>3. TypeOK'
  BY <1>1 DEF PoolInv, TypeOK
<1>4. WorkersInv'
  BY <1>2 DEF PoolInv, WorkersInv
<1>5. CollectorInv'
  BY <1>1, <1>2 DEF PoolInv, CollectorInv
<1>6. NoFileLost'
  BY <1>1 DEF PoolInv, NoFileLost
<1>7. AccountInv'
  BY <1>1, <1>2, AccountStable DEF PoolInv
<1>8. QED
  BY <1>3, <1>4, <1>5, <1>6, <1>7 DEF PoolInv

LEMMA CancelPreserves == ASSUME PoolInv, Cancel PROVE PoolInv'
BY SignalPreserves DEF Cancel, PoolInv, TypeOK, WorkersInv

LEMMA ProducerEndsPreserves == ASSUME PoolInv, ProducerEnds PROVE PoolInv'
BY SignalPreserves DEF ProducerEnds, PoolInv, TypeOK, WorkersInv

LEMMA CloserEndsPreserves == ASSUME PoolInv, CloserEnds PROVE PoolInv'
BY SignalPreserves DEF CloserEnds, PoolInv, TypeOK, WorkersInv

-----------------------------------------------------------------------------
(* The workers.                                                            *)

LEMMA JobHandedOverPreserves ==
  ASSUME PoolInv, NEW w \in Workers, JobHandedOver(w) PROVE PoolInv'
<1> DEFINE n == Jobs[nextJob]
<1>1. /\ TypeOK /\ nextJob \in Nat /\ nextJob >= 1 /\ nextJob <= Len(Jobs)
      /\ n \in Names \ Out /\ n # NoJob /\ ~jobsClosed /\ pc[w] = "receiving"
      /\ job[w] = NoJob
  BY JobsFacts, OutFacts DEF JobHandedOver, PoolInv, WorkersInv
<1>2. /\ nextJob' = nextJob + 1
      /\ job' = [job EXCEPT ![w] = n] /\ pc' = [pc EXCEPT ![w] = "hashing"]
      /\ verdict' = verdict /\ digest' = digest /\ cancelled' = cancelled
      /\ jobsClosed' = jobsClosed /\ resultsClosed' = resultsClosed
      /\ collector' = collector /\ held' = held /\ heldVerdict' = heldVerdict
      /\ groups' = groups /\ processed' = processed
      /\ errorsIgnored' = errorsIgnored /\ fatalError' = fatalError
      /\ result' = result
  BY DEF JobHandedOver, collectorVars
<1>3. Out' = Out \cup {n}
  BY <1>1, <1>2 DEF Out
<1> HIDE DEF n
<1>4. /\ job'[w] = n /\ pc'[w] = "hashing"
      /\ \A v \in Workers : v # w => job'[v] = job[v] /\ pc'[v] = pc[v]
  BY <1>1, <1>2 DEF TypeOK
<1>5. TypeOK'
  BY <1>1, <1>2, JobsFacts DEF TypeOK
<1>6. WorkersInv'
  BY <1>1, <1>2, <1>3, <1>4 DEF PoolInv, WorkersInv
<1>7. CollectorInv'
  BY <1>1, <1>2, <1>3, <1>4 DEF PoolInv, CollectorInv
<1>8. NoFileLost'
  <2>1. Busy' = Busy \cup {w} /\ w \notin Busy
    BY <1>1, <1>4 DEF Busy
  <2>2. Cardinality(Busy') = Cardinality(Busy) + 1 /\ Cardinality(Busy) \in Nat
    BY <2>1, CountsFinite, FS_AddElement
  <2>3. processed \in Nat
    BY <1>1, JobsFacts DEF TypeOK
  <2>4. ASSUME ~cancelled'
        PROVE  nextJob' - 1 = processed' + Cardinality(Busy')
                                + (IF held' # NoJob THEN 1 ELSE 0)
    BY <1>1, <1>2, <2>2, <2>3, <2>4, FilesBalance DEF PoolInv
  <2>5. QED
    BY <2>4 DEF NoFileLost, Busy
<1>9. Done' = Done
  <2>1. n \notin Out /\ held # n
    BY <1>1 DEF PoolInv, CollectorInv
  <2>2. ASSUME NEW m
        PROVE  m \in Done' <=> m \in Done
    <3>1. m = n => m \notin Done' /\ m \notin Done
      BY <1>4, <2>1 DEF Done
    <3>2. m # n => ((\A v \in Workers : job'[v] # m) <=> (\A v \in Workers : job[v] # m))
                   \/ m \notin Out
      BY <1>1, <1>4, OutFacts
    <3>3. QED
      BY <1>2, <1>3, <3>1, <3>2 DEF Done
  <2>3. QED
    BY <2>2
<1>10. AccountInv'
  BY <1>2, <1>9, AccountStable DEF PoolInv
<1>11. QED
  BY <1>5, <1>6, <1>7, <1>8, <1>10 DEF PoolInv

LEMMA HashesPreserves ==
  ASSUME PoolInv, NEW w \in Workers, Hashes(w) PROVE PoolInv'
<1>1. PICK v \in {digest[job[w]]} \cup (IF cancelled THEN {"canceled"} ELSE {}) :
        verdict' = [verdict EXCEPT ![w] = v]
  BY DEF Hashes
<1>2. /\ nextJob' = nextJob /\ job' = job
      /\ pc[w] = "hashing" /\ pc' = [pc EXCEPT ![w] = "sending"]
      /\ digest' = digest /\ cancelled' = cancelled
      /\ jobsClosed' = jobsClosed /\ resultsClosed' = resultsClosed
      /\ collector' = collector /\ held' = held /\ heldVerdict' = heldVerdict
      /\ groups' = groups /\ processed' = processed
      /\ errorsIgnored' = errorsIgnored /\ fatalError' = fatalError
      /\ result' = result
  BY DEF Hashes, collectorVars
<1>3. Out' = Out /\ Done' = Done
  BY <1>2 DEF Out, Done
<1>4. /\ TypeOK /\ job[w] \in Out /\ Out \subseteq Names
      /\ v = digest[job[w]] \/ (v = "canceled" /\ cancelled)
      /\ v \in Verdicts
  <2>1. TypeOK /\ job[w] # NoJob /\ job[w] \in Out \cup {NoJob}
    BY <1>2 DEF PoolInv, WorkersInv
  <2>2. job[w] \in Out /\ Out \subseteq Names
    BY <2>1, OutFacts
  <2>3. v = digest[job[w]] \/ (v = "canceled" /\ cancelled)
    BY <1>1
  <2>4. digest[job[w]] \in Verdicts /\ "canceled" \in Verdicts
    BY <2>1, <2>2 DEF TypeOK, Verdicts
  <2>5. QED
    BY <2>1, <2>2, <2>3, <2>4
<1>5. /\ verdict'[w] = v /\ pc'[w] = "sending"
      /\ \A u \in Workers : u # w => verdict'[u] = verdict[u] /\ pc'[u] = pc[u]
  BY <1>1, <1>2, <1>4 DEF TypeOK
<1>6. TypeOK'
  BY <1>1, <1>2, <1>4 DEF TypeOK
<1>7. WorkersInv'
  BY <1>2, <1>3, <1>4, <1>5 DEF PoolInv, WorkersInv
<1>8. CollectorInv' /\ NoFileLost'
  BY <1>2, <1>3 DEF PoolInv, CollectorInv, NoFileLost
<1>9. AccountInv'
  BY <1>2, <1>3, AccountStable DEF PoolInv
<1>10. QED
  BY <1>6, <1>7, <1>8, <1>9 DEF PoolInv

LEMMA LeavesPreserves ==
  ASSUME PoolInv, NEW w \in Workers, Leaves(w),
         pc[w] # "exited", cancelled \/ (jobsClosed /\ job[w] = NoJob)
  PROVE PoolInv'
<1>1. /\ nextJob' = nextJob /\ job' = [job EXCEPT ![w] = NoJob]
      /\ pc' = [pc EXCEPT ![w] = "exited"] /\ verdict' = [verdict EXCEPT ![w] = "none"]
      /\ digest' = digest /\ cancelled' = cancelled
      /\ jobsClosed' = jobsClosed /\ resultsClosed' = resultsClosed
      /\ collector' = collector /\ held' = held /\ heldVerdict' = heldVerdict
      /\ groups' = groups /\ processed' = processed
      /\ errorsIgnored' = errorsIgnored /\ fatalError' = fatalError
      /\ result' = result
  BY DEF Leaves, collectorVars
<1>2. Out' = Out /\ TypeOK
  BY <1>1 DEF Out, PoolInv
<1>3. /\ job'[w] = NoJob /\ pc'[w] = "exited"
      /\ \A u \in Workers : u # w => /\ verdict'[u] = verdict[u] /\ pc'[u] = pc[u]
                                     /\ job'[u] = job[u]
  BY <1>1, <1>2 DEF TypeOK
<1>4. TypeOK'
  BY <1>1, <1>2 DEF TypeOK
<1>5. WorkersInv'
  BY <1>1, <1>2, <1>3 DEF PoolInv, WorkersInv
<1>6. CollectorInv'
  BY <1>1, <1>2, <1>3 DEF PoolInv, CollectorInv
<1>7. ASSUME ~cancelled PROVE job' = job
  BY <1>1, <1>2, <1>7 DEF TypeOK
<1>8. NoFileLost'
  BY <1>1, <1>7 DEF PoolInv, NoFileLost
<1>9. ~cancelled => Done' = Done
  BY <1>1, <1>2, <1>7 DEF Done
<1>10. AccountInv'
  BY <1>1, <1>9, AccountStable DEF PoolInv
<1>11. QED
  BY <1>4, <1>5, <1>6, <1>8, <1>10 DEF PoolInv

LEMMA WorkerLeavesPreserves ==
  ASSUME PoolInv, NEW w \in Workers, WorkerEnds(w) \/ GivesUp(w) PROVE PoolInv'
BY LeavesPreserves DEF WorkerEnds, GivesUp, PoolInv, WorkersInv

-----------------------------------------------------------------------------
(* The collector.                                                          *)

LEMMA ResultHandedOverPreserves ==
  ASSUME PoolInv, NEW w \in Workers, ResultHandedOver(w) PROVE PoolInv'
<1>1. /\ TypeOK /\ pc[w] = "sending" /\ collector = "receiving" /\ held = NoJob
      /\ job[w] # NoJob /\ job[w] \in Out /\ Out \subseteq Names
      /\ verdict[w] = digest[job[w]] \/ (verdict[w] = "canceled" /\ cancelled)
      /\ \A v \in Workers : v # w => job[v] # job[w]
      /\ NoJob \notin Out
  BY OutFacts DEF ResultHandedOver, PoolInv, WorkersInv, CollectorInv
<1>2. /\ nextJob' = nextJob /\ job' = [job EXCEPT ![w] = NoJob]
      /\ pc' = [pc EXCEPT ![w] = "receiving"] /\ verdict' = [verdict EXCEPT ![w] = "none"]
      /\ digest' = digest /\ cancelled' = cancelled
      /\ jobsClosed' = jobsClosed /\ resultsClosed' = resultsClosed
      /\ collector' = "processing" /\ held' = job[w] /\ heldVerdict' = verdict[w]
      /\ groups' = groups /\ processed' = processed
      /\ errorsIgnored' = errorsIgnored /\ fatalError' = fatalError
      /\ result' = result
  BY DEF ResultHandedOver
<1>3. /\ job'[w] = NoJob /\ pc'[w] = "receiving"
      /\ \A u \in Workers : u # w => /\ verdict'[u] = verdict[u] /\ pc'[u] = pc[u]
                                     /\ job'[u] = job[u]
  BY <1>1, <1>2 DEF TypeOK
<1>4. Out' = Out
  BY <1>2 DEF Out
<1>5. TypeOK'
  BY <1>1, <1>2 DEF TypeOK
<1>6. WorkersInv'
  BY <1>1, <1>2, <1>3, <1>4 DEF PoolInv, WorkersInv
<1>7. CollectorInv'
  BY <1>1, <1>2, <1>3, <1>4 DEF CollectorInv
<1>8. NoFileLost'
  <2>1. Busy' = Busy \ {w} /\ w \in Busy
    BY <1>1, <1>3 DEF Busy
  <2>2. Cardinality(Busy') = Cardinality(Busy) - 1 /\ Cardinality(Busy) \in Nat
    BY <2>1, CountsFinite, FS_RemoveElement
  <2>3. processed \in Nat /\ nextJob \in Nat
    BY <1>1, OutFacts, JobsFacts DEF TypeOK
  <2>4. ASSUME ~cancelled'
        PROVE  nextJob' - 1 = processed' + Cardinality(Busy')
                                + (IF held' # NoJob THEN 1 ELSE 0)
    BY <1>1, <1>2, <2>2, <2>3, <2>4, FilesBalance DEF PoolInv
  <2>5. QED
    BY <2>4 DEF NoFileLost, Busy
<1>9. Done' = Done
  BY <1>1, <1>2, <1>3, <1>4 DEF Done
<1>10. AccountInv'
  <2>1. \A v : Having(v)' = Having(v)
    BY <1>2 DEF Having
  <2>2. QED
    BY <1>1, <1>2, <1>9, <2>1 DEF AccountInv, PoolInv
<1>11. QED
  BY <1>5, <1>6, <1>7, <1>8, <1>10 DEF PoolInv

\* The call returns, with the groups as they are or without some of them.
LEMMA ReturnPreserves ==
  ASSUME PoolInv, NEW r \in {"ok", "rootChanged", "canceled"}, Return(r),
         groups' \in [Keys -> SUBSET Names],
         cancelled \/ held = NoJob
  PROVE  PoolInv'
<1>1. /\ nextJob' = nextJob /\ job' = job /\ pc' = pc /\ verdict' = verdict
      /\ digest' = digest /\ cancelled' = cancelled
      /\ jobsClosed' = jobsClosed /\ resultsClosed' = resultsClosed
      /\ collector' = "returned" /\ held' = NoJob /\ heldVerdict' = "none"
      /\ processed' = processed
      /\ errorsIgnored' = errorsIgnored /\ fatalError' = fatalError
      /\ result' = r
  BY DEF Return
<1>2. Out' = Out /\ TypeOK
  BY <1>1 DEF Out, PoolInv
<1>3. TypeOK'
  BY <1>1, <1>2 DEF TypeOK
<1>4. WorkersInv'
  BY <1>1, <1>2 DEF PoolInv, WorkersInv
<1>5. CollectorInv'
  BY <1>1 DEF CollectorInv
<1>6. NoFileLost'
  BY <1>1 DEF PoolInv, NoFileLost
<1>7. AccountInv'
  BY <1>1 DEF PoolInv, AccountInv, Having
<1>8. QED
  BY <1>3, <1>4, <1>5, <1>6, <1>7 DEF PoolInv

LEMMA CollectsPreserves ==
  ASSUME PoolInv, Collects PROVE PoolInv'
<1>1. /\ TypeOK /\ collector = "processing" /\ ~cancelled
      /\ held # NoJob /\ held \in Out /\ Out \subseteq Names /\ held \in Names
      /\ heldVerdict = digest[held] /\ held \notin Done
      /\ \A w \in Workers : job[w] # held
      /\ NoJob \notin Out
  BY OutFacts DEF Collects, PoolInv, CollectorInv, Done
<1>2. /\ nextJob' = nextJob /\ job' = job /\ pc' = pc /\ verdict' = verdict
      /\ digest' = digest /\ cancelled' = cancelled
      /\ jobsClosed' = jobsClosed /\ resultsClosed' = resultsClosed
      /\ collector' = "receiving" /\ held' = NoJob /\ heldVerdict' = "none"
      /\ processed' = processed + 1 /\ result' = result
  BY DEF Collects
<1>3. /\ groups' = IF heldVerdict \in Keys
                   THEN [groups EXCEPT ![heldVerdict] = @ \cup {held}] ELSE groups
      /\ fatalError' = (fatalError \/ heldVerdict = "rootChanged")
      /\ errorsIgnored' = IF heldVerdict \in Keys
                               \/ (heldVerdict = "rootChanged" /\ ~fatalError)
                          THEN errorsIgnored ELSE errorsIgnored + 1
  BY DEF Collects
<1>4. processed \in Nat /\ errorsIgnored \in Nat /\ Len(Jobs) \in Nat
  BY <1>1, JobsFacts DEF TypeOK
<1>5. Out' = Out /\ Done' = Done \cup {held}
  BY <1>1, <1>2 DEF Out, Done
<1>6. nextJob - 1 = processed + Cardinality(Busy) + 1
  BY <1>1, FilesBalance DEF PoolInv
<1>7. processed + 1 <= Len(Jobs)
  BY <1>1, <1>4, <1>6, CountsFinite, OutFacts
<1>8. errorsIgnored' \in Nat /\ errorsIgnored' <= processed'
  BY <1>2, <1>3, <1>4 DEF PoolInv, AccountInv
<1>9. TypeOK'
  <2>1. groups' \in [Keys -> SUBSET Names]
    BY <1>1, <1>3 DEF TypeOK
  <2>2. processed' \in 0..Len(Jobs) /\ errorsIgnored' \in 0..Len(Jobs)
    BY <1>2, <1>4, <1>7, <1>8
  <2>3. fatalError' \in BOOLEAN
    BY <1>3
  <2>4. QED
    BY <1>1, <1>2, <2>1, <2>2, <2>3 DEF TypeOK
<1>10. WorkersInv' /\ CollectorInv'
  BY <1>2, <1>5 DEF PoolInv, WorkersInv, CollectorInv
<1>11. NoFileLost'
  <2>1. nextJob' - 1 = processed' + Cardinality({w \in Workers : job'[w] # NoJob})
                         + (IF held' # NoJob THEN 1 ELSE 0)
    BY <1>2, <1>4, <1>6, CountsFinite DEF Busy
  <2>2. QED
    BY <2>1 DEF NoFileLost
<1>12. AccountInv'
  <2>1. /\ \A k \in Keys : groups[k] = {n \in Done : digest[n] = k}
        /\ fatalError <=> \E n \in Done : digest[n] = "rootChanged"
        /\ ~fatalError => errorsIgnored = Cardinality({n \in Done : digest[n] = "changed"})
        /\ fatalError => Having("rootChanged") # {}
    BY <1>1 DEF PoolInv, AccountInv
  <2>2. \A k \in Keys : groups'[k] = {n \in Done' : digest'[n] = k}
    BY <1>1, <1>2, <1>3, <1>5, <2>1 DEF TypeOK
  <2>3. fatalError' <=> \E n \in Done' : digest'[n] = "rootChanged"
    BY <1>1, <1>2, <1>3, <1>5, <2>1
  <2>4. ASSUME ~fatalError'
        PROVE  errorsIgnored' = Cardinality({n \in Done' : digest'[n] = "changed"})
    <3> DEFINE C == {n \in Done : digest[n] = "changed"}
               D == {n \in Done' : digest'[n] = "changed"}
    <3>1. ~fatalError /\ heldVerdict # "rootChanged" /\ errorsIgnored = Cardinality(C)
      BY <1>3, <2>1, <2>4
    <3>2. D = IF heldVerdict = "changed" THEN C \cup {held} ELSE C
      BY <1>1, <1>2, <1>5
    <3>3. heldVerdict \in Keys \/ heldVerdict = "changed"
      <4>1. heldVerdict # "canceled"
        BY <1>1 DEF PoolInv, AccountInv, Having
      <4>2. heldVerdict \in Verdicts
        BY <1>1 DEF TypeOK
      <4>3. QED
        BY <3>1, <4>1, <4>2 DEF Verdicts
    <3>4. held \notin C /\ C \in SUBSET Names
      BY <1>1 DEF Done
    <3>5. IsFiniteSet(C) /\ Cardinality(C) \in Nat
      BY <3>4, CountsFinite
    <3>6. "changed" \notin Keys
      BY PoolAssumption
    <3> HIDE DEF C, D
    <3>7. CASE heldVerdict = "changed"
      <4>1. D = C \cup {held} /\ errorsIgnored' = errorsIgnored + 1
        BY <1>3, <3>2, <3>6, <3>7
      <4>2. Cardinality(D) = Cardinality(C) + 1
        BY <3>4, <3>5, <4>1, FS_AddElement
      <4>3. QED
        BY <3>1, <4>1, <4>2 DEF D
    <3>8. CASE heldVerdict \in Keys
      BY <1>3, <3>1, <3>2, <3>6, <3>8 DEF D
    <3>9. QED
      BY <3>3, <3>7, <3>8
  <2>5. fatalError' => Having("rootChanged")' # {}
    BY <1>1, <1>2, <1>3, <2>1 DEF Having
  <2>6. Having("canceled")' = {}
    BY <1>2 DEF Having, PoolInv, AccountInv
  <2>7. QED
    BY <1>8, <2>2, <2>3, <2>4, <2>5, <2>6 DEF AccountInv
<1>13. QED
  BY <1>9, <1>10, <1>11, <1>12 DEF PoolInv

LEMMA CollectorAbandonsPreserves ==
  ASSUME PoolInv, CollectorAbandons PROVE PoolInv'
BY ReturnPreserves DEF CollectorAbandons, PoolInv, TypeOK

LEMMA CollectorFinishesPreserves ==
  ASSUME PoolInv, CollectorFinishes PROVE PoolInv'
<1>1. FinalVerdict \in {"ok", "rootChanged", "canceled"}
  BY DEF FinalVerdict
<1>2. groups' \in [Keys -> SUBSET Names]
  BY DEF CollectorFinishes, WithoutSingletons, PoolInv, TypeOK
<1>3. held = NoJob
  BY DEF CollectorFinishes, PoolInv, CollectorInv
<1>4. QED
  BY <1>1, <1>2, <1>3, ReturnPreserves DEF CollectorFinishes

-----------------------------------------------------------------------------
(* The theorems.                                                           *)

THEOREM PoolInvariant == Spec => []PoolInv
<1>1. PoolInv /\ [Next]_vars => PoolInv'
  <2> SUFFICES ASSUME PoolInv, [Next]_vars PROVE PoolInv'
    OBVIOUS
  <2>1. CASE UNCHANGED vars
    BY <2>1, SignalPreserves DEF vars, collectorVars, PoolInv, TypeOK, WorkersInv
  <2>2. CASE Cancel
    BY <2>2, CancelPreserves
  <2>3. CASE Producer
    BY <2>3, JobHandedOverPreserves, ProducerEndsPreserves DEF Producer
  <2>4. CASE \E w \in Workers : Worker(w)
    BY <2>4, HashesPreserves, WorkerLeavesPreserves, ResultHandedOverPreserves
       DEF Worker
  <2>5. CASE CloserEnds
    BY <2>5, CloserEndsPreserves
  <2>6. CASE Collector
    BY <2>6, CollectorAbandonsPreserves, CollectsPreserves, CollectorFinishesPreserves
       DEF Collector
  <2>7. QED
    BY <2>1, <2>2, <2>3, <2>4, <2>5, <2>6 DEF Next, Terminated
<1>2. QED
  BY <1>1, InitEstablishes, PTL DEF Spec

\* Until the context is cancelled no file is lost between the channels, and
\* nobody sends on a channel that is closed.
THEOREM ChannelsAlwaysSound == Spec => []ChannelsAreSound
<1>1. PoolInv => ChannelsAreSound
  BY DEF PoolInv, WorkersInv, ChannelsAreSound, NoSendAfterClose
<1>2. QED
  BY <1>1, PoolInvariant, PTL

\* The result, once there is one, stays and is the truth.
VerdictInv ==
  /\ result # "none" => collector = "returned"
  /\ VerdictIsHonest

\* When the collector finishes before the context is cancelled it is done with
\* every file.
LEMMA FinishedWithAll ==
  ASSUME PoolInv, CollectorFinishes, ~cancelled
  PROVE  Done = Names
<1>1. /\ \A w \in Workers : pc[w] = "exited" /\ job[w] = NoJob
      /\ held = NoJob /\ TypeOK
  BY DEF CollectorFinishes, PoolInv, WorkersInv, CollectorInv
<1>2. jobsClosed
  BY <1>1, PoolAssumption DEF PoolInv, WorkersInv
<1>3. Out = Names /\ NoJob \notin Names
  BY <1>1, <1>2, OutFacts, JobsFacts DEF PoolInv, WorkersInv
<1>4. QED
  BY <1>1, <1>3 DEF Done

LEMMA SuccessAtTheEnd ==
  ASSUME PoolInv, CollectorFinishes, result' = "ok"
  PROVE  SuccessIsComplete'
<1>1. /\ ~fatalError /\ ~cancelled /\ groups' = WithoutSingletons
      /\ errorsIgnored' = errorsIgnored /\ digest' = digest
      /\ collector = "receiving"
  BY DEF CollectorFinishes, Return, FinalVerdict
<1>2. Done = Names
  BY <1>1, FinishedWithAll
<1>3. /\ \A k \in Keys : groups[k] = {n \in Names : digest[n] = k}
      /\ {n \in Names : digest[n] = "rootChanged"} = {}
      /\ errorsIgnored = Cardinality({n \in Names : digest[n] = "changed"})
  BY <1>1, <1>2 DEF PoolInv, AccountInv
<1>4. \A k \in Keys :
        groups'[k] = IF Cardinality({n \in Names : digest[n] = k}) < 2 THEN {}
                     ELSE {n \in Names : digest[n] = k}
  BY <1>1, <1>3 DEF WithoutSingletons
<1>5. QED
  BY <1>1, <1>3, <1>4 DEF SuccessIsComplete

LEMMA VerdictStays ==
  ASSUME PoolInv, VerdictInv, [Next]_vars
  PROVE  VerdictInv'
<1>1. CASE UNCHANGED result
  <2>1. digest' = digest /\ (cancelled => cancelled')
    BY DEF Next, vars, Cancel, Producer, JobHandedOver, ProducerEnds, Worker, Hashes,
           WorkerEnds, GivesUp, Leaves, ResultHandedOver, CloserEnds, Collector,
           CollectorAbandons, Collects, CollectorFinishes, Return, Terminated
  <2>2. CASE result = "none"
    BY <1>1, <2>2 DEF VerdictInv, VerdictIsHonest, SuccessIsComplete, FailureHasItsCause
  <2>3. CASE collector = "returned"
    <3>1. UNCHANGED <<collector, groups, errorsIgnored>>
      BY <2>3
         DEF Next, vars, collectorVars, Cancel, Producer, JobHandedOver, ProducerEnds,
             Worker, Hashes, WorkerEnds, GivesUp, Leaves, ResultHandedOver, CloserEnds,
             Collector, CollectorAbandons, Collects, CollectorFinishes, Terminated
    <3>2. QED
      BY <1>1, <2>1, <2>3, <3>1
         DEF VerdictInv, VerdictIsHonest, SuccessIsComplete, FailureHasItsCause
  <2>4. QED
    BY <2>2, <2>3 DEF VerdictInv
<1>2. CASE result' # result
  <2>1. CollectorAbandons \/ CollectorFinishes
    BY <1>2
       DEF Next, vars, collectorVars, Cancel, Producer, JobHandedOver, ProducerEnds,
           Worker, Hashes, WorkerEnds, GivesUp, Leaves, ResultHandedOver, CloserEnds,
           Collector, Collects, Terminated
  <2>2. CASE CollectorAbandons
    BY <2>2 DEF CollectorAbandons, Return, VerdictInv, VerdictIsHonest,
                SuccessIsComplete, FailureHasItsCause
  <2>3. CASE CollectorFinishes
    <3>1. /\ collector' = "returned" /\ result' = FinalVerdict
          /\ digest' = digest /\ cancelled' = cancelled
      BY <2>3 DEF CollectorFinishes, Return
    <3>2. result' = "ok" => SuccessIsComplete'
      BY <2>3, SuccessAtTheEnd
    <3>3. result' = "canceled" => cancelled'
      BY <3>1 DEF FinalVerdict
    <3>4. result' = "rootChanged" => \E n \in Names : digest'[n] = "rootChanged"
      BY <3>1 DEF FinalVerdict, PoolInv, AccountInv, Having
    <3>5. QED
      BY <3>1, <3>2, <3>3, <3>4
         DEF VerdictInv, VerdictIsHonest, SuccessIsComplete, FailureHasItsCause
  <2>4. QED
    BY <2>1, <2>2, <2>3
<1>3. QED
  BY <1>1, <1>2

\* A success lists exactly the sets of two or more files with one hash, and a
\* failure has its cause.
THEOREM VerdictAlwaysHonest == Spec => []VerdictIsHonest
<1>1. Init => VerdictInv
  BY DEF Init, VerdictInv, VerdictIsHonest, SuccessIsComplete, FailureHasItsCause
<1>2. PoolInv /\ VerdictInv /\ [Next]_vars => VerdictInv'
  BY VerdictStays
<1>3. VerdictInv => VerdictIsHonest
  BY DEF VerdictInv
<1>4. QED
  BY <1>1, <1>2, <1>3, PoolInvariant, PTL DEF Spec
=============================================================================
