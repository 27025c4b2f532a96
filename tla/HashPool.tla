------------------------------ MODULE HashPool ------------------------------
(***************************************************************************)
(* The goroutine pool of mapByBoundaryHash and mapByFullHash in            *)
(* internal/scanner/engine.go, which differ only in the hash: a producer   *)
(* hands files to workers over an unbuffered channel, the workers hand     *)
(* results to the collector (the calling goroutine) over another, and a    *)
(* closer closes the second channel once all workers are gone.  Only the   *)
(* context ends the pool early; the collector may then have left already.  *)
(*                                                                         *)
(* What hashing a file yields is fixed by digest: a key, "changed" for any *)
(* error that is counted and ignored, "rootChanged" for one that is fatal. *)
(***************************************************************************)
EXTENDS Naturals, FiniteSets, Sequences, Functions

CONSTANTS
  Workers,
  Jobs,   \* the files, a sequence of distinct names
  Keys,   \* the values of the hash
  NoJob

Names == Range(Jobs)
Verdicts == Keys \cup {"changed", "rootChanged", "canceled"}

\* NewEngineWithLimits makes it at least one worker, and at most 64.
ASSUME PoolAssumption ==
  /\ IsFiniteSet(Workers) /\ Workers # {}
  /\ Jobs \in Seq(Range(Jobs))
  /\ \A i, j \in 1..Len(Jobs) : Jobs[i] = Jobs[j] => i = j
  /\ NoJob \notin Names
  /\ Keys \cap {"changed", "rootChanged", "canceled"} = {}

VARIABLES
  digest,
  cancelled,   \* the context
  nextJob,     \* the producer's position in Jobs
  jobsClosed, resultsClosed,
  pc,          \* per worker
  job, verdict,
  collector,   \* "receiving", "processing", "returned"
  held,        \* the result the collector has received, by name
  heldVerdict,
  groups, processed, errorsIgnored, fatalError,
  result

vars == <<digest, cancelled, nextJob, jobsClosed, resultsClosed, pc, job,
          verdict, collector, held, heldVerdict, groups, processed,
          errorsIgnored, fatalError, result>>

collectorVars == <<collector, held, heldVerdict, groups, processed,
                   errorsIgnored, fatalError, result>>

Init ==
  /\ digest \in [Names -> Verdicts \ {"canceled"}]
  /\ cancelled = FALSE
  /\ nextJob = 1
  /\ jobsClosed = FALSE
  /\ resultsClosed = FALSE
  /\ pc = [w \in Workers |-> "receiving"]
  /\ job = [w \in Workers |-> NoJob]
  /\ verdict = [w \in Workers |-> "none"]
  /\ collector = "receiving"
  /\ held = NoJob
  /\ heldVerdict = "none"
  /\ groups = [k \in Keys |-> {}]
  /\ processed = 0
  /\ errorsIgnored = 0
  /\ fatalError = FALSE
  /\ result = "none"

Cancel ==
  /\ ~cancelled
  /\ cancelled' = TRUE
  /\ UNCHANGED <<digest, nextJob, jobsClosed, resultsClosed, pc, job, verdict,
                 collectorVars>>

-----------------------------------------------------------------------------
(* Producer, workers, closer.                                              *)

\* A send of the producer meets the receive of worker w.
JobHandedOver(w) ==
  /\ ~jobsClosed
  /\ nextJob <= Len(Jobs)
  /\ pc[w] = "receiving"
  /\ nextJob' = nextJob + 1
  /\ job' = [job EXCEPT ![w] = Jobs[nextJob]]
  /\ pc' = [pc EXCEPT ![w] = "hashing"]
  /\ UNCHANGED <<digest, cancelled, jobsClosed, resultsClosed, verdict,
                 collectorVars>>

\* Mutant: the producer only stops when all jobs are sent.
ProducerInsists ==
  /\ ~jobsClosed
  /\ nextJob > Len(Jobs)
  /\ jobsClosed' = TRUE
  /\ UNCHANGED <<digest, cancelled, nextJob, resultsClosed, pc, job, verdict,
                 collectorVars>>

ProducerEnds ==
  /\ ~jobsClosed
  /\ nextJob > Len(Jobs) \/ cancelled
  /\ jobsClosed' = TRUE
  /\ UNCHANGED <<digest, cancelled, nextJob, resultsClosed, pc, job, verdict,
                 collectorVars>>

\* Hashing notices a cancelled context at its next check, if there is one left.
Hashes(w) ==
  /\ pc[w] = "hashing"
  /\ pc' = [pc EXCEPT ![w] = "sending"]
  /\ \E v \in {digest[job[w]]} \cup (IF cancelled THEN {"canceled"} ELSE {}) :
       verdict' = [verdict EXCEPT ![w] = v]
  /\ UNCHANGED <<digest, cancelled, nextJob, jobsClosed, resultsClosed, job,
                 collectorVars>>

Leaves(w) ==
  /\ pc' = [pc EXCEPT ![w] = "exited"]
  /\ job' = [job EXCEPT ![w] = NoJob]
  /\ verdict' = [verdict EXCEPT ![w] = "none"]
  /\ UNCHANGED <<digest, cancelled, nextJob, jobsClosed, resultsClosed,
                 collectorVars>>

WorkerEnds(w) ==
  /\ pc[w] = "receiving"
  /\ jobsClosed
  /\ Leaves(w)

\* The select between the result and ctx.Done: the result is dropped.
GivesUp(w) ==
  /\ pc[w] = "sending"
  /\ cancelled
  /\ Leaves(w)

\* Mutant: results is closed as soon as no more jobs come.
ClosesWithJobs ==
  /\ ~resultsClosed
  /\ jobsClosed
  /\ resultsClosed' = TRUE
  /\ UNCHANGED <<digest, cancelled, nextJob, jobsClosed, pc, job, verdict,
                 collectorVars>>

CloserEnds ==
  /\ ~resultsClosed
  /\ \A w \in Workers : pc[w] = "exited"
  /\ resultsClosed' = TRUE
  /\ UNCHANGED <<digest, cancelled, nextJob, jobsClosed, pc, job, verdict,
                 collectorVars>>

-----------------------------------------------------------------------------
(* The collector.                                                          *)

ResultHandedOver(w) ==
  /\ pc[w] = "sending"
  /\ collector = "receiving"
  /\ collector' = "processing"
  /\ held' = job[w]
  /\ heldVerdict' = verdict[w]
  /\ pc' = [pc EXCEPT ![w] = "receiving"]
  /\ job' = [job EXCEPT ![w] = NoJob]
  /\ verdict' = [verdict EXCEPT ![w] = "none"]
  /\ UNCHANGED <<digest, cancelled, nextJob, jobsClosed, resultsClosed, groups,
                 processed, errorsIgnored, fatalError, result>>

Return(r) ==
  /\ collector' = "returned"
  /\ result' = r
  /\ held' = NoJob
  /\ heldVerdict' = "none"
  /\ UNCHANGED <<digest, cancelled, nextJob, jobsClosed, resultsClosed, pc, job,
                 verdict, processed, errorsIgnored, fatalError>>

CollectorAbandons ==
  /\ collector = "processing"
  /\ cancelled
  /\ Return("canceled")
  /\ UNCHANGED groups

\* The first fatal error is kept, any other error is counted.
Collects ==
  /\ collector = "processing"
  /\ ~cancelled
  /\ processed' = processed + 1
  /\ groups' = IF heldVerdict \in Keys
               THEN [groups EXCEPT ![heldVerdict] = @ \cup {held}] ELSE groups
  /\ fatalError' = (fatalError \/ heldVerdict = "rootChanged")
  /\ errorsIgnored' = IF heldVerdict \in Keys
                           \/ (heldVerdict = "rootChanged" /\ ~fatalError)
                      THEN errorsIgnored ELSE errorsIgnored + 1
  /\ collector' = "receiving"
  /\ held' = NoJob
  /\ heldVerdict' = "none"
  /\ UNCHANGED <<digest, cancelled, nextJob, jobsClosed, resultsClosed, pc, job,
                 verdict, result>>

\* Mutant: the results are returned without a last look at the context.
FinalVerdictIgnoresContext == IF fatalError THEN "rootChanged" ELSE "ok"

\* A fatal error wins over a cancellation noticed only now.
FinalVerdict ==
  IF fatalError THEN "rootChanged" ELSE IF cancelled THEN "canceled" ELSE "ok"

WithoutSingletons ==
  [k \in Keys |-> IF Cardinality(groups[k]) < 2 THEN {} ELSE groups[k]]

CollectorFinishes ==
  /\ collector = "receiving"
  /\ resultsClosed
  /\ Return(FinalVerdict)
  /\ groups' = IF fatalError THEN groups ELSE WithoutSingletons

-----------------------------------------------------------------------------

Producer == (\E w \in Workers : JobHandedOver(w)) \/ ProducerEnds
Worker(w) == Hashes(w) \/ WorkerEnds(w) \/ GivesUp(w) \/ ResultHandedOver(w)
Collector == CollectorAbandons \/ Collects \/ CollectorFinishes

AllEnded ==
  /\ collector = "returned"
  /\ jobsClosed /\ resultsClosed

Terminated == AllEnded /\ UNCHANGED vars

Next ==
  \/ Cancel
  \/ Producer
  \/ \E w \in Workers : Worker(w)
  \/ CloserEnds
  \/ Collector
  \/ Terminated

Spec == Init /\ [][Next]_vars

\* Every goroutine keeps running, and hashing a file ends.
FairSpec ==
  /\ Spec
  /\ WF_vars(Producer) /\ WF_vars(CloserEnds) /\ WF_vars(Collector)
  /\ \A w \in Workers : WF_vars(Worker(w))

-----------------------------------------------------------------------------
(* Properties.                                                             *)

\* The types of the pool's variables.
TypeOK ==
  /\ digest \in [Names -> Verdicts]
  /\ cancelled \in BOOLEAN /\ jobsClosed \in BOOLEAN /\ resultsClosed \in BOOLEAN
  /\ nextJob \in 1..(Len(Jobs) + 1)
  /\ pc \in [Workers -> {"receiving", "hashing", "sending", "exited"}]
  /\ job \in [Workers -> Names \cup {NoJob}]
  /\ verdict \in [Workers -> Verdicts \cup {"none"}]
  /\ collector \in {"receiving", "processing", "returned"}
  /\ held \in Names \cup {NoJob}
  /\ heldVerdict \in Verdicts \cup {"none"}
  /\ groups \in [Keys -> SUBSET Names]
  /\ processed \in 0..Len(Jobs) /\ errorsIgnored \in 0..Len(Jobs)
  /\ fatalError \in BOOLEAN
  /\ result \in {"none", "ok", "rootChanged", "canceled"}

\* Until the context is cancelled no file handed out gets lost: each is with
\* one worker, held by the collector, or processed.
NoFileLost ==
  ~cancelled =>
    nextJob - 1 = processed
                    + Cardinality({w \in Workers : job[w] # NoJob})
                    + (IF held # NoJob THEN 1 ELSE 0)

\* Nobody sends on a closed channel, which would panic.
NoSendAfterClose ==
  resultsClosed => \A w \in Workers : pc[w] \notin {"hashing", "sending"}

\* Nothing gets lost between the channels (and the variables have their types).
ChannelsAreSound == TypeOK /\ NoFileLost /\ NoSendAfterClose

\* A success accounts for every file: the groups are exactly the sets of two or
\* more files with one hash, and the rest was counted.
SuccessIsComplete ==
  result = "ok" =>
    LET having(v) == {n \in Names : digest[n] = v} IN
    /\ \A k \in Keys : groups[k] = IF Cardinality(having(k)) < 2 THEN {} ELSE having(k)
    /\ having("rootChanged") = {}
    /\ errorsIgnored = Cardinality(having("changed"))

\* A failure has its cause: a cancelled scan was cancelled, and a root that
\* changed is never passed over in favour of a partial result.
FailureHasItsCause ==
  /\ result = "canceled" => cancelled
  /\ result = "rootChanged" => \E n \in Names : digest[n] = "rootChanged"

\* What the call says of the files is true.
VerdictIsHonest == SuccessIsComplete /\ FailureHasItsCause

\* The call returns, cancelled or not, and leaves no goroutine behind.
PoolEnds == <>[](AllEnded /\ \A w \in Workers : pc[w] = "exited")
=============================================================================
