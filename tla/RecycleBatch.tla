---------------------------- MODULE RecycleBatch ----------------------------
(***************************************************************************)
(* The result table and the recycling of its checked rows, of              *)
(* internal/gui/app_windows.go: the rows of duplicateTableModel, their     *)
(* selection, the plan built from them, its confirmation, the goroutine    *)
(* that sends one request per group to the scanner, and the batch of       *)
(* results applied to the table.  What a request does to the files is the  *)
(* contract of module RecycleContract, which RecyclePolicy implements.     *)
(*                                                                         *)
(* A file stands for its record and its path; that two paths differ only   *)
(* in case, or a group lists a path twice, does not occur here.  A group   *)
(* is one of its key's rows: size and hash are equal in it because         *)
(* setGroups copies them from the group, so the plan's check of them never *)
(* fails.  A group holds every record of its key (mapByFullHash), and the  *)
(* records of two scans are different ones.                                *)
(***************************************************************************)
EXTENDS RecycleContract, Naturals, FiniteSets, FiniteSetsExt, Sequences,
        SequencesExt

CONSTANTS
  Files,        \* the records a scan may list
  Keys,         \* the keys size:hash
  KeyOf,        \* the key of each file
  IdentityOf,   \* its file identity: hard links share one
  ModifiedAt,   \* its time of modification
  Scans,        \* the possible results of a duplicate scan
  MaxEntries,   \* maxRecycleConfirmationEntries
  MaxBatches,   \* bound on the batches the user starts
  MaxChanges    \* bound on changes by other programs

ASSUME BatchAssumption ==
  /\ KeyOf \in [Files -> Keys]
  /\ DOMAIN IdentityOf = Files
  /\ ModifiedAt \in [Files -> Nat]
  /\ Scans \subseteq Seq(Seq(Files))
  /\ \A groups \in Scans : \A g \in DOMAIN groups :
       /\ Len(groups[g]) >= 2
       /\ \A k, l \in DOMAIN groups[g] : groups[g][k] = groups[g][l] => k = l
       /\ \A h \in DOMAIN groups : \A k \in DOMAIN groups[g], l \in DOMAIN groups[h] :
            KeyOf[groups[g][k]] = KeyOf[groups[h][l]] <=> g = h
       /\ \A k \in DOMAIN groups[g], f \in Files :
            KeyOf[f] = KeyOf[groups[g][k]] => \E l \in DOMAIN groups[g] : groups[g][l] = f
  /\ MaxEntries \in Nat /\ MaxBatches \in Nat /\ MaxChanges \in Nat
  /\ Statuses \subseteq {"recycled", "changed", "protected", "cancelled", "failed"}
  /\ {"recycled", "failed"} \subseteq Statuses

VARIABLES
  rows,       \* duplicateTableModel.rows
  stage,      \* "surface" or "ready" table, "confirm" dialog, "deleting"
  plan,       \* the recyclePlan captured by the dialog and the goroutine
  results,    \* recycleBatchResult.groups: the results of the requests so far
  worker,     \* the goroutine: "none", "idle" between requests, "busy",
              \* "returned", its completion posted
  inBin,      \* the files in the Recycle Bin
  approved,   \* the files in the confirmations the user has agreed to
  untold,     \* files recycled without a result that says so
  quiet,      \* nothing has changed, failed or panicked so far
  batches, changes

tableVars == <<rows, stage, plan, approved, batches>>
batchVars == <<results, worker>>
fileVars == <<inBin, untold, quiet, changes>>
vars == <<tableVars, batchVars, fileVars, requestVars>>

\* No request is at work.
NoRequest ==
  /\ members = {} /\ selected = {} /\ binned = {}
  /\ status = [m \in {} |-> NoResult]

-----------------------------------------------------------------------------
(* The rows.                                                               *)

\* The elements of a finite set in an order, given by those before each.
InOrder(S, before) ==
  [n \in 1..Cardinality(S) |-> CHOOSE x \in S : Cardinality(before[x]) = n - 1]
Ascending(S) == InOrder(S, [x \in S |-> {y \in S : y < x}])

FilesOf(groups) == UNION {ToSet(groups[g]) : g \in DOMAIN groups}

\* setSurfaceFiles, in some order; the key of such a row is its own.
SurfaceRows(files) ==
  LET sorted == SetToSeq(files) IN
  [i \in DOMAIN sorted |->
     [number |-> i, group |-> 0, key |-> sorted[i], status |-> "Scanned",
      duplicate |-> FALSE, selected |-> FALSE, file |-> sorted[i]]]

\* setGroups: group after group, each in its own order.
Places(groups) ==
  LET places == UNION {{g} \X DOMAIN groups[g] : g \in DOMAIN groups} IN
  InOrder(places, [p \in places |->
                     {q \in places : q[1] < p[1] \/ (q[1] = p[1] /\ q[2] < p[2])}])
GroupRows(groups) ==
  LET places == Places(groups) IN
  [i \in DOMAIN places |->
     LET f == groups[places[i][1]][places[i][2]] IN
     [number |-> i, group |-> places[i][1], key |-> KeyOf[f], status |-> "Duplicate",
      duplicate |-> TRUE, selected |-> FALSE, file |-> f]]

RowsOf(s, key) == {i \in DOMAIN s : s[i].key = key}
FirstRow(s, key) == Min(RowsOf(s, key))
FilesIn(s) == {s[i].file : i \in DOMAIN s}
Checked(s) == {i \in DOMAIN s : s[i].duplicate /\ s[i].selected}

\* The row selectAllExcept keeps of each group: the first of those that no
\* other one is newer (older) than.
KeptRow(key, keepNewest) ==
  LET time(i) == ModifiedAt[rows[i].file]
      beats(i, j) == IF keepNewest THEN time(i) > time(j) ELSE time(i) < time(j) IN
  Min({i \in RowsOf(rows, key) : \A j \in RowsOf(rows, key) : ~beats(j, i)})

\* Mutant: a group that has shrunk to one file stays in the table.
PrunedOfEmpty(s, S) == S

\* removeDeleted: rows whose group has fewer than two left go with the deleted;
\* the groups that stay are numbered in the order of their first rows.
Pruned(s, S) == {i \in S : Cardinality(RowsOf(s, s[i].key) \cap S) >= 2}

Renumbered(s, S) ==
  LET order == Ascending(S)
      first(key) == Min(RowsOf(s, key) \cap S) IN
  [n \in DOMAIN order |->
     LET row == s[order[n]] IN
     [row EXCEPT !.number = n, !.selected = FALSE,
        !.group = Cardinality({s[i].key : i \in S \cap (1..first(row.key))})]]

RemoveDeleted(s, deleted) ==
  Renumbered(s, Pruned(s, {i \in DOMAIN s : s[i].file \notin deleted}))

-----------------------------------------------------------------------------
(* The table in the user's hands.  It is enabled in the reviewable phases  *)
(* only, and a dialog keeps all input from it.                             *)

Reviewable == stage \in {"surface", "ready"}
ResultActions == stage = "ready" /\ \E i \in DOMAIN rows : rows[i].duplicate

TableChanged(s) ==
  /\ rows' = s
  /\ UNCHANGED <<stage, plan, approved, batches, batchVars, fileVars, requestVars>>

\* SetChecked: only the row of a duplicate can be checked.
SetChecked(i, checked) ==
  /\ Reviewable
  /\ i \in DOMAIN rows
  /\ TableChanged([rows EXCEPT ![i].selected = checked /\ rows[i].duplicate])

SelectAllExcept(keepNewest) ==
  /\ ResultActions
  /\ TableChanged([i \in DOMAIN rows |->
       [rows[i] EXCEPT !.selected =
          rows[i].duplicate /\ KeptRow(rows[i].key, keepNewest) # i]])

ClearSelection ==
  /\ ResultActions
  /\ TableChanged([i \in DOMAIN rows |-> [rows[i] EXCEPT !.selected = FALSE]])

\* The duplicate scan ends, and its groups take the place of the surface rows.
ScanFinished(groups) ==
  /\ stage = "surface"
  /\ FilesIn(rows) = FilesOf(groups)
  /\ rows' = GroupRows(groups)
  /\ stage' = "ready"
  /\ UNCHANGED <<plan, approved, batches, batchVars, fileVars, requestVars>>

-----------------------------------------------------------------------------
(* The plan and its confirmation.                                          *)

PlannedGroup(key) ==
  [group    |-> rows[FirstRow(rows, key)].group,
   files    |-> {rows[i].file : i \in RowsOf(rows, key)},
   selected |-> {rows[i].file : i \in RowsOf(rows, key) \cap Checked(rows)}]

\* The groups with a checked row, in the order of the table.
PlannedGroups ==
  LET first == Ascending({FirstRow(rows, rows[i].key) : i \in Checked(rows)}) IN
  [n \in DOMAIN first |-> PlannedGroup(rows[first[n]].key)]

Copies(files) == {IdentityOf[f] : f \in files}

\* Mutant: one selected copy too many.
RemovesMoreThanAll(g) == Cardinality(Copies(g.selected)) > Cardinality(Copies(g.files))

\* errRecycleWouldRemoveAllCopies.
RemovesAllCopies(g) == Cardinality(Copies(g.selected)) >= Cardinality(Copies(g.files))

\* Every target and every file kept has a line in the confirmation.
Entries(groups) == FoldLeft(LAMBDA n, g : n + Cardinality(g.files), 0, groups)

\* confirmDeleteSelected up to its dialog.  A plan that is refused is reported
\* in a message box and changes nothing.
DeleteClicked ==
  /\ ResultActions
  /\ Checked(rows) # {}
  /\ plan' = PlannedGroups
  /\ \A n \in DOMAIN plan' : ~RemovesAllCopies(plan'[n])
  /\ Entries(plan') <= MaxEntries
  /\ stage' = "confirm"
  /\ UNCHANGED <<rows, approved, batches, batchVars, fileVars, requestVars>>

Targets(groups) == UNION {groups[n].selected : n \in DOMAIN groups}

\* The batch begins: beginDelete and the start of the goroutine.
StartBatch ==
  /\ stage' = "deleting"
  /\ batches' = batches + 1
  /\ results' = <<>>
  /\ worker' = "idle"
  /\ UNCHANGED <<rows, plan, fileVars, requestVars>>

Answered(yes) ==
  /\ stage = "confirm"
  /\ IF yes
       THEN approved' = approved \cup Targets(plan) /\ StartBatch
       ELSE /\ stage' = "ready" /\ plan' = <<>>
            /\ UNCHANGED <<rows, approved, batches, batchVars, fileVars, requestVars>>

-----------------------------------------------------------------------------
(* The goroutine: one request per planned group, in order.                 *)

StartRequest ==
  /\ worker = "idle" /\ Len(results) < Len(plan)
  /\ LET planned == plan[Len(results) + 1] IN
     /\ members' = planned.files
     /\ selected' = planned.selected
     /\ status' = [f \in planned.files |-> NoResult]
  /\ worker' = "busy"
  /\ UNCHANGED <<tableVars, results, fileVars, intact, binned>>

\* The scanner accepts only separate files, and some to keep.
Acceptable ==
  /\ Cardinality(Copies(members)) = Cardinality(members)
  /\ selected # members

\* A file that is not in the bin already is recycled.
MovesToBin(t) ==
  /\ worker = "busy" /\ Acceptable
  /\ t \notin inBin
  /\ Recycle(t)
  /\ inBin' = inBin \cup {t}
  /\ UNCHANGED <<tableVars, batchVars, untold, quiet, changes>>

FinishesItem(t, s) ==
  /\ worker = "busy" /\ Acceptable
  /\ Report(t, s)
  /\ untold' = IF s # "recycled" THEN untold \cup ({t} \cap binned) ELSE untold
  /\ quiet' = (quiet /\ s = "recycled")
  /\ UNCHANGED <<tableVars, batchVars, inBin, changes>>

RejectsRequest ==
  /\ worker = "busy"
  /\ ~Acceptable
  /\ Reject
  /\ UNCHANGED <<tableVars, batchVars, fileVars>>

RequestDone ==
  /\ members' = {} /\ selected' = {} /\ binned' = {}
  /\ status' = [m \in {} |-> NoResult]
  /\ UNCHANGED intact

\* Mutant: a request with a failed item is sent again.
RetriesUntilRecycled ==
  /\ worker = "busy"
  /\ Unanswered = {}
  /\ results' = IF \A f \in selected : status[f] = "recycled"
                THEN Append(results, [f \in selected |-> status[f]]) ELSE results
  /\ RequestDone
  /\ worker' = "idle"
  /\ UNCHANGED <<tableVars, fileVars>>

\* RecycleExactDuplicates returns, and its result joins the batch.
RequestReturns ==
  /\ worker = "busy"
  /\ Unanswered = {}
  /\ results' = Append(results, [f \in selected |-> status[f]])
  /\ RequestDone
  /\ worker' = "idle"
  /\ UNCHANGED <<tableVars, fileVars>>

\* A panic within a request is recovered; the batch holds the results of the
\* earlier ones.
Panics ==
  /\ worker = "busy"
  /\ RequestDone
  /\ untold' = untold \cup binned
  /\ quiet' = FALSE
  /\ worker' = "returned"
  /\ UNCHANGED <<tableVars, results, inBin, changes>>

BatchReturns ==
  /\ worker = "idle" /\ Len(results) = Len(plan)
  /\ worker' = "returned"
  /\ UNCHANGED <<tableVars, results, fileVars, requestVars>>

-----------------------------------------------------------------------------
(* The completion.                                                         *)

Reported == UNION {DOMAIN results[n] : n \in DOMAIN results}
ResultOf(f) == (CHOOSE r \in ToSet(results) : f \in DOMAIN r)[f]

\* retainedRecycleStatus.
RetainedStatus == [changed   |-> "Changed - kept",   protected |-> "Protected - kept",
                   cancelled |-> "Cancelled - kept", failed    |-> "Recycle failed - kept"]

Deleted == {f \in Reported : ResultOf(f) = "recycled"}

Marked(r) ==
  [r EXCEPT !.selected = FALSE,
            !.status = IF r.file \in Reported \ Deleted
                       THEN RetainedStatus[ResultOf(r.file)] ELSE @]

\* Mutant: every file with a result leaves the table.
RowsWithoutItems == RemoveDeleted(rows, Reported)

\* applyRecycleBatchToModel.
BatchApplied == RemoveDeleted([i \in DOMAIN rows |-> Marked(rows[i])], Deleted)

\* Mutant: a batch cut short by a panic is not applied.
AppliesWholeBatches ==
  /\ worker = "returned"
  /\ rows' = IF Len(results) = Len(plan) THEN BatchApplied
             ELSE [i \in DOMAIN rows |-> [rows[i] EXCEPT !.selected = FALSE]]
  /\ stage' = "ready" /\ worker' = "none"
  /\ plan' = <<>> /\ results' = <<>>
  /\ UNCHANGED <<approved, batches, fileVars, requestVars>>

ApplyRecycleBatch ==
  /\ worker = "returned"
  /\ rows' = BatchApplied
  /\ stage' = "ready" /\ worker' = "none"
  /\ plan' = <<>> /\ results' = <<>>
  /\ UNCHANGED <<approved, batches, fileVars, requestVars>>

-----------------------------------------------------------------------------
(* Other programs: a file changes or goes, or comes back as it was.        *)

OutsideChange(f) ==
  /\ changes < MaxChanges
  /\ f \in FilesIn(rows) \ inBin
  /\ changes' = changes + 1
  /\ intact' = IF f \in intact THEN intact \ {f} ELSE intact \cup {f}
  /\ quiet' = FALSE
  /\ UNCHANGED <<tableVars, batchVars, inBin, untold, members, selected, binned,
                 status>>

Init ==
  /\ \E groups \in Scans : rows = SurfaceRows(FilesOf(groups))
  /\ stage = "surface"
  /\ plan = <<>> /\ results = <<>>
  /\ worker = "none"
  /\ intact = Files
  /\ NoRequest
  /\ inBin = {} /\ approved = {} /\ untold = {}
  /\ quiet = TRUE
  /\ batches = 0 /\ changes = 0

\* The table is empty, or the user has had enough: after the last batch the model
\* looks at no more selections.
NoMoreBatches == stage = "ready" /\ (rows = <<>> \/ batches = MaxBatches)
Terminated == NoMoreBatches /\ UNCHANGED vars

TableInput ==
  \/ \E i \in DOMAIN rows, checked \in BOOLEAN : SetChecked(i, checked)
  \/ \E keepNewest \in BOOLEAN : SelectAllExcept(keepNewest)
  \/ ClearSelection
  \/ DeleteClicked
  \/ \E yes \in BOOLEAN : Answered(yes)

User == ~NoMoreBatches /\ TableInput

Worker ==
  \/ StartRequest
  \/ \E t \in selected : MovesToBin(t) \/ \E s \in Statuses : FinishesItem(t, s)
  \/ RejectsRequest
  \/ RequestReturns
  \/ Panics
  \/ BatchReturns

Next ==
  \/ User
  \/ \E groups \in Scans : ScanFinished(groups)
  \/ Worker
  \/ ApplyRecycleBatch
  \/ \E f \in Files : OutsideChange(f)
  \/ Terminated

Spec == Init /\ [][Next]_vars

\* File operations return, and posted completions are run: ApplyRecycleBatch is
\* the one step that takes the worker away.
FairSpec ==
  Spec /\ WF_vars(Worker) /\ WF_worker(worker = "returned" /\ worker' = "none")

-----------------------------------------------------------------------------
(* Properties.                                                             *)

\* The table keeps its form through any sequence of batches: its rows are
\* numbered, no file has two, the groups are numbered in order and contiguous,
\* each is of one key and has at least two rows, and only duplicates are checked.
RowsWellFormed ==
  /\ \A i \in DOMAIN rows : rows[i].number = i /\ (rows[i].selected => rows[i].duplicate)
  /\ \A i, j \in DOMAIN rows :
       /\ rows[i].file = rows[j].file => i = j
       /\ rows[i].duplicate => (rows[i].key = rows[j].key <=> rows[i].group = rows[j].group)
  /\ \A i \in DOMAIN rows : rows[i].duplicate =>
       /\ Cardinality(RowsOf(rows, rows[i].key)) >= 2
       /\ rows[i].group = IF i = 1 THEN 1
                          ELSE IF rows[i].key = rows[i - 1].key THEN rows[i - 1].group
                          ELSE rows[i - 1].group + 1

\* Between batches the table lists no file that is in the Recycle Bin, unless
\* its own result failed to say so or was lost in a panic.
TableIsTrue == stage # "deleting" => FilesIn(rows) \cap inBin \subseteq untold

\* Only what a confirmation listed, and the user agreed to, is ever recycled,
\* and then another file of the group, one the confirmation showed as kept, is
\* in place: also in later batches, after results that were not the truth.
RecycledAsConfirmed ==
  [][\A f \in inBin' \ inBin :
       /\ f \in approved
       /\ \E n \in DOMAIN plan :
            /\ f \in plan[n].selected
            /\ ((plan[n].files \ plan[n].selected) \cap intact') \ inBin' # {}]_vars

\* A file leaves the table only if its result was that it is recycled, or if
\* this was the result of all other files of its group; and a file with any
\* other result is shown with that result.
UncertainRowsStay ==
  [][stage = "deleting" =>
       /\ \A f \in FilesIn(rows) \ FilesIn(rows') :
            \/ f \in Deleted
            \/ \A g \in FilesIn(rows) \ {f} : KeyOf[g] = KeyOf[f] => g \in Deleted
       /\ stage' = "ready" =>
            \A f \in Reported \ Deleted : \E i \in DOMAIN rows' :
              rows'[i].file = f /\ rows'[i].status = RetainedStatus[ResultOf(f)]]_vars

\* If nothing changes and nothing fails, what the user agreed to is exactly
\* what is in the bin, except in groups with hard links, where nothing is; and
\* the table has exactly the groups that still have a duplicate.
QuietBatchIsCarriedOut ==
  quiet /\ stage = "ready" =>
    LET separate == {f \in approved : \A g, h \in Files :
                       /\ KeyOf[f] = KeyOf[g] /\ KeyOf[g] = KeyOf[h] /\ g # h
                       => IdentityOf[g] # IdentityOf[h]}
        left(key) == {f \in Files \ inBin : KeyOf[f] = key} IN
    /\ inBin = separate
    /\ \A f \in FilesIn(rows) : Cardinality(left(KeyOf[f])) >= 2
    /\ \A i \in DOMAIN rows :
         left(rows[i].key) = {rows[j].file : j \in RowsOf(rows, rows[i].key)}

\* Every batch ends, and its results reach the table.
BatchEnds == stage = "deleting" ~> stage = "ready"
=============================================================================
