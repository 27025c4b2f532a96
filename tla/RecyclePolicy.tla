--------------------------- MODULE RecyclePolicy ---------------------------
(***************************************************************************)
(* recycleExactDuplicates of internal/scanner/delete.go: one request to    *)
(* recycle the selected members of a duplicate group.  For each target it  *)
(* opens and verifies an unselected member (the keeper), opens and verifies *)
(* the target, hands the open target to the recycle adapter and checks that *)
(* the path is gone.  Other programs write, rename, link, remove and create *)
(* files meanwhile, as far as the share modes of the open handles let them: *)
(* both handles deny writing, the keeper's also renaming and removal, and   *)
(* neither can be opened while another program has the file open to write. *)
(*                                                                         *)
(* Released builds have an adapter that refuses everything; the policy is   *)
(* written for one that acts on the identity of the handle it is given.    *)
(***************************************************************************)
EXTENDS Naturals, FiniteSets, Sequences, Functions, FiniteSetsExt

CONSTANTS
  Paths, Inodes, NoInode,
  Contents,
  InitialFiles,     \* the functions [Paths -> Inodes \cup {NoInode}] to begin with
  Groups,           \* the groups to consider: sequences of paths
  Adapters,         \* the adapters to consider: each a set of Outcomes
  Cancellable,      \* may the context be cancelled (the GUI never does)
  MaxChanges        \* bound on changes by other programs

Outcomes == {"moved", "moved unconfirmed", "refused", "aborted"}
Skips == {"changed", "protected", "cancelled", "failed"}

ASSUME RecycleAssumption ==
  /\ IsFiniteSet(Paths)
  /\ NoInode \notin Inodes
  /\ InitialFiles \subseteq [Paths -> Inodes \cup {NoInode}]
  /\ Groups \subseteq Seq(Paths)
  /\ Adapters \subseteq SUBSET Outcomes
  /\ Cancellable \in BOOLEAN
  /\ MaxChanges \in Nat

VARIABLES
  fs,        \* the inode each path names
  content, mtime,
  bin,       \* the inodes in the Recycle Bin
  writers,   \* the inodes another program has open for writing
  changes,
  group,     \* the request: the records of the group,
  selected,  \* and the selected ones, by index
  adapter,   \* what the adapter may do
  ctxCancelled,
  pc,
  target,    \* the index of the record being recycled
  keepers,   \* the keepers not tried yet for this target
  faults,    \* what was wrong with those that were
  keeperHandle, targetHandle,  \* inodes held open
  status     \* the item results, by index

fsVars == <<fs, content, mtime, bin, writers, changes>>
request == <<group, selected, adapter>>
handles == <<keeperHandle, targetHandle>>
vars == <<fsVars, request, ctxCancelled, pc, target, keepers, faults, handles,
          status>>

Members == DOMAIN group
LinkCount(i) == Cardinality({p \in Paths : fs[p] = i})

\* The group comes from a scan: its files had the same bytes then.
GroupHash == CHOOSE c \in Contents : \A r \in Members : group[r].content = c

Record(p) == [path |-> p, inode |-> fs[p], mtime |-> mtime[fs[p]],
              links |-> LinkCount(fs[p]), content |-> content[fs[p]]]

Init ==
  /\ fs \in InitialFiles
  /\ content \in [Inodes -> Contents]
  /\ mtime = [i \in Inodes |-> 1]
  /\ bin = {} /\ writers = {} /\ changes = 0
  /\ \E g \in Groups :
       /\ \A r \in DOMAIN g : fs[g[r]] # NoInode
       /\ \A r, s \in DOMAIN g : content[fs[g[r]]] = content[fs[g[s]]]
       /\ group = [r \in DOMAIN g |-> Record(g[r])]
       /\ selected \in SUBSET DOMAIN g
  /\ adapter \in Adapters
  /\ ctxCancelled = FALSE
  /\ pc = "validate"
  /\ target = 0
  /\ keepers = {} /\ faults = {}
  /\ keeperHandle = NoInode /\ targetHandle = NoInode
  /\ status = [r \in Members |-> "none"]

-----------------------------------------------------------------------------
(* Other programs, and the caller's context.                               *)

Interferes ==
  /\ pc # "done"
  /\ changes < MaxChanges
  /\ changes' = changes + 1
  /\ UNCHANGED <<bin, request, ctxCancelled, pc, target, keepers, faults,
                 handles, status>>

OpenForWriting(i) ==
  /\ Interferes
  /\ LinkCount(i) > 0 /\ i \notin writers
  /\ i \notin {keeperHandle, targetHandle}
  /\ writers' = writers \cup {i}
  /\ UNCHANGED <<fs, content, mtime>>

CloseWriter(i) ==
  /\ Interferes
  /\ i \in writers
  /\ writers' = writers \ {i}
  /\ UNCHANGED <<fs, content, mtime>>

Write(i, c) ==
  /\ Interferes
  /\ i \in writers /\ content[i] # c
  /\ content' = [content EXCEPT ![i] = c]
  /\ mtime' = [mtime EXCEPT ![i] = @ + 1]
  /\ UNCHANGED <<fs, writers>>

\* Renaming and removing need delete sharing, which the keeper's handle denies.
RemoveOrRename(p, q) ==
  /\ Interferes
  /\ fs[p] # NoInode /\ fs[p] # keeperHandle
  /\ p = q \/ fs[q] = NoInode
  /\ fs' = IF p = q THEN [fs EXCEPT ![p] = NoInode]
           ELSE [fs EXCEPT ![q] = fs[p], ![p] = NoInode]
  /\ UNCHANGED <<content, mtime, writers>>

\* A hard link to a file with a name, or a new file.
LinkOrCreate(p, i) ==
  /\ Interferes
  /\ fs[p] = NoInode
  /\ i \notin bin /\ (LinkCount(i) > 0 \/ i \notin {keeperHandle, targetHandle})
  /\ fs' = [fs EXCEPT ![p] = i]
  /\ UNCHANGED <<content, mtime, writers>>

Cancel ==
  /\ Cancellable /\ ~ctxCancelled /\ pc # "done"
  /\ ctxCancelled' = TRUE
  /\ UNCHANGED <<fsVars, request, pc, target, keepers, faults, handles, status>>

-----------------------------------------------------------------------------
(* validateRecycleRequest.                                                 *)

Valid ==
  /\ Cardinality(Members) > 1
  /\ selected # {}
  /\ \A r, s \in Members :
       r # s => group[r].path # group[s].path /\ group[r].inode # group[s].inode
  /\ \A r \in Members : group[r].links = 1
  /\ selected # Members

\* A rejected request fails every item and touches nothing.
Validate ==
  /\ pc = "validate"
  /\ IF Valid
       THEN pc' = "next" /\ UNCHANGED status
       ELSE /\ pc' = "done"
            /\ status' = [r \in Members |-> IF r \in selected THEN "failed" ELSE "none"]
  /\ UNCHANGED <<fsVars, request, ctxCancelled, target, keepers, faults, handles>>

-----------------------------------------------------------------------------
(* recycleOne.                                                             *)

Unfinished == {r \in selected : status[r] = "none"}

\* Mutant: the request ends with its first item.
AllDoneAfterFirst ==
  /\ pc = "next"
  /\ \E r \in selected : status[r] # "none"
  /\ pc' = "done"
  /\ UNCHANGED <<fsVars, request, ctxCancelled, target, keepers, faults, handles,
                 status>>

AllDone ==
  /\ pc = "next"
  /\ Unfinished = {}
  /\ pc' = "done"
  /\ UNCHANGED <<fsVars, request, ctxCancelled, target, keepers, faults, handles,
                 status>>

\* recycleOne returns; its deferred calls close both handles.
Item(s) ==
  /\ pc' = "next"
  /\ status' = [status EXCEPT ![target] = s]
  /\ target' = 0
  /\ keepers' = {} /\ faults' = {}
  /\ keeperHandle' = NoInode /\ targetHandle' = NoInode
  /\ UNCHANGED <<fsVars, request, ctxCancelled>>

NextTarget ==
  /\ pc = "next"
  /\ Unfinished # {}
  /\ LET r == Min(Unfinished) IN
     IF ctxCancelled
       THEN /\ status' = [status EXCEPT ![r] = "cancelled"]
            /\ UNCHANGED <<pc, target, keepers>>
       ELSE /\ target' = r
            /\ keepers' = Members \ selected
            /\ pc' = "keeper"
            /\ UNCHANGED status
  /\ UNCHANGED <<fsVars, request, ctxCancelled, faults, handles>>

\* Mutant: whatever file the path names will do.
InspectionByName(r) ==
  LET i == fs[group[r].path] IN
  CASE ctxCancelled       -> "cancelled"
    [] i = NoInode        -> "changed"
    [] i \in writers      -> "failed"
    [] LinkCount(i) # 1   -> "protected"
    [] OTHER              -> "ok"

\* openScopedVerificationSnapshot and the checks on its snapshot.
Inspection(r) ==
  LET i == fs[group[r].path] IN
  CASE ctxCancelled                       -> "cancelled"
    [] i = NoInode                        -> "changed"
    [] i \in writers                      -> "failed"
    [] LinkCount(i) # 1                   -> "protected"
    [] i # group[r].inode \/ mtime[i] # group[r].mtime -> "changed"
    [] OTHER                              -> "ok"

\* Hashing the open file (with checks of the context), then
\* verifyStableSnapshotInScope, then the comparison of the hashes.  What a file
\* no longer at its path is taken for depends on where it went.
Verifications(r, handle) ==
  (IF fs[group[r].path] # handle THEN {"changed", "protected", "failed"}
   ELSE IF LinkCount(handle) = 1 /\ content[handle] = GroupHash THEN {"ok"}
   ELSE {"changed"})
    \cup (IF ctxCancelled THEN {"cancelled"} ELSE {})

\* openVerifiedKeeper goes on to the next candidate unless cancelled; without
\* a keeper, the item is skipped for the weightiest of the reasons.
KeeperFails(reason) ==
  IF reason = "cancelled" THEN Item("cancelled")
  ELSE IF keepers = {Min(keepers)}
    THEN LET reasons == faults \cup {reason} IN
         Item(IF "changed" \in reasons THEN "changed"
              ELSE IF "protected" \in reasons THEN "protected" ELSE "failed")
    ELSE /\ keepers' = keepers \ {Min(keepers)}
         /\ faults' = faults \cup {reason}
         /\ keeperHandle' = NoInode
         /\ pc' = "keeper"
         /\ UNCHANGED <<fsVars, request, ctxCancelled, target, targetHandle, status>>

OpenKeeper ==
  /\ pc = "keeper"
  /\ LET k == Min(keepers) IN
     IF Inspection(k) = "ok"
       THEN /\ keeperHandle' = fs[group[k].path]
            /\ pc' = "keeper hash"
            /\ UNCHANGED <<fsVars, request, ctxCancelled, target, keepers, faults,
                           targetHandle, status>>
       ELSE KeeperFails(Inspection(k))

\* Mutant: the keeper is verified, then closed.
VerifyKeeperAndClose ==
  /\ pc = "keeper hash"
  /\ \E v \in Verifications(Min(keepers), keeperHandle) :
       IF v = "ok"
         THEN /\ pc' = "target"
              /\ keeperHandle' = NoInode
              /\ UNCHANGED <<fsVars, request, ctxCancelled, target, keepers,
                             faults, targetHandle, status>>
         ELSE KeeperFails(v)

VerifyKeeper ==
  /\ pc = "keeper hash"
  /\ \E v \in Verifications(Min(keepers), keeperHandle) :
       IF v = "ok"
         THEN /\ pc' = "target"
              /\ UNCHANGED <<fsVars, request, ctxCancelled, target, keepers,
                             faults, handles, status>>
         ELSE KeeperFails(v)

OpenTarget ==
  /\ pc = "target"
  /\ IF Inspection(target) = "ok"
       THEN /\ targetHandle' = fs[group[target].path]
            /\ pc' = "target hash"
            /\ UNCHANGED <<fsVars, request, ctxCancelled, target, keepers, faults,
                           keeperHandle, status>>
       ELSE Item(Inspection(target))

VerifyTarget ==
  /\ pc = "target hash"
  /\ \E v \in Verifications(target, targetHandle) :
       IF v = "ok"
         THEN /\ pc' = "handoff"
              /\ UNCHANGED <<fsVars, request, ctxCancelled, target, keepers,
                             faults, handles, status>>
         ELSE Item(v)

HandoffCancelled ==
  /\ pc = "handoff"
  /\ ctxCancelled
  /\ Item("cancelled")

\* Mutant: the adapter's error is ignored; the missing path will tell.
AdapterErrorIgnored ==
  /\ pc = "handoff"
  /\ ~ctxCancelled
  /\ adapter \cap {"refused", "aborted"} # {}
  /\ pc' = "absent"
  /\ UNCHANGED <<fsVars, request, ctxCancelled, target, keepers, faults, handles,
                 status>>

\* The adapter leaves the file alone and says so, as it must when the file it
\* holds has lost its last name.
AdapterRefuses ==
  /\ pc = "handoff"
  /\ ~ctxCancelled
  /\ \/ /\ "refused" \in adapter \/ LinkCount(targetHandle) = 0
        /\ Item("failed")
     \/ "aborted" \in adapter /\ Item("cancelled")

\* The adapter moves the file it holds, under whatever name it has by now, to
\* the bin; another name it was given meanwhile stays.
AdapterMoves(outcome) ==
  /\ pc = "handoff"
  /\ ~ctxCancelled
  /\ outcome \in adapter \cap {"moved", "moved unconfirmed"}
  /\ bin' = bin \cup {targetHandle}
  /\ \E p \in Paths :
       fs[p] = targetHandle /\ fs' = [fs EXCEPT ![p] = NoInode]
  /\ pc' = IF outcome = "moved" THEN "absent" ELSE "unconfirmed"
  /\ UNCHANGED <<content, mtime, writers, changes, request, ctxCancelled, target,
                 keepers, faults, handles, status>>

\* A receipt that does not confirm the identity counts as a failure.
ReceiptRejected == pc = "unconfirmed" /\ Item("failed")

\* The last look at the context and verifySourcePathAbsent.
CheckAbsent ==
  /\ pc = "absent"
  /\ Item(IF ctxCancelled THEN "cancelled"
          ELSE IF fs[group[target].path] # NoInode THEN "failed"
          ELSE "recycled")

Terminated == pc = "done" /\ UNCHANGED vars

Policy ==
  \/ Validate \/ AllDone \/ NextTarget
  \/ OpenKeeper \/ VerifyKeeper \/ OpenTarget \/ VerifyTarget
  \/ HandoffCancelled \/ AdapterRefuses
  \/ \E outcome \in Outcomes : AdapterMoves(outcome)
  \/ ReceiptRejected \/ CheckAbsent

Next ==
  \/ \E i \in Inodes : OpenForWriting(i) \/ CloseWriter(i)
  \/ \E i \in Inodes, c \in Contents : Write(i, c)
  \/ \E p, q \in Paths : RemoveOrRename(p, q)
  \/ \E p \in Paths, i \in Inodes : LinkOrCreate(p, i)
  \/ Cancel
  \/ Policy
  \/ Terminated

Spec == Init /\ [][Next]_vars

-----------------------------------------------------------------------------
(* Properties.                                                             *)

\* The types of the policy's variables; handles are open only while an item is
\* at work.
TypeOK ==
  /\ fs \in [Paths -> Inodes \cup {NoInode}]
  /\ content \in [Inodes -> Contents]
  /\ mtime \in [Inodes -> 1..(MaxChanges + 1)]
  /\ bin \in SUBSET Inodes /\ writers \in SUBSET Inodes
  /\ changes \in 0..MaxChanges
  /\ selected \in SUBSET Members
  /\ adapter \in Adapters
  /\ ctxCancelled \in BOOLEAN
  /\ target \in Members \cup {0}
  /\ keepers \in SUBSET Members
  /\ faults \in SUBSET Skips
  /\ keeperHandle \in Inodes \cup {NoInode} /\ targetHandle \in Inodes \cup {NoInode}
  /\ pc \in {"validate", "next", "done", "keeper"} =>
       keeperHandle = NoInode /\ targetHandle = NoInode
  /\ status \in [Members -> Skips \cup {"none", "recycled"}]

\* Whatever other programs do, at the moment a file goes to the Recycle Bin a
\* different file of its group, not selected, is in place under its path with
\* the same bytes, and no other program can write or remove it.
CopyInPlaceWhenRecycled ==
  [][bin' # bin =>
       \E k \in Members \ selected :
         LET kept == fs[group[k].path] IN
         /\ kept = group[k].inode /\ kept = keeperHandle
         /\ fs'[group[k].path] = kept
         /\ kept \notin bin' \cup writers
         /\ \A i \in bin' \ bin : content[i] = content[kept]]_vars

\* Only files the user selected are ever recycled, each as it was when the scan
\* showed it to the user.
OnlySelectedRecycled ==
  [][\A i \in bin' \ bin :
       \E r \in selected :
         /\ group[r].inode = i
         /\ mtime[i] = group[r].mtime /\ content[i] = GroupHash]_vars

\* A file reported as recycled is in the bin, and one reported as changed or
\* protected is not; at the end every selected file and no other has a result.
StatusHonest ==
  /\ TypeOK
  /\ \A r \in Members :
       /\ status[r] = "recycled" => group[r].inode \in bin
       /\ status[r] \in {"changed", "protected"} => group[r].inode \notin bin
  /\ pc = "done" => selected = {r \in Members : status[r] # "none"}

\* If nothing interferes and the adapter does as it is told, a valid request is
\* carried out in full, and an invalid one not at all.
QuietRequestIsCarriedOut ==
  pc = "done" /\ changes = 0 /\ ~ctxCancelled /\ adapter = {"moved"} =>
    bin = IF Valid THEN {group[r].inode : r \in selected} ELSE {}

\* The policy keeps the promise that the batch of module RecycleBatch relies on,
\* with every step of other programs, of the adapter and of the cancellation.
Promise == INSTANCE RecycleContract WITH
  Statuses <- Skips \cup {"recycled"},
  members <- Members,
  intact <- {r \in Members : /\ fs[group[r].path] = group[r].inode
                             /\ content[group[r].inode] = GroupHash
                             /\ group[r].inode \notin bin},
  binned <- {r \in Members : group[r].inode \in bin}

KeepsPromise == Promise!ContractSpec

\* recycleConfirmationMessage (internal/gui/app_windows.go:1165) promises that
\* changed, protected, cancelled, or failed files remain in place.
UnrecycledRemainInPlace ==
  \A r \in Members : status[r] \in Skips => group[r].inode \notin bin
=============================================================================
