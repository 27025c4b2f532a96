------------------------ MODULE RecyclePolicy_proofs ------------------------
(***************************************************************************)
(* Proofs about RecyclePolicy, for all sets of paths, files and contents,   *)
(* every group and selection, every adapter and every bound on interference. *)
(***************************************************************************)
EXTENDS RecyclePolicy, WellFoundedInduction, FiniteSetTheorems, TLAPS

\* The policy's position while an item is at work, once its keeper is open,
\* once the keeper is verified, once the target is open, and verified.
AtWork == {"keeper", "keeper hash", "target", "target hash", "handoff",
           "absent", "unconfirmed"}
KeeperOpen == AtWork \ {"keeper"}
KeeperChecked == KeeperOpen \ {"keeper hash"}
TargetOpen == KeeperChecked \ {"target"}
TargetChecked == TargetOpen \ {"target hash"}

Keeper == Min(keepers)

\* The request is a group of named files, and modification times count writes.
RequestTyped ==
  /\ Members \subseteq Nat \ {0}
  /\ \A r \in Members : group[r].path \in Paths /\ group[r].inode \in Inodes
  /\ \A i \in Inodes : mtime[i] <= changes + 1

\* Only a valid request is ever at work, and only on files it selects.
RequestGuarded ==
  /\ pc \in AtWork \cup {"next"} \/ bin # {} => Valid
  /\ bin \subseteq {group[r].inode : r \in selected}
  /\ pc \in AtWork =>
       /\ target \in selected
       /\ keepers # {} /\ keepers \subseteq Members \ selected

\* From the moment the keeper is open, its path names it and nobody can write
\* it; once it is verified it has the bytes of the group.
KeeperHeld ==
  /\ pc \in KeeperOpen =>
       /\ keeperHandle = group[Keeper].inode
       /\ fs[group[Keeper].path] = keeperHandle
       /\ keeperHandle \notin writers
  /\ pc \in KeeperChecked => content[keeperHandle] = GroupHash

\* The same of the target, which may lose its path but not change.
TargetHeld ==
  /\ pc \notin TargetOpen => targetHandle = NoInode
  /\ pc \in TargetOpen =>
       /\ targetHandle = group[target].inode
       /\ targetHandle \notin writers
       /\ mtime[targetHandle] = group[target].mtime
  /\ pc \in TargetChecked => content[targetHandle] = GroupHash

\* The inductive invariant.
PolicyInv ==
  /\ TypeOK
  /\ RequestTyped
  /\ RequestGuarded
  /\ KeeperHeld
  /\ TargetHeld

-----------------------------------------------------------------------------
(* Facts about the operators.                                              *)

\* Min of a set of natural numbers that is not empty is one of them.
LEMMA MinInSet ==
  ASSUME NEW S \in SUBSET Nat, S # {}
  PROVE  Min(S) \in S
<1> DEFINE Less == {p \in Nat \X Nat : p[1] < p[2]}
<1>1. IsWellFoundedOn(Less, Nat)
  BY NatLessThanWellFounded DEF OpToRel
<1>2. PICK m \in S : \A y \in S : <<y, m>> \notin Less
  <2> HIDE DEF Less
  <2> QED
    BY <1>1, WFMin
<1>3. ASSUME NEW y \in S PROVE m =< y
  <2>1. <<y, m>> \in Nat \X Nat /\ <<y, m>>[1] = y /\ <<y, m>>[2] = m
    OBVIOUS
  <2>2. ~(y < m)
    BY <1>2, <2>1
  <2>3. QED
    BY <2>2
<1>4. QED
  BY <1>3 DEF Min

\* The request is the same before and after a step that leaves it alone.
LEMMA RequestStable ==
  ASSUME UNCHANGED request
  PROVE  /\ group' = group /\ selected' = selected /\ adapter' = adapter
         /\ Members' = Members /\ GroupHash' = GroupHash /\ (Valid' <=> Valid)
BY DEF request, Members, GroupHash, Valid

\* What a valid request guarantees: keepers and targets are different files.
LEMMA ValidSeparates ==
  ASSUME Valid, NEW r \in Members, NEW s \in Members, r # s
  PROVE  group[r].path # group[s].path /\ group[r].inode # group[s].inode
BY DEF Valid

\* The keeper tried is a member that is not selected.
LEMMA KeeperIsMember ==
  ASSUME PolicyInv, pc \in AtWork
  PROVE  Keeper \in keepers /\ Keeper \in Members \ selected
BY MinInSet DEF PolicyInv, RequestTyped, RequestGuarded, Keeper

\* While the target is open, keeper and target are different files.
LEMMA HandlesDiffer ==
  ASSUME PolicyInv, pc \in TargetOpen
  PROVE  keeperHandle # targetHandle
<1>1. pc \in AtWork /\ pc \in KeeperOpen
  BY DEF TargetOpen, KeeperChecked, KeeperOpen
<1>2. Keeper \in Members \ selected /\ target \in selected /\ selected \subseteq Members
  BY <1>1, KeeperIsMember DEF PolicyInv, RequestGuarded, TypeOK
<1>3. Valid
  BY <1>1 DEF PolicyInv, RequestGuarded
<1>4. QED
  BY <1>1, <1>2, <1>3, ValidSeparates DEF PolicyInv, KeeperHeld, TargetHeld

\* An inspection succeeds only for the file of the record, unchanged.
LEMMA InspectionSound ==
  ASSUME NEW r
  PROVE  /\ Inspection(r) \in Skips \cup {"ok"}
         /\ Inspection(r) = "ok" =>
              LET i == fs[group[r].path] IN
              /\ i # NoInode /\ i \notin writers
              /\ i = group[r].inode /\ mtime[i] = group[r].mtime
BY DEF Inspection, Skips

\* A verification succeeds only for a file with the bytes of the group, under
\* the path of the record.
LEMMA VerificationSound ==
  ASSUME NEW r, NEW handle, NEW v \in Verifications(r, handle)
  PROVE  /\ v \in Skips \cup {"ok"}
         /\ v = "ok" => fs[group[r].path] = handle /\ content[handle] = GroupHash
BY DEF Verifications, Skips

-----------------------------------------------------------------------------
(* The initial states.                                                     *)

LEMMA InitEstablishes == Init => PolicyInv
<1> SUFFICES ASSUME Init PROVE PolicyInv
  OBVIOUS
<1>1. fs \in [Paths -> Inodes \cup {NoInode}] /\ MaxChanges \in Nat
  BY RecycleAssumption DEF Init
<1>2. PICK g \in Groups :
        /\ \A r \in DOMAIN g : fs[g[r]] # NoInode
        /\ group = [r \in DOMAIN g |-> Record(g[r])]
        /\ selected \in SUBSET DOMAIN g
  BY DEF Init
<1>3. g \in Seq(Paths) /\ Members = DOMAIN g
  BY <1>2, RecycleAssumption DEF Members
<1>4. Members \subseteq Nat \ {0}
  BY <1>3
<1>5. ASSUME NEW r \in Members
      PROVE  group[r].path \in Paths /\ group[r].inode \in Inodes
  <2>1. g[r] \in Paths /\ fs[g[r]] \in Inodes
    BY <1>1, <1>2, <1>3
  <2>2. group[r].path = g[r] /\ group[r].inode = fs[g[r]]
    BY <1>2, <1>3 DEF Record
  <2>3. QED
    BY <2>1, <2>2
<1>6. TypeOK
  <2>1. /\ mtime \in [Inodes -> 1..(MaxChanges + 1)]
        /\ changes \in 0..MaxChanges
    BY <1>1 DEF Init
  <2>2. /\ selected \in SUBSET Members
        /\ status \in [Members -> Skips \cup {"none", "recycled"}]
    BY <1>2, <1>3 DEF Init
  <2>3. /\ ctxCancelled \in BOOLEAN /\ adapter \in Adapters
        /\ bin \in SUBSET Inodes /\ writers \in SUBSET Inodes
        /\ content \in [Inodes -> Contents]
        /\ target = 0 /\ keepers = {} /\ faults = {}
        /\ keeperHandle = NoInode /\ targetHandle = NoInode
    BY DEF Init
  <2>4. QED
    BY <1>1, <2>1, <2>2, <2>3 DEF TypeOK
<1>7. RequestTyped
  <2>1. \A i \in Inodes : mtime[i] <= changes + 1
    BY DEF Init
  <2>2. QED
    BY <1>4, <1>5, <2>1 DEF RequestTyped
<1>8. RequestGuarded
  BY DEF Init, RequestGuarded, AtWork
<1>9. KeeperHeld /\ TargetHeld
  BY DEF Init, KeeperHeld, TargetHeld, TargetChecked, TargetOpen, KeeperChecked,
         KeeperOpen, AtWork
<1>10. QED
  BY <1>6, <1>7, <1>8, <1>9 DEF PolicyInv

-----------------------------------------------------------------------------
(* Other programs.                                                         *)

\* A step outside the policy preserves the invariant if it leaves the keeper's
\* path and the bytes and times of the open files alone.
LEMMA OutsidePreserves ==
  ASSUME PolicyInv,
         UNCHANGED <<bin, request, pc, target, keepers, faults, handles, status>>,
         ctxCancelled' \in BOOLEAN, changes' \in 0..MaxChanges,
         fs' \in [Paths -> Inodes \cup {NoInode}],
         content' \in [Inodes -> Contents],
         mtime' \in [Inodes -> 1..(MaxChanges + 1)],
         writers' \in SUBSET Inodes,
         \A i \in Inodes : mtime'[i] <= changes' + 1,
         keeperHandle # NoInode =>
           /\ keeperHandle \notin writers => keeperHandle \notin writers'
           /\ \A p \in Paths : fs[p] = keeperHandle => fs'[p] = keeperHandle
           /\ keeperHandle \notin writers => content'[keeperHandle] = content[keeperHandle],
         targetHandle # NoInode =>
           /\ targetHandle \notin writers => targetHandle \notin writers'
           /\ targetHandle \notin writers =>
                /\ content'[targetHandle] = content[targetHandle]
                /\ mtime'[targetHandle] = mtime[targetHandle]
  PROVE  PolicyInv'
<1>1. UNCHANGED request
  OBVIOUS
<1>2. /\ group' = group /\ selected' = selected /\ adapter' = adapter
      /\ Members' = Members /\ GroupHash' = GroupHash /\ (Valid' <=> Valid)
  BY <1>1, RequestStable
<1>3. /\ bin' = bin /\ pc' = pc /\ target' = target /\ keepers' = keepers
      /\ faults' = faults /\ status' = status
      /\ keeperHandle' = keeperHandle /\ targetHandle' = targetHandle
      /\ Keeper' = Keeper
  BY DEF handles, Keeper
<1>4. TypeOK'
  BY <1>2, <1>3 DEF PolicyInv, TypeOK
<1>5. RequestTyped'
  BY <1>2 DEF PolicyInv, RequestTyped
<1>6. RequestGuarded'
  BY <1>2, <1>3 DEF PolicyInv, RequestGuarded
<1>7. KeeperHeld'
  <2>1. ASSUME pc \in KeeperOpen
        PROVE  /\ keeperHandle # NoInode
               /\ group[Keeper].path \in Paths
               /\ keeperHandle = group[Keeper].inode
               /\ fs[group[Keeper].path] = keeperHandle
               /\ keeperHandle \notin writers
    <3>1. Keeper \in Members
      BY <2>1, KeeperIsMember DEF KeeperOpen
    <3>2. /\ keeperHandle = group[Keeper].inode
          /\ fs[group[Keeper].path] = keeperHandle
          /\ keeperHandle \notin writers
      BY <2>1 DEF PolicyInv, KeeperHeld
    <3>3. group[Keeper].path \in Paths /\ group[Keeper].inode \in Inodes
      BY <3>1 DEF PolicyInv, RequestTyped
    <3>4. NoInode \notin Inodes
      BY RecycleAssumption
    <3>5. keeperHandle # NoInode
      BY <3>2, <3>3, <3>4
    <3>6. QED
      BY <3>2, <3>3, <3>5
  <2>2. ASSUME pc \in KeeperOpen
        PROVE  /\ keeperHandle = group[Keeper].inode
               /\ fs'[group[Keeper].path] = keeperHandle
               /\ keeperHandle \notin writers'
               /\ content'[keeperHandle] = content[keeperHandle]
    BY <2>1, <2>2
  <2>3. pc \in KeeperChecked => pc \in KeeperOpen
    BY DEF KeeperChecked
  <2>4. QED
    BY <1>2, <1>3, <2>2, <2>3 DEF PolicyInv, KeeperHeld
<1>8. TargetHeld'
  <2>1. ASSUME pc \in TargetOpen
        PROVE  /\ targetHandle # NoInode
               /\ targetHandle = group[target].inode
               /\ mtime[targetHandle] = group[target].mtime
               /\ targetHandle \notin writers
    <3>1. target \in Members
      BY <2>1 DEF TargetOpen, KeeperChecked, KeeperOpen, PolicyInv, RequestGuarded,
                  TypeOK
    <3>2. /\ targetHandle = group[target].inode
          /\ targetHandle \notin writers
          /\ mtime[targetHandle] = group[target].mtime
      BY <2>1 DEF PolicyInv, TargetHeld
    <3>3. group[target].inode \in Inodes
      BY <3>1 DEF PolicyInv, RequestTyped
    <3>4. NoInode \notin Inodes
      BY RecycleAssumption
    <3>5. targetHandle # NoInode
      BY <3>2, <3>3, <3>4
    <3>6. QED
      BY <3>2, <3>5
  <2>2. ASSUME pc \in TargetOpen
        PROVE  /\ targetHandle = group[target].inode
               /\ targetHandle \notin writers'
               /\ mtime'[targetHandle] = group[target].mtime
               /\ content'[targetHandle] = content[targetHandle]
    BY <2>1, <2>2
  <2>3. pc \in TargetChecked => pc \in TargetOpen
    BY DEF TargetChecked
  <2>4. QED
    BY <1>2, <1>3, <2>2, <2>3 DEF PolicyInv, TargetHeld
<1>9. QED
  BY <1>4, <1>5, <1>6, <1>7, <1>8 DEF PolicyInv

\* What the steps of other programs have in common.
LEMMA InterferenceCounts ==
  ASSUME PolicyInv, Interferes
  PROVE  /\ UNCHANGED <<bin, request, pc, target, keepers, faults, handles, status>>
         /\ ctxCancelled' \in BOOLEAN
         /\ changes \in Nat /\ changes' = changes + 1 /\ changes' \in 0..MaxChanges
         /\ \A i \in Inodes : mtime[i] \in 1..(MaxChanges + 1) /\ mtime[i] <= changes + 1
BY RecycleAssumption DEF PolicyInv, TypeOK, RequestTyped, Interferes

LEMMA OpenForWritingPreserves ==
  ASSUME PolicyInv, NEW i \in Inodes, OpenForWriting(i) PROVE PolicyInv'
<1>1. Interferes
  BY DEF OpenForWriting
<1>2. /\ fs' \in [Paths -> Inodes \cup {NoInode}]
      /\ content' \in [Inodes -> Contents]
      /\ mtime' \in [Inodes -> 1..(MaxChanges + 1)]
      /\ writers' \in SUBSET Inodes
  BY DEF PolicyInv, TypeOK, OpenForWriting
<1>3. \A j \in Inodes : mtime'[j] <= changes' + 1
  BY <1>1, InterferenceCounts DEF OpenForWriting
<1>4. QED
  BY <1>1, <1>2, <1>3, InterferenceCounts, OutsidePreserves DEF OpenForWriting

LEMMA CloseWriterPreserves ==
  ASSUME PolicyInv, NEW i \in Inodes, CloseWriter(i) PROVE PolicyInv'
<1>1. Interferes
  BY DEF CloseWriter
<1>2. /\ fs' \in [Paths -> Inodes \cup {NoInode}]
      /\ content' \in [Inodes -> Contents]
      /\ mtime' \in [Inodes -> 1..(MaxChanges + 1)]
      /\ writers' \in SUBSET Inodes
  BY DEF PolicyInv, TypeOK, CloseWriter
<1>3. \A j \in Inodes : mtime'[j] <= changes' + 1
  BY <1>1, InterferenceCounts DEF CloseWriter
<1>4. QED
  BY <1>1, <1>2, <1>3, InterferenceCounts, OutsidePreserves DEF CloseWriter

LEMMA WritePreserves ==
  ASSUME PolicyInv, NEW i \in Inodes, NEW c \in Contents, Write(i, c)
  PROVE  PolicyInv'
<1>1. Interferes
  BY DEF Write
<1>2. /\ content \in [Inodes -> Contents]
      /\ mtime \in [Inodes -> 1..(MaxChanges + 1)]
      /\ fs' = fs /\ writers' = writers /\ i \in writers
      /\ content' = [content EXCEPT ![i] = c]
      /\ mtime' = [mtime EXCEPT ![i] = @ + 1]
  BY DEF PolicyInv, TypeOK, Write
<1>3. \A j \in Inodes : mtime'[j] \in 1..(MaxChanges + 1) /\ mtime'[j] <= changes' + 1
  BY <1>1, <1>2, InterferenceCounts, RecycleAssumption
<1>4. /\ fs' \in [Paths -> Inodes \cup {NoInode}]
      /\ content' \in [Inodes -> Contents]
      /\ mtime' \in [Inodes -> 1..(MaxChanges + 1)]
      /\ writers' \in SUBSET Inodes
  BY <1>2, <1>3 DEF PolicyInv, TypeOK
<1>5. \A h : h \notin writers /\ h \in Inodes =>
                content'[h] = content[h] /\ mtime'[h] = mtime[h]
  BY <1>2
<1>6. /\ keeperHandle # NoInode => keeperHandle \in Inodes
      /\ targetHandle # NoInode => targetHandle \in Inodes
  BY DEF PolicyInv, TypeOK
<1>7. QED
  BY <1>1, <1>2, <1>3, <1>4, <1>5, <1>6, InterferenceCounts, OutsidePreserves

LEMMA RemoveOrRenamePreserves ==
  ASSUME PolicyInv, NEW p \in Paths, NEW q \in Paths, RemoveOrRename(p, q)
  PROVE  PolicyInv'
<1>1. Interferes
  BY DEF RemoveOrRename
<1>2. fs \in [Paths -> Inodes \cup {NoInode}]
  BY DEF PolicyInv, TypeOK
<1>3. /\ fs' \in [Paths -> Inodes \cup {NoInode}]
      /\ content' \in [Inodes -> Contents]
      /\ mtime' \in [Inodes -> 1..(MaxChanges + 1)]
      /\ writers' \in SUBSET Inodes
  BY DEF PolicyInv, TypeOK, RemoveOrRename
<1>4. \A j \in Inodes : mtime'[j] <= changes' + 1
  BY <1>1, InterferenceCounts DEF RemoveOrRename
<1>5. keeperHandle # NoInode =>
        \A s \in Paths : fs[s] = keeperHandle => fs'[s] = keeperHandle
  BY <1>2 DEF RemoveOrRename
<1>6. QED
  BY <1>1, <1>3, <1>4, <1>5, InterferenceCounts, OutsidePreserves DEF RemoveOrRename

LEMMA LinkOrCreatePreserves ==
  ASSUME PolicyInv, NEW p \in Paths, NEW i \in Inodes, LinkOrCreate(p, i)
  PROVE  PolicyInv'
<1>1. Interferes
  BY DEF LinkOrCreate
<1>2. fs \in [Paths -> Inodes \cup {NoInode}]
  BY DEF PolicyInv, TypeOK
<1>3. /\ fs' \in [Paths -> Inodes \cup {NoInode}]
      /\ content' \in [Inodes -> Contents]
      /\ mtime' \in [Inodes -> 1..(MaxChanges + 1)]
      /\ writers' \in SUBSET Inodes
  BY DEF PolicyInv, TypeOK, LinkOrCreate
<1>4. \A j \in Inodes : mtime'[j] <= changes' + 1
  BY <1>1, InterferenceCounts DEF LinkOrCreate
<1>5. keeperHandle # NoInode =>
        \A s \in Paths : fs[s] = keeperHandle => fs'[s] = keeperHandle
  BY <1>2 DEF LinkOrCreate
<1>6. QED
  BY <1>1, <1>3, <1>4, <1>5, InterferenceCounts, OutsidePreserves DEF LinkOrCreate

LEMMA CancelPreserves ==
  ASSUME PolicyInv, Cancel PROVE PolicyInv'
<1>1. UNCHANGED <<fs, content, mtime, bin, writers, changes>>
  BY DEF Cancel, fsVars
<1>2. QED
  BY <1>1, OutsidePreserves DEF Cancel, PolicyInv, TypeOK, RequestTyped

-----------------------------------------------------------------------------
(* The policy.                                                             *)

\* While an item is at work its request is valid and its target is selected.
LEMMA AtWorkFacts ==
  ASSUME PolicyInv, pc \in AtWork
  PROVE  /\ Valid
         /\ target \in selected /\ target \in Members
         /\ keepers # {} /\ keepers \subseteq Members \ selected
         /\ Keeper \in keepers
BY KeeperIsMember DEF PolicyInv, TypeOK, RequestGuarded

\* Leaving the files, the bin and the request alone, a step preserves the
\* parts of the invariant about them.
LEMMA FilesStable ==
  ASSUME PolicyInv, UNCHANGED <<fsVars, request, ctxCancelled>>
  PROVE  /\ RequestTyped'
         /\ bin' \subseteq {group[r].inode : r \in selected}'
         /\ fs' \in [Paths -> Inodes \cup {NoInode}]
         /\ content' \in [Inodes -> Contents]
         /\ mtime' \in [Inodes -> 1..(MaxChanges + 1)]
         /\ bin' \in SUBSET Inodes /\ writers' \in SUBSET Inodes
         /\ changes' \in 0..MaxChanges
         /\ selected' \in SUBSET Members'
         /\ adapter' \in Adapters
         /\ ctxCancelled' \in BOOLEAN
<1>1. /\ group' = group /\ selected' = selected /\ adapter' = adapter
      /\ Members' = Members
  BY RequestStable
<1>2. QED
  BY <1>1 DEF fsVars, PolicyInv, TypeOK, RequestTyped, RequestGuarded

\* An item that ends, with whatever result, preserves the invariant.
LEMMA ItemPreserves ==
  ASSUME PolicyInv, pc \in AtWork, NEW s \in Skips \cup {"recycled"}, Item(s)
  PROVE  PolicyInv'
<1>1. UNCHANGED <<fsVars, request, ctxCancelled>>
  BY DEF Item
<1>2. /\ group' = group /\ selected' = selected /\ adapter' = adapter
      /\ Members' = Members /\ (Valid' <=> Valid)
  BY <1>1, RequestStable
<1>3. /\ pc' = "next" /\ target' = 0 /\ keepers' = {} /\ faults' = {}
      /\ keeperHandle' = NoInode /\ targetHandle' = NoInode
      /\ status' = [status EXCEPT ![target] = s]
  BY DEF Item
<1>4. status' \in [Members' -> Skips \cup {"none", "recycled"}]
  BY <1>2, <1>3 DEF PolicyInv, TypeOK
<1>5. TypeOK'
  BY <1>1, <1>3, <1>4, FilesStable DEF TypeOK
<1>6. RequestGuarded'
  BY <1>1, <1>2, <1>3, FilesStable, AtWorkFacts DEF RequestGuarded, AtWork
<1>7. KeeperHeld' /\ TargetHeld'
  BY <1>3 DEF KeeperHeld, TargetHeld, TargetChecked, TargetOpen, KeeperChecked,
              KeeperOpen, AtWork
<1>8. QED
  BY <1>1, <1>5, <1>6, <1>7, FilesStable DEF PolicyInv

LEMMA ValidatePreserves ==
  ASSUME PolicyInv, Validate PROVE PolicyInv'
<1>1. UNCHANGED <<fsVars, request, ctxCancelled>>
  BY DEF Validate
<1>2. /\ group' = group /\ selected' = selected /\ adapter' = adapter
      /\ Members' = Members /\ (Valid' <=> Valid)
  BY <1>1, RequestStable
<1>3. /\ pc = "validate" /\ bin' = bin
      /\ target' = target /\ keepers' = keepers /\ faults' = faults
      /\ keeperHandle' = NoInode /\ targetHandle' = NoInode
  BY DEF Validate, handles, fsVars, PolicyInv, TypeOK
<1>4. \/ pc' = "next" /\ Valid /\ status' = status
      \/ /\ pc' = "done"
         /\ status' = [r \in Members |-> IF r \in selected THEN "failed" ELSE "none"]
  BY DEF Validate
<1>5. status' \in [Members' -> Skips \cup {"none", "recycled"}]
  BY <1>2, <1>4 DEF PolicyInv, TypeOK, Skips
<1>6. TypeOK'
  BY <1>1, <1>2, <1>3, <1>4, <1>5, FilesStable DEF PolicyInv, TypeOK
<1>7. RequestGuarded'
  BY <1>1, <1>2, <1>3, <1>4, FilesStable DEF PolicyInv, RequestGuarded, AtWork
<1>8. KeeperHeld' /\ TargetHeld'
  BY <1>3, <1>4 DEF KeeperHeld, TargetHeld, TargetChecked, TargetOpen, KeeperChecked,
                    KeeperOpen, AtWork
<1>9. QED
  BY <1>1, <1>6, <1>7, <1>8, FilesStable DEF PolicyInv

LEMMA AllDonePreserves ==
  ASSUME PolicyInv, AllDone PROVE PolicyInv'
<1>1. UNCHANGED <<fsVars, request, ctxCancelled>>
  BY DEF AllDone
<1>2. /\ group' = group /\ selected' = selected /\ adapter' = adapter
      /\ Members' = Members /\ (Valid' <=> Valid)
  BY <1>1, RequestStable
<1>3. /\ pc' = "done" /\ bin' = bin /\ status' = status
      /\ target' = target /\ keepers' = keepers /\ faults' = faults
      /\ keeperHandle' = NoInode /\ targetHandle' = NoInode
  BY DEF AllDone, handles, fsVars, PolicyInv, TypeOK
<1>4. TypeOK'
  BY <1>1, <1>2, <1>3, FilesStable DEF PolicyInv, TypeOK
<1>5. RequestGuarded'
  BY <1>1, <1>2, <1>3, FilesStable DEF PolicyInv, RequestGuarded, AtWork
<1>6. KeeperHeld' /\ TargetHeld'
  BY <1>3 DEF KeeperHeld, TargetHeld, TargetChecked, TargetOpen, KeeperChecked,
              KeeperOpen, AtWork
<1>7. QED
  BY <1>1, <1>4, <1>5, <1>6, FilesStable DEF PolicyInv

LEMMA NextTargetPreserves ==
  ASSUME PolicyInv, NextTarget PROVE PolicyInv'
<1> DEFINE r == Min(Unfinished)
<1>1. UNCHANGED <<fsVars, request, ctxCancelled>>
  BY DEF NextTarget
<1>2. /\ group' = group /\ selected' = selected /\ adapter' = adapter
      /\ Members' = Members /\ (Valid' <=> Valid)
  BY <1>1, RequestStable
<1>3. r \in selected /\ r \in Members
  <2>1. Unfinished \in SUBSET Nat /\ Unfinished # {}
    BY DEF NextTarget, Unfinished, PolicyInv, TypeOK, RequestTyped
  <2>2. r \in Unfinished
    BY <2>1, MinInSet
  <2>3. QED
    BY <2>2 DEF Unfinished, PolicyInv, TypeOK
<1>4. /\ pc = "next" /\ bin' = bin /\ faults' = faults
      /\ keeperHandle' = NoInode /\ targetHandle' = NoInode
  BY DEF NextTarget, handles, fsVars, PolicyInv, TypeOK
<1>5. Valid
  BY <1>4 DEF PolicyInv, RequestGuarded
<1>6. \/ /\ status' = [status EXCEPT ![r] = "cancelled"]
         /\ pc' = pc /\ target' = target /\ keepers' = keepers
      \/ /\ status' = status /\ pc' = "keeper"
         /\ target' = r /\ keepers' = Members \ selected
  BY DEF NextTarget
<1>7. Members \ selected # {}
  BY <1>5 DEF Valid, PolicyInv, TypeOK
<1> HIDE DEF r
<1>8. status' \in [Members' -> Skips \cup {"none", "recycled"}]
  BY <1>2, <1>3, <1>6 DEF PolicyInv, TypeOK, Skips
<1>9. TypeOK'
  BY <1>1, <1>2, <1>3, <1>4, <1>6, <1>8, FilesStable DEF PolicyInv, TypeOK
<1>10. RequestGuarded'
  BY <1>1, <1>2, <1>3, <1>4, <1>5, <1>6, <1>7, FilesStable DEF RequestGuarded, AtWork
<1>11. KeeperHeld' /\ TargetHeld'
  BY <1>4, <1>6 DEF KeeperHeld, TargetHeld, TargetChecked, TargetOpen, KeeperChecked,
                    KeeperOpen, AtWork
<1>12. QED
  BY <1>1, <1>9, <1>10, <1>11, FilesStable DEF PolicyInv

LEMMA KeeperFailsPreserves ==
  ASSUME PolicyInv, pc \in {"keeper", "keeper hash"},
         NEW reason \in Skips, KeeperFails(reason)
  PROVE  PolicyInv'
<1>1. pc \in AtWork /\ pc \notin TargetOpen
  BY DEF AtWork, TargetOpen, KeeperChecked, KeeperOpen
<1>2. CASE \E s \in Skips : Item(s)
  BY <1>1, <1>2, ItemPreserves
<1>3. CASE /\ keepers # {Keeper}
           /\ keepers' = keepers \ {Keeper}
           /\ faults' = faults \cup {reason}
           /\ keeperHandle' = NoInode
           /\ pc' = "keeper"
           /\ UNCHANGED <<fsVars, request, ctxCancelled, target, targetHandle, status>>
  <2>1. UNCHANGED <<fsVars, request, ctxCancelled>>
    BY <1>3
  <2>2. /\ group' = group /\ selected' = selected /\ adapter' = adapter
        /\ Members' = Members /\ (Valid' <=> Valid)
    BY <2>1, RequestStable
  <2>3. targetHandle' = NoInode /\ target' = target /\ status' = status
    BY <1>1, <1>3 DEF PolicyInv, TargetHeld
  <2>4. TypeOK'
    BY <1>3, <2>1, <2>2, <2>3, FilesStable DEF PolicyInv, TypeOK
  <2>5. RequestGuarded'
    BY <1>1, <1>3, <2>1, <2>2, <2>3, FilesStable, AtWorkFacts
       DEF RequestGuarded, AtWork
  <2>6. KeeperHeld' /\ TargetHeld'
    BY <1>3, <2>3 DEF KeeperHeld, TargetHeld, TargetChecked, TargetOpen, KeeperChecked,
                      KeeperOpen, AtWork
  <2>7. QED
    BY <2>1, <2>4, <2>5, <2>6, FilesStable DEF PolicyInv
<1>4. QED
  BY <1>2, <1>3 DEF KeeperFails, Keeper, Skips

\* Advancing within an item, with the files, the request and the target as they
\* were, preserves the invariant if the new position's handles are as required.
LEMMA AdvancePreserves ==
  ASSUME PolicyInv, pc \in AtWork, pc' \in KeeperOpen,
         UNCHANGED <<fsVars, request, ctxCancelled, target, keepers, faults, status>>,
         keeperHandle' \in Inodes,
         targetHandle' \in Inodes \cup {NoInode},
         KeeperHeld', TargetHeld'
  PROVE  PolicyInv'
<1>1. /\ group' = group /\ selected' = selected /\ adapter' = adapter
      /\ Members' = Members /\ (Valid' <=> Valid)
  BY RequestStable
<1>2. TypeOK'
  BY <1>1, FilesStable DEF PolicyInv, TypeOK, KeeperOpen, AtWork
<1>3. RequestGuarded'
  BY <1>1, FilesStable, AtWorkFacts DEF RequestGuarded
<1>4. QED
  BY <1>2, <1>3, FilesStable DEF PolicyInv

LEMMA OpenKeeperPreserves ==
  ASSUME PolicyInv, OpenKeeper PROVE PolicyInv'
<1>1. pc = "keeper" /\ pc \in AtWork /\ pc \notin TargetOpen
  BY DEF OpenKeeper, AtWork, TargetOpen, KeeperChecked, KeeperOpen
<1>2. CASE Inspection(Keeper) # "ok"
  <2>1. KeeperFails(Inspection(Keeper)) /\ Inspection(Keeper) \in Skips
    BY <1>2, InspectionSound DEF OpenKeeper, Keeper
  <2>2. QED
    BY <1>1, <2>1, KeeperFailsPreserves
<1>3. CASE Inspection(Keeper) = "ok"
  <2>1. /\ keeperHandle' = fs[group[Keeper].path]
        /\ pc' = "keeper hash"
        /\ UNCHANGED <<fsVars, request, ctxCancelled, target, keepers, faults,
                       targetHandle, status>>
    BY <1>3 DEF OpenKeeper, Keeper
  <2>2. /\ fs[group[Keeper].path] \notin writers
        /\ fs[group[Keeper].path] = group[Keeper].inode
    BY <1>3, InspectionSound
  <2>3. keeperHandle' \in Inodes
    BY <1>1, <2>1, <2>2, KeeperIsMember DEF PolicyInv, RequestTyped
  <2>4. group' = group /\ fs' = fs /\ writers' = writers /\ Keeper' = Keeper
    BY <2>1, RequestStable DEF fsVars, Keeper
  <2>5. KeeperHeld'
    BY <2>1, <2>2, <2>4 DEF KeeperHeld, KeeperChecked
  <2>6. targetHandle' = NoInode /\ TargetHeld'
    BY <1>1, <2>1 DEF PolicyInv, TargetHeld, TargetChecked, TargetOpen, KeeperChecked
  <2>7. QED
    BY <1>1, <2>1, <2>3, <2>5, <2>6, AdvancePreserves DEF KeeperOpen, AtWork
<1>4. QED
  BY <1>2, <1>3

\* The open keeper is a file.
LEMMA KeeperIsFile ==
  ASSUME PolicyInv, pc \in KeeperOpen PROVE keeperHandle \in Inodes
BY KeeperIsMember DEF PolicyInv, KeeperHeld, RequestTyped, KeeperOpen

LEMMA VerifyKeeperPreserves ==
  ASSUME PolicyInv, VerifyKeeper PROVE PolicyInv'
<1>1. pc = "keeper hash" /\ pc \in AtWork /\ pc \in KeeperOpen /\ pc \notin TargetOpen
  BY DEF VerifyKeeper, AtWork, TargetOpen, KeeperChecked, KeeperOpen
<1>2. PICK v \in Verifications(Keeper, keeperHandle) :
        IF v = "ok"
          THEN /\ pc' = "target"
               /\ UNCHANGED <<fsVars, request, ctxCancelled, target, keepers,
                              faults, handles, status>>
          ELSE KeeperFails(v)
  BY DEF VerifyKeeper, Keeper
<1>3. v \in Skips \cup {"ok"} /\ (v = "ok" => content[keeperHandle] = GroupHash)
  BY VerificationSound
<1>4. CASE v # "ok"
  BY <1>1, <1>2, <1>3, <1>4, KeeperFailsPreserves
<1>5. CASE v = "ok"
  <2>1. /\ pc' = "target"
        /\ UNCHANGED <<fsVars, request, ctxCancelled, target, keepers, faults,
                       keeperHandle, targetHandle, status>>
    BY <1>2, <1>5 DEF handles
  <2>2. /\ group' = group /\ fs' = fs /\ content' = content /\ writers' = writers
        /\ GroupHash' = GroupHash /\ Keeper' = Keeper
    BY <2>1, RequestStable DEF fsVars, Keeper
  <2>3. KeeperHeld'
    BY <1>1, <1>3, <1>5, <2>1, <2>2 DEF PolicyInv, KeeperHeld
  <2>4. targetHandle' = NoInode /\ TargetHeld'
    BY <1>1, <2>1 DEF PolicyInv, TargetHeld, TargetChecked, TargetOpen
  <2>5. QED
    BY <1>1, <2>1, <2>3, <2>4, KeeperIsFile, AdvancePreserves
       DEF KeeperOpen, AtWork
<1>6. QED
  BY <1>4, <1>5

LEMMA OpenTargetPreserves ==
  ASSUME PolicyInv, OpenTarget PROVE PolicyInv'
<1>1. pc = "target" /\ pc \in AtWork /\ pc \in KeeperOpen /\ pc \in KeeperChecked
  BY DEF OpenTarget, AtWork, KeeperChecked, KeeperOpen
<1>2. CASE Inspection(target) # "ok"
  <2>1. Item(Inspection(target)) /\ Inspection(target) \in Skips
    BY <1>2, InspectionSound DEF OpenTarget
  <2>2. QED
    BY <1>1, <2>1, ItemPreserves
<1>3. CASE Inspection(target) = "ok"
  <2>1. /\ targetHandle' = fs[group[target].path]
        /\ pc' = "target hash"
        /\ UNCHANGED <<fsVars, request, ctxCancelled, target, keepers, faults,
                       keeperHandle, status>>
    BY <1>3 DEF OpenTarget
  <2>2. /\ fs[group[target].path] \notin writers
        /\ fs[group[target].path] = group[target].inode
        /\ mtime[fs[group[target].path]] = group[target].mtime
    BY <1>3, InspectionSound
  <2>3. targetHandle' \in Inodes
    BY <1>1, <2>1, <2>2, AtWorkFacts DEF PolicyInv, RequestTyped
  <2>4. /\ group' = group /\ fs' = fs /\ content' = content /\ writers' = writers
        /\ mtime' = mtime /\ GroupHash' = GroupHash /\ Keeper' = Keeper
    BY <2>1, RequestStable DEF fsVars, Keeper
  <2>5. KeeperHeld'
    BY <1>1, <2>1, <2>4 DEF PolicyInv, KeeperHeld
  <2>6. TargetHeld'
    BY <2>1, <2>2, <2>4 DEF TargetHeld, TargetChecked, TargetOpen, KeeperChecked,
                            KeeperOpen, AtWork
  <2>7. QED
    BY <1>1, <2>1, <2>3, <2>5, <2>6, KeeperIsFile, AdvancePreserves
       DEF KeeperOpen, AtWork
<1>4. QED
  BY <1>2, <1>3

LEMMA VerifyTargetPreserves ==
  ASSUME PolicyInv, VerifyTarget PROVE PolicyInv'
<1>1. /\ pc = "target hash" /\ pc \in AtWork
      /\ pc \in KeeperOpen /\ pc \in KeeperChecked /\ pc \in TargetOpen
  BY DEF VerifyTarget, AtWork, TargetOpen, KeeperChecked, KeeperOpen
<1>2. PICK v \in Verifications(target, targetHandle) :
        IF v = "ok"
          THEN /\ pc' = "handoff"
               /\ UNCHANGED <<fsVars, request, ctxCancelled, target, keepers,
                              faults, handles, status>>
          ELSE Item(v)
  BY DEF VerifyTarget
<1>3. v \in Skips \cup {"ok"} /\ (v = "ok" => content[targetHandle] = GroupHash)
  BY VerificationSound
<1>4. CASE v # "ok"
  BY <1>1, <1>2, <1>3, <1>4, ItemPreserves
<1>5. CASE v = "ok"
  <2>1. /\ pc' = "handoff"
        /\ UNCHANGED <<fsVars, request, ctxCancelled, target, keepers, faults,
                       keeperHandle, targetHandle, status>>
    BY <1>2, <1>5 DEF handles
  <2>2. /\ group' = group /\ fs' = fs /\ content' = content /\ writers' = writers
        /\ mtime' = mtime /\ GroupHash' = GroupHash /\ Keeper' = Keeper
    BY <2>1, RequestStable DEF fsVars, Keeper
  <2>3. KeeperHeld'
    BY <1>1, <2>1, <2>2 DEF PolicyInv, KeeperHeld
  <2>4. TargetHeld'
    BY <1>1, <1>3, <1>5, <2>1, <2>2
       DEF PolicyInv, TargetHeld, TargetOpen, KeeperChecked, KeeperOpen, AtWork
  <2>5. targetHandle' \in Inodes \cup {NoInode}
    BY <2>1 DEF PolicyInv, TypeOK
  <2>6. QED
    BY <1>1, <2>1, <2>3, <2>4, <2>5, KeeperIsFile, AdvancePreserves
       DEF KeeperOpen, AtWork
<1>6. QED
  BY <1>4, <1>5

\* The adapter moves exactly the target, and the keeper stays where it is.
LEMMA AdapterMovesTarget ==
  ASSUME PolicyInv, NEW outcome, AdapterMoves(outcome)
  PROVE  /\ pc = "handoff" /\ pc \in AtWork
         /\ bin' = bin \cup {targetHandle}
         /\ targetHandle = group[target].inode /\ target \in selected /\ target \in Members
         /\ mtime[targetHandle] = group[target].mtime
         /\ content[targetHandle] = GroupHash /\ content[keeperHandle] = GroupHash
         /\ Keeper \in Members \ selected
         /\ fs[group[Keeper].path] = keeperHandle
         /\ fs'[group[Keeper].path] = keeperHandle
         /\ keeperHandle = group[Keeper].inode
         /\ keeperHandle \notin bin' \cup writers
<1>1. /\ pc = "handoff" /\ pc \in AtWork /\ pc \in KeeperOpen /\ pc \in KeeperChecked
      /\ pc \in TargetOpen /\ pc \in TargetChecked
  BY DEF AdapterMoves, AtWork, TargetChecked, TargetOpen, KeeperChecked, KeeperOpen
<1>2. /\ keeperHandle = group[Keeper].inode
      /\ fs[group[Keeper].path] = keeperHandle
      /\ keeperHandle \notin writers
      /\ content[keeperHandle] = GroupHash
      /\ targetHandle = group[target].inode
      /\ mtime[targetHandle] = group[target].mtime
      /\ content[targetHandle] = GroupHash
  BY <1>1 DEF PolicyInv, KeeperHeld, TargetHeld
<1>3. /\ Valid /\ target \in selected /\ target \in Members
      /\ Keeper \in Members \ selected
  BY <1>1, AtWorkFacts, KeeperIsMember
<1>4. keeperHandle # targetHandle
  BY <1>1, HandlesDiffer
<1>5. bin' = bin \cup {targetHandle}
  BY DEF AdapterMoves
<1>6. keeperHandle \notin bin
  <2>1. \A r \in selected : r \in Members /\ r # Keeper
    BY <1>3 DEF PolicyInv, TypeOK
  <2>2. \A r \in selected : group[r].inode # group[Keeper].inode
    BY <1>3, <2>1, ValidSeparates
  <2>3. QED
    BY <1>2, <2>2 DEF PolicyInv, RequestGuarded
<1>7. fs'[group[Keeper].path] = keeperHandle
  <2>1. PICK p \in Paths : fs[p] = targetHandle /\ fs' = [fs EXCEPT ![p] = NoInode]
    BY DEF AdapterMoves
  <2>2. p # group[Keeper].path
    BY <1>2, <1>4, <2>1
  <2>3. fs \in [Paths -> Inodes \cup {NoInode}] /\ group[Keeper].path \in Paths
    BY <1>3 DEF PolicyInv, TypeOK, RequestTyped
  <2>4. QED
    BY <1>2, <2>1, <2>2, <2>3
<1>8. QED
  BY <1>1, <1>2, <1>3, <1>4, <1>5, <1>6, <1>7

LEMMA AdapterMovesPreserves ==
  ASSUME PolicyInv, NEW outcome, AdapterMoves(outcome) PROVE PolicyInv'
<1>1. /\ UNCHANGED request
      /\ content' = content /\ mtime' = mtime /\ writers' = writers
      /\ changes' = changes /\ ctxCancelled' = ctxCancelled
      /\ target' = target /\ keepers' = keepers /\ faults' = faults
      /\ keeperHandle' = keeperHandle /\ targetHandle' = targetHandle
      /\ status' = status /\ Keeper' = Keeper
      /\ pc' \in {"absent", "unconfirmed"}
  BY DEF AdapterMoves, handles, Keeper
<1>2. /\ group' = group /\ selected' = selected /\ adapter' = adapter
      /\ Members' = Members /\ GroupHash' = GroupHash /\ (Valid' <=> Valid)
  BY <1>1, RequestStable
<1>3. targetHandle \in Inodes /\ bin' \in SUBSET Inodes
  BY AdapterMovesTarget DEF PolicyInv, TypeOK, RequestTyped
<1>4. fs' \in [Paths -> Inodes \cup {NoInode}]
  BY DEF AdapterMoves, PolicyInv, TypeOK
<1>5. TypeOK'
  BY <1>1, <1>2, <1>3, <1>4 DEF PolicyInv, TypeOK
<1>6. RequestTyped'
  BY <1>1, <1>2 DEF PolicyInv, RequestTyped
<1>7. RequestGuarded'
  <2>1. bin' \subseteq {group[r].inode : r \in selected}
    BY AdapterMovesTarget DEF PolicyInv, RequestGuarded
  <2>2. pc \in AtWork
    BY AdapterMovesTarget
  <2>3. QED
    BY <1>1, <1>2, <2>1, <2>2, AtWorkFacts DEF RequestGuarded
<1>8. KeeperHeld'
  BY <1>1, <1>2, AdapterMovesTarget DEF KeeperHeld
<1>9. TargetHeld'
  <2>1. pc \in TargetOpen /\ targetHandle \notin writers
    BY AdapterMovesTarget
       DEF PolicyInv, TargetHeld, TargetOpen, KeeperChecked, KeeperOpen, AtWork
  <2>2. pc' \in TargetOpen
    BY <1>1 DEF TargetOpen, KeeperChecked, KeeperOpen, AtWork
  <2>3. QED
    BY <1>1, <1>2, <2>1, <2>2, AdapterMovesTarget DEF TargetHeld
<1>10. QED
  BY <1>5, <1>6, <1>7, <1>8, <1>9 DEF PolicyInv

\* The other ends of an item.
LEMMA EndsPreserve ==
  ASSUME PolicyInv, HandoffCancelled \/ AdapterRefuses \/ ReceiptRejected \/ CheckAbsent
  PROVE  PolicyInv'
<1>1. pc \in AtWork
  BY DEF HandoffCancelled, AdapterRefuses, ReceiptRejected, CheckAbsent, AtWork
<1>2. \E s \in Skips \cup {"recycled"} : Item(s)
  BY DEF HandoffCancelled, AdapterRefuses, ReceiptRejected, CheckAbsent, Skips
<1>3. QED
  BY <1>1, <1>2, ItemPreserves

-----------------------------------------------------------------------------
(* The theorems.                                                           *)

\* The inductive invariant holds of every request, whatever the adapter and the
\* other programs do.
THEOREM PolicyInvariant == Spec => []PolicyInv
<1>1. PolicyInv /\ [Next]_vars => PolicyInv'
  <2> SUFFICES ASSUME PolicyInv, [Next]_vars PROVE PolicyInv'
    OBVIOUS
  <2>1. CASE UNCHANGED vars
    <3>1. /\ UNCHANGED <<bin, request, pc, target, keepers, faults, handles, status>>
          /\ UNCHANGED <<fs, content, mtime, writers, changes, ctxCancelled>>
      BY <2>1 DEF vars, fsVars
    <3>2. QED
      BY <3>1, OutsidePreserves DEF PolicyInv, TypeOK, RequestTyped
  <2>2. CASE \E i \in Inodes : OpenForWriting(i) \/ CloseWriter(i)
    BY <2>2, OpenForWritingPreserves, CloseWriterPreserves
  <2>3. CASE \E i \in Inodes, c \in Contents : Write(i, c)
    BY <2>3, WritePreserves
  <2>4. CASE \E p, q \in Paths : RemoveOrRename(p, q)
    BY <2>4, RemoveOrRenamePreserves
  <2>5. CASE \E p \in Paths, i \in Inodes : LinkOrCreate(p, i)
    BY <2>5, LinkOrCreatePreserves
  <2>6. CASE Cancel
    BY <2>6, CancelPreserves
  <2>7. CASE Policy
    <3>1. CASE Validate
      BY <3>1, ValidatePreserves
    <3>2. CASE AllDone \/ NextTarget
      BY <3>2, AllDonePreserves, NextTargetPreserves
    <3>3. CASE OpenKeeper \/ VerifyKeeper
      BY <3>3, OpenKeeperPreserves, VerifyKeeperPreserves
    <3>4. CASE OpenTarget \/ VerifyTarget
      BY <3>4, OpenTargetPreserves, VerifyTargetPreserves
    <3>5. CASE \E outcome \in Outcomes : AdapterMoves(outcome)
      BY <3>5, AdapterMovesPreserves
    <3>6. CASE HandoffCancelled \/ AdapterRefuses \/ ReceiptRejected \/ CheckAbsent
      BY <3>6, EndsPreserve
    <3>7. QED
      BY <2>7, <3>1, <3>2, <3>3, <3>4, <3>5, <3>6 DEF Policy
  <2>8. QED
    BY <2>1, <2>2, <2>3, <2>4, <2>5, <2>6, <2>7 DEF Next, Terminated
<1>2. QED
  BY <1>1, InitEstablishes, PTL DEF Spec

\* The policy is type correct.
THEOREM PolicyTypeCorrect == Spec => []TypeOK
<1>1. PolicyInv => TypeOK
  BY DEF PolicyInv
<1>2. QED
  BY <1>1, PolicyInvariant, PTL

\* Only the adapter's move puts a file into the bin.
LEMMA BinChangesByAdapter ==
  ASSUME PolicyInv, [Next]_vars, bin' # bin
  PROVE  \E outcome \in Outcomes : AdapterMoves(outcome)
<1>1. ~UNCHANGED vars /\ ~UNCHANGED fsVars
  BY DEF vars, fsVars
<1>2. ~ \E i \in Inodes : OpenForWriting(i) \/ CloseWriter(i)
  BY DEF OpenForWriting, CloseWriter, Interferes
<1>3. ~ \E i \in Inodes, c \in Contents : Write(i, c)
  BY DEF Write, Interferes
<1>4. ~ \E p, q \in Paths : RemoveOrRename(p, q)
  BY DEF RemoveOrRename, Interferes
<1>5. ~ \E p \in Paths, i \in Inodes : LinkOrCreate(p, i)
  BY DEF LinkOrCreate, Interferes
<1>6. ~Cancel /\ ~Terminated
  BY <1>1 DEF Cancel, Terminated
<1>7. \A s : ~Item(s)
  BY <1>1 DEF Item
<1>8. \A reason : ~KeeperFails(reason)
  BY <1>1, <1>7 DEF KeeperFails
<1>9. ~Validate /\ ~AllDone /\ ~NextTarget
  BY <1>1 DEF Validate, AllDone, NextTarget
<1>10. ~OpenKeeper /\ ~VerifyKeeper /\ ~OpenTarget /\ ~VerifyTarget
  BY <1>1, <1>7, <1>8 DEF OpenKeeper, VerifyKeeper, OpenTarget, VerifyTarget
<1>11. ~HandoffCancelled /\ ~AdapterRefuses /\ ~ReceiptRejected /\ ~CheckAbsent
  BY <1>7 DEF HandoffCancelled, AdapterRefuses, ReceiptRejected, CheckAbsent
<1>12. Next
  BY <1>1
<1>13. QED
  BY <1>2, <1>3, <1>4, <1>5, <1>6, <1>9, <1>10, <1>11, <1>12 DEF Next, Policy

\* At every moment a file goes to the Recycle Bin a verified, unselected copy of
\* its group is in place, and no other program can write or remove it.
THEOREM CopyAlwaysInPlace == Spec => CopyInPlaceWhenRecycled
<1> DEFINE InPlace ==
      bin' # bin =>
        \E k \in Members \ selected :
          LET kept == fs[group[k].path] IN
          /\ kept = group[k].inode /\ kept = keeperHandle
          /\ fs'[group[k].path] = kept
          /\ kept \notin bin' \cup writers
          /\ \A i \in bin' \ bin : content[i] = content[kept]
<1>1. PolicyInv /\ [Next]_vars => InPlace
  <2> SUFFICES ASSUME PolicyInv, [Next]_vars, bin' # bin PROVE InPlace
    OBVIOUS
  <2>1. PICK outcome \in Outcomes : AdapterMoves(outcome)
    BY BinChangesByAdapter
  <2>2. QED
    BY <2>1, AdapterMovesTarget
<1>2. PolicyInv /\ [Next]_vars => [InPlace]_vars
  BY <1>1
<1>3. QED
  BY <1>2, PolicyInvariant, PTL DEF Spec, CopyInPlaceWhenRecycled

\* Only selected files are recycled, each as the scan showed it to the user.
THEOREM OnlySelectedEverRecycled == Spec => OnlySelectedRecycled
<1> DEFINE Selected ==
      \A i \in bin' \ bin :
        \E r \in selected :
          /\ group[r].inode = i
          /\ mtime[i] = group[r].mtime /\ content[i] = GroupHash
<1>1. PolicyInv /\ [Next]_vars => Selected
  <2> SUFFICES ASSUME PolicyInv, [Next]_vars, NEW i \in bin' \ bin
               PROVE  \E r \in selected :
                        /\ group[r].inode = i
                        /\ mtime[i] = group[r].mtime /\ content[i] = GroupHash
    OBVIOUS
  <2>1. PICK outcome \in Outcomes : AdapterMoves(outcome)
    BY BinChangesByAdapter
  <2>2. i = targetHandle
    BY <2>1, AdapterMovesTarget
  <2>3. QED
    BY <2>1, <2>2, AdapterMovesTarget
<1>2. PolicyInv /\ [Next]_vars => [Selected]_vars
  BY <1>1
<1>3. QED
  BY <1>2, PolicyInvariant, PTL DEF Spec, OnlySelectedRecycled

-----------------------------------------------------------------------------
(* What a step may do to the answers.                                      *)

\* The positions before the adapter's move, and those after it.
BeforeMove == AtWork \ {"absent", "unconfirmed"}
Moved == {"absent", "unconfirmed"}

\* A step that says nothing about any file: the policy stays where it is, or
\* goes on within the item.
Silent ==
  /\ UNCHANGED <<bin, group, selected, status, target>>
  /\ \/ pc' = pc
     \/ pc \in BeforeMove /\ pc' \in BeforeMove
     \/ pc = "validate" /\ pc' = "next"
     \/ pc = "next" /\ Unfinished = {} /\ pc' = "done"

\* The next file is taken up, or answered for without a look at it.
TakesUp(r) ==
  /\ pc = "next" /\ r \in Unfinished
  /\ UNCHANGED <<fs, content, bin, group, selected>>
  /\ \/ pc' = "keeper" /\ target' = r /\ UNCHANGED status
     \/ pc' = "next" /\ status' = [status EXCEPT ![r] = "cancelled"]

Rejects ==
  /\ pc = "validate" /\ pc' = "done" /\ ~Valid
  /\ status' = [r \in Members |-> IF r \in selected THEN "failed" ELSE "none"]
  /\ UNCHANGED <<fs, content, bin, group, selected>>

\* The item at work is answered for.
Answers(s) ==
  /\ pc \in AtWork /\ pc' = "next"
  /\ s \in Skips \cup {"recycled"}
  /\ s = "recycled" => pc = "absent"
  /\ s \in {"changed", "protected"} => pc \in BeforeMove
  /\ status' = [status EXCEPT ![target] = s]
  /\ UNCHANGED <<fs, content, bin, group, selected>>

\* An inspection or a verification that fails, before the move.
LEMMA FailureAnswers ==
  ASSUME NEW s \in Skips, pc \in BeforeMove, Item(s)
  PROVE  Answers(s)
BY DEF Item, Answers, Skips, BeforeMove, AtWork, request, fsVars

LEMMA KeeperFailureShape ==
  ASSUME NEW reason \in Skips, pc \in {"keeper", "keeper hash"}, KeeperFails(reason)
  PROVE  Silent \/ \E s \in Skips : Answers(s)
<1>1. pc \in BeforeMove
  BY DEF BeforeMove, AtWork
<1>2. CASE \E s \in Skips : Item(s)
  BY <1>1, <1>2, FailureAnswers
<1>3. CASE /\ pc' = "keeper"
           /\ UNCHANGED <<fsVars, request, ctxCancelled, target, targetHandle, status>>
  BY <1>1, <1>3 DEF Silent, BeforeMove, AtWork, fsVars, request
<1>4. QED
  BY <1>2, <1>3 DEF KeeperFails, Skips

\* Every step of the policy and of its surroundings has one of these shapes.
LEMMA StepShape ==
  ASSUME PolicyInv, [Next]_vars
  PROVE  \/ Silent
         \/ \E r \in selected : TakesUp(r)
         \/ Rejects
         \/ \E s \in Skips \cup {"recycled"} : Answers(s)
         \/ \E outcome \in Outcomes : AdapterMoves(outcome)
<1>1. CASE UNCHANGED vars
  BY <1>1 DEF Silent, vars, fsVars, request
<1>2. CASE \E i \in Inodes : OpenForWriting(i) \/ CloseWriter(i)
  BY <1>2 DEF Silent, OpenForWriting, CloseWriter, Interferes, request
<1>3. CASE \E i \in Inodes, c \in Contents : Write(i, c)
  BY <1>3 DEF Silent, Write, Interferes, request
<1>4. CASE \E p, q \in Paths : RemoveOrRename(p, q)
  BY <1>4 DEF Silent, RemoveOrRename, Interferes, request
<1>5. CASE \E p \in Paths, i \in Inodes : LinkOrCreate(p, i)
  BY <1>5 DEF Silent, LinkOrCreate, Interferes, request
<1>6. CASE Cancel
  BY <1>6 DEF Silent, Cancel, fsVars, request
<1>7. CASE Validate
  BY <1>7 DEF Silent, Rejects, Validate, fsVars, request
<1>8. CASE AllDone
  BY <1>8 DEF Silent, AllDone, fsVars, request
<1>9. CASE NextTarget
  <2>1. Min(Unfinished) \in Unfinished
    BY <1>9, MinInSet DEF NextTarget, Unfinished, PolicyInv, TypeOK, RequestTyped
  <2>2. TakesUp(Min(Unfinished))
    BY <1>9, <2>1 DEF NextTarget, TakesUp, fsVars, request
  <2>3. QED
    BY <2>1, <2>2 DEF Unfinished
<1>10. CASE OpenKeeper
  <2>1. CASE Inspection(Min(keepers)) = "ok"
    BY <1>10, <2>1 DEF OpenKeeper, Silent, BeforeMove, AtWork, fsVars, request
  <2>2. CASE Inspection(Min(keepers)) # "ok"
    BY <1>10, <2>2, InspectionSound, KeeperFailureShape DEF OpenKeeper
  <2>3. QED
    BY <2>1, <2>2
<1>11. CASE VerifyKeeper
  <2>1. PICK v \in Verifications(Min(keepers), keeperHandle) :
          IF v = "ok"
            THEN /\ pc' = "target"
                 /\ UNCHANGED <<fsVars, request, ctxCancelled, target, keepers,
                                faults, handles, status>>
            ELSE KeeperFails(v)
    BY <1>11 DEF VerifyKeeper
  <2>2. v \in Skips \cup {"ok"}
    BY VerificationSound
  <2>3. CASE v = "ok"
    BY <1>11, <2>1, <2>3 DEF VerifyKeeper, Silent, BeforeMove, AtWork, fsVars, request
  <2>4. CASE v # "ok"
    BY <1>11, <2>1, <2>2, <2>4, KeeperFailureShape DEF VerifyKeeper
  <2>5. QED
    BY <2>3, <2>4
<1>12. CASE OpenTarget
  <2>1. pc \in BeforeMove
    BY <1>12 DEF OpenTarget, BeforeMove, AtWork
  <2>2. CASE Inspection(target) = "ok"
    BY <1>12, <2>1, <2>2 DEF OpenTarget, Silent, BeforeMove, AtWork, fsVars, request
  <2>3. CASE Inspection(target) # "ok"
    BY <1>12, <2>1, <2>3, InspectionSound, FailureAnswers DEF OpenTarget
  <2>4. QED
    BY <2>2, <2>3
<1>13. CASE VerifyTarget
  <2>1. PICK v \in Verifications(target, targetHandle) :
          IF v = "ok"
            THEN /\ pc' = "handoff"
                 /\ UNCHANGED <<fsVars, request, ctxCancelled, target, keepers,
                                faults, handles, status>>
            ELSE Item(v)
    BY <1>13 DEF VerifyTarget
  <2>2. v \in Skips \cup {"ok"} /\ pc \in BeforeMove
    BY <1>13, VerificationSound DEF VerifyTarget, BeforeMove, AtWork
  <2>3. CASE v = "ok"
    BY <2>1, <2>2, <2>3 DEF Silent, BeforeMove, AtWork, fsVars, request
  <2>4. CASE v # "ok"
    BY <2>1, <2>2, <2>4, FailureAnswers
  <2>5. QED
    BY <2>3, <2>4
<1>14. CASE HandoffCancelled \/ AdapterRefuses \/ ReceiptRejected \/ CheckAbsent
  BY <1>14 DEF HandoffCancelled, AdapterRefuses, ReceiptRejected, CheckAbsent, Item,
               Answers, Skips, BeforeMove, AtWork, fsVars, request
<1>15. QED
  BY <1>1, <1>2, <1>3, <1>4, <1>5, <1>6, <1>7, <1>8, <1>9, <1>10, <1>11, <1>12,
     <1>13, <1>14 DEF Next, Policy, Terminated

-----------------------------------------------------------------------------
(* The answers are honest.                                                 *)

\* What the answers say, at every position: besides what StatusHonest asks, a
\* selected file without an answer is not in the bin, except the one at work
\* once the adapter has moved it.
AnswersHonest ==
  /\ \A r \in Members \ selected : status[r] = "none"
  /\ \A r \in selected :
       /\ status[r] = "recycled" => group[r].inode \in bin
       /\ status[r] \in {"changed", "protected"} => group[r].inode \notin bin
       /\ status[r] = "none" /\ group[r].inode \in bin => pc \in Moved /\ r = target
  /\ pc \in Moved => group[target].inode \in bin
  /\ pc \in AtWork => status[target] = "none"
  /\ pc = "done" => \A r \in selected : status[r] # "none"
  /\ pc = "validate" => bin = {} /\ \A r \in Members : status[r] = "none"

LEMMA InitHonest == Init => AnswersHonest
BY DEF Init, AnswersHonest, AtWork, Moved, Members

\* Two selected members of a valid request are different files.
LEMMA SelectedSeparate ==
  ASSUME PolicyInv, Valid, NEW r \in selected, NEW s \in Members, r # s
  PROVE  group[r].inode # group[s].inode
BY ValidSeparates DEF PolicyInv, TypeOK

LEMMA AnswersStayHonest ==
  ASSUME PolicyInv, AnswersHonest, [Next]_vars
  PROVE  AnswersHonest'
<1>1. selected \subseteq Members /\ DOMAIN status = Members
  BY DEF PolicyInv, TypeOK
<1>2. CASE Silent
  <2>1. Members' = Members
    BY <1>2 DEF Silent, Members
  <2>2. pc \notin Moved \/ pc' = pc
    BY <1>2 DEF Silent, BeforeMove, Moved
  <2>3. pc' \in Moved => pc' = pc
    BY <1>2 DEF Silent, BeforeMove, Moved
  <2>4. pc' \in AtWork => pc \in AtWork
    BY <1>2 DEF Silent, BeforeMove, AtWork
  <2>5. pc' = "done" => \A r \in selected : status[r] # "none"
    BY <1>2 DEF Silent, BeforeMove, AtWork, Unfinished, AnswersHonest
  <2>6. pc' = "validate" => pc = "validate"
    BY <1>2 DEF Silent, BeforeMove, AtWork
  <2>7. /\ bin' = bin /\ group' = group /\ selected' = selected
        /\ status' = status /\ target' = target
    BY <1>2 DEF Silent
  <2>8. QED
    BY <2>1, <2>2, <2>3, <2>4, <2>5, <2>6, <2>7 DEF AnswersHonest
<1>3. CASE \E r \in selected : TakesUp(r)
  <2>1. PICK r \in selected : TakesUp(r)
    BY <1>3
  <2>2. /\ bin' = bin /\ group' = group /\ selected' = selected
        /\ Members' = Members /\ pc = "next" /\ status[r] = "none"
    BY <2>1 DEF TakesUp, Members, Unfinished
  <2>3. \A s \in selected : status[s] = "none" => group[s].inode \notin bin
    BY <2>2 DEF AnswersHonest, Moved
  <2>4. CASE pc' = "keeper" /\ target' = r /\ status' = status
    BY <2>2, <2>3, <2>4 DEF AnswersHonest, Moved, AtWork
  <2>5. CASE pc' = "next" /\ status' = [status EXCEPT ![r] = "cancelled"]
    <3>1. \A s \in Members : s # r => status'[s] = status[s]
      BY <1>1, <2>5
    <3>2. status'[r] = "cancelled"
      BY <1>1, <2>5
    <3>3. QED
      BY <1>1, <2>2, <2>3, <2>5, <3>1, <3>2 DEF AnswersHonest, Moved, AtWork
  <2>6. QED
    BY <2>1, <2>4, <2>5 DEF TakesUp
<1>4. CASE Rejects
  BY <1>1, <1>4 DEF Rejects, AnswersHonest, Members, Moved, AtWork
<1>5. CASE \E s \in Skips \cup {"recycled"} : Answers(s)
  <2>1. PICK s \in Skips \cup {"recycled"} : Answers(s)
    BY <1>5
  <2>2. /\ bin' = bin /\ group' = group /\ selected' = selected
        /\ Members' = Members /\ pc' = "next" /\ pc \in AtWork
    BY <2>1 DEF Answers, Members
  <2>3. /\ \A r \in Members : r # target => status'[r] = status[r]
        /\ target \in Members => status'[target] = s
    BY <1>1, <2>1 DEF Answers
  <2>4. target \in selected /\ target \in Members
    BY <2>2, AtWorkFacts
  <2>5. /\ s = "recycled" => group[target].inode \in bin
        /\ s \in {"changed", "protected"} => group[target].inode \notin bin
        /\ s # "none"
    <3>1. s = "recycled" => pc \in Moved
      BY <2>1 DEF Answers, Moved
    <3>2. s \in {"changed", "protected"} => pc \notin Moved
      BY <2>1 DEF Answers, BeforeMove, Moved
    <3>3. status[target] = "none" /\ s # "none"
      BY <2>2 DEF AnswersHonest, Skips
    <3>4. QED
      BY <2>4, <3>1, <3>2, <3>3 DEF AnswersHonest
  <2>6. \A r \in selected : r # target =>
          (status[r] = "none" => group[r].inode \notin bin)
    BY DEF AnswersHonest
  <2>7. QED
    BY <1>1, <2>2, <2>3, <2>4, <2>5, <2>6 DEF AnswersHonest, Moved, AtWork
<1>6. CASE \E outcome \in Outcomes : AdapterMoves(outcome)
  <2>1. PICK outcome \in Outcomes : AdapterMoves(outcome)
    BY <1>6
  <2>2. /\ status' = status /\ target' = target /\ request' = request
        /\ pc = "handoff" /\ pc \in AtWork /\ pc' \in Moved
        /\ bin' = bin \cup {targetHandle}
    BY <2>1 DEF AdapterMoves, Moved, AtWork
  <2>3. group' = group /\ selected' = selected /\ Members' = Members
    BY <2>2, RequestStable
  <2>4. targetHandle = group[target].inode /\ target \in selected /\ Valid
    BY <2>1, <2>2, AdapterMovesTarget, AtWorkFacts
  <2>5. \A r \in selected : r # target => group[r].inode # targetHandle
    BY <1>1, <2>4, SelectedSeparate
  <2>6. status[target] = "none"
    BY <2>2 DEF AnswersHonest
  <2>7. \A r \in selected : status[r] = "none" => group[r].inode \notin bin
    BY <2>2 DEF AnswersHonest, Moved
  <2>8. QED
    BY <2>2, <2>3, <2>4, <2>5, <2>6, <2>7 DEF AnswersHonest, Moved, AtWork
<1>7. QED
  BY <1>2, <1>3, <1>4, <1>5, <1>6, StepShape

THEOREM AnswersInvariant == Spec => []AnswersHonest
<1>1. PolicyInv /\ AnswersHonest /\ [Next]_vars => AnswersHonest'
  BY AnswersStayHonest
<1>2. QED
  BY <1>1, InitHonest, PolicyInvariant, PTL DEF Spec

\* A file reported as recycled is in the bin, one reported as changed or
\* protected is not, and at the end exactly the selected files are answered for.
THEOREM ResultsAreHonest == Spec => []StatusHonest
<1>1. PolicyInv /\ AnswersHonest => StatusHonest
  <2> SUFFICES ASSUME PolicyInv, AnswersHonest PROVE StatusHonest
    OBVIOUS
  <2>1. TypeOK /\ selected \subseteq Members
    BY DEF PolicyInv, TypeOK
  <2>2. \A r \in Members :
          /\ status[r] = "recycled" => group[r].inode \in bin
          /\ status[r] \in {"changed", "protected"} => group[r].inode \notin bin
    BY DEF AnswersHonest
  <2>3. pc = "done" => selected = {r \in Members : status[r] # "none"}
    BY <2>1 DEF AnswersHonest
  <2>4. QED
    BY <2>1, <2>2, <2>3 DEF StatusHonest
<1>2. QED
  BY <1>1, PolicyInvariant, AnswersInvariant, PTL

-----------------------------------------------------------------------------
(* The policy keeps its contract, step by step.                            *)

LEMMA ContractInitially == Init => Promise!ContractInit
<1> SUFFICES ASSUME Init PROVE Promise!ContractInit
  OBVIOUS
<1>1. selected \subseteq Members /\ bin = {} /\ status = [r \in Members |-> "none"]
  BY InitEstablishes DEF Init, PolicyInv, TypeOK
<1>2. QED
  BY <1>1 DEF Promise!ContractInit, Promise!NoResult

\* A step that leaves the answers and the bin alone is one of other programs,
\* as far as the contract can tell.
LEMMA DisturbsOnly ==
  ASSUME UNCHANGED <<bin, group, selected, status>>
  PROVE  Promise!Disturb
<1>1. Members' = Members
  BY DEF Members
<1>2. QED
  BY <1>1 DEF Promise!Disturb

\* While the files, the bin and the request stay, so does what the contract
\* knows of them.
LEMMA ContractFilesStable ==
  ASSUME UNCHANGED <<fs, content, bin, group, selected>>
  PROVE  /\ Members' = Members
         /\ UNCHANGED {r \in Members : /\ fs[group[r].path] = group[r].inode
                                       /\ content[group[r].inode] = GroupHash
                                       /\ group[r].inode \notin bin}
         /\ UNCHANGED {r \in Members : group[r].inode \in bin}
BY DEF Members, GroupHash

\* The adapter's move is the contract's: a kept copy is in place.
LEMMA MoveKeepsContract ==
  ASSUME PolicyInv, AnswersHonest, NEW outcome \in Outcomes, AdapterMoves(outcome)
  PROVE  Promise!Recycle(target)
<1>1. /\ pc = "handoff" /\ pc \in AtWork
      /\ targetHandle = group[target].inode /\ target \in selected
      /\ target \in Members /\ Valid
      /\ bin' = bin \cup {targetHandle}
  BY AdapterMovesTarget, AtWorkFacts
<1>2. /\ UNCHANGED <<content, status, request>>
      /\ group' = group /\ selected' = selected /\ Members' = Members
      /\ GroupHash' = GroupHash
  BY RequestStable DEF AdapterMoves
<1>3. status[target] = "none" /\ group[target].inode \notin bin
  BY <1>1 DEF AnswersHonest, Moved
<1>4. \A r \in Members : r # target => group[r].inode # targetHandle
  BY <1>1, SelectedSeparate
<1>5. Keeper \in {r \in Members : /\ fs[group[r].path] = group[r].inode
                                  /\ content[group[r].inode] = GroupHash
                                  /\ group[r].inode \notin bin} \ selected
  BY AdapterMovesTarget
<1>6. {r \in Members : group[r].inode \in bin'}
        = {r \in Members : group[r].inode \in bin} \cup {target}
  BY <1>1, <1>4
<1>7. {r \in Members : /\ fs'[group[r].path] = group[r].inode
                       /\ content[group[r].inode] = GroupHash
                       /\ group[r].inode \notin bin'}
        = {r \in Members : /\ fs[group[r].path] = group[r].inode
                           /\ content[group[r].inode] = GroupHash
                           /\ group[r].inode \notin bin} \ {target}
  <2>1. PICK p \in Paths : fs[p] = targetHandle /\ fs' = [fs EXCEPT ![p] = NoInode]
    BY DEF AdapterMoves
  <2>2. /\ fs \in [Paths -> Inodes \cup {NoInode}] /\ NoInode \notin Inodes
        /\ \A r \in Members : group[r].path \in Paths /\ group[r].inode \in Inodes
    BY RecycleAssumption DEF PolicyInv, TypeOK, RequestTyped
  <2>3. ASSUME NEW r \in Members, r # target
        PROVE  fs'[group[r].path] = group[r].inode <=> fs[group[r].path] = group[r].inode
    <3>1. CASE group[r].path = p
      BY <1>4, <2>1, <2>2, <2>3, <3>1
    <3>2. CASE group[r].path # p
      BY <2>1, <2>2, <3>2
    <3>3. QED
      BY <3>1, <3>2
  <2>4. \A r \in Members :
          group[r].inode \notin bin' <=> r # target /\ group[r].inode \notin bin
    BY <1>1, <1>4
  <2>5. QED
    BY <2>3, <2>4
<1>8. QED
  BY <1>1, <1>2, <1>3, <1>5, <1>6, <1>7
     DEF Promise!Recycle, Promise!Unanswered, Promise!NoResult

\* Each step of the policy is a step the contract allows, or changes nothing the
\* contract speaks of.
LEMMA StepKeepsContract ==
  ASSUME PolicyInv, AnswersHonest, [Next]_vars
  PROVE  Promise!ContractNext
<1>1. CASE Silent
  BY <1>1, DisturbsOnly DEF Silent, Promise!ContractNext
<1>2. CASE \E r \in selected : TakesUp(r)
  <2>1. PICK r \in selected : TakesUp(r)
    BY <1>2
  <2>2. CASE status' = status
    BY <2>1, <2>2, DisturbsOnly DEF TakesUp, Promise!ContractNext
  <2>3. CASE status' # status
    <3>1. /\ status' = [status EXCEPT ![r] = "cancelled"] /\ status[r] = "none"
          /\ UNCHANGED <<fs, content, bin, group, selected>>
      BY <2>1, <2>3 DEF TakesUp, Unfinished
    <3>2. Promise!Report(r, "cancelled")
      BY <3>1, ContractFilesStable DEF Promise!Report, Promise!Unanswered, Promise!NoResult, Skips
    <3>3. QED
      BY <3>2 DEF Promise!ContractNext, Skips
  <2>4. QED
    BY <2>2, <2>3
<1>3. CASE Rejects
  <2>1. /\ pc = "validate" /\ selected \subseteq Members
        /\ status' = [r \in Members |-> IF r \in selected THEN "failed" ELSE "none"]
    BY <1>3 DEF Rejects, PolicyInv, TypeOK
  <2>2. bin = {} /\ \A r \in Members : status[r] = "none"
    BY <2>1 DEF AnswersHonest
  <2>3. Promise!Reject
    <3>1. {r \in Members : group[r].inode \in bin} = {}
      BY <2>2
    <3>2. Promise!Unanswered = selected
      BY <2>1, <2>2 DEF Promise!Unanswered, Promise!NoResult
    <3>3. UNCHANGED <<fs, content, bin, group, selected>>
      BY <1>3 DEF Rejects
    <3>4. QED
      BY <2>1, <3>1, <3>2, <3>3, ContractFilesStable
         DEF Promise!Reject, Promise!NoResult
  <2>4. QED
    BY <2>3 DEF Promise!ContractNext
<1>4. CASE \E s \in Skips \cup {"recycled"} : Answers(s)
  <2>1. PICK s \in Skips \cup {"recycled"} : Answers(s)
    BY <1>4
  <2>2. target \in selected /\ target \in Members /\ status[target] = "none"
    BY <2>1, AtWorkFacts DEF Answers, AnswersHonest
  <2>3. /\ s = "recycled" => group[target].inode \in bin
        /\ s \in {"changed", "protected"} => group[target].inode \notin bin
    BY <2>1, <2>2 DEF Answers, AnswersHonest, BeforeMove, Moved
  <2>4. Promise!Report(target, s)
    <3>1. /\ UNCHANGED <<fs, content, bin, group, selected>>
          /\ status' = [status EXCEPT ![target] = s] /\ s # "none"
      BY <2>1 DEF Answers, Skips
    <3>2. QED
      BY <2>2, <2>3, <3>1, ContractFilesStable
         DEF Promise!Report, Promise!Unanswered, Promise!NoResult
  <2>5. QED
    BY <2>2, <2>4 DEF Promise!ContractNext
<1>5. CASE \E outcome \in Outcomes : AdapterMoves(outcome)
  <2>1. PICK outcome \in Outcomes : AdapterMoves(outcome)
    BY <1>5
  <2>2. Promise!Recycle(target) /\ target \in selected
    BY <2>1, MoveKeepsContract, AdapterMovesTarget
  <2>3. \E t \in selected : Promise!Recycle(t)
    BY <2>2 DEF Promise!Recycle
  <2>4. QED
    BY <2>3 DEF Promise!ContractNext
<1>6. QED
  BY <1>1, <1>2, <1>3, <1>4, <1>5, StepShape

\* The policy keeps the contract of module RecycleContract.
THEOREM PolicyKeepsPromise == Spec => KeepsPromise
<1>1. PolicyInv /\ AnswersHonest /\ [Next]_vars => [Promise!ContractNext]_(Promise!requestVars)
  BY StepKeepsContract
<1>2. QED
  BY <1>1, ContractInitially, PolicyInvariant, AnswersInvariant, PTL
     DEF Spec, KeepsPromise, Promise!ContractSpec

-----------------------------------------------------------------------------
(* Undisturbed, the policy does what it is asked.                          *)

\* Nothing has interfered, and the adapter does as it is told.
Undisturbed == changes = 0 /\ ~ctxCancelled /\ adapter = {"moved"}

\* All members are as the scan found them.
AsScanned ==
  \A r \in Members :
    /\ content[group[r].inode] = GroupHash
    /\ mtime[group[r].inode] = group[r].mtime

\* Those of a valid request that are not in the bin are in place, each under
\* one name only, and every finished item is recycled.
InPlaceUndisturbed ==
  /\ \A r \in Members :
       group[r].inode \notin bin =>
         fs[group[r].path] = group[r].inode /\ LinkCount(group[r].inode) = 1
  /\ pc = "absent" => fs[group[target].path] = NoInode
  /\ \A r \in selected : status[r] \in {"none", "recycled"}

QuietInv ==
  Undisturbed =>
    /\ writers = {} /\ pc # "unconfirmed"
    /\ AsScanned
    /\ Valid => InPlaceUndisturbed

LEMMA InitQuiet == Init => QuietInv
<1> SUFFICES ASSUME Init PROVE QuietInv
  OBVIOUS
<1>1. PICK g \in Groups :
        /\ \A r \in DOMAIN g : fs[g[r]] # NoInode
        /\ \A r, s \in DOMAIN g : content[fs[g[r]]] = content[fs[g[s]]]
        /\ group = [r \in DOMAIN g |-> Record(g[r])]
  BY DEF Init
<1>2. /\ DOMAIN g = Members
      /\ \A r \in Members :
           /\ group[r].path = g[r] /\ group[r].inode = fs[g[r]]
           /\ group[r].mtime = mtime[fs[g[r]]] /\ group[r].links = LinkCount(fs[g[r]])
           /\ group[r].content = content[fs[g[r]]]
  BY <1>1 DEF Members, Record
<1>3. \A r \in Members : group[r].content \in Contents /\ group[r].inode \in Inodes
  BY <1>2, InitEstablishes DEF PolicyInv, TypeOK, RequestTyped
<1>4. ASSUME NEW r \in Members
      PROVE  content[group[r].inode] = GroupHash
  <2>1. \A s \in Members : group[s].content = group[r].content
    BY <1>1, <1>2
  <2>2. group[r].content \in Contents
    BY <1>3
  <2>3. \A s \in Members : group[s].content = GroupHash
    BY <2>1, <2>2 DEF GroupHash
  <2>4. QED
    BY <1>2, <2>3
<1>5. AsScanned
  BY <1>2, <1>4 DEF AsScanned
<1>6. Valid => InPlaceUndisturbed
  <2> SUFFICES ASSUME Valid PROVE InPlaceUndisturbed
    OBVIOUS
  <2>1. \A r \in Members :
          fs[group[r].path] = group[r].inode /\ LinkCount(group[r].inode) = 1
    BY <1>2 DEF Valid
  <2>2. pc # "absent" /\ \A r \in Members : status[r] = "none"
    BY DEF Init
  <2>3. selected \subseteq Members
    BY InitEstablishes DEF PolicyInv, TypeOK
  <2>4. QED
    BY <2>1, <2>2, <2>3 DEF InPlaceUndisturbed
<1>7. writers = {} /\ pc # "unconfirmed"
  BY DEF Init
<1>8. QED
  BY <1>5, <1>6, <1>7 DEF QuietInv

\* A step that leaves a request undisturbed is the policy's.
LEMMA UndisturbedStep ==
  ASSUME PolicyInv, [Next]_vars, Undisturbed'
  PROVE  /\ Undisturbed
         /\ Policy \/ UNCHANGED vars
         /\ UNCHANGED <<content, mtime, writers, request>>
<1>1. changes \in Nat
  BY RecycleAssumption DEF PolicyInv, TypeOK
<1>2. ~Interferes /\ ~Cancel
  BY <1>1 DEF Interferes, Cancel, Undisturbed
<1>3. Policy \/ UNCHANGED vars
  BY <1>2 DEF Next, Terminated, OpenForWriting, CloseWriter, Write, RemoveOrRename,
              LinkOrCreate
<1>4. UNCHANGED <<content, mtime, writers, changes, request, ctxCancelled>>
  <2>1. CASE UNCHANGED vars
    BY <2>1 DEF vars, fsVars
  <2>2. CASE Policy
    BY <2>2 DEF Policy, Validate, AllDone, NextTarget, OpenKeeper, VerifyKeeper,
                OpenTarget, VerifyTarget, HandoffCancelled, AdapterRefuses,
                AdapterMoves, ReceiptRejected, CheckAbsent, KeeperFails, Item, fsVars
  <2>3. QED
    BY <1>3, <2>1, <2>2
<1>5. Undisturbed
  BY <1>4, RequestStable DEF Undisturbed
<1>6. QED
  BY <1>3, <1>4, <1>5

\* Undisturbed, the files of a valid request that are not in the bin are found
\* in order.
LEMMA UndisturbedChecks ==
  ASSUME PolicyInv, QuietInv, Undisturbed, Valid,
         NEW r \in Members, group[r].inode \notin bin
  PROVE  Inspection(r) = "ok" /\ Verifications(r, group[r].inode) = {"ok"}
<1>1. /\ fs[group[r].path] = group[r].inode /\ LinkCount(group[r].inode) = 1
      /\ content[group[r].inode] = GroupHash
      /\ mtime[group[r].inode] = group[r].mtime
      /\ writers = {} /\ ~ctxCancelled
  BY DEF QuietInv, InPlaceUndisturbed, AsScanned, Undisturbed
<1>2. group[r].inode # NoInode
  BY RecycleAssumption DEF PolicyInv, RequestTyped
<1>3. QED
  BY <1>1, <1>2 DEF Inspection, Verifications

\* Undisturbed, a valid request is moved on, its item is moved to the bin, or
\* its item is reported as recycled.
LEMMA UndisturbedShape ==
  ASSUME PolicyInv, AnswersHonest, QuietInv, Undisturbed, Valid,
         Policy \/ UNCHANGED vars
  PROVE  \/ /\ UNCHANGED <<fs, bin, status>>
            /\ pc' \notin Moved \/ UNCHANGED <<pc, target>>
         \/ pc = "absent" /\ Item("recycled")
         \/ AdapterMoves("moved")
<1>1. ~ctxCancelled /\ adapter = {"moved"} /\ pc # "unconfirmed" /\ InPlaceUndisturbed
  BY DEF Undisturbed, QuietInv
<1>2. ASSUME pc \in AtWork
      PROVE  /\ Keeper \in Members
             /\ Inspection(Keeper) = "ok"
             /\ Verifications(Keeper, group[Keeper].inode) = {"ok"}
  <2>1. Keeper \in Members \ selected
    BY <1>2, KeeperIsMember
  <2>2. group[Keeper].inode \notin bin
    BY <2>1, SelectedSeparate DEF PolicyInv, RequestGuarded
  <2>3. QED
    BY <2>1, <2>2, UndisturbedChecks
<1>3. ASSUME pc \in BeforeMove
      PROVE  /\ target \in Members
             /\ Inspection(target) = "ok"
             /\ Verifications(target, group[target].inode) = {"ok"}
             /\ LinkCount(group[target].inode) = 1
  <2>1. target \in selected /\ target \in Members /\ status[target] = "none"
    BY <1>3, AtWorkFacts DEF BeforeMove, AnswersHonest
  <2>2. group[target].inode \notin bin
    BY <1>3, <2>1 DEF AnswersHonest, BeforeMove, Moved
  <2>3. QED
    BY <1>1, <2>1, <2>2, UndisturbedChecks DEF InPlaceUndisturbed
<1>4. CASE UNCHANGED vars
  BY <1>4 DEF vars, fsVars
<1>5. CASE Validate
  BY <1>5 DEF Validate, Moved, fsVars
<1>6. CASE AllDone
  BY <1>6 DEF AllDone, Moved, fsVars
<1>7. CASE NextTarget
  BY <1>1, <1>7 DEF NextTarget, Moved, fsVars
<1>8. CASE OpenKeeper
  <2>1. Inspection(Min(keepers)) = "ok"
    BY <1>2, <1>8 DEF OpenKeeper, AtWork, Keeper
  <2>2. QED
    BY <1>8, <2>1 DEF OpenKeeper, Moved, fsVars
<1>9. CASE VerifyKeeper
  <2>1. keeperHandle = group[Keeper].inode
    BY <1>9 DEF VerifyKeeper, PolicyInv, KeeperHeld, KeeperOpen, AtWork
  <2>2. Verifications(Min(keepers), keeperHandle) = {"ok"}
    BY <1>2, <1>9, <2>1 DEF VerifyKeeper, AtWork, Keeper
  <2>3. QED
    BY <1>9, <2>2 DEF VerifyKeeper, Moved, fsVars
<1>10. CASE OpenTarget
  <2>1. Inspection(target) = "ok"
    BY <1>3, <1>10 DEF OpenTarget, BeforeMove, AtWork
  <2>2. QED
    BY <1>10, <2>1 DEF OpenTarget, Moved, fsVars
<1>11. CASE VerifyTarget
  <2>1. targetHandle = group[target].inode
    BY <1>11 DEF VerifyTarget, PolicyInv, TargetHeld, TargetOpen, KeeperChecked,
                 KeeperOpen, AtWork
  <2>2. Verifications(target, targetHandle) = {"ok"}
    BY <1>3, <1>11, <2>1 DEF VerifyTarget, BeforeMove, AtWork
  <2>3. QED
    BY <1>11, <2>2 DEF VerifyTarget, Moved, fsVars
<1>12. ~HandoffCancelled /\ ~ReceiptRejected
  BY <1>1 DEF HandoffCancelled, ReceiptRejected
<1>13. ~AdapterRefuses
  <2> SUFFICES ASSUME pc = "handoff" PROVE LinkCount(targetHandle) # 0
    BY <1>1 DEF AdapterRefuses
  <2>1. targetHandle = group[target].inode
    BY DEF PolicyInv, TargetHeld, TargetOpen, KeeperChecked, KeeperOpen, AtWork
  <2>2. LinkCount(targetHandle) = 1
    BY <1>3, <2>1 DEF BeforeMove, AtWork
  <2>3. QED
    BY <2>2
<1>14. CASE \E outcome \in Outcomes : AdapterMoves(outcome)
  BY <1>1, <1>14 DEF AdapterMoves
<1>15. CASE CheckAbsent
  <2>1. fs[group[target].path] = NoInode
    BY <1>1, <1>15 DEF CheckAbsent, InPlaceUndisturbed
  <2>2. QED
    BY <1>1, <1>15, <2>1 DEF CheckAbsent
<1>16. QED
  BY <1>4, <1>5, <1>6, <1>7, <1>8, <1>9, <1>10, <1>11, <1>12, <1>13, <1>14, <1>15
     DEF Policy

\* A file with one name loses it when the adapter moves it.
LEMMA MoveTakesTheName ==
  ASSUME PolicyInv, AnswersHonest, QuietInv, Undisturbed, Valid,
         AdapterMoves("moved")
  PROVE  /\ fs' = [fs EXCEPT ![group[target].path] = NoInode]
         /\ group[target].path \in Paths
<1>1. /\ pc = "handoff" /\ targetHandle = group[target].inode
      /\ target \in selected /\ target \in Members
  BY AdapterMovesTarget
<1>2. group[target].inode \notin bin
  BY <1>1 DEF AnswersHonest, AtWork, Moved
<1>3. fs[group[target].path] = targetHandle /\ LinkCount(targetHandle) = 1
  BY <1>1, <1>2 DEF QuietInv, InPlaceUndisturbed
<1>4. group[target].path \in Paths
  BY <1>1 DEF PolicyInv, RequestTyped
<1>5. PICK p \in Paths : fs[p] = targetHandle /\ fs' = [fs EXCEPT ![p] = NoInode]
  BY DEF AdapterMoves
<1>6. p = group[target].path
  <2> DEFINE Names == {q \in Paths : fs[q] = targetHandle}
  <2>1. IsFiniteSet(Names) /\ Cardinality(Names) = 1
    BY <1>3, RecycleAssumption, FS_Subset DEF LinkCount
  <2>2. PICK n : Names = {n}
    <3> HIDE DEF Names
    <3> QED
      BY <2>1, FS_Singleton
  <2>3. p \in Names /\ group[target].path \in Names
    BY <1>3, <1>4, <1>5
  <2>4. QED
    BY <2>2, <2>3
<1>7. QED
  BY <1>4, <1>5, <1>6

LEMMA QuietStep ==
  ASSUME PolicyInv, AnswersHonest, QuietInv, [Next]_vars
  PROVE  QuietInv'
<1> SUFFICES ASSUME Undisturbed'
             PROVE  /\ writers' = {} /\ pc' # "unconfirmed"
                    /\ AsScanned'
                    /\ Valid' => InPlaceUndisturbed'
  BY DEF QuietInv
<1>1. /\ Undisturbed /\ (Policy \/ UNCHANGED vars)
      /\ content' = content /\ mtime' = mtime /\ writers' = writers
      /\ UNCHANGED request
  BY UndisturbedStep
<1>2. /\ group' = group /\ selected' = selected /\ adapter' = adapter
      /\ Members' = Members /\ GroupHash' = GroupHash /\ (Valid' <=> Valid)
  BY <1>1, RequestStable
<1>3. writers' = {} /\ AsScanned' /\ pc # "unconfirmed" /\ adapter = {"moved"}
  BY <1>1, <1>2 DEF QuietInv, AsScanned, Undisturbed
<1>4. pc' # "unconfirmed"
  <2>1. CASE \E outcome \in Outcomes : AdapterMoves(outcome)
    BY <1>3, <2>1 DEF AdapterMoves
  <2>2. CASE Silent
    BY <1>3, <2>2 DEF Silent, BeforeMove
  <2>3. CASE \/ \E r \in selected : TakesUp(r)
             \/ Rejects
             \/ \E s \in Skips \cup {"recycled"} : Answers(s)
    BY <2>3 DEF TakesUp, Rejects, Answers
  <2>4. QED
    BY <2>1, <2>2, <2>3, StepShape
<1>5. ASSUME Valid PROVE InPlaceUndisturbed'
  <2>1. /\ InPlaceUndisturbed /\ selected \subseteq Members /\ DOMAIN status = Members
        /\ fs \in [Paths -> Inodes \cup {NoInode}] /\ NoInode \notin Inodes
        /\ \A r \in Members : group[r].path \in Paths /\ group[r].inode \in Inodes
    BY <1>1, <1>5, RecycleAssumption DEF QuietInv, PolicyInv, TypeOK, RequestTyped
  <2>2. CASE /\ UNCHANGED <<fs, bin, status>>
             /\ pc' \notin Moved \/ UNCHANGED <<pc, target>>
    BY <1>2, <2>1, <2>2 DEF InPlaceUndisturbed, Moved, LinkCount
  <2>3. CASE pc = "absent" /\ Item("recycled")
    <3>1. /\ fs' = fs /\ bin' = bin /\ pc' = "next"
          /\ status' = [status EXCEPT ![target] = "recycled"]
      BY <2>3 DEF Item, fsVars
    <3>2. \A r \in selected : status'[r] \in {"none", "recycled"}
      BY <2>1, <3>1 DEF InPlaceUndisturbed
    <3>3. QED
      BY <1>2, <2>1, <3>1, <3>2 DEF InPlaceUndisturbed, LinkCount
  <2>4. CASE AdapterMoves("moved")
    <3>1. /\ fs' = [fs EXCEPT ![group[target].path] = NoInode]
          /\ group[target].path \in Paths
      BY <1>1, <1>5, <2>4, MoveTakesTheName
    <3>2. /\ bin' = bin \cup {targetHandle} /\ status' = status /\ target' = target
          /\ targetHandle = group[target].inode /\ target \in selected
          /\ target \in Members /\ pc = "handoff"
      BY <2>4, AdapterMovesTarget DEF AdapterMoves
    <3>3. fs[group[target].path] = targetHandle
      BY <2>1, <3>2 DEF AnswersHonest, AtWork, Moved, InPlaceUndisturbed
    <3>4. ASSUME NEW r \in Members, group[r].inode \notin bin'
          PROVE  fs'[group[r].path] = group[r].inode /\ LinkCount(group[r].inode)' = 1
      <4>1. /\ fs[group[r].path] = group[r].inode /\ LinkCount(group[r].inode) = 1
            /\ group[r].inode # targetHandle
        BY <2>1, <3>2, <3>4 DEF InPlaceUndisturbed
      <4>2. {p \in Paths : fs'[p] = group[r].inode} = {p \in Paths : fs[p] = group[r].inode}
        BY <2>1, <3>1, <3>3, <4>1
      <4>3. fs'[group[r].path] = group[r].inode
        BY <2>1, <3>1, <3>3, <4>1
      <4>4. QED
        BY <1>2, <4>1, <4>2, <4>3 DEF LinkCount
    <3>5. fs'[group[target].path] = NoInode
      BY <2>1, <3>1
    <3>6. QED
      BY <1>2, <2>1, <3>2, <3>4, <3>5 DEF InPlaceUndisturbed
  <2>5. QED
    BY <1>1, <1>5, <2>2, <2>3, <2>4, UndisturbedShape
<1>6. QED
  BY <1>2, <1>3, <1>4, <1>5

THEOREM QuietInvariant == Spec => []QuietInv
<1>1. PolicyInv /\ AnswersHonest /\ QuietInv /\ [Next]_vars => QuietInv'
  BY QuietStep
<1>2. QED
  BY <1>1, InitQuiet, PolicyInvariant, AnswersInvariant, PTL DEF Spec

\* An undisturbed request is carried out in full if it is valid, and not at all
\* otherwise.
THEOREM UndisturbedIsCarriedOut == Spec => []QuietRequestIsCarriedOut
<1>1. PolicyInv /\ AnswersHonest /\ QuietInv => QuietRequestIsCarriedOut
  <2> SUFFICES ASSUME PolicyInv, AnswersHonest, QuietInv, pc = "done", Undisturbed
               PROVE  bin = IF Valid THEN {group[r].inode : r \in selected} ELSE {}
    BY DEF QuietRequestIsCarriedOut, Undisturbed
  <2>1. /\ bin \subseteq {group[r].inode : r \in selected}
        /\ bin # {} => Valid
    BY DEF PolicyInv, RequestGuarded
  <2>2. ASSUME Valid, NEW r \in selected PROVE group[r].inode \in bin
    BY <2>2 DEF AnswersHonest, QuietInv, InPlaceUndisturbed
  <2>3. QED
    BY <2>1, <2>2
<1>2. QED
  BY <1>1, PolicyInvariant, AnswersInvariant, QuietInvariant, PTL
=============================================================================
