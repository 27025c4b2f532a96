------------------------ MODULE ScanPipeline_proofs ------------------------
(***************************************************************************)
(* Proofs about ScanPipeline, for every report, all contents of the files  *)
(* and any number of changes by other programs.                            *)
(***************************************************************************)
EXTENDS ScanPipeline, FiniteSetTheorems, SequenceTheorems, TLAPS

USE PipelineAssumption DEF PipelineAssumption

Shapes ==
  /\ history \in [Inodes -> Seq(Contents)]
  /\ DOMAIN rec = Records /\ DOMAIN pc = Records
  /\ DOMAIN handle = Records /\ DOMAIN bytes = Records
  /\ \A r \in Records :
       bytes[r] = [size |-> bytes[r].size, edge |-> bytes[r].edge, body |-> bytes[r].body]

\* A path names a file that has had contents.
NamedFilesExist ==
  \A p \in Paths : fs[p] # NoInode => Len(history[fs[p]]) >= 1

\* A record describes what its file once was, as far as it has come since.
RecordsAreTrue ==
  \A r \in Records : rec[r] # NoRecord =>
    /\ rec[r].inode \in Inodes
    /\ rec[r].mtime \in 1..Len(history[rec[r].inode])
    /\ rec[r].size = RecordedContent(r).size

\* The file has not been written since its record was taken.
Current(r) == Len(history[rec[r].inode]) = rec[r].mtime

\* What hashing has read so far is what the record speaks of.
ReadSoFar(r) ==
  /\ pc[r] \in {"body", "verify", "hashed"} => bytes[r].edge = RecordedContent(r).edge
  /\ pc[r] \in {"verify", "hashed"} /\ stage = "full" =>
       /\ bytes[r].body = RecordedContent(r).body
       /\ bytes[r].size = RecordedContent(r).size

\* A record at work has its own file open; what was read of it is of the recorded
\* version if that is still the last one, and in any case once it is verified.
HashingIsTrue ==
  /\ \A r \in Records : pc[r] # "out" =>
       /\ rec[r] # NoRecord
       /\ pc[r] \in {"edge", "body", "verify"} => handle[r] = rec[r].inode
       /\ pc[r] = "hashed" \/ Current(r) => ReadSoFar(r)
  /\ \A r \in Records : pc[r] = "body" => stage = "full"
  /\ stage \in {"refresh", "done"} => \A r \in Records : pc[r] = "out"

ExactGroups ==
  /\ stage # "done" => groups = {}
  /\ \A g \in groups :
       /\ Cardinality(g) > 1
       /\ \A r, s \in g : RecordedContent(r) = RecordedContent(s)

\* The inductive invariant.
ExactInv ==
  TypeOK /\ Shapes /\ NamedFilesExist /\ RecordsAreTrue /\ HashingIsTrue /\ ExactGroups

\* Another record has the same contents.
Twin(r) ==
  /\ Eligible(r)
  /\ \E s \in Records \ {r} : Eligible(s) /\ RecordedContent(s) = RecordedContent(r)

\* Without interference the records are those of the eligible files, and no stage
\* drops one that has a twin.
QuietInv ==
  changes = 0 =>
    /\ \A r \in Records : r < next =>
         rec[r] = IF Eligible(r) THEN Snapshot(fs[Input[r]]) ELSE NoRecord
    /\ stage # "refresh" => next > Len(Input)
    /\ stage \in {"boundary", "full"} => \A r \in Records : Twin(r) => pc[r] # "out"
    /\ QuietScanIsComplete

-----------------------------------------------------------------------------
(* Facts about paths, files and snapshots.                                 *)

LEMMA LinkedIsNamed ==
  ASSUME NEW i, LinkCount(i) > 0
  PROVE  \E p \in Paths : fs[p] = i
<1>1. SUFFICES ASSUME {p \in Paths : fs[p] = i} = {} PROVE FALSE
  OBVIOUS
<1>2. LinkCount(i) = 0
  BY <1>1, FS_EmptySet DEF LinkCount
<1> QED BY <1>2

LEMMA RecordsArePaths ==
  /\ Len(Input) \in Nat
  /\ \A r \in Records : r \in Nat /\ Input[r] \in Paths
BY LenProperties DEF Records

LEMMA SnapshotOf ==
  ASSUME NEW i \in Inodes
  PROVE  /\ Snapshot(i).inode = i /\ Snapshot(i).mtime = Len(history[i])
         /\ Snapshot(i).size = history[i][Len(history[i])].size
         /\ Snapshot(i) # NoRecord
<1>1. /\ Snapshot(i).inode = i /\ Snapshot(i).mtime = Len(history[i])
      /\ Snapshot(i).size = history[i][Len(history[i])].size
  BY DEF Snapshot, Content, Mtime
<1>2. NoRecord.inode = NoInode
  BY DEF NoRecord
<1> QED BY <1>1, <1>2

LEMMA EligibleFile ==
  ASSUME ExactInv, NEW r \in Records, Eligible(r)
  PROVE  fs[Input[r]] \in Inodes /\ Len(history[fs[Input[r]]]) \in Nat \ {0}
<1>1. Input[r] \in Paths /\ fs[Input[r]] # NoInode
  BY RecordsArePaths DEF Eligible
<1>2. fs[Input[r]] \in Inodes
  BY <1>1 DEF ExactInv, TypeOK
<1>3. history[fs[Input[r]]] \in Seq(Contents)
  BY <1>2 DEF ExactInv, Shapes
<1>4. Len(history[fs[Input[r]]]) \in Nat /\ Len(history[fs[Input[r]]]) >= 1
  BY <1>1, <1>3, LenProperties DEF ExactInv, NamedFilesExist
<1> QED BY <1>2, <1>4

\* A group with two members has more than one.
LEMMA MoreThanOne ==
  ASSUME NEW g \in SUBSET Records
  PROVE  Cardinality(g) > 1 <=> \E r, s \in g : r # s
<1>1. IsFiniteSet(Records)
  <2>1. 1 \in Int /\ Len(Input) \in Int
    BY RecordsArePaths
  <2> QED BY <2>1, FS_Interval DEF Records
<1>2. IsFiniteSet(g) /\ Cardinality(g) \in Nat
  BY <1>1, FS_Subset, FS_CardinalityType
<1>3. ASSUME NEW r \in g, NEW s \in g, r # s PROVE Cardinality(g) > 1
  <2>1. Cardinality(g) # 0
    BY <1>2, <1>3, FS_EmptySet
  <2>2. Cardinality(g) # 1
    <3>1. \A z : g # {z}
      BY <1>3
    <3> QED BY <1>2, <3>1, FS_Singleton
  <2> QED BY <1>2, <2>1, <2>2
<1>4. ASSUME Cardinality(g) > 1, \A r, s \in g : r = s PROVE FALSE
  <2>1. Cardinality(g) # 0 /\ Cardinality(g) # 1
    BY <1>2, <1>4
  <2>2. g # {}
    BY <1>2, <2>1, FS_EmptySet
  <2>3. PICK x : x \in g
    BY <2>2
  <2>4. g = {x}
    BY <1>4, <2>3
  <2> QED BY <2>1, <2>4, FS_Singleton
<1> QED BY <1>3, <1>4

-----------------------------------------------------------------------------
(* Steps of other programs.                                                *)

\* The files get new versions and keep the old ones, and no path names nothing.
OutsideStep ==
  /\ stage # "done" /\ changes < MaxChanges /\ changes' = changes + 1
  /\ UNCHANGED <<stage, next, rec, pc, handle, bytes, groups>>
  /\ fs' \in [Paths -> Inodes \cup {NoInode}]
  /\ history' \in [Inodes -> Seq(Contents)]
  /\ \A i \in Inodes :
       /\ Len(history[i]) <= Len(history'[i])
       /\ \A k \in 1..Len(history[i]) : history'[i][k] = history[i][k]
  /\ NamedFilesExist'

LEMMA WriteIsOutside ==
  ASSUME ExactInv, NEW i \in Inodes, NEW c \in Contents, Write(i, c)
  PROVE  OutsideStep
<1>1. /\ history' = [history EXCEPT ![i] = Append(history[i], c)] /\ fs' = fs
      /\ stage # "done" /\ changes < MaxChanges /\ changes' = changes + 1
      /\ UNCHANGED <<stage, next, rec, pc, handle, bytes, groups>>
  BY DEF Write, Interferes
<1>2. history \in [Inodes -> Seq(Contents)] /\ fs \in [Paths -> Inodes \cup {NoInode}]
  BY DEF ExactInv, Shapes, TypeOK
<1>3. /\ Append(history[i], c) \in Seq(Contents)
      /\ Len(Append(history[i], c)) = Len(history[i]) + 1 /\ Len(history[i]) \in Nat
      /\ \A k \in 1..Len(history[i]) : Append(history[i], c)[k] = history[i][k]
  BY <1>2, AppendProperties, LenProperties
<1>4. \A j \in Inodes : Len(history[j]) \in Nat
  BY <1>2, LenProperties
<1>5. history' \in [Inodes -> Seq(Contents)]
  BY <1>1, <1>2, <1>3
<1>6. \A j \in Inodes : /\ Len(history[j]) <= Len(history'[j])
                        /\ \A k \in 1..Len(history[j]) : history'[j][k] = history[j][k]
  BY <1>1, <1>2, <1>3, <1>4
<1>7. NamedFilesExist'
  <2>1. ASSUME NEW p \in Paths, fs[p] # NoInode PROVE Len(history'[fs[p]]) >= 1
    <3>1. fs[p] \in Inodes /\ Len(history[fs[p]]) >= 1
      BY <1>2, <2>1 DEF ExactInv, NamedFilesExist
    <3>2. Len(history'[fs[p]]) \in Nat
      BY <1>5, <3>1, LenProperties
    <3> QED BY <1>4, <1>6, <3>1, <3>2
  <2> QED BY <1>1, <2>1 DEF NamedFilesExist
<1> QED BY <1>1, <1>2, <1>5, <1>6, <1>7 DEF OutsideStep

LEMMA NamesAreOutside ==
  ASSUME ExactInv, UNCHANGED history,
         stage # "done" /\ changes < MaxChanges /\ changes' = changes + 1,
         UNCHANGED <<stage, next, rec, pc, handle, bytes, groups>>,
         fs' \in [Paths -> Inodes \cup {NoInode}],
         \A p \in Paths : fs'[p] # NoInode => \E q \in Paths : fs'[p] = fs[q]
  PROVE  OutsideStep
<1>1. history \in [Inodes -> Seq(Contents)]
  BY DEF ExactInv, Shapes
<1>2. \A i \in Inodes : Len(history[i]) \in Nat
  BY <1>1, LenProperties
<1>3. NamedFilesExist'
  BY DEF ExactInv, NamedFilesExist
<1> QED BY <1>1, <1>2, <1>3 DEF OutsideStep

LEMMA RenameIsOutside ==
  ASSUME ExactInv, NEW p \in Paths, NEW q \in Paths, Rename(p, q)
  PROVE  OutsideStep
<1>1. /\ fs' = [fs EXCEPT ![q] = fs[p], ![p] = NoInode] /\ UNCHANGED history
      /\ stage # "done" /\ changes < MaxChanges /\ changes' = changes + 1
      /\ UNCHANGED <<stage, next, rec, pc, handle, bytes, groups>>
  BY DEF Rename, Interferes
<1>2. fs \in [Paths -> Inodes \cup {NoInode}]
  BY DEF ExactInv, TypeOK
<1>3. /\ fs' \in [Paths -> Inodes \cup {NoInode}]
      /\ \A x \in Paths : fs'[x] # NoInode => \E y \in Paths : fs'[x] = fs[y]
  BY <1>1, <1>2
<1> QED BY <1>1, <1>3, NamesAreOutside

LEMMA LinkIsOutside ==
  ASSUME ExactInv, NEW p \in Paths, NEW i \in Inodes \cup {NoInode}, LinkOrRemove(p, i)
  PROVE  OutsideStep
<1>1. /\ fs' = [fs EXCEPT ![p] = i] /\ UNCHANGED history
      /\ i = NoInode \/ LinkCount(i) > 0
      /\ stage # "done" /\ changes < MaxChanges /\ changes' = changes + 1
      /\ UNCHANGED <<stage, next, rec, pc, handle, bytes, groups>>
  BY DEF LinkOrRemove, Interferes
<1>2. fs \in [Paths -> Inodes \cup {NoInode}]
  BY DEF ExactInv, TypeOK
<1>3. i = NoInode \/ \E q \in Paths : fs[q] = i
  BY <1>1, LinkedIsNamed
<1>4. /\ fs' \in [Paths -> Inodes \cup {NoInode}]
      /\ \A x \in Paths : fs'[x] # NoInode => \E y \in Paths : fs'[x] = fs[y]
  BY <1>1, <1>2, <1>3
<1> QED BY <1>1, <1>4, NamesAreOutside

LEMMA CreateIsOutside ==
  ASSUME ExactInv, NEW p \in Paths, NEW c \in Contents, Create(p, c)
  PROVE  OutsideStep
<1> DEFINE unused == {i \in Inodes : history[i] = <<>>}
           new == CHOOSE u \in unused : TRUE
<1>1. /\ unused # {} /\ fs' = [fs EXCEPT ![p] = new]
      /\ history' = [history EXCEPT ![new] = <<c>>]
      /\ stage # "done" /\ changes < MaxChanges /\ changes' = changes + 1
      /\ UNCHANGED <<stage, next, rec, pc, handle, bytes, groups>>
  BY DEF Create, Interferes
<1>2. new \in Inodes /\ history[new] = <<>>
  <2>1. new \in unused
    BY <1>1
  <2> QED BY <2>1
<1> HIDE DEF new, unused
<1>3. history \in [Inodes -> Seq(Contents)] /\ fs \in [Paths -> Inodes \cup {NoInode}]
  BY DEF ExactInv, Shapes, TypeOK
<1>4. /\ <<c>> \in Seq(Contents) /\ Len(<<c>>) = 1 /\ Len(history[new]) = 0
      /\ \A j \in Inodes : Len(history[j]) \in Nat
  BY <1>2, <1>3, LenProperties
<1>5. history' \in [Inodes -> Seq(Contents)] /\ fs' \in [Paths -> Inodes \cup {NoInode}]
  BY <1>1, <1>2, <1>3, <1>4
<1>6. \A j \in Inodes : /\ Len(history[j]) <= Len(history'[j])
                        /\ \A k \in 1..Len(history[j]) : history'[j][k] = history[j][k]
  BY <1>1, <1>2, <1>3, <1>4
<1>7. NamedFilesExist'
  <2>1. ASSUME NEW x \in Paths, fs'[x] # NoInode PROVE Len(history'[fs'[x]]) >= 1
    <3>1. fs'[x] = new \/ fs'[x] = fs[x]
      BY <1>1, <1>3
    <3>2. CASE fs'[x] = new
      BY <1>1, <1>2, <1>3, <1>4, <3>2
    <3>3. CASE fs'[x] = fs[x]
      <4>1. fs[x] \in Inodes /\ Len(history[fs[x]]) >= 1
        BY <1>3, <2>1, <3>3 DEF ExactInv, NamedFilesExist
      <4>2. Len(history'[fs[x]]) \in Nat
        BY <1>5, <4>1, LenProperties
      <4> QED BY <1>4, <1>6, <3>3, <4>1, <4>2
    <3> QED BY <3>1, <3>2, <3>3
  <2> QED BY <2>1 DEF NamedFilesExist
<1> QED BY <1>1, <1>5, <1>6, <1>7 DEF OutsideStep

\* Versions are never lost, so what is known of the recorded ones stays true; and
\* a file that is still at its recorded version has not been written before.
LEMMA OutsideKeepsExact ==
  ASSUME ExactInv, OutsideStep
  PROVE  ExactInv'
<1>1. /\ stage' = stage /\ next' = next /\ rec' = rec /\ pc' = pc /\ handle' = handle
      /\ bytes' = bytes /\ groups' = groups /\ stage # "done"
  BY DEF OutsideStep
<1>2. ASSUME NEW r \in Records, rec[r] # NoRecord
      PROVE  /\ rec[r].inode \in Inodes
             /\ rec[r].mtime \in 1..Len(history'[rec[r].inode])
             /\ RecordedContent(r)' = RecordedContent(r)
             /\ Current(r)' => Current(r)
  <2> DEFINE i == rec[r].inode
  <2>1. i \in Inodes /\ rec[r].mtime \in 1..Len(history[i])
    BY <1>2 DEF ExactInv, RecordsAreTrue
  <2>2. /\ Len(history[i]) \in Nat /\ Len(history'[i]) \in Nat
        /\ Len(history[i]) <= Len(history'[i])
        /\ history'[i][rec[r].mtime] = history[i][rec[r].mtime]
    BY <2>1, LenProperties DEF OutsideStep, ExactInv, Shapes
  <2> QED BY <1>1, <2>1, <2>2 DEF RecordedContent, Current
<1>3. TypeOK'
  <2>1. changes' \in 0..MaxChanges
    BY DEF OutsideStep, ExactInv, TypeOK
  <2>2. fs' \in [Paths -> Inodes \cup {NoInode}] /\ \A i \in Inodes : history'[i] \in Seq(Contents)
    BY DEF OutsideStep
  <2> QED BY <1>1, <2>1, <2>2 DEF ExactInv, TypeOK
<1>4. Shapes'
  BY <1>1 DEF OutsideStep, ExactInv, Shapes
<1>5. NamedFilesExist'
  BY DEF OutsideStep
<1>6. RecordsAreTrue'
  BY <1>1, <1>2 DEF ExactInv, RecordsAreTrue
<1>7. HashingIsTrue'
  BY <1>1, <1>2 DEF ExactInv, HashingIsTrue, ReadSoFar
<1>8. ExactGroups'
  BY <1>1 DEF ExactInv, ExactGroups
<1> QED BY <1>3, <1>4, <1>5, <1>6, <1>7, <1>8 DEF ExactInv

-----------------------------------------------------------------------------
(* The stages.                                                             *)

\* A stage that begins has nothing read and no file open.
LEMMA EnterKeepsExact ==
  ASSUME ExactInv, NEW s \in {"boundary", "full", "done"}, NEW candidates \in SUBSET Records,
         EnterStage(s, candidates), s = "done" => candidates = {},
         \A r \in candidates : rec[r] # NoRecord,
         groups' \in SUBSET SUBSET Records, ExactGroups'
  PROVE  ExactInv'
<1>1. /\ stage' = s /\ fs' = fs /\ history' = history /\ changes' = changes /\ next' = next
      /\ rec' = rec
      /\ pc' = [r \in Records |-> IF r \in candidates THEN "open" ELSE "out"]
      /\ handle' = [r \in Records |-> NoInode]
      /\ bytes' = [r \in Records |-> Unread]
  BY DEF EnterStage, fsVars
<1>2. \A r \in Records : /\ pc'[r] = IF r \in candidates THEN "open" ELSE "out"
                         /\ handle'[r] = NoInode /\ bytes'[r] = Unread
  BY <1>1
<1>3. TypeOK'
  <2>1. \A r \in Records : /\ pc'[r] \in {"out", "open"}
                           /\ handle'[r] \in Inodes \cup {NoInode}
                           /\ handle'[r] # NoInode <=> pc'[r] \in {"edge", "body", "verify"}
    BY <1>2
  <2> QED BY <1>1, <2>1 DEF ExactInv, TypeOK
<1>4. Shapes'
  <2>1. Unread = [size |-> Unread.size, edge |-> Unread.edge, body |-> Unread.body]
    BY DEF Unread
  <2> QED BY <1>1, <1>2, <2>1 DEF ExactInv, Shapes
<1>5. NamedFilesExist' /\ RecordsAreTrue'
  BY <1>1 DEF ExactInv, NamedFilesExist, RecordsAreTrue, RecordedContent
<1>6. HashingIsTrue'
  BY <1>1, <1>2 DEF HashingIsTrue, ReadSoFar
<1> QED BY <1>3, <1>4, <1>5, <1>6 DEF ExactInv

LEMMA RefreshKeepsExact ==
  ASSUME ExactInv, Refresh
  PROVE  ExactInv'
<1> DEFINE taken == IF Eligible(next) THEN Snapshot(fs[Input[next]]) ELSE NoRecord
<1>1. /\ stage = "refresh" /\ next \in Records /\ next' = next + 1
      /\ rec' = [rec EXCEPT ![next] = taken]
      /\ fs' = fs /\ history' = history /\ changes' = changes /\ stage' = stage
      /\ pc' = pc /\ handle' = handle /\ bytes' = bytes /\ groups' = groups
  BY DEF Refresh, fsVars
<1>2. /\ DOMAIN rec' = Records /\ rec'[next] = taken
      /\ \A r \in Records : r # next => rec'[r] = rec[r]
  BY <1>1 DEF ExactInv, Shapes
<1>3. /\ taken = NoRecord \/ taken.inode \in Inodes
      /\ taken # NoRecord =>
           /\ taken.mtime \in 1..Len(history[taken.inode])
           /\ taken.size = history[taken.inode][taken.mtime].size
  <2>1. CASE Eligible(next)
    <3>1. fs[Input[next]] \in Inodes /\ Len(history[fs[Input[next]]]) \in Nat \ {0}
      BY <1>1, <2>1, EligibleFile
    <3>2. taken = Snapshot(fs[Input[next]])
      BY <2>1
    <3> HIDE DEF taken
    <3> QED BY <3>1, <3>2, SnapshotOf
  <2>2. CASE ~Eligible(next)
    BY <2>2
  <2> QED BY <2>1, <2>2
<1> HIDE DEF taken
<1>4. TypeOK'
  <2>1. next' \in 1..(Len(Input) + 1)
    BY <1>1, RecordsArePaths DEF Records
  <2> QED BY <1>1, <1>2, <1>3, <2>1 DEF ExactInv, TypeOK
<1>5. Shapes' /\ NamedFilesExist'
  BY <1>1, <1>2 DEF ExactInv, Shapes, NamedFilesExist
<1>6. RecordsAreTrue'
  BY <1>1, <1>2, <1>3 DEF ExactInv, RecordsAreTrue, RecordedContent
<1>7. HashingIsTrue'
  BY <1>1 DEF ExactInv, HashingIsTrue
<1>8. ExactGroups'
  BY <1>1 DEF ExactInv, ExactGroups
<1> QED BY <1>4, <1>5, <1>6, <1>7, <1>8 DEF ExactInv

LEMMA BoundaryKeepsExact ==
  ASSUME ExactInv, BeginBoundaryStage
  PROVE  ExactInv'
<1>1. /\ EnterStage("boundary", NotAlone(BySize, Refreshed)) /\ groups' = groups
      /\ stage = "refresh" /\ stage' = "boundary"
  BY DEF BeginBoundaryStage, EnterStage
<1>2. \A r \in NotAlone(BySize, Refreshed) : r \in Records /\ rec[r] # NoRecord
  BY DEF NotAlone, Refreshed
<1>3. groups' = {} /\ groups' \in SUBSET SUBSET Records /\ ExactGroups'
  BY <1>1 DEF ExactInv, ExactGroups, TypeOK
<1> HIDE DEF NotAlone
<1> QED BY <1>1, <1>2, <1>3, EnterKeepsExact

LEMMA HashedAreRecorded ==
  ASSUME ExactInv, NEW r \in Hashed
  PROVE  r \in Records /\ rec[r] # NoRecord /\ pc[r] = "hashed" /\ ReadSoFar(r)
BY DEF Hashed, ExactInv, HashingIsTrue

LEMMA FullKeepsExact ==
  ASSUME ExactInv, BeginFullStage
  PROVE  ExactInv'
<1>1. /\ EnterStage("full", NotAlone(ByEdge, Hashed)) /\ groups' = groups
      /\ stage = "boundary" /\ stage' = "full"
  BY DEF BeginFullStage, EnterStage
<1>2. \A r \in NotAlone(ByEdge, Hashed) : r \in Records /\ rec[r] # NoRecord
  BY HashedAreRecorded DEF NotAlone
<1>3. groups' = {} /\ groups' \in SUBSET SUBSET Records /\ ExactGroups'
  BY <1>1 DEF ExactInv, ExactGroups, TypeOK
<1> HIDE DEF NotAlone
<1> QED BY <1>1, <1>2, <1>3, EnterKeepsExact

\* After the full stage equal bytes read are equal recorded contents.
LEMMA BytesAreContents ==
  ASSUME ExactInv, stage = "full", NEW r \in Hashed, NEW s \in Hashed
  PROVE  ByBytes[r] = ByBytes[s] <=> RecordedContent(r) = RecordedContent(s)
<1>1. ASSUME NEW q \in Hashed
      PROVE  /\ q \in Records
             /\ RecordedContent(q) \in Contents
             /\ bytes[q] = [size |-> RecordedContent(q).size, edge |-> RecordedContent(q).edge,
                            body |-> RecordedContent(q).body]
             /\ rec[q].size = RecordedContent(q).size
  <2>1. q \in Records /\ rec[q] # NoRecord /\ pc[q] = "hashed" /\ ReadSoFar(q)
    BY HashedAreRecorded
  <2>2. /\ rec[q].inode \in Inodes /\ rec[q].mtime \in 1..Len(history[rec[q].inode])
        /\ rec[q].size = RecordedContent(q).size
    BY <2>1 DEF ExactInv, RecordsAreTrue
  <2>3. RecordedContent(q) \in Contents
    <3>1. history[rec[q].inode] \in Seq(Contents)
      BY <2>2 DEF ExactInv, Shapes
    <3> QED BY <2>2, <3>1, ElementOfSeq DEF RecordedContent
  <2>4. bytes[q] = [size |-> bytes[q].size, edge |-> bytes[q].edge, body |-> bytes[q].body]
    BY <2>1 DEF ExactInv, Shapes
  <2>5. /\ bytes[q].size = RecordedContent(q).size /\ bytes[q].edge = RecordedContent(q).edge
        /\ bytes[q].body = RecordedContent(q).body
    BY <2>1 DEF ReadSoFar
  <2> QED BY <2>1, <2>2, <2>3, <2>4, <2>5
<1>2. ByBytes[r] = <<rec[r].size, bytes[r]>> /\ ByBytes[s] = <<rec[s].size, bytes[s]>>
  BY <1>1 DEF ByBytes
<1>3. \A q \in Hashed : RecordedContent(q) =
         [size |-> RecordedContent(q).size, edge |-> RecordedContent(q).edge,
          body |-> RecordedContent(q).body]
  BY <1>1
<1> QED BY <1>1, <1>2, <1>3

LEMMA FinishKeepsExact ==
  ASSUME ExactInv, Finish
  PROVE  ExactInv'
<1> DEFINE group(r) == {s \in Hashed : ByBytes[s] = ByBytes[r]}
<1>1. /\ stage = "full" /\ EnterStage("done", {}) /\ stage' = "done"
      /\ rec' = rec /\ history' = history
      /\ groups' = {group(r) : r \in NotAlone(ByBytes, Hashed)}
  BY DEF Finish, EnterStage, fsVars
<1>2. ASSUME NEW r \in NotAlone(ByBytes, Hashed)
      PROVE  /\ group(r) \in SUBSET Records
             /\ Cardinality(group(r)) > 1
             /\ \A s, t \in group(r) : RecordedContent(s) = RecordedContent(t)
  <2>1. r \in Hashed
    BY DEF NotAlone
  <2>2. PICK s \in Hashed \ {r} : ByBytes[s] = ByBytes[r]
    BY DEF NotAlone
  <2>3. group(r) \in SUBSET Records /\ r \in group(r) /\ s \in group(r)
    BY <2>1, <2>2, HashedAreRecorded
  <2>4. Cardinality(group(r)) > 1
    <3> HIDE DEF group
    <3> QED BY <2>2, <2>3, MoreThanOne
  <2>5. \A t \in group(r) : RecordedContent(t) = RecordedContent(r)
    BY <1>1, <2>1, BytesAreContents
  <2> QED BY <2>3, <2>4, <2>5
<1>3. groups' \in SUBSET SUBSET Records
  <2> HIDE DEF group
  <2> QED BY <1>1, <1>2
<1>4. ExactGroups'
  <2>1. ASSUME NEW g \in groups'
        PROVE  /\ Cardinality(g) > 1
               /\ \A s, t \in g : RecordedContent(s)' = RecordedContent(t)'
    <3>1. PICK r \in NotAlone(ByBytes, Hashed) : g = group(r)
      BY <1>1
    <3>2. \A s : RecordedContent(s)' = RecordedContent(s)
      BY <1>1 DEF RecordedContent
    <3> HIDE DEF group
    <3> QED BY <1>2, <3>1, <3>2
  <2> QED BY <1>1, <2>1 DEF ExactGroups
<1>5. {} \in SUBSET Records /\ \A r \in {} : rec[r] # NoRecord
  OBVIOUS
<1> HIDE DEF group
<1> QED BY <1>1, <1>3, <1>4, <1>5, EnterKeepsExact

-----------------------------------------------------------------------------
(* Hashing a record.                                                       *)

\* Hashing r leaves the other records alone, and the file of r.
HashStep(r) ==
  /\ stage \in {"boundary", "full"} /\ pc[r] # "out"
  /\ fs' = fs /\ history' = history /\ changes' = changes
  /\ stage' = stage /\ next' = next /\ rec' = rec /\ groups' = groups
  /\ DOMAIN pc' = Records /\ DOMAIN handle' = Records /\ DOMAIN bytes' = Records
  /\ \A s \in Records \ {r} : pc'[s] = pc[s] /\ handle'[s] = handle[s] /\ bytes'[s] = bytes[s]

LEMMA HashStepKeepsExact ==
  ASSUME ExactInv, NEW r \in Records, HashStep(r),
         pc'[r] \in {"out", "edge", "body", "verify", "hashed"},
         handle'[r] = IF pc'[r] \in {"edge", "body", "verify"} THEN rec[r].inode ELSE NoInode,
         bytes'[r] = [size |-> bytes'[r].size, edge |-> bytes'[r].edge, body |-> bytes'[r].body],
         pc'[r] = "body" => stage = "full",
         pc'[r] # "out" /\ (pc'[r] = "hashed" \/ Current(r)) => ReadSoFar(r)'
  PROVE  ExactInv'
<1>1. rec[r] # NoRecord /\ rec[r].inode \in Inodes /\ rec[r].inode # NoInode
  BY DEF HashStep, ExactInv, HashingIsTrue, RecordsAreTrue
<1>2. TypeOK'
  <2>1. \A s \in Records : /\ pc'[s] \in {"out", "open", "edge", "body", "verify", "hashed"}
                           /\ handle'[s] \in Inodes \cup {NoInode}
                           /\ handle'[s] # NoInode <=> pc'[s] \in {"edge", "body", "verify"}
    BY <1>1 DEF HashStep, ExactInv, TypeOK
  <2> QED BY <2>1 DEF HashStep, ExactInv, TypeOK
<1>3. Shapes'
  BY DEF HashStep, ExactInv, Shapes
<1>4. NamedFilesExist' /\ RecordsAreTrue' /\ ExactGroups'
  BY DEF HashStep, ExactInv, NamedFilesExist, RecordsAreTrue, RecordedContent, ExactGroups
<1>5. HashingIsTrue'
  <2>1. ASSUME NEW s \in Records, pc'[s] # "out"
        PROVE  /\ rec'[s] # NoRecord
               /\ pc'[s] \in {"edge", "body", "verify"} => handle'[s] = rec'[s].inode
               /\ pc'[s] = "hashed" \/ Current(s)' => ReadSoFar(s)'
    <3>1. Current(s)' = Current(s)
      BY DEF HashStep, Current
    <3>2. CASE s = r
      BY <1>1, <2>1, <3>1, <3>2 DEF HashStep
    <3>3. CASE s # r
      BY <2>1, <3>1, <3>3 DEF HashStep, ExactInv, HashingIsTrue, ReadSoFar, RecordedContent
    <3> QED BY <3>2, <3>3
  <2>2. \A s \in Records : pc'[s] = "body" => stage' = "full"
    BY DEF HashStep, ExactInv, HashingIsTrue
  <2>3. stage' \notin {"refresh", "done"}
    BY DEF HashStep
  <2> QED BY <2>1, <2>2, <2>3 DEF HashingIsTrue
<1> QED BY <1>2, <1>3, <1>4, <1>5 DEF ExactInv

LEMMA HashingSteps ==
  ASSUME ExactInv, NEW r \in Records, Hash(r)
  PROVE  HashStep(r)
BY DEF Hash, Open, ReadEdge, ReadBody, Verify, At, Step, fsVars, HashStep, ExactInv, Shapes

LEMMA OpenKeepsExact ==
  ASSUME ExactInv, NEW r \in Records, Open(r)
  PROVE  ExactInv'
<1>1. HashStep(r)
  BY HashingSteps DEF Hash
<1>2. /\ DOMAIN pc = Records /\ DOMAIN handle = Records /\ bytes' = bytes /\ pc[r] = "open"
      /\ handle[r] = NoInode
  BY DEF Open, At, ExactInv, Shapes, TypeOK
<1>3. CASE Matches(r)
  <2>1. pc'[r] = "edge" /\ handle'[r] = fs[Input[r]]
    BY <1>2, <1>3 DEF Open, Step
  <2>2. fs[Input[r]] = rec[r].inode
    <3>1. fs[Input[r]] \in Inodes /\ Snapshot(fs[Input[r]]) = rec[r]
      BY <1>3, EligibleFile DEF Matches
    <3> QED BY <3>1, SnapshotOf
  <2> QED BY <1>1, <1>2, <2>1, <2>2, HashStepKeepsExact DEF ExactInv, Shapes, ReadSoFar
<1>4. CASE ~Matches(r)
  <2>1. pc'[r] = "out" /\ handle'[r] = NoInode
    BY <1>2, <1>4 DEF Open, Step
  <2> QED BY <1>1, <1>2, <2>1, HashStepKeepsExact DEF ExactInv, Shapes
<1> QED BY <1>3, <1>4

\* What a handle shows is the recorded version if that is the last.
LEMMA ReadsRecorded ==
  ASSUME ExactInv, NEW r \in Records, pc[r] \in {"edge", "body", "verify"}, Current(r)
  PROVE  Content(handle[r]) = RecordedContent(r)
BY DEF ExactInv, HashingIsTrue, Current, Content, Mtime, RecordedContent

LEMMA ReadEdgeKeepsExact ==
  ASSUME ExactInv, NEW r \in Records, ReadEdge(r)
  PROVE  ExactInv'
<1>1. HashStep(r)
  BY HashingSteps DEF Hash
<1> DEFINE read == [bytes[r] EXCEPT !.edge = Content(handle[r]).edge]
<1>2. /\ DOMAIN pc = Records /\ DOMAIN bytes = Records /\ pc[r] = "edge"
      /\ handle' = handle /\ handle[r] = rec[r].inode /\ rec[r] # NoRecord
      /\ pc' = [pc EXCEPT ![r] = IF stage = "full" THEN "body" ELSE "verify"]
      /\ bytes' = [bytes EXCEPT ![r] = read]
      /\ bytes[r] = [size |-> bytes[r].size, edge |-> bytes[r].edge, body |-> bytes[r].body]
  BY DEF ReadEdge, At, Step, ExactInv, Shapes, HashingIsTrue
<1>3. /\ bytes'[r] = read /\ pc'[r] = IF stage = "full" THEN "body" ELSE "verify"
  BY <1>2
<1>4. /\ read.edge = Content(handle[r]).edge
      /\ read = [size |-> read.size, edge |-> read.edge, body |-> read.body]
  BY <1>2
<1> HIDE DEF read
<1>5. Current(r) => ReadSoFar(r)'
  <2>1. Current(r) => Content(handle[r]) = RecordedContent(r)
    BY <1>2, ReadsRecorded
  <2> QED BY <1>1, <1>3, <1>4, <2>1 DEF ReadSoFar, HashStep, RecordedContent
<1> QED BY <1>1, <1>2, <1>3, <1>4, <1>5, HashStepKeepsExact

LEMMA ReadBodyKeepsExact ==
  ASSUME ExactInv, NEW r \in Records, ReadBody(r)
  PROVE  ExactInv'
<1>1. HashStep(r)
  BY HashingSteps DEF Hash
<1> DEFINE content == Content(handle[r])
           read == [bytes[r] EXCEPT !.body = content.body, !.size = content.size]
<1>2. /\ DOMAIN pc = Records /\ DOMAIN bytes = Records /\ pc[r] = "body"
      /\ handle' = handle /\ handle[r] = rec[r].inode /\ rec[r] # NoRecord
      /\ pc' = [pc EXCEPT ![r] = "verify"]
      /\ bytes[r] = [size |-> bytes[r].size, edge |-> bytes[r].edge, body |-> bytes[r].body]
  BY DEF ReadBody, At, Step, ExactInv, Shapes, HashingIsTrue
<1>3. bytes'[r] = read
  BY <1>2 DEF ReadBody
<1>4. pc'[r] = "verify"
  BY <1>2
<1>5. /\ read.edge = bytes[r].edge /\ read.body = content.body /\ read.size = content.size
      /\ read = [size |-> read.size, edge |-> read.edge, body |-> read.body]
  <2>1. PICK b : b = bytes[r]
    OBVIOUS
  <2>2. PICK x, y : x = content.body /\ y = content.size
    OBVIOUS
  <2>3. b = [size |-> b.size, edge |-> b.edge, body |-> b.body]
    BY <1>2, <2>1
  <2>4. read = [[b EXCEPT !.body = x] EXCEPT !.size = y]
    BY <2>1, <2>2
  <2> HIDE DEF read, content
  <2>5. [b EXCEPT !.body = x] = [size |-> b.size, edge |-> b.edge, body |-> x]
    BY <2>3
  <2>6. read = [size |-> y, edge |-> b.edge, body |-> x]
    BY <2>4, <2>5
  <2> QED BY <2>1, <2>2, <2>6
<1>6. Current(r) => content = RecordedContent(r) /\ bytes[r].edge = RecordedContent(r).edge
  BY <1>2, ReadsRecorded DEF ExactInv, HashingIsTrue, ReadSoFar
<1> HIDE DEF read, content
<1>7. Current(r) => ReadSoFar(r)'
  BY <1>1, <1>3, <1>4, <1>5, <1>6 DEF ReadSoFar, HashStep, RecordedContent
<1> QED BY <1>1, <1>2, <1>3, <1>4, <1>5, <1>7, HashStepKeepsExact

\* The path and the handle are still those of the record, so the file was at the
\* recorded version all the time it was read.
LEMMA VerifyKeepsExact ==
  ASSUME ExactInv, NEW r \in Records, Verify(r)
  PROVE  ExactInv'
<1>1. HashStep(r)
  BY HashingSteps DEF Hash
<1>2. /\ DOMAIN pc = Records /\ DOMAIN bytes = Records /\ DOMAIN handle = Records
      /\ pc[r] = "verify" /\ handle'[r] = NoInode
      /\ pc'[r] = IF Stable(r) THEN "hashed" ELSE "out"
      /\ bytes'[r] = IF Stable(r) THEN bytes[r] ELSE Unread
      /\ bytes[r] = [size |-> bytes[r].size, edge |-> bytes[r].edge, body |-> bytes[r].body]
  BY DEF Verify, At, Step, ExactInv, Shapes
<1>3. Unread = [size |-> Unread.size, edge |-> Unread.edge, body |-> Unread.body]
  BY DEF Unread
<1>4. Stable(r) => Current(r)
  <2> SUFFICES ASSUME Stable(r) PROVE Current(r)
    OBVIOUS
  <2>1. fs[Input[r]] \in Inodes /\ Snapshot(fs[Input[r]]) = rec[r]
    BY EligibleFile DEF Stable, Matches
  <2> QED BY <2>1, SnapshotOf DEF Current
<1>5. Stable(r) => ReadSoFar(r)'
  BY <1>1, <1>2, <1>4 DEF ExactInv, HashingIsTrue, ReadSoFar, HashStep, RecordedContent
<1> HIDE DEF Stable
<1>6. CASE Stable(r)
  BY <1>1, <1>2, <1>5, <1>6, HashStepKeepsExact
<1>7. CASE ~Stable(r)
  BY <1>1, <1>2, <1>3, <1>7, HashStepKeepsExact
<1> QED BY <1>6, <1>7

-----------------------------------------------------------------------------
(* The groups are exact.                                                   *)

LEMMA InitIsExact == Init => ExactInv
<1> SUFFICES ASSUME Init PROVE ExactInv
  OBVIOUS
<1>1. PICK c \in InitialContents :
        history = [i \in Inodes |-> IF LinkCount(i) > 0 THEN <<c[i]>> ELSE <<>>]
  BY DEF Init
<1>2. /\ fs \in [Paths -> Inodes \cup {NoInode}] /\ changes = 0 /\ stage = "refresh"
      /\ next = 1 /\ groups = {}
      /\ rec = [r \in Records |-> NoRecord] /\ pc = [r \in Records |-> "out"]
      /\ handle = [r \in Records |-> NoInode] /\ bytes = [r \in Records |-> Unread]
  BY DEF Init
<1>3. c \in [Inodes -> Contents]
  OBVIOUS
<1>4. history \in [Inodes -> Seq(Contents)]
  <2>1. \A i \in Inodes : <<c[i]>> \in Seq(Contents) /\ <<>> \in Seq(Contents)
    BY <1>3
  <2> QED BY <1>1, <2>1
<1>5. TypeOK
  <2>1. next \in 1..(Len(Input) + 1) /\ changes \in 0..MaxChanges
    BY <1>2, RecordsArePaths
  <2>2. groups \in SUBSET SUBSET Records
    BY <1>2
  <2> QED BY <1>2, <1>4, <2>1, <2>2 DEF TypeOK
<1>6. Shapes
  <2>1. Unread = [size |-> Unread.size, edge |-> Unread.edge, body |-> Unread.body]
    BY DEF Unread
  <2> QED BY <1>2, <1>4, <2>1 DEF Shapes
<1>7. NamedFilesExist
  <2>1. ASSUME NEW p \in Paths, fs[p] # NoInode PROVE Len(history[fs[p]]) >= 1
    <3> DEFINE names == {q \in Paths : fs[q] = fs[p]}
    <3>1. IsFiniteSet(names)
      BY FS_Subset
    <3>2. Cardinality(names) \in Nat /\ Cardinality(names) # 0
      BY <3>1, FS_CardinalityType, FS_EmptySet
    <3>3. LinkCount(fs[p]) > 0
      BY <3>2 DEF LinkCount
    <3>4. fs[p] \in Inodes
      BY <1>2, <2>1
    <3>5. history[fs[p]] = <<c[fs[p]]>>
      BY <1>1, <3>3, <3>4
    <3> QED BY <3>5
  <2> QED BY <2>1 DEF NamedFilesExist
<1>8. RecordsAreTrue /\ HashingIsTrue /\ ExactGroups
  BY <1>2 DEF RecordsAreTrue, HashingIsTrue, ExactGroups
<1> QED BY <1>5, <1>6, <1>7, <1>8 DEF ExactInv

\* A step is one of another program, or one of the scan.
Outside ==
  \/ \E i \in Inodes, c \in Contents : Write(i, c)
  \/ \E p, q \in Paths : Rename(p, q)
  \/ \E p \in Paths, c \in Contents : Create(p, c)
  \/ \E p \in Paths, i \in Inodes \cup {NoInode} : LinkOrRemove(p, i)

LEMMA OutsideSteps ==
  ASSUME ExactInv, Outside
  PROVE  OutsideStep
BY WriteIsOutside, RenameIsOutside, CreateIsOutside, LinkIsOutside DEF Outside

LEMMA StepKeepsExact ==
  ASSUME ExactInv, [Next]_vars
  PROVE  ExactInv'
<1>1. CASE UNCHANGED vars
  BY <1>1 DEF vars, fsVars, ExactInv, TypeOK, Shapes, NamedFilesExist, RecordsAreTrue,
     RecordedContent, HashingIsTrue, ReadSoFar, Current, ExactGroups
<1>2. CASE Outside
  BY <1>2, OutsideSteps, OutsideKeepsExact
<1>3. ASSUME NEW r \in Records, Hash(r) PROVE ExactInv'
  BY <1>3, OpenKeepsExact, ReadEdgeKeepsExact, ReadBodyKeepsExact, VerifyKeepsExact DEF Hash
<1> QED BY <1>1, <1>2, <1>3, RefreshKeepsExact, BoundaryKeepsExact, FullKeepsExact,
           FinishKeepsExact DEF Next, Outside, Terminated

\* Whatever other programs do: records describe what their files were, an open
\* file is that of its record, and what is verified was read from the recorded
\* version alone.
THEOREM ExactInvariant == Spec => []ExactInv
BY InitIsExact, StepKeepsExact, PTL DEF Spec

\* For every report, all contents and any number of writes, renames, links and
\* removals by other programs: a published group holds two or more records, and
\* the files they describe had the same bytes.
THEOREM GroupsAlwaysExact == Spec => []GroupsAreExact
<1>1. ExactInv => GroupsAreExact
  BY DEF ExactInv, ExactGroups, GroupsAreExact
<1> QED BY <1>1, ExactInvariant, PTL

-----------------------------------------------------------------------------
(* A scan without interference.                                            *)

\* The files are as before; and so are the records.
LEMMA SameFiles ==
  ASSUME fs' = fs, history' = history, NEW r \in Records
  PROVE  /\ Eligible(r)' <=> Eligible(r)
         /\ Snapshot(fs[Input[r]])' = Snapshot(fs[Input[r]])
         /\ rec' = rec => RecordedContent(r)' = RecordedContent(r)
BY DEF Eligible, LinkCount, Snapshot, Content, Mtime, RecordedContent

LEMMA SameTwins ==
  ASSUME fs' = fs, history' = history, rec' = rec, NEW r \in Records
  PROVE  Twin(r)' <=> Twin(r)
<1>1. \A s \in Records : Eligible(s)' <=> Eligible(s)
  BY SameFiles
<1>2. \A s \in Records : RecordedContent(s)' = RecordedContent(s)
  BY SameFiles
<1> QED BY <1>1, <1>2 DEF Twin

LEMMA QuietRecords ==
  ASSUME ExactInv, QuietInv, changes = 0, stage # "refresh" \/ next > Len(Input),
         NEW r \in Records
  PROVE  /\ rec[r] = IF Eligible(r) THEN Snapshot(fs[Input[r]]) ELSE NoRecord
         /\ rec[r] # NoRecord <=> Eligible(r)
<1>1. r < next
  BY RecordsArePaths DEF QuietInv, Records, ExactInv, TypeOK
<1>2. rec[r] = IF Eligible(r) THEN Snapshot(fs[Input[r]]) ELSE NoRecord
  BY <1>1 DEF QuietInv
<1>3. Eligible(r) => Snapshot(fs[Input[r]]) # NoRecord
  BY EligibleFile, SnapshotOf
<1> QED BY <1>2, <1>3

\* Records of equal contents agree in size, and once hashed in their edges.
LEMMA EqualContents ==
  ASSUME ExactInv, NEW r \in Records, NEW s \in Records,
         rec[r] # NoRecord, rec[s] # NoRecord, RecordedContent(r) = RecordedContent(s)
  PROVE  /\ BySize[r] = BySize[s]
         /\ pc[r] = "hashed" /\ pc[s] = "hashed" => ByEdge[r] = ByEdge[s]
<1>1. rec[r].size = RecordedContent(r).size /\ rec[s].size = RecordedContent(s).size
  BY DEF ExactInv, RecordsAreTrue
<1>2. pc[r] = "hashed" /\ pc[s] = "hashed" => bytes[r].edge = bytes[s].edge
  BY DEF ExactInv, HashingIsTrue, ReadSoFar
<1> QED BY <1>1, <1>2 DEF BySize, ByEdge

LEMMA TwinOf ==
  ASSUME NEW r \in Records, Twin(r)
  PROVE  \E s \in Records \ {r} : /\ Eligible(s) /\ Twin(s)
                                  /\ RecordedContent(s) = RecordedContent(r)
BY DEF Twin

LEMMA QuietRefresh ==
  ASSUME ExactInv, QuietInv, Refresh
  PROVE  QuietInv'
<1> SUFFICES ASSUME changes' = 0
             PROVE  /\ \A r \in Records : r < next' =>
                         rec'[r] = IF Eligible(r)' THEN Snapshot(fs[Input[r]])' ELSE NoRecord
                    /\ stage' # "refresh" => next' > Len(Input)
                    /\ stage' \in {"boundary", "full"} =>
                         \A r \in Records : Twin(r)' => pc'[r] # "out"
                    /\ QuietScanIsComplete'
  BY DEF QuietInv
<1>1. /\ stage = "refresh" /\ stage' = "refresh" /\ next \in Records /\ next' = next + 1
      /\ rec' = [rec EXCEPT ![next] = IF Eligible(next) THEN Snapshot(fs[Input[next]])
                                      ELSE NoRecord]
      /\ fs' = fs /\ history' = history /\ changes = 0
  BY DEF Refresh, fsVars
<1>2. ASSUME NEW r \in Records, r < next'
      PROVE  rec'[r] = IF Eligible(r) THEN Snapshot(fs[Input[r]]) ELSE NoRecord
  <2>1. CASE r = next
    BY <1>1, <2>1 DEF ExactInv, Shapes
  <2>2. CASE r # next
    <3>1. r < next
      BY <1>1, <1>2, <2>2, RecordsArePaths
    <3> QED BY <1>1, <2>2, <3>1 DEF ExactInv, Shapes, QuietInv
  <2> QED BY <2>1, <2>2
<1>3. \A r \in Records : /\ Eligible(r)' <=> Eligible(r)
                         /\ Snapshot(fs[Input[r]])' = Snapshot(fs[Input[r]])
  BY <1>1, SameFiles
<1>4. QuietScanIsComplete'
  BY <1>1 DEF QuietScanIsComplete
<1> QED BY <1>1, <1>2, <1>3, <1>4

\* The files, the records and the counter stay as they are.
Still ==
  /\ fs' = fs /\ history' = history /\ changes' = changes /\ rec' = rec /\ next' = next

LEMMA QuietStill ==
  ASSUME ExactInv, QuietInv, Still, stage # "refresh" \/ next > Len(Input),
         changes = 0 /\ stage' \in {"boundary", "full"} =>
           \A r \in Records : Twin(r) => pc'[r] # "out",
         changes = 0 /\ stage' = "done" => QuietScanIsComplete'
  PROVE  QuietInv'
<1> SUFFICES ASSUME changes' = 0
             PROVE  /\ \A r \in Records : r < next' =>
                         rec'[r] = IF Eligible(r)' THEN Snapshot(fs[Input[r]])' ELSE NoRecord
                    /\ stage' # "refresh" => next' > Len(Input)
                    /\ stage' \in {"boundary", "full"} =>
                         \A r \in Records : Twin(r)' => pc'[r] # "out"
                    /\ QuietScanIsComplete'
  BY DEF QuietInv
<1>1. changes = 0 /\ next' > Len(Input)
  BY DEF Still, QuietInv
<1>2. \A r \in Records : /\ Eligible(r)' <=> Eligible(r)
                         /\ Snapshot(fs[Input[r]])' = Snapshot(fs[Input[r]])
                         /\ Twin(r)' <=> Twin(r)
  BY SameFiles, SameTwins DEF Still
<1>3. \A r \in Records : rec'[r] = IF Eligible(r) THEN Snapshot(fs[Input[r]]) ELSE NoRecord
  BY <1>1, QuietRecords DEF Still
<1>4. stage' # "done" => QuietScanIsComplete'
  BY DEF QuietScanIsComplete
<1> QED BY <1>1, <1>2, <1>3, <1>4

LEMMA QuietBoundary ==
  ASSUME ExactInv, QuietInv, BeginBoundaryStage
  PROVE  QuietInv'
<1>1. /\ Still /\ stage' = "boundary" /\ next > Len(Input)
      /\ pc' = [r \in Records |-> IF r \in NotAlone(BySize, Refreshed) THEN "open" ELSE "out"]
  BY DEF BeginBoundaryStage, EnterStage, Still, fsVars
<1>2. ASSUME changes = 0, NEW r \in Records, Twin(r) PROVE pc'[r] # "out"
  <2>1. PICK s \in Records \ {r} : Eligible(s) /\ RecordedContent(s) = RecordedContent(r)
    BY <1>2 DEF Twin
  <2>2. rec[r] # NoRecord /\ rec[s] # NoRecord
    BY <1>1, <1>2, <2>1, QuietRecords DEF Twin
  <2>3. BySize[s] = BySize[r]
    BY <2>1, <2>2, EqualContents
  <2>4. r \in NotAlone(BySize, Refreshed)
    BY <2>1, <2>2, <2>3 DEF NotAlone, Refreshed
  <2> QED BY <1>1, <2>4
<1> QED BY <1>1, <1>2, QuietStill

LEMMA TwinsAreHashed ==
  ASSUME ExactInv, QuietInv, changes = 0, stage \in {"boundary", "full"}, StageOver,
         NEW r \in Records, Twin(r)
  PROVE  r \in Hashed
BY DEF QuietInv, StageOver, Hashed

LEMMA QuietFull ==
  ASSUME ExactInv, QuietInv, BeginFullStage
  PROVE  QuietInv'
<1>1. /\ Still /\ stage = "boundary" /\ stage' = "full" /\ StageOver
      /\ pc' = [r \in Records |-> IF r \in NotAlone(ByEdge, Hashed) THEN "open" ELSE "out"]
  BY DEF BeginFullStage, EnterStage, Still, fsVars
<1>2. ASSUME changes = 0, NEW r \in Records, Twin(r) PROVE pc'[r] # "out"
  <2>1. PICK s \in Records \ {r} : Twin(s) /\ RecordedContent(s) = RecordedContent(r)
    BY <1>2, TwinOf
  <2>2. r \in Hashed /\ s \in Hashed
    BY <1>1, <1>2, <2>1, TwinsAreHashed
  <2>3. /\ rec[r] # NoRecord /\ rec[s] # NoRecord /\ pc[r] = "hashed" /\ pc[s] = "hashed"
    BY <2>2, HashedAreRecorded
  <2>4. ByEdge[s] = ByEdge[r]
    BY <2>1, <2>3, EqualContents
  <2>5. r \in NotAlone(ByEdge, Hashed)
    BY <2>1, <2>2, <2>4 DEF NotAlone
  <2> QED BY <1>1, <2>5
<1> QED BY <1>1, <1>2, QuietStill

LEMMA QuietHash ==
  ASSUME ExactInv, QuietInv, NEW r \in Records, Hash(r)
  PROVE  QuietInv'
<1>1. HashStep(r)
  BY HashingSteps
<1>2. Still /\ stage' = stage /\ stage \in {"boundary", "full"} /\ pc[r] # "out"
  BY <1>1 DEF HashStep, Still
<1>3. ASSUME changes = 0 PROVE pc'[r] # "out"
  <2>1. Eligible(r) /\ rec[r] = Snapshot(fs[Input[r]])
    <3>1. rec[r] # NoRecord
      BY <1>2 DEF ExactInv, HashingIsTrue
    <3> QED BY <1>2, <1>3, <3>1, QuietRecords
  <2>2. Matches(r)
    BY <2>1 DEF Matches
  <2>3. pc[r] = "verify" => Stable(r)
    <3>1. fs[Input[r]] \in Inodes /\ rec[r].inode = fs[Input[r]]
      BY <2>1, EligibleFile, SnapshotOf
    <3> QED BY <2>2, <3>1 DEF Stable, ExactInv, HashingIsTrue
  <2> QED BY <2>2, <2>3 DEF Hash, Open, ReadEdge, ReadBody, Verify, At, Step, ExactInv, Shapes
<1>4. \A s \in Records : changes = 0 /\ Twin(s) => pc'[s] # "out"
  BY <1>1, <1>2, <1>3 DEF HashStep, QuietInv
<1> QED BY <1>2, <1>4, QuietStill

\* What the last stage groups is what has equal contents.
LEMMA QuietGroups ==
  ASSUME ExactInv, QuietInv, changes = 0, stage = "full", StageOver
  PROVE  LET eligible == {r \in Records : Eligible(r)}
             same(r) == {s \in eligible : RecordedContent(s) = RecordedContent(r)} IN
         {{s \in Hashed : ByBytes[s] = ByBytes[r]} : r \in NotAlone(ByBytes, Hashed)}
           = {g \in {same(r) : r \in eligible} : Cardinality(g) > 1}
<1> DEFINE eligible == {r \in Records : Eligible(r)}
           same(r) == {s \in eligible : RecordedContent(s) = RecordedContent(r)}
           group(r) == {s \in Hashed : ByBytes[s] = ByBytes[r]}
<1>1. ASSUME NEW r \in Hashed PROVE r \in eligible
  <2>1. r \in Records /\ rec[r] # NoRecord
    BY HashedAreRecorded
  <2> QED BY <2>1, QuietRecords
<1>2. ASSUME NEW r \in Records, Twin(r) PROVE r \in Hashed /\ group(r) = same(r)
  <2>1. r \in Hashed
    BY <1>2, TwinsAreHashed
  <2>2. ASSUME NEW s \in group(r) PROVE s \in same(r)
    BY <1>1, <2>1, BytesAreContents
  <2>3. ASSUME NEW s \in same(r) PROVE s \in group(r)
    <3>1. s \in Hashed
      <4>1. s = r \/ Twin(s)
        BY <1>2 DEF Twin
      <4> QED BY <2>1, <4>1, TwinsAreHashed
    <3> QED BY <2>1, <3>1, BytesAreContents
  <2> QED BY <2>1, <2>2, <2>3
<1>3. ASSUME NEW r \in eligible PROVE Cardinality(same(r)) > 1 <=> Twin(r)
  <2>1. same(r) \in SUBSET Records /\ r \in same(r)
    OBVIOUS
  <2>2. (\E x, y \in same(r) : x # y) <=> Twin(r)
    BY DEF Twin
  <2> HIDE DEF same
  <2> QED BY <2>1, <2>2, MoreThanOne
<1>4. \A r : r \in NotAlone(ByBytes, Hashed) <=> r \in Records /\ Twin(r)
  <2>1. ASSUME NEW r \in NotAlone(ByBytes, Hashed) PROVE r \in Records /\ Twin(r)
    <3>1. PICK s \in Hashed \ {r} : ByBytes[s] = ByBytes[r]
      BY DEF NotAlone
    <3>2. r \in Hashed
      BY DEF NotAlone
    <3>3. RecordedContent(s) = RecordedContent(r)
      BY <3>1, <3>2, BytesAreContents
    <3> QED BY <1>1, <3>1, <3>2, <3>3 DEF Twin
  <2>2. ASSUME NEW r \in Records, Twin(r) PROVE r \in NotAlone(ByBytes, Hashed)
    <3>1. PICK s \in Records \ {r} : Twin(s) /\ RecordedContent(s) = RecordedContent(r)
      BY <2>2, TwinOf
    <3>2. r \in Hashed /\ s \in Hashed
      BY <1>2, <2>2, <3>1
    <3>3. ByBytes[s] = ByBytes[r]
      BY <3>1, <3>2, BytesAreContents
    <3> QED BY <3>1, <3>2, <3>3 DEF NotAlone
  <2> QED BY <2>1, <2>2
<1>5. \A r \in Records : Twin(r) => r \in eligible
  BY DEF Twin
<1>6. {group(r) : r \in NotAlone(ByBytes, Hashed)} = {g \in {same(r) : r \in eligible} : Cardinality(g) > 1}
  <2> HIDE DEF group, same
  <2>1. ASSUME NEW r \in NotAlone(ByBytes, Hashed)
        PROVE  group(r) \in {g \in {same(q) : q \in eligible} : Cardinality(g) > 1}
    BY <1>2, <1>3, <1>4, <1>5
  <2>2. ASSUME NEW r \in eligible, Cardinality(same(r)) > 1
        PROVE  same(r) \in {group(q) : q \in NotAlone(ByBytes, Hashed)}
    BY <1>2, <1>3, <1>4, <2>2
  <2> QED BY <2>1, <2>2
<1> QED BY <1>6

LEMMA QuietFinish ==
  ASSUME ExactInv, QuietInv, Finish
  PROVE  QuietInv'
<1>1. /\ Still /\ stage = "full" /\ stage' = "done" /\ StageOver
      /\ groups' = {{s \in Hashed : ByBytes[s] = ByBytes[r]} : r \in NotAlone(ByBytes, Hashed)}
  BY DEF Finish, EnterStage, Still, fsVars
<1> DEFINE eligible == {r \in Records : Eligible(r)}
           same(r) == {s \in eligible : RecordedContent(s) = RecordedContent(r)}
<1>2. ASSUME changes = 0 PROVE QuietScanIsComplete'
  <2>1. groups' = {g \in {same(r) : r \in eligible} : Cardinality(g) > 1}
    BY <1>1, <1>2, QuietGroups
  <2>2. \A r \in Records : /\ Eligible(r)' <=> Eligible(r)
                           /\ RecordedContent(r)' = RecordedContent(r)
    BY <1>1, SameFiles DEF Still
  <2>3. {r \in Records : Eligible(r)'} = eligible
    BY <2>2
  <2>4. \A r \in eligible : {s \in eligible : RecordedContent(s)' = RecordedContent(r)'} = same(r)
    BY <2>2
  <2>5. {{s \in eligible : RecordedContent(s)' = RecordedContent(r)'} : r \in eligible}
          = {same(r) : r \in eligible}
    <3> HIDE DEF eligible, same
    <3> QED BY <2>4
  <2> HIDE DEF eligible, same
  <2> QED BY <2>1, <2>3, <2>5 DEF QuietScanIsComplete
<1> QED BY <1>1, <1>2, QuietStill

LEMMA QuietTerminated ==
  ASSUME ExactInv, QuietInv, UNCHANGED vars
  PROVE  QuietInv'
<1>1. /\ fs' = fs /\ history' = history /\ changes' = changes /\ rec' = rec /\ next' = next
      /\ stage' = stage /\ pc' = pc /\ groups' = groups
  BY DEF vars, fsVars
<1>2. \A r \in Records : /\ Eligible(r)' <=> Eligible(r)
                         /\ Snapshot(fs[Input[r]])' = Snapshot(fs[Input[r]])
                         /\ Twin(r)' <=> Twin(r)
  BY <1>1, SameFiles, SameTwins
<1>3. QuietScanIsComplete' <=> QuietScanIsComplete
  BY <1>1 DEF QuietScanIsComplete, Eligible, LinkCount, RecordedContent
<1> QED BY <1>1, <1>2, <1>3 DEF QuietInv

\* If no other program interferes, the groups are exactly the sets of files with
\* one link that have the same contents: no stage filters out a duplicate, and
\* hard links are never taken for copies.
THEOREM QuietScanAlwaysComplete == Spec => []QuietScanIsComplete
<1>1. Init => QuietInv
  <2> SUFFICES ASSUME Init PROVE QuietInv
    OBVIOUS
  <2>1. stage = "refresh" /\ next = 1
    BY DEF Init
  <2> QED BY <2>1, RecordsArePaths DEF QuietInv, QuietScanIsComplete, Records
<1>2. ExactInv /\ QuietInv /\ [Next]_vars => QuietInv'
  <2> SUFFICES ASSUME ExactInv, QuietInv, [Next]_vars PROVE QuietInv'
    OBVIOUS
  <2>1. CASE Outside
    <3>1. changes \in Nat /\ changes' = changes + 1
      BY <2>1, OutsideSteps DEF OutsideStep, ExactInv, TypeOK
    <3> QED BY <3>1 DEF QuietInv
  <2>2. ASSUME NEW r \in Records, Hash(r) PROVE QuietInv'
    BY <2>2, QuietHash
  <2> QED BY <2>1, <2>2, QuietRefresh, QuietBoundary, QuietFull, QuietFinish,
             QuietTerminated DEF Next, Outside, Terminated
<1>3. QuietInv => QuietScanIsComplete
  <2>1. changes # 0 => QuietScanIsComplete
    BY DEF QuietScanIsComplete
  <2> QED BY <2>1 DEF QuietInv
<1> QED BY <1>1, <1>2, <1>3, ExactInvariant, PTL DEF Spec
=============================================================================
