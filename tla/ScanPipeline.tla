---------------------------- MODULE ScanPipeline ----------------------------
(***************************************************************************)
(* ScanFiles of internal/scanner/engine.go: refresh the listed records,    *)
(* group them by size, then by a hash of their edges, then by a hash of    *)
(* all their bytes, while other programs write, rename, link and remove    *)
(* files.  A path names an inode, an inode has bytes and a modification    *)
(* time that every write advances; an open handle keeps its inode.         *)
(*                                                                         *)
(* Cancellation, a replaced root and the goroutines are the subject of     *)
(* modules HashPool and SurfaceScan: here hashing proceeds record by record *)
(* in any interleaving.  Equal hashes stand for equal bytes read.          *)
(***************************************************************************)
EXTENDS Naturals, FiniteSets, Sequences, Functions

CONSTANTS
  Paths, Inodes, NoInode,
  Contents,     \* records [size, edge, body]: the bytes a file may hold
  InitialFiles, \* the functions [Paths -> Inodes \cup {NoInode}] to begin with
  InitialContents, \* the functions [Inodes -> Contents] to begin with
  Input,        \* the paths of the surface report's records
  MaxChanges    \* bound on changes by other programs

Records == 1..Len(Input)

ASSUME PipelineAssumption ==
  /\ IsFiniteSet(Paths)
  /\ NoInode \notin Inodes
  /\ InitialFiles \subseteq [Paths -> Inodes \cup {NoInode}]
  /\ InitialContents \subseteq [Inodes -> Contents]
  /\ \A c \in Contents : c = [size |-> c.size, edge |-> c.edge, body |-> c.body]
  /\ Input \in Seq(Paths)
  /\ MaxChanges \in Nat

VARIABLES
  fs,        \* the inode each path names
  history,   \* per inode: the contents it has had, the last is current; none: no file yet
  changes,   \* how often other programs interfered
  stage,     \* "refresh", "boundary", "full", "done"
  next,      \* the record refreshRecords looks at
  rec,       \* per record: the snapshot taken by refreshFileRecord
  pc,        \* per record: where its hashing in this stage stands
  handle,    \* per record: the inode of its open handle
  bytes,     \* per record: what hashing has read so far
  groups     \* the duplicate groups of the finished scan

fsVars == <<fs, history, changes>>
vars == <<fsVars, stage, next, rec, pc, handle, bytes, groups>>

Mtime(i) == Len(history[i])
Content(i) == history[i][Mtime(i)]
LinkCount(i) == Cardinality({p \in Paths : fs[p] = i})

NoRecord == [inode |-> NoInode, mtime |-> 0, size |-> 0]
Unread == [size |-> 0, edge |-> "", body |-> ""]

Init ==
  /\ fs \in InitialFiles
  /\ \E c \in InitialContents :
       history = [i \in Inodes |-> IF LinkCount(i) > 0 THEN <<c[i]>> ELSE <<>>]
  /\ changes = 0
  /\ stage = "refresh"
  /\ next = 1
  /\ rec = [r \in Records |-> NoRecord]
  /\ pc = [r \in Records |-> "out"]
  /\ handle = [r \in Records |-> NoInode]
  /\ bytes = [r \in Records |-> Unread]
  /\ groups = {}

-----------------------------------------------------------------------------
(* Other programs.                                                         *)

Interferes ==
  /\ stage # "done"
  /\ changes < MaxChanges
  /\ changes' = changes + 1
  /\ UNCHANGED <<stage, next, rec, pc, handle, bytes, groups>>

\* A file that has lost its name, and can get none, matters while it is open.
Write(i, c) ==
  /\ Interferes
  /\ LinkCount(i) > 0 \/ \E r \in Records : handle[r] = i
  /\ c # Content(i)
  /\ history' = [history EXCEPT ![i] = Append(@, c)]
  /\ UNCHANGED fs

Rename(p, q) ==
  /\ Interferes
  /\ fs[p] # NoInode /\ p # q
  /\ fs' = [fs EXCEPT ![q] = fs[p], ![p] = NoInode]
  /\ UNCHANGED history

\* A new file, in place of the one that had the name if there was one.
Create(p, c) ==
  LET unused == {i \in Inodes : history[i] = <<>>}
      i == CHOOSE u \in unused : TRUE IN
  /\ Interferes
  /\ unused # {}
  /\ fs' = [fs EXCEPT ![p] = i]
  /\ history' = [history EXCEPT ![i] = <<c>>]

LinkOrRemove(p, i) ==
  /\ Interferes
  /\ fs[p] # i
  /\ i = NoInode \/ LinkCount(i) > 0
  /\ fs' = [fs EXCEPT ![p] = i]
  /\ UNCHANGED history

-----------------------------------------------------------------------------
(* Snapshots.                                                              *)

Snapshot(i) == [inode |-> i, mtime |-> Mtime(i), size |-> Content(i).size]

\* The path of r names a file with one link.
Eligible(r) == fs[Input[r]] # NoInode /\ LinkCount(fs[Input[r]]) = 1

\* The path of r still names the file of its record, unchanged.
Matches(r) == Eligible(r) /\ Snapshot(fs[Input[r]]) = rec[r]

\* Mutant: only the path's inode is compared again after hashing.
StableByIdentity(r) == Eligible(r) /\ fs[Input[r]] = handle[r]

\* verifyStableSnapshotInScope: the handle and the path agree with the record.
Stable(r) == Matches(r) /\ fs[Input[r]] = handle[r]

-----------------------------------------------------------------------------
(* The stages.                                                             *)

\* refreshFileRecord: what the surface scan saw is replaced, not compared.
Refresh ==
  /\ stage = "refresh"
  /\ next \in Records
  /\ next' = next + 1
  /\ rec' = [rec EXCEPT ![next] = IF Eligible(next) THEN Snapshot(fs[Input[next]])
                                  ELSE NoRecord]
  /\ UNCHANGED <<fsVars, stage, pc, handle, bytes, groups>>

\* What the records of a stage are grouped by.
BySize == [r \in Records |-> rec[r].size]
ByEdge == [r \in Records |-> <<rec[r].size, bytes[r].edge>>]
ByBytes == [r \in Records |-> <<rec[r].size, bytes[r]>>]

\* Mutant: a set of records that agree with another one loses its first.
AllButFirstOf(key, among) ==
  {r \in among : \E s \in among : s < r /\ key[s] = key[r]}

\* The members of `among' that agree with another one.
NotAlone(key, among) ==
  {r \in among : \E s \in among \ {r} : key[s] = key[r]}

\* A stage begins with its candidates and nothing read.
EnterStage(s, candidates) ==
  /\ stage' = s
  /\ pc' = [r \in Records |-> IF r \in candidates THEN "open" ELSE "out"]
  /\ handle' = [r \in Records |-> NoInode]
  /\ bytes' = [r \in Records |-> Unread]
  /\ UNCHANGED <<fsVars, next, rec>>

Refreshed == {r \in Records : rec[r] # NoRecord}
Hashed == {r \in Records : pc[r] = "hashed"}
StageOver == \A r \in Records : pc[r] \in {"out", "hashed"}

BeginBoundaryStage ==
  /\ stage = "refresh"
  /\ next > Len(Input)
  /\ EnterStage("boundary", NotAlone(BySize, Refreshed))
  /\ UNCHANGED groups

BeginFullStage ==
  /\ stage = "boundary"
  /\ StageOver
  /\ EnterStage("full", NotAlone(ByEdge, Hashed))
  /\ UNCHANGED groups

Finish ==
  /\ stage = "full"
  /\ StageOver
  /\ groups' = {{s \in Hashed : ByBytes[s] = ByBytes[r]} :
                  r \in NotAlone(ByBytes, Hashed)}
  /\ EnterStage("done", {})

At(r, from) == stage \in {"boundary", "full"} /\ pc[r] = from

Step(r, to) ==
  /\ pc' = [pc EXCEPT ![r] = to]
  /\ UNCHANGED <<fsVars, stage, next, rec, groups>>

\* A record whose file is no longer the one refreshed is dropped and counted.
Open(r) ==
  /\ At(r, "open")
  /\ IF Matches(r)
       THEN Step(r, "edge") /\ handle' = [handle EXCEPT ![r] = fs[Input[r]]]
       ELSE Step(r, "out") /\ UNCHANGED handle
  /\ UNCHANGED bytes

ReadEdge(r) ==
  /\ At(r, "edge")
  /\ bytes' = [bytes EXCEPT ![r].edge = Content(handle[r]).edge]
  /\ Step(r, IF stage = "full" THEN "body" ELSE "verify")
  /\ UNCHANGED handle

\* fullHash streams the rest of the file; it may have been written meanwhile.
ReadBody(r) ==
  /\ At(r, "body")
  /\ bytes' = [bytes EXCEPT ![r].body = Content(handle[r]).body,
                            ![r].size = Content(handle[r]).size]
  /\ Step(r, "verify")
  /\ UNCHANGED handle

Verify(r) ==
  /\ At(r, "verify")
  /\ Step(r, IF Stable(r) THEN "hashed" ELSE "out")
  /\ handle' = [handle EXCEPT ![r] = NoInode]
  /\ bytes' = IF Stable(r) THEN bytes ELSE [bytes EXCEPT ![r] = Unread]

Hash(r) == Open(r) \/ ReadEdge(r) \/ ReadBody(r) \/ Verify(r)

\* The scan has returned its groups.
Terminated == stage = "done" /\ UNCHANGED vars

Next ==
  \/ \E i \in Inodes, c \in Contents : Write(i, c)
  \/ \E p, q \in Paths : Rename(p, q)
  \/ \E p \in Paths, c \in Contents : Create(p, c)
  \/ \E p \in Paths, i \in Inodes \cup {NoInode} : LinkOrRemove(p, i)
  \/ Refresh
  \/ BeginBoundaryStage \/ BeginFullStage \/ Finish
  \/ \E r \in Records : Hash(r)
  \/ Terminated

Spec == Init /\ [][Next]_vars

-----------------------------------------------------------------------------
(* Properties.                                                             *)

\* The types of the pipeline's variables; a handle is open exactly while its
\* record is being hashed.
TypeOK ==
  /\ fs \in [Paths -> Inodes \cup {NoInode}]
  /\ \A i \in Inodes : history[i] \in Seq(Contents)
  /\ changes \in 0..MaxChanges
  /\ stage \in {"refresh", "boundary", "full", "done"}
  /\ next \in 1..(Len(Input) + 1)
  /\ \A r \in Records :
       /\ rec[r] = NoRecord \/ rec[r].inode \in Inodes
       /\ pc[r] \in {"out", "open", "edge", "body", "verify", "hashed"}
       /\ handle[r] \in Inodes \cup {NoInode}
       /\ handle[r] # NoInode <=> pc[r] \in {"edge", "body", "verify"}
  /\ groups \in SUBSET SUBSET Records

\* The bytes the file of a record held when the record was taken.
RecordedContent(r) == history[rec[r].inode][rec[r].mtime]

\* Whatever other programs do meanwhile, a published group holds two or more
\* records, and the files they describe (by identity, size and modification
\* time) had the same bytes: no hash is of a mixture of two versions.
GroupsAreExact ==
  /\ TypeOK
  /\ \A g \in groups :
       /\ Cardinality(g) > 1
       /\ \A r, s \in g : RecordedContent(r) = RecordedContent(s)

\* If nothing interferes, exactly the files with one link that agree with
\* another are found: no stage filters out a duplicate, and hard links are
\* never taken for copies.
QuietScanIsComplete ==
  LET eligible == {r \in Records : Eligible(r)}
      same(r)  == {s \in eligible : RecordedContent(s) = RecordedContent(r)}
  IN stage = "done" /\ changes = 0 =>
       groups = {g \in {same(r) : r \in eligible} : Cardinality(g) > 1}

\* docs/ARCHITECTURE.md section 5: a verified duplicate group contains at least
\* two distinct file identities.
GroupsHaveDistinctFiles ==
  \A g \in groups : Cardinality({rec[r].inode : r \in g}) > 1
=============================================================================
