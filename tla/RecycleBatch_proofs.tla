-------------------------- MODULE RecycleBatch_proofs --------------------------
(***************************************************************************)
(* Proofs about RecycleBatch, for all scans, any number of batches, every  *)
(* selection and every outcome a request may have by its contract.         *)
(***************************************************************************)
EXTENDS RecycleBatch, FiniteSetTheorems, SequenceTheorems, TLAPS

-----------------------------------------------------------------------------
(* The elements of a finite set in order.                                  *)

\* before gives the elements of S that come before each, of a total order.
Orders(before, S) ==
  /\ before \in [S -> SUBSET S]
  /\ \A x \in S : x \notin before[x]
  /\ \A x, y \in S : x \in before[y] => before[x] \subseteq before[y]
  /\ \A x, y \in S : x # y => x \in before[y] \/ y \in before[x]

LEMMA InOrderIsOrder ==
  ASSUME NEW S, IsFiniteSet(S), NEW before, Orders(before, S)
  PROVE  /\ Cardinality(S) \in Nat
         /\ InOrder(S, before) \in [1..Cardinality(S) -> S]
         /\ \A m, n \in 1..Cardinality(S) :
              m < n => InOrder(S, before)[m] \in before[InOrder(S, before)[n]]
         /\ \A x \in S : \E n \in 1..Cardinality(S) : InOrder(S, before)[n] = x
<1> DEFINE N == Cardinality(S)
           rank == [x \in S |-> Cardinality(before[x]) + 1]
           order == InOrder(S, before)
<1>0. N \in Nat
  BY FS_CardinalityType
<1>1. ASSUME NEW x \in S
      PROVE  IsFiniteSet(before[x]) /\ Cardinality(before[x]) \in 0..(N - 1)
  <2>1. before[x] \in SUBSET S /\ before[x] # S
    BY DEF Orders
  <2>2. IsFiniteSet(before[x]) /\ Cardinality(before[x]) <= N /\ Cardinality(before[x]) # N
    BY <2>1, FS_Subset
  <2>3. Cardinality(before[x]) \in Nat
    BY <2>2, FS_CardinalityType
  <2> HIDE DEF N
  <2> QED BY <2>2, <2>3, <1>0
<1>2. ASSUME NEW x \in S, NEW y \in S, x \in before[y]
      PROVE  Cardinality(before[x]) < Cardinality(before[y])
  <2>1. before[x] \in SUBSET before[y] /\ before[x] # before[y]
    BY <1>2 DEF Orders
  <2>2. Cardinality(before[x]) <= Cardinality(before[y])
        /\ Cardinality(before[x]) # Cardinality(before[y])
    BY <2>1, <1>1, FS_Subset
  <2> QED BY <2>2, <1>1
<1>3. rank \in [S -> 1..N]
  <2> HIDE DEF N
  <2> QED BY <1>0, <1>1
<1>4. \A x, y \in S : rank[x] = rank[y] => x = y
  BY <1>1, <1>2 DEF Orders
<1>5. rank \in Injection(S, 1..N)
  <2> HIDE DEF rank, N
  <2> QED BY <1>3, <1>4 DEF Injection, IsInjective
<1>6. IsFiniteSet(1..N) /\ Cardinality(1..N) = Cardinality(S)
  <2>1. 1 \in Int /\ N \in Int
    BY <1>0
  <2>2. IsFiniteSet(1..N) /\ Cardinality(1..N) = IF 1 > N THEN 0 ELSE N - 1 + 1
    BY <2>1, FS_Interval
  <2> QED BY <2>2, <1>0
<1>7. rank \in Surjection(S, 1..N)
  <2> HIDE DEF rank
  <2> QED BY <1>5, <1>6, FS_Injection
<1>8. \A n \in 1..N : \E x \in S : rank[x] = n
  <2> HIDE DEF rank, N
  <2> QED BY <1>7 DEF Surjection
<1>9. ASSUME NEW n \in 1..N
      PROVE  order[n] \in S /\ rank[order[n]] = n
  <2>1. PICK x \in S : rank[x] = n
    BY <1>8
  <2>2. Cardinality(before[x]) = n - 1
    BY <2>1, <1>1
  <2>3. order[n] = CHOOSE y \in S : Cardinality(before[y]) = n - 1
    BY DEF InOrder
  <2>4. order[n] \in S /\ Cardinality(before[order[n]]) = n - 1
    <3> HIDE DEF order
    <3> QED BY <2>2, <2>3
  <2> HIDE DEF order
  <2> QED BY <2>4, <1>0
<1>10. order \in [1..N -> S]
  <2>1. order = [n \in 1..N |-> order[n]]
    BY DEF InOrder
  <2> HIDE DEF order, N, rank
  <2> QED BY <2>1, <1>9
<1>11. ASSUME NEW m \in 1..N, NEW n \in 1..N, m < n
       PROVE  order[m] \in before[order[n]]
  <2>1. order[m] # order[n]
    <3> HIDE DEF order, rank, N
    <3> QED BY <1>9, <1>11, <1>0
  <2>2. order[n] \notin before[order[m]]
    <3>1. SUFFICES ASSUME order[n] \in before[order[m]] PROVE FALSE
      OBVIOUS
    <3>2. Cardinality(before[order[n]]) < Cardinality(before[order[m]])
      BY <3>1, <1>2, <1>9
    <3>3. rank[order[n]] < rank[order[m]]
      BY <3>2, <1>1, <1>9
    <3> HIDE DEF order, rank, N
    <3> QED BY <3>3, <1>9, <1>11, <1>0
  <2> HIDE DEF order, rank, N
  <2> QED BY <2>1, <2>2, <1>9 DEF Orders
<1>12. ASSUME NEW x \in S PROVE \E n \in 1..N : order[n] = x
  <2>1. rank[x] \in 1..N
    BY <1>3
  <2>2. order[rank[x]] \in S /\ rank[order[rank[x]]] = rank[x]
    BY <2>1, <1>9
  <2> HIDE DEF order, rank, N
  <2> QED BY <2>1, <2>2, <1>4
<1> HIDE DEF order, rank
<1> QED BY <1>0, <1>10, <1>11, <1>12 DEF order

LEMMA AscendingIsOrder ==
  ASSUME NEW S \in SUBSET Nat, IsFiniteSet(S)
  PROVE  /\ Cardinality(S) \in Nat
         /\ Ascending(S) \in [1..Cardinality(S) -> S]
         /\ \A m, n \in 1..Cardinality(S) :
              m < n => Ascending(S)[m] < Ascending(S)[n]
         /\ \A x \in S : \E n \in 1..Cardinality(S) : Ascending(S)[n] = x
<1> DEFINE before == [x \in S |-> {y \in S : y < x}]
<1>1. Orders(before, S)
  <2>1. \A x \in S : before[x] = {y \in S : y < x}
    OBVIOUS
  <2>2. before \in [S -> SUBSET S]
    OBVIOUS
  <2> HIDE DEF before
  <2>3. \A x \in S : x \notin before[x]
    BY <2>1
  <2>4. ASSUME NEW x \in S, NEW y \in S, x \in before[y], NEW z \in before[x]
        PROVE  z \in before[y]
    <3>1. z \in S /\ z < x /\ x < y
      BY <2>1, <2>4
    <3>2. x \in Nat /\ y \in Nat /\ z \in Nat
      BY <3>1
    <3>3. z < y
      BY <3>1, <3>2
    <3> QED BY <2>1, <3>1, <3>3
  <2>5. \A x, y \in S : x # y => x \in before[y] \/ y \in before[x]
    BY <2>1
  <2> QED BY <2>2, <2>3, <2>4, <2>5 DEF Orders
<1>2. Ascending(S) = InOrder(S, before)
  BY DEF Ascending
<1>3. \A x \in S : \A y \in before[x] : y < x
  OBVIOUS
<1> HIDE DEF before
<1>4. /\ Cardinality(S) \in Nat
      /\ Ascending(S) \in [1..Cardinality(S) -> S]
      /\ \A m, n \in 1..Cardinality(S) :
           m < n => Ascending(S)[m] \in before[Ascending(S)[n]]
      /\ \A x \in S : \E n \in 1..Cardinality(S) : Ascending(S)[n] = x
  BY <1>1, <1>2, InOrderIsOrder
<1> QED BY <1>3, <1>4

LEMMA SomeSmallest ==
  ASSUME NEW S \in SUBSET Nat, IsFiniteSet(S), S # {}
  PROVE  Min(S) \in S /\ \A y \in S : Min(S) <= y
<1>1. Cardinality(S) \in Nat /\ Cardinality(S) # 0
  BY FS_CardinalityType, FS_EmptySet
<1> DEFINE first == Ascending(S)[1]
<1>2. first \in S
  BY <1>1, AscendingIsOrder
<1>3. ASSUME NEW y \in S PROVE first <= y
  <2>1. PICK n \in 1..Cardinality(S) : Ascending(S)[n] = y
    BY AscendingIsOrder
  <2>2. n = 1 \/ first < y
    BY <1>1, <2>1, AscendingIsOrder
  <2> HIDE DEF first
  <2>3. CASE n = 1
    BY <2>1, <2>3, <1>2 DEF first
  <2> QED BY <2>2, <2>3, <1>2
<1> HIDE DEF first
<1> QED BY <1>2, <1>3 DEF Min

-----------------------------------------------------------------------------
(* The invariant.                                                          *)

Shown == {"Scanned", "Duplicate", "Changed - kept", "Protected - kept",
          "Cancelled - kept", "Recycle failed - kept"}
Row == [number : Nat, group : Nat, key : Files \cup Keys, status : Shown,
        duplicate : BOOLEAN, selected : BOOLEAN, file : Files]
PlanGroup == [group : Nat, files : SUBSET Files, selected : SUBSET Files]
Outcome == UNION {[targets -> Statuses] : targets \in SUBSET Files}

TypeInv ==
  /\ rows \in Seq(Row)
  /\ stage \in {"surface", "ready", "confirm", "deleting"}
  /\ plan \in Seq(PlanGroup)
  /\ results \in Seq(Outcome)
  /\ worker \in {"none", "idle", "busy", "returned"}
  /\ intact \subseteq Files /\ inBin \subseteq Files
  /\ approved \subseteq Files /\ untold \subseteq Files
  /\ status \in [members -> Statuses \cup {NoResult}]

\* The files of a folder, none of them checked.
SurfaceTable(s) ==
  /\ \A i \in DOMAIN s : s[i].number = i /\ ~s[i].duplicate /\ ~s[i].selected
  /\ \A i, j \in DOMAIN s : s[i].file = s[j].file => i = j

\* The duplicates, group after group.
DuplicateTable(s) ==
  /\ \A i \in DOMAIN s :
       /\ s[i].number = i /\ s[i].duplicate
       /\ s[i].key = KeyOf[s[i].file]
       /\ Cardinality(RowsOf(s, s[i].key)) >= 2
       /\ s[i].group = IF i = 1 THEN 1
                       ELSE IF s[i].key = s[i - 1].key THEN s[i - 1].group
                       ELSE s[i - 1].group + 1
  /\ \A i, j \in DOMAIN s :
       /\ s[i].file = s[j].file => i = j
       /\ s[i].key = s[j].key <=> s[i].group = s[j].group
       /\ i <= j => s[i].group <= s[j].group

TableInv == IF stage = "surface" THEN SurfaceTable(rows) ELSE DuplicateTable(rows)

\* Each group of the plan is one of the table, whole, and not all of it is to go.
PlanOf(p, s) ==
  /\ \A n \in DOMAIN p :
       /\ p[n].selected \subseteq p[n].files
       /\ p[n].selected # p[n].files
       /\ p[n].files \subseteq FilesIn(s)
       /\ \A f \in p[n].files, g \in FilesIn(s) :
            KeyOf[g] = KeyOf[f] <=> g \in p[n].files
  /\ \A m, n \in DOMAIN p : m # n => p[m].files \cap p[n].files = {}

PlanInv ==
  /\ stage \in {"surface", "ready"} => plan = <<>>
  /\ PlanOf(plan, rows)

\* The request at work is the next of the plan, and the results are of those
\* before it; the user has agreed to them all.
RequestInv ==
  /\ worker # "none" <=> stage = "deleting"
  /\ worker = "none" => results = <<>>
  /\ worker # "busy" => members = {} /\ selected = {}
  /\ worker = "busy" =>
       /\ Len(results) < Len(plan)
       /\ members = plan[Len(results) + 1].files
       /\ selected = plan[Len(results) + 1].selected
  /\ Len(results) <= Len(plan)
  /\ \A n \in DOMAIN results : DOMAIN results[n] = plan[n].selected
  /\ stage = "deleting" => Targets(plan) \subseteq approved

\* What is in the Recycle Bin is not in place, and the table, the results or the
\* request at work know of it.
TruthInv ==
  /\ intact \cap inBin = {}
  /\ binned \subseteq selected \cap inBin
  /\ stage = "surface" => inBin = {}
  /\ \A f \in FilesIn(rows) \cap inBin :
       \/ f \in untold \cup Deleted
       \/ f \in binned /\ status[f] \in {NoResult, "recycled"}

BatchInv == TypeInv /\ TableInv /\ PlanInv /\ RequestInv /\ TruthInv

-----------------------------------------------------------------------------
(* Finite sets and sequences.                                              *)

LEMMA FunctionIsSeq ==
  ASSUME NEW N \in Nat, NEW S, NEW f \in [1..N -> S]
  PROVE  f \in Seq(S) /\ Len(f) = N /\ DOMAIN f = 1..N
<1>1. f = [i \in 1..N |-> f[i]] /\ \A i \in 1..N : f[i] \in S
  OBVIOUS
<1>2. [i \in 1..N |-> f[i]] \in Seq(S)
  BY <1>1, IsASeq
<1>3. f \in Seq(S)
  BY <1>1, <1>2
<1>4. DOMAIN f = 1..N /\ DOMAIN f = 1..Len(f) /\ Len(f) \in Nat
  BY <1>3, LenProperties
<1> QED BY <1>3, <1>4

LEMMA SubsetOfRange ==
  ASSUME NEW N \in Nat, NEW S \in SUBSET (1..N)
  PROVE  IsFiniteSet(S) /\ S \in SUBSET Nat
<1>1. IsFiniteSet(1..N)
  BY FS_Interval
<1>2. IsFiniteSet(S)
  BY <1>1, FS_Subset
<1>3. S \in SUBSET Nat
  OBVIOUS
<1> QED BY <1>2, <1>3

LEMMA FiniteImage ==
  ASSUME NEW X, IsFiniteSet(X), NEW f, X \subseteq DOMAIN f
  PROVE  IsFiniteSet({f[x] : x \in X}) /\ Cardinality({f[x] : x \in X}) \in Nat
<1> DEFINE Y == {f[x] : x \in X}
           g == [x \in X |-> f[x]]
<1>1. g \in [X -> Y]
  OBVIOUS
<1>2. \A y \in Y : \E x \in X : g[x] = y
  OBVIOUS
<1>3. g \in Surjection(X, Y)
  <2> HIDE DEF g, Y
  <2> QED BY <1>1, <1>2 DEF Surjection
<1> HIDE DEF g, Y
<1>4. IsFiniteSet(Y) /\ Cardinality(Y) \in Nat
  BY <1>3, FS_Surjection, FS_CardinalityType
<1> QED BY <1>4 DEF Y

LEMMA AtLeastTwo ==
  ASSUME NEW S, IsFiniteSet(S)
  PROVE  Cardinality(S) >= 2 <=> \E x, y \in S : x # y
<1>1. Cardinality(S) \in Nat
  BY FS_CardinalityType
<1>2. ASSUME NEW x \in S, NEW y \in S, x # y
      PROVE  Cardinality(S) >= 2
  <2>1. Cardinality(S) # 0
    BY FS_EmptySet
  <2>2. Cardinality(S) # 1
    <3>1. \A z : S # {z}
      BY <1>2
    <3> QED BY <3>1, FS_Singleton
  <2> QED BY <1>1, <2>1, <2>2
<1>3. ASSUME Cardinality(S) >= 2, \A x, y \in S : x = y
      PROVE  FALSE
  <2>1. Cardinality(S) # 0 /\ Cardinality(S) # 1
    BY <1>1, <1>3
  <2>2. S # {}
    BY <2>1, FS_EmptySet
  <2>3. PICK x : x \in S
    BY <2>2
  <2>4. S = {x}
    BY <2>3, <1>3
  <2> QED BY <2>1, <2>4, FS_Singleton
<1> QED BY <1>2, <1>3

LEMMA RowsOfFinite ==
  ASSUME NEW s \in Seq(Row), NEW key
  PROVE  /\ RowsOf(s, key) \in SUBSET (DOMAIN s)
         /\ IsFiniteSet(RowsOf(s, key))
<1>1. DOMAIN s = 1..Len(s) /\ Len(s) \in Nat
  BY LenProperties
<1>2. RowsOf(s, key) \in SUBSET (1..Len(s))
  BY <1>1 DEF RowsOf
<1> QED BY <1>1, <1>2, SubsetOfRange

\* The first row of a key is one of its rows.
LEMMA FirstRowOf ==
  ASSUME NEW s \in Seq(Row), NEW i \in DOMAIN s
  PROVE  /\ FirstRow(s, s[i].key) \in DOMAIN s
         /\ s[FirstRow(s, s[i].key)].key = s[i].key
<1> DEFINE all == RowsOf(s, s[i].key)
<1>1. DOMAIN s = 1..Len(s) /\ Len(s) \in Nat
  BY LenProperties
<1>2. all \in SUBSET (1..Len(s)) /\ i \in all
  BY <1>1 DEF RowsOf
<1>3. Min(all) \in all
  <2> HIDE DEF all
  <2> QED BY <1>1, <1>2, SubsetOfRange, SomeSmallest
<1> QED BY <1>3 DEF FirstRow, RowsOf

-----------------------------------------------------------------------------
(* Taking rows out of a table.                                             *)

\* The number of the group that row i is of, when S stays.
GroupAt(s, S, i) ==
  Cardinality({s[j].key : j \in S \cap (1..Min(RowsOf(s, s[i].key) \cap S))})

LEMMA RowIsRow ==
  ASSUME NEW s \in Seq(Row), NEW i \in DOMAIN s
  PROVE  /\ i \in Nat /\ s[i] \in Row
         /\ s[i].number \in Nat /\ s[i].group \in Nat /\ s[i].file \in Files
<1>1. i \in Nat /\ s[i] \in Row
  BY LenProperties
<1> QED BY <1>1 DEF Row

\* t is the rows of s with the indices in S, in order, and numbered.
NumberedFrom(t, s, S) ==
  /\ IsFiniteSet(S) /\ Cardinality(S) \in Nat
  /\ Ascending(S) \in [1..Cardinality(S) -> S]
  /\ \A m, n \in 1..Cardinality(S) : m < n => Ascending(S)[m] < Ascending(S)[n]
  /\ \A i \in S : \E n \in 1..Cardinality(S) : Ascending(S)[n] = i
  /\ t \in Seq(Row)
  /\ DOMAIN t = 1..Cardinality(S)
  /\ \A n \in 1..Cardinality(S) :
       /\ t[n].number = n
       /\ t[n].selected = FALSE
       /\ t[n].group = GroupAt(s, S, Ascending(S)[n])
       /\ t[n].key = s[Ascending(S)[n]].key
       /\ t[n].status = s[Ascending(S)[n]].status
       /\ t[n].duplicate = s[Ascending(S)[n]].duplicate
       /\ t[n].file = s[Ascending(S)[n]].file

LEMMA RenumberedRows ==
  ASSUME NEW s \in Seq(Row), NEW S \in SUBSET (DOMAIN s)
  PROVE  NumberedFrom(Renumbered(s, S), s, S)
<1> DEFINE N == Cardinality(S)
           order == Ascending(S)
           t == Renumbered(s, S)
<1>1. DOMAIN s = 1..Len(s) /\ Len(s) \in Nat
  BY LenProperties
<1>2. IsFiniteSet(S) /\ S \in SUBSET Nat
  BY <1>1, SubsetOfRange
<1>3. /\ N \in Nat /\ order \in [1..N -> S]
      /\ \A m, n \in 1..N : m < n => order[m] < order[n]
      /\ \A i \in S : \E n \in 1..N : order[n] = i
  BY <1>2, AscendingIsOrder
<1>4. DOMAIN order = 1..N
  BY <1>3
<1>5. t = [n \in 1..N |-> [s[order[n]] EXCEPT !.number = n, !.selected = FALSE,
                             !.group = GroupAt(s, S, order[n])]]
  <2> HIDE DEF N
  <2> QED BY <1>4 DEF Renumbered, GroupAt
<1>6. ASSUME NEW i \in S
      PROVE  GroupAt(s, S, i) \in Nat
  <2> DEFINE part == S \cap (1..Min(RowsOf(s, s[i].key) \cap S))
             keyAt == [j \in DOMAIN s |-> s[j].key]
  <2>1. IsFiniteSet(part) /\ part \subseteq DOMAIN keyAt
    BY <1>2, FS_Subset
  <2>2. Cardinality({keyAt[j] : j \in part}) \in Nat
    <3> HIDE DEF part, keyAt
    <3> QED BY <2>1, FiniteImage
  <2>3. {keyAt[j] : j \in part} = {s[j].key : j \in part}
    OBVIOUS
  <2> QED BY <2>2, <2>3 DEF GroupAt
<1>7. ASSUME NEW n \in 1..N
      PROVE  /\ t[n] \in Row
             /\ t[n].number = n /\ t[n].selected = FALSE
             /\ t[n].group = GroupAt(s, S, order[n])
             /\ t[n].key = s[order[n]].key /\ t[n].status = s[order[n]].status
             /\ t[n].duplicate = s[order[n]].duplicate /\ t[n].file = s[order[n]].file
  <2>1. order[n] \in S
    BY <1>3
  <2>2. PICK r \in Row : r = s[order[n]]
    BY <2>1, RowIsRow
  <2>3. PICK g \in Nat : g = GroupAt(s, S, order[n])
    BY <2>1, <1>6
  <2>4. t[n] = [r EXCEPT !.number = n, !.selected = FALSE, !.group = g]
    <3> HIDE DEF order, N, t
    <3> QED BY <2>2, <2>3, <1>5
  <2>5. n \in Nat
    BY <1>3
  <2> HIDE DEF order, N, t
  <2>6. [r EXCEPT !.number = n, !.selected = FALSE, !.group = g] \in Row
    BY <2>5 DEF Row
  <2>7. t[n] \in Row
    BY <2>4, <2>6
  <2>8. /\ t[n].number = n /\ t[n].selected = FALSE /\ t[n].group = g
        /\ t[n].key = r.key /\ t[n].status = r.status
        /\ t[n].duplicate = r.duplicate /\ t[n].file = r.file
    BY <2>4, <2>5 DEF Row
  <2> QED BY <2>2, <2>3, <2>7, <2>8
<1>8. t \in [1..N -> Row]
  <2>1. t = [n \in 1..N |-> t[n]]
    <3> HIDE DEF N
    <3> QED BY <1>5
  <2> HIDE DEF t, N
  <2> QED BY <1>7, <2>1
<1>9. t \in Seq(Row) /\ DOMAIN t = 1..N
  BY <1>3, <1>8, FunctionIsSeq
<1> HIDE DEF order, t, N
<1>10. /\ IsFiniteSet(S) /\ N \in Nat
       /\ order \in [1..N -> S]
       /\ \A m, n \in 1..N : m < n => order[m] < order[n]
       /\ \A i \in S : \E n \in 1..N : order[n] = i
       /\ t \in Seq(Row) /\ DOMAIN t = 1..N
       /\ \A n \in 1..N :
            /\ t[n].number = n /\ t[n].selected = FALSE
            /\ t[n].group = GroupAt(s, S, order[n])
            /\ t[n].key = s[order[n]].key /\ t[n].status = s[order[n]].status
            /\ t[n].duplicate = s[order[n]].duplicate /\ t[n].file = s[order[n]].file
  BY <1>2, <1>3, <1>7, <1>9
<1> QED BY <1>10 DEF order, t, N, NumberedFrom

LEMMA FileOnce ==
  ASSUME NEW s \in Seq(Row), DuplicateTable(s),
         NEW i \in DOMAIN s, NEW j \in DOMAIN s, s[i].file = s[j].file
  PROVE  i = j
BY DEF DuplicateTable

\* The rows of a key are together.
LEMMA KeysTogether ==
  ASSUME NEW s \in Seq(Row), DuplicateTable(s),
         NEW i \in DOMAIN s, NEW j \in DOMAIN s, NEW k \in DOMAIN s,
         i <= j, j <= k, s[i].key = s[k].key
  PROVE  s[j].key = s[i].key
<1>1. s[i].group <= s[j].group /\ s[j].group <= s[k].group /\ s[i].group = s[k].group
  BY DEF DuplicateTable
<1>2. s[i].group \in Nat /\ s[j].group \in Nat
  BY RowIsRow
<1>3. s[i].group = s[j].group
  BY <1>1, <1>2
<1> QED BY <1>3 DEF DuplicateTable

LEMMA GroupNumbers ==
  ASSUME NEW s \in Seq(Row), DuplicateTable(s), NEW S \in SUBSET (DOMAIN s),
         NEW i \in S, NEW j \in S
  PROVE  /\ GroupAt(s, S, i) \in Nat
         /\ s[i].key = s[j].key => GroupAt(s, S, i) = GroupAt(s, S, j)
         /\ i < j /\ s[i].key # s[j].key => GroupAt(s, S, i) < GroupAt(s, S, j)
         /\ i < j /\ s[i].key # s[j].key /\ (\A k \in S : k <= i \/ j <= k) =>
              GroupAt(s, S, j) = GroupAt(s, S, i) + 1
         /\ (\A k \in S : i <= k) => GroupAt(s, S, i) = 1
<1> DEFINE first(x) == Min(RowsOf(s, s[x].key) \cap S)
           keys(x) == {s[k].key : k \in S \cap (1..first(x))}
<1>1. DOMAIN s = 1..Len(s) /\ Len(s) \in Nat
  BY LenProperties
<1>2. IsFiniteSet(S) /\ S \in SUBSET Nat
  BY <1>1, SubsetOfRange
<1>3. ASSUME NEW x \in S
      PROVE  /\ first(x) \in S /\ s[first(x)].key = s[x].key
             /\ first(x) <= x
  <2> DEFINE same == RowsOf(s, s[x].key) \cap S
  <2>1. same \in SUBSET Nat /\ IsFiniteSet(same) /\ x \in same
    BY <1>1, <1>2, FS_Subset DEF RowsOf
  <2>2. Min(same) \in same /\ Min(same) <= x
    <3> HIDE DEF same
    <3> QED BY <2>1, SomeSmallest
  <2> QED BY <2>2 DEF RowsOf
<1>4. ASSUME NEW x \in S
      PROVE  /\ IsFiniteSet(keys(x)) /\ Cardinality(keys(x)) \in Nat
             /\ GroupAt(s, S, x) = Cardinality(keys(x))
             /\ s[x].key \in keys(x)
  <2> DEFINE part == S \cap (1..first(x))
             keyAt == [k \in DOMAIN s |-> s[k].key]
  <2>1. IsFiniteSet(part) /\ part \subseteq DOMAIN keyAt
    BY <1>2, FS_Subset
  <2>2. IsFiniteSet({keyAt[k] : k \in part}) /\ Cardinality({keyAt[k] : k \in part}) \in Nat
    <3> HIDE DEF part, keyAt
    <3> QED BY <2>1, FiniteImage
  <2>3. {keyAt[k] : k \in part} = keys(x)
    OBVIOUS
  <2>4. first(x) \in part
    <3>1. first(x) \in S /\ first(x) \in 1..Len(s)
      BY <1>3, <1>1
    <3> HIDE DEF first
    <3> QED BY <3>1
  <2>5. s[x].key \in keys(x)
    BY <2>4, <1>3
  <2> QED BY <2>2, <2>3, <2>5 DEF GroupAt
<1>5. GroupAt(s, S, i) \in Nat
  BY <1>4
<1>6. ASSUME s[i].key = s[j].key
      PROVE  GroupAt(s, S, i) = GroupAt(s, S, j)
  BY <1>6 DEF GroupAt
<1>7. ASSUME i < j, s[i].key # s[j].key
      PROVE  /\ i < first(j) /\ keys(i) \subseteq keys(j)
             /\ s[j].key \in keys(j) /\ s[j].key \notin keys(i)
  <2>1. /\ first(i) \in S /\ first(j) \in S /\ i \in Nat /\ j \in Nat
        /\ first(i) \in Nat /\ first(j) \in Nat
        /\ first(i) <= i /\ first(j) <= j
        /\ s[first(j)].key = s[j].key
    BY <1>2, <1>3
  <2>2. i < first(j)
    <3>1. SUFFICES ASSUME first(j) <= i PROVE FALSE
      <4> HIDE DEF first
      <4> QED BY <2>1
    <3>2. first(j) \in DOMAIN s /\ i \in DOMAIN s /\ j \in DOMAIN s /\ i <= j
      BY <2>1, <1>7
    <3>3. s[i].key = s[first(j)].key
      <4> HIDE DEF first
      <4> QED BY <3>1, <3>2, <2>1, KeysTogether
    <3> QED BY <3>3, <2>1, <1>7
  <2>3. keys(i) \subseteq keys(j)
    <3>1. S \cap (1..first(i)) \subseteq S \cap (1..first(j))
      <4> HIDE DEF first
      <4> QED BY <2>1, <2>2
    <3> HIDE DEF first
    <3> QED BY <3>1
  <2>4. s[j].key \notin keys(i)
    <3>1. SUFFICES ASSUME NEW k \in S \cap (1..first(i)), s[k].key = s[j].key
                   PROVE  FALSE
      OBVIOUS
    <3>2. k \in S /\ k \in Nat /\ k <= i
      <4> HIDE DEF first
      <4> QED BY <2>1, <3>1
    <3>3. k \in DOMAIN s /\ i \in DOMAIN s /\ j \in DOMAIN s /\ i <= j
      BY <3>2, <2>1, <1>7
    <3>4. s[i].key = s[k].key
      BY <3>1, <3>2, <3>3, KeysTogether
    <3> QED BY <3>1, <3>4, <1>7
  <2> QED BY <2>2, <2>3, <2>4, <1>4
<1>8. ASSUME i < j, s[i].key # s[j].key
      PROVE  GroupAt(s, S, i) < GroupAt(s, S, j)
  <2>1. keys(i) \in SUBSET keys(j) /\ keys(i) # keys(j)
    BY <1>7, <1>8
  <2>2. /\ IsFiniteSet(keys(j)) /\ Cardinality(keys(j)) \in Nat /\ Cardinality(keys(i)) \in Nat
        /\ GroupAt(s, S, i) = Cardinality(keys(i))
        /\ GroupAt(s, S, j) = Cardinality(keys(j))
    BY <1>4
  <2> HIDE DEF keys
  <2>3. Cardinality(keys(i)) <= Cardinality(keys(j))
        /\ Cardinality(keys(j)) # Cardinality(keys(i))
    BY <2>1, <2>2, FS_Subset
  <2> QED BY <2>2, <2>3
<1>9. ASSUME i < j, s[i].key # s[j].key, \A k \in S : k <= i \/ j <= k
      PROVE  GroupAt(s, S, j) = GroupAt(s, S, i) + 1
  <2>1. /\ first(i) \in S /\ first(j) \in S /\ i \in Nat /\ j \in Nat
        /\ first(i) \in Nat /\ first(j) \in Nat
        /\ first(i) <= i /\ first(j) <= j /\ i < first(j)
        /\ s[first(i)].key = s[i].key
    BY <1>2, <1>3, <1>7, <1>9
  <2>2. ASSUME NEW k \in S \cap (1..first(j))
        PROVE  s[k].key \in keys(i) \cup {s[j].key}
    <3>1. k \in S /\ k \in Nat /\ k <= j
      <4> HIDE DEF first
      <4> QED BY <2>1, <2>2
    <3>2. k = j \/ k <= i
      BY <3>1, <1>9, <2>1
    <3>3. CASE k = j
      BY <3>3
    <3>4. CASE k <= first(i)
      <4>1. k \in S \cap (1..first(i))
        <5> HIDE DEF first
        <5> QED BY <3>1, <3>4, <2>2, <2>1
      <4> QED BY <4>1
    <3>5. CASE k <= i /\ first(i) <= k
      <4>1. first(i) \in DOMAIN s /\ k \in DOMAIN s /\ i \in DOMAIN s
        BY <2>1, <3>1
      <4>2. s[k].key = s[first(i)].key
        <5> HIDE DEF first
        <5> QED BY <4>1, <3>5, <2>1, KeysTogether
      <4>3. s[i].key \in keys(i)
        BY <1>4
      <4> QED BY <4>2, <4>3, <2>1
    <3>6. k <= first(i) \/ first(i) <= k
      <4> HIDE DEF first
      <4> QED BY <2>1, <3>1
    <3> QED BY <3>2, <3>3, <3>4, <3>5, <3>6
  <2>3. keys(j) = keys(i) \cup {s[j].key}
    BY <2>2, <1>7, <1>9
  <2>4. /\ IsFiniteSet(keys(i)) /\ Cardinality(keys(i)) \in Nat
        /\ GroupAt(s, S, i) = Cardinality(keys(i))
        /\ GroupAt(s, S, j) = Cardinality(keys(j))
        /\ s[j].key \notin keys(i)
    BY <1>4, <1>7, <1>9
  <2> HIDE DEF keys
  <2>5. Cardinality(keys(i) \cup {s[j].key}) = Cardinality(keys(i)) + 1
    BY <2>4, FS_AddElement
  <2> QED BY <2>3, <2>4, <2>5
<1>10. ASSUME \A k \in S : i <= k
       PROVE  GroupAt(s, S, i) = 1
  <2>1. first(i) \in S /\ first(i) <= i /\ i \in Nat /\ first(i) \in Nat
    BY <1>2, <1>3
  <2>2. first(i) = i
    <3> HIDE DEF first
    <3> QED BY <2>1, <1>10
  <2>3. S \cap (1..first(i)) = {i}
    <3>1. \A k \in S : k \in Nat /\ i <= k
      BY <1>2, <1>10
    <3>2. i \in 1..Len(s)
      BY <1>1
    <3> HIDE DEF first
    <3> QED BY <2>1, <2>2, <3>1, <3>2, <1>1
  <2>4. keys(i) = {s[i].key}
    <3> HIDE DEF first
    <3> QED BY <2>3
  <2>5. GroupAt(s, S, i) = Cardinality(keys(i))
    BY <1>4
  <2> HIDE DEF keys
  <2> QED BY <2>4, <2>5, FS_Singleton
<1> HIDE DEF first, keys
<1> QED BY <1>5, <1>6, <1>8, <1>9, <1>10

\* What stays when the files in deleted go.
Staying(s, deleted) == Pruned(s, {i \in DOMAIN s : s[i].file \notin deleted})

LEMMA StayingRows ==
  ASSUME NEW s \in Seq(Row), NEW deleted
  PROVE  /\ Staying(s, deleted) \in SUBSET (DOMAIN s)
         /\ RemoveDeleted(s, deleted) = Renumbered(s, Staying(s, deleted))
         /\ \A i \in Staying(s, deleted) : s[i].file \notin deleted
         /\ \A i \in DOMAIN s : s[i].file \notin deleted =>
              (i \in Staying(s, deleted) <=>
                 \E j \in DOMAIN s : j # i /\ s[j].key = s[i].key /\ s[j].file \notin deleted)
<1> DEFINE left == {i \in DOMAIN s : s[i].file \notin deleted}
<1>1. ASSUME NEW i \in left
      PROVE  i \in Pruned(s, left) <=>
               \E j \in DOMAIN s : j # i /\ s[j].key = s[i].key /\ s[j].file \notin deleted
  <2> DEFINE same == RowsOf(s, s[i].key) \cap left
  <2>1. IsFiniteSet(same)
    BY RowsOfFinite, FS_Subset
  <2>2. Cardinality(same) >= 2 <=> \E x, y \in same : x # y
    <3> HIDE DEF same
    <3> QED BY <2>1, AtLeastTwo
  <2>3. i \in same
    BY DEF RowsOf
  <2>4. (\E x, y \in same : x # y) <=> \E j \in same : j # i
    <3> HIDE DEF same
    <3> QED BY <2>3
  <2>5. \A j : j \in same <=> j \in DOMAIN s /\ s[j].key = s[i].key /\ s[j].file \notin deleted
    BY DEF RowsOf
  <2>6. i \in Pruned(s, left) <=> Cardinality(same) >= 2
    <3> HIDE DEF left
    <3> QED BY DEF Pruned
  <2> HIDE DEF same, left
  <2> QED BY <2>2, <2>4, <2>5, <2>6
<1>2. Pruned(s, left) \subseteq left
  <2> HIDE DEF left
  <2> QED BY DEF Pruned
<1>3. Staying(s, deleted) = Pruned(s, left)
      /\ RemoveDeleted(s, deleted) = Renumbered(s, Pruned(s, left))
  BY DEF Staying, RemoveDeleted
<1>4. \A i : i \in left <=> i \in DOMAIN s /\ s[i].file \notin deleted
  OBVIOUS
<1> HIDE DEF left
<1> QED BY <1>1, <1>2, <1>3, <1>4

\* Which files are left, and with which status.
LEMMA RemovedRows ==
  ASSUME NEW s \in Seq(Row), NEW deleted
  PROVE  /\ RemoveDeleted(s, deleted) \in Seq(Row)
         /\ \A f \in FilesIn(RemoveDeleted(s, deleted)) :
              f \notin deleted /\ f \in FilesIn(s)
         /\ \A i \in Staying(s, deleted) : \E n \in DOMAIN RemoveDeleted(s, deleted) :
              /\ RemoveDeleted(s, deleted)[n].file = s[i].file
              /\ RemoveDeleted(s, deleted)[n].status = s[i].status
<1> DEFINE S == Staying(s, deleted)
           t == Renumbered(s, S)
<1>1. S \in SUBSET (DOMAIN s) /\ RemoveDeleted(s, deleted) = t
      /\ \A i \in S : s[i].file \notin deleted
  BY StayingRows
<1> HIDE DEF S
<1>2. /\ Ascending(S) \in [1..Cardinality(S) -> S]
      /\ \A i \in S : \E n \in 1..Cardinality(S) : Ascending(S)[n] = i
      /\ t \in Seq(Row) /\ DOMAIN t = 1..Cardinality(S)
      /\ \A n \in 1..Cardinality(S) : /\ t[n].file = s[Ascending(S)[n]].file
                                      /\ t[n].status = s[Ascending(S)[n]].status
  <2>1. S \in SUBSET (DOMAIN s)
    BY <1>1
  <2>2. NumberedFrom(t, s, S)
    BY <2>1, RenumberedRows
  <2> HIDE DEF t
  <2> QED BY <2>2 DEF NumberedFrom
<1> HIDE DEF t
<1>3. \A f \in FilesIn(t) : f \notin deleted /\ f \in FilesIn(s)
  BY <1>1, <1>2 DEF FilesIn
<1>4. \A i \in S : \E n \in DOMAIN t : t[n].file = s[i].file /\ t[n].status = s[i].status
  BY <1>2
<1> QED BY <1>1, <1>2, <1>3, <1>4 DEF S

\* A table of duplicates stays one.
LEMMA RemovedTable ==
  ASSUME NEW s \in Seq(Row), DuplicateTable(s), NEW deleted
  PROVE  DuplicateTable(RemoveDeleted(s, deleted))
<1> DEFINE S == Staying(s, deleted)
           t == Renumbered(s, S)
           N == Cardinality(S)
           order == Ascending(S)
<1>1. /\ S \in SUBSET (DOMAIN s) /\ RemoveDeleted(s, deleted) = t
      /\ \A i \in S : s[i].file \notin deleted
      /\ \A i \in DOMAIN s : s[i].file \notin deleted =>
           (i \in S <=> \E j \in DOMAIN s : /\ j # i /\ s[j].key = s[i].key
                                            /\ s[j].file \notin deleted)
  BY StayingRows
<1> HIDE DEF S
<1>2. /\ N \in Nat /\ order \in [1..N -> S]
      /\ \A m, n \in 1..N : m < n => order[m] < order[n]
      /\ \A i \in S : \E n \in 1..N : order[n] = i
      /\ t \in Seq(Row) /\ DOMAIN t = 1..N
      /\ \A n \in 1..N :
           /\ t[n].number = n
           /\ t[n].group = GroupAt(s, S, order[n])
           /\ t[n].key = s[order[n]].key
           /\ t[n].duplicate = s[order[n]].duplicate
           /\ t[n].file = s[order[n]].file
  <2>1. S \in SUBSET (DOMAIN s)
    BY <1>1
  <2>2. NumberedFrom(t, s, S)
    BY <2>1, RenumberedRows
  <2> HIDE DEF t
  <2> QED BY <2>2 DEF NumberedFrom
<1>3. \A i \in S : i \in Nat
  BY <1>1, RowIsRow
<1> HIDE DEF t, N, order
<1>4. ASSUME NEW n \in 1..N
      PROVE  /\ order[n] \in S /\ order[n] \in DOMAIN s /\ order[n] \in Nat /\ n \in Nat
             /\ \A m \in 1..N : order[m] = order[n] => m = n
             /\ \A m \in 1..N : order[m] < order[n] => m < n
  <2>1. order[n] \in S /\ n \in Nat
    BY <1>2
  <2>2. ASSUME NEW m \in 1..N PROVE m < n \/ m = n \/ n < m
    BY <1>2
  <2>3. ASSUME NEW m \in 1..N, order[m] = order[n] PROVE m = n
    <3>1. order[m] \in Nat /\ order[n] \in Nat
      BY <1>2, <1>3
    <3>2. ~(order[m] < order[n]) /\ ~(order[n] < order[m])
      BY <2>3, <3>1
    <3> QED BY <2>2, <3>2, <1>2
  <2>4. ASSUME NEW m \in 1..N, order[m] < order[n] PROVE m < n
    <3>1. order[m] \in Nat /\ order[n] \in Nat
      BY <1>2, <1>3
    <3>2. ~(order[n] < order[m]) /\ order[m] # order[n]
      BY <2>4, <3>1
    <3> QED BY <2>2, <3>2, <1>2
  <2> QED BY <2>1, <2>3, <2>4, <1>1, <1>3
<1>5. ASSUME NEW n \in 1..N
      PROVE  t[n].number = n /\ t[n].duplicate /\ t[n].key = KeyOf[t[n].file]
  <2>1. s[order[n]].duplicate /\ s[order[n]].key = KeyOf[s[order[n]].file]
    BY <1>4 DEF DuplicateTable
  <2> QED BY <2>1, <1>2
<1>6. ASSUME NEW n \in 1..N
      PROVE  Cardinality(RowsOf(t, t[n].key)) >= 2
  <2> DEFINE i == order[n]
  <2>1. i \in S /\ i \in DOMAIN s /\ s[i].file \notin deleted
    BY <1>1, <1>4
  <2>2. PICK j \in DOMAIN s : j # i /\ s[j].key = s[i].key /\ s[j].file \notin deleted
    BY <2>1, <1>1
  <2>3. j \in S
    BY <2>1, <2>2, <1>1
  <2>4. PICK m \in 1..N : order[m] = j
    BY <2>3, <1>2
  <2>5. m \in RowsOf(t, t[n].key) /\ n \in RowsOf(t, t[n].key) /\ m # n
    BY <2>2, <2>4, <1>2 DEF RowsOf
  <2>6. IsFiniteSet(RowsOf(t, t[n].key))
    BY <1>2, RowsOfFinite
  <2> QED BY <2>5, <2>6, AtLeastTwo
<1>7. ASSUME NEW m \in 1..N, NEW n \in 1..N
      PROVE  /\ t[m].file = t[n].file => m = n
             /\ t[m].key = t[n].key => t[m].group = t[n].group
             /\ m < n /\ t[m].key # t[n].key => t[m].group < t[n].group
             /\ t[m].group \in Nat
  <2>1. order[m] \in S /\ order[n] \in S
    BY <1>4
  <2>2. /\ GroupAt(s, S, order[m]) \in Nat
        /\ s[order[m]].key = s[order[n]].key =>
             GroupAt(s, S, order[m]) = GroupAt(s, S, order[n])
        /\ order[m] < order[n] /\ s[order[m]].key # s[order[n]].key =>
             GroupAt(s, S, order[m]) < GroupAt(s, S, order[n])
    BY <1>1, <2>1, GroupNumbers
  <2>3. t[m].file = t[n].file => order[m] = order[n]
    <3>1. t[m].file = s[order[m]].file /\ t[n].file = s[order[n]].file
      BY <1>2
    <3>2. order[m] \in DOMAIN s /\ order[n] \in DOMAIN s
      BY <1>4
    <3> QED BY <3>1, <3>2, FileOnce
  <2>4. t[m].file = t[n].file => m = n
    BY <2>3, <1>4
  <2> QED BY <2>2, <2>4, <1>2
<1>8. ASSUME NEW m \in 1..N, NEW n \in 1..N
      PROVE  /\ t[m].key = t[n].key <=> t[m].group = t[n].group
             /\ m <= n => t[m].group <= t[n].group
  <2>1. m < n \/ m = n \/ n < m
    BY <1>2
  <2>2. t[m].group \in Nat /\ t[n].group \in Nat
    BY <1>7
  <2>3. CASE t[m].key = t[n].key
    BY <2>2, <2>3, <1>7
  <2>4. CASE t[m].key # t[n].key
    <3>1. m # n
      BY <2>4
    <3>2. CASE m < n
      BY <3>2, <2>2, <2>4, <1>7
    <3>3. CASE n < m
      <4>1. t[n].group < t[m].group /\ ~(m <= n)
        BY <3>3, <2>4, <1>7, <1>2
      <4> QED BY <4>1, <2>2, <2>4
    <3> QED BY <2>1, <3>1, <3>2, <3>3
  <2> QED BY <2>3, <2>4
<1>9. ASSUME NEW n \in 1..N
      PROVE  t[n].group = IF n = 1 THEN 1
                          ELSE IF t[n].key = t[n - 1].key THEN t[n - 1].group
                          ELSE t[n - 1].group + 1
  <2>1. CASE n = 1
    <3>1. ASSUME NEW k \in S PROVE order[1] <= k
      <4>1. PICK m \in 1..N : order[m] = k
        BY <1>2
      <4>2. m = 1 \/ 1 < m
        BY <1>2
      <4>3. order[1] \in Nat /\ order[m] \in Nat
        BY <2>1, <1>4
      <4>4. order[1] = order[m] \/ order[1] < order[m]
        BY <4>2, <1>2, <2>1
      <4> QED BY <4>1, <4>3, <4>4
    <3>2. order[1] \in S
      BY <2>1, <1>4
    <3>3. GroupAt(s, S, order[1]) = 1
      BY <3>1, <3>2, <1>1, GroupNumbers
    <3> QED BY <2>1, <3>3, <1>2
  <2>2. CASE n # 1
    <3>1. n - 1 \in 1..N /\ n - 1 < n
      BY <2>2, <1>2
    <3>2. CASE t[n].key = t[n - 1].key
      BY <2>2, <3>1, <3>2, <1>7
    <3>3. CASE t[n].key # t[n - 1].key
      <4>1. order[n - 1] \in S /\ order[n] \in S /\ order[n - 1] < order[n]
        BY <3>1, <1>2, <1>4
      <4>2. ASSUME NEW k \in S PROVE k <= order[n - 1] \/ order[n] <= k
        <5>1. PICK m \in 1..N : order[m] = k
          BY <1>2
        <5>2. m < n - 1 \/ m = n - 1 \/ m = n \/ n < m
          BY <1>2
        <5>3. order[m] \in Nat /\ order[n - 1] \in Nat /\ order[n] \in Nat
          BY <3>1, <1>4
        <5>4. order[m] < order[n - 1] \/ order[m] = order[n - 1]
              \/ order[m] = order[n] \/ order[n] < order[m]
          BY <5>2, <3>1, <1>2
        <5> QED BY <5>1, <5>3, <5>4
      <4>3. s[order[n - 1]].key # s[order[n]].key
        BY <3>1, <3>3, <1>2
      <4>4. GroupAt(s, S, order[n]) = GroupAt(s, S, order[n - 1]) + 1
        BY <4>1, <4>2, <4>3, <1>1, GroupNumbers
      <4> QED BY <4>4, <3>1, <3>3, <2>2, <1>2
    <3> QED BY <3>2, <3>3
  <2> QED BY <2>1, <2>2
<1>10. DuplicateTable(t)
  <2>1. DOMAIN t = 1..N
    BY <1>2
  <2>2. \A m, n \in 1..N : t[m].file = t[n].file => m = n
    BY <1>7
  <2> QED BY <2>1, <2>2, <1>5, <1>6, <1>8, <1>9 DEF DuplicateTable
<1> QED BY <1>1, <1>10

-----------------------------------------------------------------------------
(* The tables that a folder and a scan begin with.                         *)

LEMMA ScansTyped ==
  ASSUME NEW groups \in Scans
  PROVE  /\ Len(groups) \in Nat /\ DOMAIN groups = 1..Len(groups)
         /\ IsFiniteSet(DOMAIN groups)
         /\ \A g \in DOMAIN groups :
              /\ groups[g] \in Seq(Files) /\ Len(groups[g]) \in Nat
              /\ DOMAIN groups[g] = 1..Len(groups[g]) /\ IsFiniteSet(DOMAIN groups[g])
              /\ \A k \in DOMAIN groups[g] : groups[g][k] \in Files
<1>1. groups \in Seq(Seq(Files))
  BY BatchAssumption DEF BatchAssumption
<1>2. Len(groups) \in Nat /\ DOMAIN groups = 1..Len(groups)
      /\ groups \in [1..Len(groups) -> Seq(Files)]
  BY <1>1, LenProperties
<1>3. IsFiniteSet(DOMAIN groups)
  BY <1>2, SubsetOfRange
<1>4. ASSUME NEW g \in DOMAIN groups
      PROVE  /\ groups[g] \in Seq(Files) /\ Len(groups[g]) \in Nat
             /\ DOMAIN groups[g] = 1..Len(groups[g]) /\ IsFiniteSet(DOMAIN groups[g])
             /\ \A k \in DOMAIN groups[g] : groups[g][k] \in Files
  <2>1. groups[g] \in Seq(Files)
    BY <1>2
  <2>2. Len(groups[g]) \in Nat /\ DOMAIN groups[g] = 1..Len(groups[g])
        /\ groups[g] \in [1..Len(groups[g]) -> Files]
    BY <2>1, LenProperties
  <2>3. IsFiniteSet(DOMAIN groups[g])
    BY <2>2, SubsetOfRange
  <2> QED BY <2>1, <2>2, <2>3
<1> QED BY <1>2, <1>3, <1>4

LEMMA SurfaceRowsTable ==
  ASSUME NEW groups \in Scans
  PROVE  SurfaceRows(FilesOf(groups)) \in Seq(Row) /\ SurfaceTable(SurfaceRows(FilesOf(groups)))
<1> DEFINE files == FilesOf(groups)
           N == Cardinality(files)
           sorted == SetToSeq(files)
           s == SurfaceRows(files)
<1>1. IsFiniteSet(files) /\ files \subseteq Files
  <2> DEFINE parts == {ToSet(groups[g]) : g \in DOMAIN groups}
             part == [g \in DOMAIN groups |-> ToSet(groups[g])]
  <2>1. parts = {part[g] : g \in DOMAIN groups}
    OBVIOUS
  <2>2. IsFiniteSet(parts)
    <3>1. IsFiniteSet(DOMAIN groups) /\ DOMAIN groups \subseteq DOMAIN part
      BY ScansTyped
    <3> HIDE DEF parts, part
    <3> QED BY <2>1, <3>1, FiniteImage
  <2>3. ASSUME NEW g \in DOMAIN groups
        PROVE  IsFiniteSet(ToSet(groups[g])) /\ ToSet(groups[g]) \subseteq Files
    <3>1. /\ IsFiniteSet(DOMAIN groups[g])
          /\ \A k \in DOMAIN groups[g] : groups[g][k] \in Files
      BY ScansTyped
    <3>2. IsFiniteSet({groups[g][k] : k \in DOMAIN groups[g]})
      BY <3>1, FiniteImage
    <3> QED BY <3>1, <3>2 DEF ToSet
  <2>4. \A T \in parts : IsFiniteSet(T)
    BY <2>3
  <2>5. IsFiniteSet(UNION parts)
    <3> HIDE DEF parts
    <3> QED BY <2>2, <2>4, FS_UNION
  <2> QED BY <2>3, <2>5 DEF FilesOf
<1>2. N \in Nat /\ ExistsBijection(1..N, files)
  BY <1>1, FS_CardinalityType
<1>3. sorted \in [1..N -> files] /\ \A i, j \in 1..N : sorted[i] = sorted[j] => i = j
  <2>1. PICK b \in Bijection(1..N, files) : TRUE
    BY <1>2 DEF ExistsBijection
  <2>2. b \in [1..N -> files] /\ IsInjective(b)
    <3> HIDE DEF files, N
    <3> QED BY <2>1 DEF Bijection, Injection
  <2>3. sorted \in [1..N -> files] /\ IsInjective(sorted)
    <3> HIDE DEF files
    <3> QED BY <2>2 DEF SetToSeq
  <2> HIDE DEF sorted, N, files
  <2> QED BY <2>3 DEF IsInjective
<1> HIDE DEF files, N, sorted
<1>4. s = [i \in 1..N |-> [number |-> i, group |-> 0, key |-> sorted[i],
            status |-> "Scanned", duplicate |-> FALSE, selected |-> FALSE,
            file |-> sorted[i]]]
  BY <1>3 DEF SurfaceRows, sorted
<1>5. s \in [1..N -> Row]
  <2>1. ASSUME NEW i \in 1..N
        PROVE  [number |-> i, group |-> 0, key |-> sorted[i], status |-> "Scanned",
                duplicate |-> FALSE, selected |-> FALSE, file |-> sorted[i]] \in Row
    <3>1. i \in Nat
      BY <1>2
    <3>2. PICK f \in Files : f = sorted[i]
      BY <1>1, <1>3
    <3>3. [number |-> i, group |-> 0, key |-> f, status |-> "Scanned",
           duplicate |-> FALSE, selected |-> FALSE, file |-> f] \in Row
      BY <3>1 DEF Row, Shown
    <3> QED BY <3>2, <3>3
  <2> HIDE DEF s
  <2> QED BY <2>1, <1>4
<1>6. s \in Seq(Row) /\ DOMAIN s = 1..N
  BY <1>2, <1>5, FunctionIsSeq
<1>7. \A i \in 1..N : /\ s[i].number = i /\ ~s[i].duplicate /\ ~s[i].selected
                      /\ s[i].file = sorted[i]
  BY <1>4
<1> HIDE DEF s
<1>8. SurfaceTable(s)
  BY <1>3, <1>6, <1>7 DEF SurfaceTable
<1> QED BY <1>6, <1>8 DEF s, files

\* The places of a scan's files, group after group.
LEMMA PlacesInOrder ==
  ASSUME NEW groups \in Scans
  PROVE  /\ \A i \in DOMAIN Places(groups) :
              /\ i \in Nat
              /\ Places(groups)[i][1] \in DOMAIN groups
              /\ Places(groups)[i][2] \in DOMAIN groups[Places(groups)[i][1]]
         /\ \A i, j \in DOMAIN Places(groups) : i < j =>
              \/ Places(groups)[i][1] < Places(groups)[j][1]
              \/ /\ Places(groups)[i][1] = Places(groups)[j][1]
                 /\ Places(groups)[i][2] < Places(groups)[j][2]
         /\ \A g \in DOMAIN groups : \A k \in DOMAIN groups[g] :
              \E i \in DOMAIN Places(groups) :
                Places(groups)[i][1] = g /\ Places(groups)[i][2] = k
         /\ \E N \in Nat : DOMAIN Places(groups) = 1..N
<1> DEFINE places == UNION {{g} \X DOMAIN groups[g] : g \in DOMAIN groups}
           before == [p \in places |->
                        {q \in places : q[1] < p[1] \/ (q[1] = p[1] /\ q[2] < p[2])}]
           order == Places(groups)
           N == Cardinality(places)
<1>1. \A p : p \in places <=>
        \E g \in DOMAIN groups : \E k \in DOMAIN groups[g] : p = <<g, k>>
  OBVIOUS
<1>2. IsFiniteSet(places)
  <2> DEFINE parts == {{g} \X DOMAIN groups[g] : g \in DOMAIN groups}
             part == [g \in DOMAIN groups |-> {g} \X DOMAIN groups[g]]
  <2>1. parts = {part[g] : g \in DOMAIN groups}
    OBVIOUS
  <2>2. IsFiniteSet(parts)
    <3>1. IsFiniteSet(DOMAIN groups) /\ DOMAIN groups \subseteq DOMAIN part
      BY ScansTyped
    <3> HIDE DEF parts, part
    <3> QED BY <2>1, <3>1, FiniteImage
  <2>3. ASSUME NEW g \in DOMAIN groups
        PROVE  IsFiniteSet({g} \X DOMAIN groups[g])
    BY ScansTyped, FS_Singleton, FS_Product
  <2>4. \A T \in parts : IsFiniteSet(T)
    BY <2>3
  <2>5. IsFiniteSet(UNION parts)
    <3> HIDE DEF parts
    <3> QED BY <2>2, <2>4, FS_UNION
  <2> QED BY <2>5
<1>3. ASSUME NEW p \in places
      PROVE  /\ p[1] \in DOMAIN groups /\ p[2] \in DOMAIN groups[p[1]]
             /\ p[1] \in Nat /\ p[2] \in Nat
             /\ p = <<p[1], p[2]>>
  <2>1. PICK g \in DOMAIN groups : \E k \in DOMAIN groups[g] : p = <<g, k>>
    BY <1>1
  <2>2. PICK k \in DOMAIN groups[g] : p = <<g, k>>
    BY <2>1
  <2>3. g \in Nat /\ k \in Nat
    BY ScansTyped
  <2> HIDE DEF places
  <2> QED BY <2>2, <2>3
<1>4. Orders(before, places)
  <2>1. before \in [places -> SUBSET places]
    <3> HIDE DEF places
    <3> QED OBVIOUS
  <2>2. \A p \in places : \A q : q \in before[p] <=>
          q \in places /\ (q[1] < p[1] \/ (q[1] = p[1] /\ q[2] < p[2]))
    <3> HIDE DEF places
    <3> QED OBVIOUS
  <2> HIDE DEF before, places
  <2>3. ASSUME NEW p \in places PROVE p \notin before[p]
    BY <2>2, <1>3
  <2>4. ASSUME NEW p \in places, NEW q \in places, p \in before[q], NEW r \in before[p]
        PROVE  r \in before[q]
    <3>1. /\ r \in places
          /\ r[1] < p[1] \/ (r[1] = p[1] /\ r[2] < p[2])
          /\ p[1] < q[1] \/ (p[1] = q[1] /\ p[2] < q[2])
      BY <2>2, <2>4
    <3>2. /\ r[1] \in Nat /\ r[2] \in Nat /\ p[1] \in Nat /\ p[2] \in Nat
          /\ q[1] \in Nat /\ q[2] \in Nat
      BY <3>1, <1>3
    <3>3. r[1] < q[1] \/ (r[1] = q[1] /\ r[2] < q[2])
      BY <3>1, <3>2
    <3> QED BY <3>1, <3>3, <2>2
  <2>5. ASSUME NEW p \in places, NEW q \in places, p # q
        PROVE  p \in before[q] \/ q \in before[p]
    <3>1. p[1] # q[1] \/ p[2] # q[2]
      BY <2>5, <1>3
    <3>2. p[1] \in Nat /\ p[2] \in Nat /\ q[1] \in Nat /\ q[2] \in Nat
      BY <1>3
    <3>3. \/ p[1] < q[1] \/ (p[1] = q[1] /\ p[2] < q[2])
          \/ q[1] < p[1] \/ (q[1] = p[1] /\ q[2] < p[2])
      BY <3>1, <3>2
    <3> QED BY <3>3, <2>2
  <2> QED BY <2>1, <2>3, <2>4, <2>5 DEF Orders
<1>5. \A p \in places : \A q \in before[p] :
        q[1] < p[1] \/ (q[1] = p[1] /\ q[2] < p[2])
  <2> HIDE DEF places
  <2> QED OBVIOUS
<1>6. order = InOrder(places, before)
  BY DEF Places
<1> HIDE DEF places, before, order
<1>7. /\ N \in Nat
      /\ order \in [1..N -> places]
      /\ \A m, n \in 1..N : m < n => order[m] \in before[order[n]]
      /\ \A p \in places : \E n \in 1..N : order[n] = p
  BY <1>2, <1>4, <1>6, InOrderIsOrder
<1> HIDE DEF N
<1>8. DOMAIN order = 1..N
  BY <1>7
<1>9. ASSUME NEW i \in DOMAIN order
      PROVE  /\ i \in Nat /\ order[i][1] \in DOMAIN groups
             /\ order[i][2] \in DOMAIN groups[order[i][1]]
  BY <1>3, <1>7, <1>8
<1>10. ASSUME NEW i \in DOMAIN order, NEW j \in DOMAIN order, i < j
       PROVE  \/ order[i][1] < order[j][1]
              \/ order[i][1] = order[j][1] /\ order[i][2] < order[j][2]
  BY <1>5, <1>7, <1>8, <1>10
<1>11. ASSUME NEW g \in DOMAIN groups, NEW k \in DOMAIN groups[g]
       PROVE  \E i \in DOMAIN order : order[i][1] = g /\ order[i][2] = k
  <2>1. <<g, k>> \in places
    BY <1>1
  <2>2. PICK i \in 1..N : order[i] = <<g, k>>
    BY <2>1, <1>7
  <2> QED BY <2>2, <1>8
<1> QED BY <1>7, <1>8, <1>9, <1>10, <1>11 DEF order

LEMMA GroupRowsTable ==
  ASSUME NEW groups \in Scans
  PROVE  GroupRows(groups) \in Seq(Row) /\ DuplicateTable(GroupRows(groups))
<1> DEFINE s == GroupRows(groups)
           places == Places(groups)
           fileAt(i) == groups[places[i][1]][places[i][2]]
<1>1. PICK N \in Nat : DOMAIN places = 1..N
  BY PlacesInOrder
<1>2. \A i \in 1..N :
        i \in Nat /\ places[i][1] \in DOMAIN groups
        /\ places[i][2] \in DOMAIN groups[places[i][1]]
  BY <1>1, PlacesInOrder
<1>3. \A i, j \in 1..N : i < j =>
        \/ places[i][1] < places[j][1]
        \/ places[i][1] = places[j][1] /\ places[i][2] < places[j][2]
  BY <1>1, PlacesInOrder
<1>4. \A g \in DOMAIN groups : \A k \in DOMAIN groups[g] :
        \E i \in 1..N : places[i][1] = g /\ places[i][2] = k
  BY <1>1, PlacesInOrder
<1> HIDE DEF places
<1>5. /\ Len(groups) \in Nat /\ DOMAIN groups = 1..Len(groups)
      /\ \A g \in DOMAIN groups :
           /\ Len(groups[g]) \in Nat /\ Len(groups[g]) >= 2
           /\ DOMAIN groups[g] = 1..Len(groups[g])
           /\ \A k \in DOMAIN groups[g] : groups[g][k] \in Files
  BY ScansTyped, BatchAssumption DEF BatchAssumption
<1>6. \A g, h \in DOMAIN groups : \A k \in DOMAIN groups[g], l \in DOMAIN groups[h] :
        /\ KeyOf[groups[g][k]] = KeyOf[groups[h][l]] <=> g = h
        /\ g = h /\ groups[g][k] = groups[g][l] => k = l
  BY BatchAssumption DEF BatchAssumption
<1>7. \A i \in 1..N : fileAt(i) \in Files /\ KeyOf[fileAt(i)] \in Keys
                      /\ places[i][1] \in Nat /\ places[i][2] \in Nat
  BY <1>2, <1>5, BatchAssumption DEF BatchAssumption
<1>8. s = [i \in 1..N |->
            [number |-> i, group |-> places[i][1], key |-> KeyOf[fileAt(i)],
             status |-> "Duplicate", duplicate |-> TRUE, selected |-> FALSE,
             file |-> fileAt(i)]]
  BY <1>1 DEF GroupRows, places
<1>9. \A i, j \in 1..N : fileAt(i) = fileAt(j) => places[i][1] = places[j][1]
                                                  /\ places[i][2] = places[j][2]
  BY <1>2, <1>6
<1>10. \A i, j \in 1..N : KeyOf[fileAt(i)] = KeyOf[fileAt(j)] <=> places[i][1] = places[j][1]
  BY <1>2, <1>6
<1> HIDE DEF fileAt, s
<1>11. s \in [1..N -> Row]
  <2>1. ASSUME NEW i \in 1..N
        PROVE  [number |-> i, group |-> places[i][1], key |-> KeyOf[fileAt(i)],
                status |-> "Duplicate", duplicate |-> TRUE, selected |-> FALSE,
                file |-> fileAt(i)] \in Row
    <3>1. PICK f \in Files : f = fileAt(i)
      BY <1>7
    <3>2. PICK key \in Keys : key = KeyOf[fileAt(i)]
      BY <1>7
    <3>3. PICK g \in Nat : g = places[i][1]
      BY <1>7
    <3>4. [number |-> i, group |-> g, key |-> key, status |-> "Duplicate",
           duplicate |-> TRUE, selected |-> FALSE, file |-> f] \in Row
      BY <1>1 DEF Row, Shown
    <3> QED BY <3>1, <3>2, <3>3, <3>4
  <2> QED BY <2>1, <1>8
<1>12. s \in Seq(Row) /\ DOMAIN s = 1..N
  BY <1>11, FunctionIsSeq
<1>13. \A i \in 1..N : /\ s[i].number = i /\ s[i].duplicate
                       /\ s[i].group = places[i][1]
                       /\ s[i].file = fileAt(i)
                       /\ s[i].key = KeyOf[fileAt(i)]
  BY <1>8
<1>14. ASSUME NEW i \in 1..N, NEW j \in 1..N
       PROVE  /\ s[i].file = s[j].file => i = j
              /\ s[i].key = s[j].key <=> s[i].group = s[j].group
              /\ i <= j => s[i].group <= s[j].group
  <2>1. i \in Nat /\ j \in Nat /\ places[i][1] \in Nat /\ places[j][1] \in Nat
        /\ places[i][2] \in Nat /\ places[j][2] \in Nat
    BY <1>2, <1>7
  <2>2. ASSUME s[i].file = s[j].file PROVE i = j
    <3>1. places[i][1] = places[j][1] /\ places[i][2] = places[j][2]
      BY <2>2, <1>9, <1>13
    <3>2. ~(i < j) /\ ~(j < i)
      BY <3>1, <2>1, <1>3
    <3> QED BY <3>2, <2>1
  <2>3. s[i].key = s[j].key <=> s[i].group = s[j].group
    BY <1>10, <1>13
  <2>4. ASSUME i <= j PROVE s[i].group <= s[j].group
    <3>1. CASE i = j
      BY <3>1, <2>1, <1>13
    <3>2. CASE i < j
      BY <3>2, <2>1, <1>3, <1>13
    <3> QED BY <2>1, <2>4, <3>1, <3>2
  <2> QED BY <2>2, <2>3, <2>4
<1>15. ASSUME NEW i \in 1..N
       PROVE  Cardinality(RowsOf(s, s[i].key)) >= 2
  <2> DEFINE g == places[i][1]
  <2>1. g \in DOMAIN groups /\ 1 \in DOMAIN groups[g] /\ 2 \in DOMAIN groups[g]
    BY <1>2, <1>5
  <2>2. PICK j \in 1..N : places[j][1] = g /\ places[j][2] = 1
    BY <2>1, <1>4
  <2>3. PICK k \in 1..N : places[k][1] = g /\ places[k][2] = 2
    BY <2>1, <1>4
  <2>4. s[j].key = s[i].key /\ s[k].key = s[i].key
    BY <2>2, <2>3, <1>10, <1>13
  <2>5. j \in RowsOf(s, s[i].key) /\ k \in RowsOf(s, s[i].key) /\ j # k
    BY <2>2, <2>3, <2>4, <1>12 DEF RowsOf
  <2>6. IsFiniteSet(RowsOf(s, s[i].key))
    BY <1>12, RowsOfFinite
  <2> QED BY <2>5, <2>6, AtLeastTwo
<1>16. ASSUME NEW i \in 1..N
       PROVE  s[i].group = IF i = 1 THEN 1
                           ELSE IF s[i].key = s[i - 1].key THEN s[i - 1].group
                           ELSE s[i - 1].group + 1
  <2>1. CASE i = 1
    <3>1. 1 \in DOMAIN groups /\ 1 \in DOMAIN groups[1]
      BY <1>2, <1>5
    <3>2. PICK m \in 1..N : places[m][1] = 1 /\ places[m][2] = 1
      BY <3>1, <1>4
    <3>3. /\ places[1][1] \in Nat /\ places[1][2] \in Nat
          /\ places[1][1] >= 1 /\ places[1][2] >= 1
      BY <2>1, <1>2, <1>5, <1>7
    <3>4. ~(1 < m)
      BY <3>2, <3>3, <2>1, <1>3
    <3>5. m = 1
      BY <3>4, <1>1
    <3> QED BY <2>1, <3>2, <3>5, <1>13
  <2>2. CASE i # 1
    <3>1. i - 1 \in 1..N /\ i - 1 < i /\ i \in Nat
      BY <2>2, <1>1
    <3>2. CASE s[i].key = s[i - 1].key
      BY <2>2, <3>1, <3>2, <1>14
    <3>3. CASE s[i].key # s[i - 1].key
      <4> DEFINE g == places[i - 1][1]
                 h == places[i][1]
      <4>1. g \in Nat /\ h \in Nat /\ g >= 1 /\ g \in DOMAIN groups /\ h \in DOMAIN groups
            /\ places[i][2] \in Nat /\ places[i][2] >= 1
        BY <3>1, <1>2, <1>5, <1>7
      <4>2. g # h
        BY <3>1, <3>3, <1>10, <1>13
      <4>3. g < h
        BY <4>2, <3>1, <1>3
      <4>4. h = g + 1
        <5>1. SUFFICES ASSUME g + 1 < h PROVE FALSE
          <6> HIDE DEF g, h
          <6> QED BY <4>1, <4>3
        <5>2. g + 1 \in DOMAIN groups
          <6> HIDE DEF g, h
          <6> QED BY <4>1, <5>1, <1>5
        <5>3. 1 \in DOMAIN groups[g + 1]
          BY <5>2, <1>5
        <5>4. PICK m \in 1..N : places[m][1] = g + 1 /\ places[m][2] = 1
          BY <5>2, <5>3, <1>4
        <5>5. ~(m < i - 1) /\ m # i - 1
          <6>1. m < i - 1 => g + 1 < g \/ g + 1 = g
            BY <5>4, <3>1, <1>3
          <6>2. m = i - 1 => g + 1 = g
            BY <5>4
          <6> HIDE DEF g, h
          <6> QED BY <6>1, <6>2, <4>1
        <5>6. ~(i < m) /\ m # i
          <6>1. i < m => h < g + 1 \/ h = g + 1
            BY <5>4, <1>3
          <6>2. m = i => h = g + 1
            BY <5>4
          <6> HIDE DEF g, h
          <6> QED BY <6>1, <6>2, <4>1, <5>1
        <5> HIDE DEF g, h
        <5> QED BY <5>5, <5>6, <3>1, <1>1
      <4>5. s[i].group = h /\ s[i - 1].group = g
        BY <3>1, <1>13
      <4> HIDE DEF g, h
      <4> QED BY <4>4, <4>5, <2>2, <3>3
    <3> QED BY <3>2, <3>3
  <2> QED BY <2>1, <2>2
<1>17. DuplicateTable(s)
  <2>1. \A i \in 1..N : s[i].number = i /\ s[i].duplicate /\ s[i].key = KeyOf[s[i].file]
    BY <1>13
  <2> QED BY <2>1, <1>12, <1>14, <1>15, <1>16 DEF DuplicateTable
<1> QED BY <1>12, <1>17 DEF s

-----------------------------------------------------------------------------
(* The selection and the plan.                                             *)

\* Nothing but the selection of rows has changed.
LEMMA Reselected ==
  ASSUME NEW s \in Seq(Row), NEW t, DOMAIN t = DOMAIN s,
         \A i \in DOMAIN s : /\ t[i].number = s[i].number /\ t[i].group = s[i].group
                             /\ t[i].key = s[i].key /\ t[i].duplicate = s[i].duplicate
                             /\ t[i].file = s[i].file
  PROVE  /\ FilesIn(t) = FilesIn(s)
         /\ DuplicateTable(s) => DuplicateTable(t)
         /\ SurfaceTable(s) /\ (\A i \in DOMAIN s : ~t[i].selected) => SurfaceTable(t)
<1>1. FilesIn(t) = FilesIn(s)
  BY DEF FilesIn
<1>2. \A key : RowsOf(t, key) = RowsOf(s, key)
  BY DEF RowsOf
<1>3. ASSUME DuplicateTable(s) PROVE DuplicateTable(t)
  <2>1. ASSUME NEW i \in DOMAIN t
        PROVE  /\ t[i].number = i /\ t[i].duplicate /\ t[i].key = KeyOf[t[i].file]
               /\ Cardinality(RowsOf(t, t[i].key)) >= 2
    BY <1>2, <1>3 DEF DuplicateTable
  <2>2. ASSUME NEW i \in DOMAIN t
        PROVE  t[i].group = IF i = 1 THEN 1
                            ELSE IF t[i].key = t[i - 1].key THEN t[i - 1].group
                            ELSE t[i - 1].group + 1
    <3>1. i # 1 => i - 1 \in DOMAIN s
      BY LenProperties
    <3>2. s[i].group = IF i = 1 THEN 1
                       ELSE IF s[i].key = s[i - 1].key THEN s[i - 1].group
                       ELSE s[i - 1].group + 1
      BY <1>3 DEF DuplicateTable
    <3>3. CASE i = 1
      BY <3>2, <3>3
    <3>4. CASE i # 1
      BY <3>1, <3>2, <3>4
    <3> QED BY <3>3, <3>4
  <2>3. ASSUME NEW i \in DOMAIN t, NEW j \in DOMAIN t
        PROVE  /\ t[i].file = t[j].file => i = j
               /\ t[i].key = t[j].key <=> t[i].group = t[j].group
               /\ i <= j => t[i].group <= t[j].group
    BY <1>3 DEF DuplicateTable
  <2> QED BY <2>1, <2>2, <2>3 DEF DuplicateTable
<1>4. ASSUME SurfaceTable(s), \A i \in DOMAIN s : ~t[i].selected
      PROVE  SurfaceTable(t)
  BY <1>4 DEF SurfaceTable
<1> QED BY <1>1, <1>3, <1>4

\* A row that is selected or not is a row.
LEMMA SelectedRow ==
  ASSUME NEW r \in Row, NEW b \in BOOLEAN
  PROVE  /\ [r EXCEPT !.selected = b] \in Row
         /\ [r EXCEPT !.selected = b].selected = b
         /\ [r EXCEPT !.selected = b].number = r.number
         /\ [r EXCEPT !.selected = b].group = r.group
         /\ [r EXCEPT !.selected = b].key = r.key
         /\ [r EXCEPT !.selected = b].duplicate = r.duplicate
         /\ [r EXCEPT !.selected = b].status = r.status
         /\ [r EXCEPT !.selected = b].file = r.file
BY DEF Row

LEMMA PlannedSound ==
  ASSUME rows \in Seq(Row), DuplicateTable(rows),
         \A n \in DOMAIN PlannedGroups : ~RemovesAllCopies(PlannedGroups[n])
  PROVE  /\ PlannedGroups \in Seq(PlanGroup)
         /\ PlanOf(PlannedGroups, rows)
<1> DEFINE firsts == {FirstRow(rows, rows[i].key) : i \in Checked(rows)}
           first == Ascending(firsts)
           N == Cardinality(firsts)
           p == PlannedGroups
           key(n) == rows[first[n]].key
<1>1. DOMAIN rows = 1..Len(rows) /\ Len(rows) \in Nat
  BY LenProperties
<1>2. ASSUME NEW x \in firsts
      PROVE  x \in DOMAIN rows /\ FirstRow(rows, rows[x].key) = x
  <2>1. PICK i \in DOMAIN rows : x = FirstRow(rows, rows[i].key)
    BY DEF Checked
  <2>2. x \in DOMAIN rows /\ rows[x].key = rows[i].key
    BY <2>1, FirstRowOf
  <2> QED BY <2>1, <2>2
<1>3. firsts \in SUBSET (1..Len(rows))
  <2> HIDE DEF firsts
  <2> QED BY <1>1, <1>2
<1> HIDE DEF firsts
<1>4. firsts \in SUBSET Nat /\ IsFiniteSet(firsts)
  BY <1>1, <1>3, SubsetOfRange
<1>5. /\ N \in Nat /\ first \in [1..N -> firsts]
      /\ \A m, n \in 1..N : m < n => first[m] < first[n]
  BY <1>4, AscendingIsOrder
<1>6. \A n \in 1..N : /\ first[n] \in DOMAIN rows /\ first[n] \in Nat
                      /\ FirstRow(rows, key(n)) = first[n]
  BY <1>2, <1>4, <1>5
<1>7. p = [n \in 1..N |-> PlannedGroup(key(n))]
  BY <1>5 DEF PlannedGroups, firsts
<1> HIDE DEF N, first
<1>8. ASSUME NEW n \in 1..N
      PROVE  /\ p[n] \in PlanGroup
             /\ p[n].files = {rows[i].file : i \in RowsOf(rows, key(n))}
             /\ p[n].selected = {rows[i].file : i \in RowsOf(rows, key(n)) \cap Checked(rows)}
  <2>1. p[n] = PlannedGroup(key(n))
    <3> HIDE DEF key, p
    <3> QED BY <1>7
  <2>2. PICK g \in Nat : g = rows[FirstRow(rows, key(n))].group
    BY <1>6, RowIsRow
  <2>3. PICK files \in SUBSET Files : files = {rows[i].file : i \in RowsOf(rows, key(n))}
    <3>1. \A i \in RowsOf(rows, key(n)) : rows[i].file \in Files
      BY RowIsRow DEF RowsOf
    <3> QED BY <3>1
  <2>4. PICK going \in SUBSET Files :
          going = {rows[i].file : i \in RowsOf(rows, key(n)) \cap Checked(rows)}
    <3>1. \A i \in RowsOf(rows, key(n)) : rows[i].file \in Files
      BY RowIsRow DEF RowsOf
    <3> QED BY <3>1
  <2>5. p[n] = [group |-> g, files |-> files, selected |-> going]
    <3> HIDE DEF key, p
    <3> QED BY <2>1, <2>2, <2>3, <2>4 DEF PlannedGroup
  <2> HIDE DEF p
  <2> QED BY <2>3, <2>4, <2>5 DEF PlanGroup
<1>9. p \in [1..N -> PlanGroup]
  <2> HIDE DEF p, key
  <2>1. p = [n \in 1..N |-> p[n]]
    BY <1>7
  <2> QED BY <2>1, <1>8
<1>10. p \in Seq(PlanGroup) /\ DOMAIN p = 1..N
  BY <1>5, <1>9, FunctionIsSeq
<1>11. ASSUME NEW n \in 1..N, NEW f \in Files
       PROVE  f \in p[n].files <=> \E i \in DOMAIN rows : rows[i].file = f /\ rows[i].key = key(n)
  <2> HIDE DEF p, key
  <2> QED BY <1>8 DEF RowsOf
<1>12. ASSUME NEW n \in 1..N
       PROVE  /\ p[n].selected \subseteq p[n].files
              /\ p[n].selected # p[n].files
              /\ p[n].files \subseteq FilesIn(rows)
              /\ \A f \in p[n].files, g \in FilesIn(rows) :
                   KeyOf[g] = KeyOf[f] <=> g \in p[n].files
  <2>1. p[n].selected \subseteq p[n].files
    <3> HIDE DEF p, key
    <3> QED BY <1>8
  <2>2. p[n].selected # p[n].files
    <3>1. SUFFICES ASSUME p[n].selected = p[n].files PROVE FALSE
      OBVIOUS
    <3>2. ~RemovesAllCopies(p[n])
      BY <1>10
    <3>3. Cardinality(Copies(p[n].files)) \in Nat
      <4> DEFINE copyAt == [i \in DOMAIN rows |-> IdentityOf[rows[i].file]]
                 all == RowsOf(rows, key(n))
      <4>1. IsFiniteSet(all) /\ all \subseteq DOMAIN copyAt
        BY RowsOfFinite
      <4>2. Cardinality({copyAt[i] : i \in all}) \in Nat
        <5> HIDE DEF copyAt, all
        <5> QED BY <4>1, FiniteImage
      <4>3. {copyAt[i] : i \in all} = {IdentityOf[rows[i].file] : i \in all}
        BY <4>1
      <4>4. Copies(p[n].files) = {IdentityOf[rows[i].file] : i \in all}
        <5>1. p[n].files = {rows[i].file : i \in all}
          BY <1>8
        <5> HIDE DEF all, p
        <5> QED BY <5>1 DEF Copies
      <4> HIDE DEF copyAt, all, p
      <4> QED BY <4>2, <4>3, <4>4
    <3> HIDE DEF p
    <3> QED BY <3>1, <3>2, <3>3 DEF RemovesAllCopies
  <2>3. p[n].files \subseteq FilesIn(rows)
    <3>1. p[n].files = {rows[i].file : i \in RowsOf(rows, key(n))}
      BY <1>8
    <3> HIDE DEF p, key
    <3> QED BY <3>1 DEF FilesIn, RowsOf
  <2>4. ASSUME NEW f \in p[n].files, NEW g \in FilesIn(rows)
        PROVE  KeyOf[g] = KeyOf[f] <=> g \in p[n].files
    <3>1. PICK i \in DOMAIN rows : rows[i].file = f /\ rows[i].key = key(n)
      <4>1. f \in Files
        BY <2>3, RowIsRow DEF FilesIn
      <4> HIDE DEF p, key
      <4> QED BY <4>1, <1>11
    <3>2. PICK j \in DOMAIN rows : rows[j].file = g
      BY DEF FilesIn
    <3>3. g \in Files
      BY <3>2, RowIsRow
    <3>4. KeyOf[f] = key(n) /\ rows[j].key = KeyOf[g]
      <4> HIDE DEF key
      <4> QED BY <3>1, <3>2 DEF DuplicateTable
    <3>5. ASSUME g \in p[n].files PROVE KeyOf[g] = key(n)
      <4>1. PICK k \in DOMAIN rows : rows[k].file = g /\ rows[k].key = key(n)
        <5> HIDE DEF p, key
        <5> QED BY <3>3, <3>5, <1>11
      <4> HIDE DEF p, key
      <4> QED BY <4>1 DEF DuplicateTable
    <3>6. ASSUME KeyOf[g] = key(n) PROVE g \in p[n].files
      <4> HIDE DEF p, key
      <4> QED BY <3>2, <3>3, <3>4, <3>6, <1>11
    <3> HIDE DEF p, key
    <3> QED BY <3>4, <3>5, <3>6
  <2> HIDE DEF p
  <2> QED BY <2>1, <2>2, <2>3, <2>4
<1>13. ASSUME NEW m \in 1..N, NEW n \in 1..N, m # n
       PROVE  p[m].files \cap p[n].files = {}
  <2>1. key(m) # key(n)
    <3>1. SUFFICES ASSUME key(m) = key(n) PROVE FALSE
      OBVIOUS
    <3>2. first[m] = first[n]
      BY <3>1, <1>6
    <3>3. ~(m < n) /\ ~(n < m)
      BY <3>2, <1>5, <1>6
    <3> QED BY <3>3, <1>5, <1>13
  <2>2. SUFFICES ASSUME NEW f \in p[m].files \cap p[n].files PROVE FALSE
    OBVIOUS
  <2>3. f \in Files
    <3> HIDE DEF p
    <3> QED BY <2>2, <1>8 DEF PlanGroup
  <2>4. PICK i \in DOMAIN rows : rows[i].file = f /\ rows[i].key = key(m)
    <3> HIDE DEF p, key
    <3> QED BY <2>2, <2>3, <1>11
  <2>5. PICK j \in DOMAIN rows : rows[j].file = f /\ rows[j].key = key(n)
    <3> HIDE DEF p, key
    <3> QED BY <2>2, <2>3, <1>11
  <2>6. i = j
    BY <2>4, <2>5, FileOnce
  <2> HIDE DEF p, key
  <2> QED BY <2>1, <2>4, <2>5, <2>6
<1> HIDE DEF p, key
<1>14. PlanOf(p, rows)
  BY <1>10, <1>12, <1>13 DEF PlanOf
<1> QED BY <1>10, <1>14 DEF p

-----------------------------------------------------------------------------
(* The steps of the table.                                                 *)

\* A file has one result: those of two groups are about different files.
LEMMA OneResult ==
  ASSUME NEW r, \A m, n \in DOMAIN r : m # n => DOMAIN r[m] \cap DOMAIN r[n] = {},
         NEW n \in DOMAIN r, NEW f \in DOMAIN r[n]
  PROVE  (CHOOSE x \in ToSet(r) : f \in DOMAIN x)[f] = r[n][f]
<1>1. r[n] \in ToSet(r)
  BY DEF ToSet
<1>2. ASSUME NEW x \in ToSet(r), f \in DOMAIN x
      PROVE  x = r[n]
  BY <1>2 DEF ToSet
<1>3. (CHOOSE x \in ToSet(r) : f \in DOMAIN x) = r[n]
  BY <1>1, <1>2
<1> QED BY <1>3

LEMMA NoResults ==
  results = <<>> => Deleted = {}
BY DEF Deleted, Reported

LEMMA NothingPlanned == \A s : PlanOf(<<>>, s)
BY DEF PlanOf

LEMMA BatchInit == Init => BatchInv
<1> SUFFICES ASSUME Init PROVE BatchInv
  OBVIOUS
<1>1. PICK groups \in Scans : rows = SurfaceRows(FilesOf(groups))
  BY DEF Init
<1>2. rows \in Seq(Row) /\ SurfaceTable(rows)
  BY <1>1, SurfaceRowsTable
<1>3. /\ stage = "surface" /\ plan = <<>> /\ results = <<>> /\ worker = "none"
      /\ intact = Files /\ inBin = {} /\ approved = {} /\ untold = {}
      /\ members = {} /\ selected = {} /\ binned = {} /\ status = [m \in {} |-> NoResult]
  BY DEF Init, NoRequest
<1>4. <<>> \in Seq(PlanGroup) /\ <<>> \in Seq(Outcome) /\ Len(<<>>) = 0
  BY EmptySeq
<1>5. TypeInv
  BY <1>2, <1>3, <1>4 DEF TypeInv
<1>6. TableInv
  BY <1>2, <1>3 DEF TableInv
<1>7. PlanInv
  BY <1>3, NothingPlanned DEF PlanInv
<1>8. RequestInv
  BY <1>3, <1>4 DEF RequestInv
<1>9. TruthInv
  BY <1>3 DEF TruthInv
<1> QED BY <1>5, <1>6, <1>7, <1>8, <1>9 DEF BatchInv

\* In t, row i is as it was but for its selection.
SelectionOnly(t, i) ==
  \/ t[i] = rows[i]
  \/ \E b \in BOOLEAN :
       t[i] = [rows[i] EXCEPT !.selected = b] /\ (b => rows[i].duplicate)

\* Whatever the user selects, the rest stays.
LEMMA SelectionStep ==
  ASSUME BatchInv, Reviewable, NEW t, TableChanged(t),
         t = [i \in DOMAIN rows |-> t[i]],
         \A i \in DOMAIN rows : SelectionOnly(t, i)
  PROVE  BatchInv'
<1> USE DEF BatchInv
<1>1. rows \in Seq(Row) /\ DOMAIN rows = 1..Len(rows) /\ Len(rows) \in Nat
  BY LenProperties DEF TypeInv
<1>2. /\ rows' = t
      /\ stage' = stage /\ plan' = plan /\ approved' = approved
      /\ results' = results /\ worker' = worker /\ inBin' = inBin /\ untold' = untold
      /\ members' = members /\ selected' = selected /\ intact' = intact
      /\ binned' = binned /\ status' = status
  BY DEF TableChanged, batchVars, fileVars, requestVars
<1>3. ASSUME NEW i \in DOMAIN rows
      PROVE  /\ t[i] \in Row
             /\ t[i].number = rows[i].number /\ t[i].group = rows[i].group
             /\ t[i].key = rows[i].key /\ t[i].duplicate = rows[i].duplicate
             /\ t[i].file = rows[i].file
             /\ t[i].selected => rows[i].selected \/ rows[i].duplicate
  <2>1. rows[i] \in Row
    BY <1>1, RowIsRow
  <2>2. CASE t[i] = rows[i]
    BY <2>1, <2>2
  <2>3. CASE \E b \in BOOLEAN : t[i] = [rows[i] EXCEPT !.selected = b]
                                /\ (b => rows[i].duplicate)
    <3>1. PICK b \in BOOLEAN : t[i] = [rows[i] EXCEPT !.selected = b]
                               /\ (b => rows[i].duplicate)
      BY <2>3
    <3> DEFINE r == [rows[i] EXCEPT !.selected = b]
    <3>2. /\ r \in Row /\ r.selected = b
          /\ r.number = rows[i].number /\ r.group = rows[i].group
          /\ r.key = rows[i].key /\ r.duplicate = rows[i].duplicate
          /\ r.file = rows[i].file
      BY <2>1, SelectedRow
    <3>3. t[i] = r
      BY <3>1
    <3> HIDE DEF r
    <3> QED BY <3>1, <3>2, <3>3
  <2>4. SelectionOnly(t, i)
    OBVIOUS
  <2> QED BY <2>2, <2>3, <2>4 DEF SelectionOnly
<1>4. t \in Seq(Row) /\ DOMAIN t = DOMAIN rows
  <2>1. t \in [1..Len(rows) -> Row]
    BY <1>1, <1>3
  <2> QED BY <2>1, <1>1, FunctionIsSeq
<1>5. /\ FilesIn(t) = FilesIn(rows)
      /\ DuplicateTable(rows) => DuplicateTable(t)
      /\ SurfaceTable(rows) /\ (\A i \in DOMAIN rows : ~t[i].selected) => SurfaceTable(t)
  BY <1>1, <1>3, <1>4, Reselected
<1>6. TypeInv'
  BY <1>2, <1>4 DEF TypeInv
<1>7. TableInv'
  <2>1. CASE stage = "surface"
    <3>1. SurfaceTable(rows)
      BY <2>1 DEF TableInv
    <3>2. \A i \in DOMAIN rows : ~rows[i].selected /\ ~rows[i].duplicate
      BY <3>1 DEF SurfaceTable
    <3>3. SurfaceTable(t)
      BY <3>1, <3>2, <1>3, <1>5
    <3> QED BY <2>1, <3>3, <1>2 DEF TableInv
  <2>2. CASE stage # "surface"
    <3>1. DuplicateTable(t)
      BY <2>2, <1>5 DEF TableInv
    <3> QED BY <2>2, <3>1, <1>2 DEF TableInv
  <2> QED BY <2>1, <2>2
<1>8. PlanInv'
  <2>1. plan = <<>> /\ stage \in {"surface", "ready"}
    BY DEF PlanInv, Reviewable
  <2> QED BY <2>1, <1>2, NothingPlanned DEF PlanInv
<1>9. RequestInv'
  BY <1>2 DEF RequestInv, Targets
<1>10. TruthInv'
  <2>1. Deleted' = Deleted
    BY <1>2 DEF Deleted, Reported, ResultOf
  <2>2. FilesIn(rows') = FilesIn(rows)
    BY <1>2, <1>5
  <2> QED BY <2>1, <2>2, <1>2 DEF TruthInv
<1> QED BY <1>6, <1>7, <1>8, <1>9, <1>10

LEMMA RowsAreFunction ==
  BatchInv => /\ rows \in Seq(Row) /\ rows = [i \in DOMAIN rows |-> rows[i]]
              /\ \A i \in DOMAIN rows : rows[i] \in Row
<1> SUFFICES ASSUME BatchInv PROVE /\ rows \in Seq(Row)
                                   /\ rows = [i \in DOMAIN rows |-> rows[i]]
                                   /\ \A i \in DOMAIN rows : rows[i] \in Row
  OBVIOUS
<1>1. rows \in Seq(Row)
  BY DEF BatchInv, TypeInv
<1>2. rows \in [1..Len(rows) -> Row]
  BY <1>1, LenProperties
<1> QED BY <1>1, <1>2

LEMMA BatchTableInput ==
  ASSUME BatchInv,
         \/ \E i \in DOMAIN rows, checked \in BOOLEAN : SetChecked(i, checked)
         \/ \E keepNewest \in BOOLEAN : SelectAllExcept(keepNewest)
         \/ ClearSelection
  PROVE  BatchInv'
<1>0. /\ rows = [i \in DOMAIN rows |-> rows[i]]
      /\ \A i \in DOMAIN rows : rows[i] \in Row
  BY RowsAreFunction
<1>1. ASSUME NEW i \in DOMAIN rows, NEW checked \in BOOLEAN, SetChecked(i, checked)
      PROVE  BatchInv'
  <2> DEFINE b == checked /\ rows[i].duplicate
             t == [rows EXCEPT ![i].selected = checked /\ rows[i].duplicate]
  <2>1. Reviewable /\ TableChanged(t)
    BY <1>1 DEF SetChecked
  <2>2. b \in BOOLEAN /\ (b => rows[i].duplicate)
    OBVIOUS
  <2>3. t = [j \in DOMAIN rows |-> t[j]]
    BY <1>0
  <2>4. t[i] = [rows[i] EXCEPT !.selected = b] /\ \A j \in DOMAIN rows : j # i => t[j] = rows[j]
    BY <1>0
  <2> HIDE DEF t, b
  <2> QED BY <2>1, <2>2, <2>3, <2>4, SelectionStep DEF SelectionOnly
<1>2. ASSUME NEW keepNewest \in BOOLEAN, SelectAllExcept(keepNewest)
      PROVE  BatchInv'
  <2> DEFINE b(i) == rows[i].duplicate /\ KeptRow(rows[i].key, keepNewest) # i
             t == [i \in DOMAIN rows |-> [rows[i] EXCEPT !.selected = b(i)]]
  <2>1. Reviewable /\ TableChanged(t)
    BY <1>2 DEF SelectAllExcept, ResultActions, Reviewable
  <2>2. \A i \in DOMAIN rows : b(i) \in BOOLEAN /\ (b(i) => rows[i].duplicate)
    BY <1>0 DEF Row
  <2> HIDE DEF b
  <2>3. t = [i \in DOMAIN rows |-> t[i]]
    OBVIOUS
  <2>4. \A i \in DOMAIN rows : t[i] = [rows[i] EXCEPT !.selected = b(i)]
    OBVIOUS
  <2> HIDE DEF t
  <2> QED BY <2>1, <2>2, <2>3, <2>4, SelectionStep DEF SelectionOnly
<1>3. ASSUME ClearSelection
      PROVE  BatchInv'
  <2> DEFINE t == [i \in DOMAIN rows |-> [rows[i] EXCEPT !.selected = FALSE]]
  <2>1. Reviewable /\ TableChanged(t)
    BY <1>3 DEF ClearSelection, ResultActions, Reviewable
  <2>2. t = [i \in DOMAIN rows |-> t[i]]
    OBVIOUS
  <2>3. \A i \in DOMAIN rows : t[i] = [rows[i] EXCEPT !.selected = FALSE]
    OBVIOUS
  <2> HIDE DEF t
  <2> QED BY <2>1, <2>2, <2>3, SelectionStep DEF SelectionOnly
<1> QED BY <1>1, <1>2, <1>3

LEMMA BatchScanFinished ==
  ASSUME BatchInv, NEW groups \in Scans, ScanFinished(groups)
  PROVE  BatchInv'
<1> USE DEF BatchInv
<1>1. /\ stage = "surface" /\ stage' = "ready" /\ rows' = GroupRows(groups)
      /\ plan' = plan /\ approved' = approved
      /\ results' = results /\ worker' = worker /\ inBin' = inBin /\ untold' = untold
      /\ members' = members /\ selected' = selected /\ intact' = intact
      /\ binned' = binned /\ status' = status
  BY DEF ScanFinished, batchVars, fileVars, requestVars
<1>2. rows' \in Seq(Row) /\ DuplicateTable(rows')
  BY <1>1, GroupRowsTable
<1>3. TypeInv'
  BY <1>1, <1>2 DEF TypeInv
<1>4. TableInv'
  BY <1>1, <1>2 DEF TableInv
<1>5. PlanInv'
  BY <1>1, NothingPlanned DEF PlanInv
<1>6. RequestInv'
  BY <1>1 DEF RequestInv, Targets
<1>7. TruthInv'
  BY <1>1 DEF TruthInv
<1> QED BY <1>3, <1>4, <1>5, <1>6, <1>7

LEMMA BatchDeleteClicked ==
  ASSUME BatchInv, DeleteClicked
  PROVE  BatchInv'
<1> USE DEF BatchInv
<1>1. /\ stage = "ready" /\ stage' = "confirm" /\ plan' = PlannedGroups
      /\ rows' = rows /\ approved' = approved
      /\ results' = results /\ worker' = worker /\ inBin' = inBin /\ untold' = untold
      /\ members' = members /\ selected' = selected /\ intact' = intact
      /\ binned' = binned /\ status' = status
      /\ \A n \in DOMAIN plan' : ~RemovesAllCopies(plan'[n])
  BY DEF DeleteClicked, ResultActions, batchVars, fileVars, requestVars
<1>2. rows \in Seq(Row) /\ DuplicateTable(rows)
  BY <1>1 DEF TypeInv, TableInv
<1>3. PlannedGroups \in Seq(PlanGroup) /\ PlanOf(PlannedGroups, rows)
  BY <1>1, <1>2, PlannedSound
<1>4. TypeInv'
  BY <1>1, <1>3 DEF TypeInv
<1>5. TableInv'
  BY <1>1 DEF TableInv
<1>6. PlanInv'
  BY <1>1, <1>3 DEF PlanInv
<1>7. results = <<>> /\ worker = "none"
  BY <1>1 DEF RequestInv, TypeInv
<1>8. RequestInv'
  <2>1. Len(plan') \in Nat /\ Len(results') = 0
    BY <1>1, <1>3, <1>7, LenProperties, EmptySeq
  <2> QED BY <1>1, <1>7, <2>1 DEF RequestInv
<1>9. TruthInv'
  <2>1. Deleted' = Deleted
    BY <1>1 DEF Deleted, Reported, ResultOf
  <2> QED BY <2>1, <1>1 DEF TruthInv
<1> QED BY <1>4, <1>5, <1>6, <1>8, <1>9

LEMMA BatchAnswered ==
  ASSUME BatchInv, NEW yes \in BOOLEAN, Answered(yes)
  PROVE  BatchInv'
<1> USE DEF BatchInv
<1>1. /\ stage = "confirm" /\ rows' = rows
      /\ inBin' = inBin /\ untold' = untold
      /\ members' = members /\ selected' = selected /\ intact' = intact
      /\ binned' = binned /\ status' = status
  BY DEF Answered, StartBatch, fileVars, requestVars
<1>2. worker = "none" /\ results = <<>>
  BY <1>1 DEF RequestInv, TypeInv
<1>3. results' = <<>>
  BY <1>2 DEF Answered, StartBatch, batchVars
<1>4. TruthInv'
  <2>1. Deleted = {} /\ Deleted' = {}
    BY <1>2, <1>3 DEF Deleted, Reported
  <2>2. stage' # "surface"
    BY DEF Answered, StartBatch
  <2> QED BY <2>1, <2>2, <1>1 DEF TruthInv
<1>5. members = {} /\ selected = {}
  BY <1>2 DEF RequestInv
<1>6. <<>> \in Seq(PlanGroup) /\ <<>> \in Seq(Outcome) /\ Len(<<>>) = 0 /\ Len(plan) \in Nat
  BY EmptySeq, LenProperties DEF TypeInv
<1>7. CASE yes
  <2>1. /\ stage' = "deleting" /\ worker' = "idle" /\ plan' = plan
        /\ approved' = approved \cup Targets(plan)
    BY <1>7 DEF Answered, StartBatch
  <2>2. Targets(plan) \subseteq Files
    <3>1. \A n \in DOMAIN plan : plan[n] \in PlanGroup
      BY LenProperties DEF TypeInv
    <3> QED BY <3>1 DEF Targets, PlanGroup
  <2>3. TypeInv'
    BY <1>1, <1>3, <1>6, <2>1, <2>2 DEF TypeInv
  <2>4. TableInv'
    BY <1>1, <2>1 DEF TableInv
  <2>5. PlanInv'
    BY <1>1, <2>1 DEF PlanInv
  <2>6. RequestInv'
    BY <1>1, <1>3, <1>5, <1>6, <2>1 DEF RequestInv, Targets
  <2> QED BY <1>4, <2>3, <2>4, <2>5, <2>6
<1>8. CASE ~yes
  <2>1. /\ stage' = "ready" /\ plan' = <<>> /\ approved' = approved /\ worker' = worker
    BY <1>8 DEF Answered, batchVars
  <2>2. TypeInv'
    BY <1>1, <1>3, <1>6, <2>1 DEF TypeInv
  <2>3. TableInv'
    BY <1>1, <2>1 DEF TableInv
  <2>4. PlanInv'
    BY <2>1, NothingPlanned DEF PlanInv
  <2>5. RequestInv'
    BY <1>1, <1>2, <1>3, <1>5, <1>6, <2>1 DEF RequestInv
  <2> QED BY <1>4, <2>2, <2>3, <2>4, <2>5
<1> QED BY <1>7, <1>8

-----------------------------------------------------------------------------
(* The steps of the goroutine and of other programs.                       *)

\* The rows, the plan and the stage are the same, and the table knows what is in
\* the bin.
LEMMA TableStays ==
  ASSUME BatchInv, rows' = rows, stage' = stage, plan' = plan, approved' = approved
  PROVE  TableInv' /\ PlanInv'
BY DEF BatchInv, TableInv, PlanInv

LEMMA PlanFacts ==
  ASSUME BatchInv, NEW n \in DOMAIN plan
  PROVE  /\ plan \in Seq(PlanGroup)
         /\ plan[n].selected \subseteq plan[n].files
         /\ plan[n].files \subseteq Files
         /\ n \in Nat
<1>1. plan \in Seq(PlanGroup) /\ plan[n] \in PlanGroup /\ n \in Nat
  BY LenProperties DEF BatchInv, TypeInv
<1> QED BY <1>1 DEF BatchInv, PlanInv, PlanOf, PlanGroup

LEMMA NextPlanned ==
  ASSUME BatchInv, Len(results) < Len(plan)
  PROVE  Len(results) \in Nat /\ Len(results) + 1 \in DOMAIN plan
BY LenProperties DEF BatchInv, TypeInv

LEMMA BatchStartRequest ==
  ASSUME BatchInv, StartRequest
  PROVE  BatchInv'
<1> USE DEF BatchInv
<1> DEFINE n == Len(results) + 1
<1>1. /\ worker = "idle" /\ Len(results) < Len(plan) /\ worker' = "busy"
      /\ members' = plan[n].files /\ selected' = plan[n].selected
      /\ status' = [f \in plan[n].files |-> NoResult]
      /\ rows' = rows /\ stage' = stage /\ plan' = plan /\ approved' = approved
      /\ results' = results /\ inBin' = inBin /\ untold' = untold
      /\ intact' = intact /\ binned' = binned
  BY DEF StartRequest, tableVars, fileVars
<1>2. n \in DOMAIN plan
  BY <1>1, NextPlanned
<1>3. plan[n].selected \subseteq plan[n].files /\ plan[n].files \subseteq Files
  BY <1>2, PlanFacts
<1>4. members = {} /\ selected = {} /\ binned = {}
  BY <1>1 DEF RequestInv, TruthInv
<1>5. TypeInv'
  BY <1>1, <1>3 DEF TypeInv
<1>6. TableInv' /\ PlanInv'
  BY <1>1, TableStays
<1>7. RequestInv'
  BY <1>1 DEF RequestInv, Targets
<1>8. TruthInv'
  <2>1. Deleted' = Deleted
    BY <1>1 DEF Deleted, Reported, ResultOf
  <2> QED BY <2>1, <1>1, <1>4 DEF TruthInv
<1> QED BY <1>5, <1>6, <1>7, <1>8

LEMMA BatchMovesToBin ==
  ASSUME BatchInv, NEW t \in selected, MovesToBin(t)
  PROVE  BatchInv'
<1> USE DEF BatchInv
<1>1. /\ worker = "busy" /\ t \notin inBin /\ inBin' = inBin \cup {t}
      /\ t \in selected /\ status[t] = NoResult /\ t \notin binned
      /\ binned' = binned \cup {t} /\ intact' = intact \ {t}
      /\ members' = members /\ selected' = selected /\ status' = status
      /\ rows' = rows /\ stage' = stage /\ plan' = plan /\ approved' = approved
      /\ results' = results /\ worker' = worker /\ untold' = untold
  BY DEF MovesToBin, Recycle, Unanswered, tableVars, batchVars
<1>2. selected \subseteq Files
  <2>1. Len(results) + 1 \in DOMAIN plan
    BY <1>1, NextPlanned DEF RequestInv
  <2> QED BY <2>1, <1>1, PlanFacts DEF RequestInv
<1>3. TypeInv'
  BY <1>1, <1>2 DEF TypeInv
<1>4. TableInv' /\ PlanInv'
  BY <1>1, TableStays
<1>5. RequestInv'
  BY <1>1 DEF RequestInv, Targets
<1>6. TruthInv'
  <2>1. Deleted' = Deleted /\ FilesIn(rows') = FilesIn(rows)
    BY <1>1 DEF Deleted, Reported, ResultOf
  <2>2. stage # "surface"
    BY <1>1 DEF RequestInv
  <2> QED BY <2>1, <2>2, <1>1 DEF TruthInv
<1> QED BY <1>3, <1>4, <1>5, <1>6

LEMMA BatchFinishesItem ==
  ASSUME BatchInv, NEW t \in selected, NEW s \in Statuses, FinishesItem(t, s)
  PROVE  BatchInv'
<1> USE DEF BatchInv
<1>1. /\ worker = "busy" /\ t \in selected /\ status[t] = NoResult
      /\ status' = [status EXCEPT ![t] = s]
      /\ untold' = IF s # "recycled" THEN untold \cup ({t} \cap binned) ELSE untold
      /\ members' = members /\ selected' = selected /\ intact' = intact /\ binned' = binned
      /\ rows' = rows /\ stage' = stage /\ plan' = plan /\ approved' = approved
      /\ results' = results /\ worker' = worker /\ inBin' = inBin
  BY DEF FinishesItem, Report, Unanswered, tableVars, batchVars
<1>2. TypeInv'
  <2>1. binned \subseteq Files
    BY DEF TruthInv, TypeInv
  <2>2. untold' \subseteq Files
    BY <1>1, <2>1 DEF TypeInv
  <2>3. status' \in [members' -> Statuses \cup {NoResult}]
    BY <1>1 DEF TypeInv
  <2> QED BY <2>2, <2>3, <1>1 DEF TypeInv
<1>3. TableInv' /\ PlanInv'
  BY <1>1, TableStays
<1>4. RequestInv'
  BY <1>1 DEF RequestInv, Targets
<1>5. TruthInv'
  <2>1. Deleted' = Deleted /\ FilesIn(rows') = FilesIn(rows)
    BY <1>1 DEF Deleted, Reported, ResultOf
  <2>2. ASSUME NEW f \in FilesIn(rows) \cap inBin
        PROVE  \/ f \in untold' \cup Deleted
               \/ f \in binned /\ status'[f] \in {NoResult, "recycled"}
    <3>1. CASE f = t
      <4>1. f \in DOMAIN status
        <5>1. Len(results) + 1 \in DOMAIN plan
          BY <1>1, NextPlanned DEF RequestInv
        <5>2. selected \subseteq members
          BY <5>1, <1>1, PlanFacts DEF RequestInv
        <5> QED BY <3>1, <5>2 DEF TypeInv
      <4>2. status'[f] = s
        BY <4>1, <3>1, <1>1
      <4>3. f \in untold \cup Deleted \/ f \in binned
        BY DEF TruthInv
      <4> QED BY <4>2, <4>3, <3>1, <1>1
    <3>2. CASE f # t
      <4>1. status'[f] = status[f] \/ f \notin binned
        <5>1. Len(results) + 1 \in DOMAIN plan
          BY <1>1, NextPlanned DEF RequestInv
        <5>2. binned \subseteq members
          BY <5>1, <1>1, PlanFacts DEF RequestInv, TruthInv
        <5> QED BY <3>2, <5>2, <1>1 DEF TypeInv
      <4> QED BY <4>1, <1>1 DEF TruthInv
    <3> QED BY <3>1, <3>2
  <2> QED BY <2>1, <2>2, <1>1 DEF TruthInv
<1> QED BY <1>2, <1>3, <1>4, <1>5

LEMMA BatchRejectsRequest ==
  ASSUME BatchInv, RejectsRequest
  PROVE  BatchInv'
<1> USE DEF BatchInv
<1>1. /\ worker = "busy" /\ binned = {}
      /\ status' = [m \in members |-> IF m \in selected THEN "failed" ELSE NoResult]
      /\ members' = members /\ selected' = selected /\ intact' = intact /\ binned' = binned
      /\ rows' = rows /\ stage' = stage /\ plan' = plan /\ approved' = approved
      /\ results' = results /\ worker' = worker /\ inBin' = inBin /\ untold' = untold
  BY DEF RejectsRequest, Reject, tableVars, batchVars, fileVars
<1>2. "failed" \in Statuses
  BY BatchAssumption DEF BatchAssumption
<1>3. TypeInv'
  BY <1>1, <1>2 DEF TypeInv
<1>4. TableInv' /\ PlanInv'
  BY <1>1, TableStays
<1>5. RequestInv'
  BY <1>1 DEF RequestInv, Targets
<1>6. TruthInv'
  <2>1. Deleted' = Deleted /\ FilesIn(rows') = FilesIn(rows)
    BY <1>1 DEF Deleted, Reported, ResultOf
  <2> QED BY <2>1, <1>1 DEF TruthInv
<1> QED BY <1>3, <1>4, <1>5, <1>6

\* The results are about different files, and Deleted reads them file by file.
LEMMA DeletedOf ==
  ASSUME NEW r, NEW p, PlanOf(p, rows), DOMAIN r \subseteq DOMAIN p,
         \A n \in DOMAIN r : DOMAIN r[n] = p[n].selected
  PROVE  \A n \in DOMAIN r : \A f \in DOMAIN r[n] :
           (CHOOSE x \in ToSet(r) : f \in DOMAIN x)[f] = r[n][f]
<1>1. \A m, n \in DOMAIN r : m # n => DOMAIN r[m] \cap DOMAIN r[n] = {}
  BY DEF PlanOf
<1> QED BY <1>1, OneResult

LEMMA BatchRequestReturns ==
  ASSUME BatchInv, RequestReturns
  PROVE  BatchInv'
<1> USE DEF BatchInv
<1> DEFINE n == Len(results) + 1
           told == [f \in selected |-> status[f]]
<1>1. /\ worker = "busy" /\ worker' = "idle"
      /\ \A f \in selected : status[f] # NoResult
      /\ results' = Append(results, told)
      /\ members' = {} /\ selected' = {} /\ binned' = {} /\ status' = [m \in {} |-> NoResult]
      /\ intact' = intact
      /\ rows' = rows /\ stage' = stage /\ plan' = plan /\ approved' = approved
      /\ inBin' = inBin /\ untold' = untold
  BY DEF RequestReturns, RequestDone, Unanswered, tableVars, fileVars
<1>2. /\ Len(results) < Len(plan) /\ n \in DOMAIN plan /\ n \in Nat
      /\ members = plan[n].files /\ selected = plan[n].selected
      /\ selected \subseteq members /\ members \subseteq Files
  <2>1. Len(results) < Len(plan) /\ members = plan[n].files /\ selected = plan[n].selected
    BY <1>1 DEF RequestInv
  <2>2. n \in DOMAIN plan
    BY <2>1, NextPlanned
  <2> QED BY <2>1, <2>2, PlanFacts
<1>3. told \in Outcome
  <2>1. \A f \in selected : status[f] \in Statuses
    BY <1>1, <1>2 DEF TypeInv
  <2>2. told \in [selected -> Statuses] /\ selected \in SUBSET Files
    BY <2>1, <1>2
  <2> HIDE DEF told
  <2> QED BY <2>2 DEF Outcome
<1>4. /\ results \in Seq(Outcome) /\ Len(results) \in Nat /\ DOMAIN results = 1..Len(results)
      /\ plan \in Seq(PlanGroup) /\ Len(plan) \in Nat /\ DOMAIN plan = 1..Len(plan)
  BY LenProperties DEF TypeInv
<1>5. DOMAIN told = selected /\ \A f \in selected : told[f] = status[f]
  OBVIOUS
<1> HIDE DEF told
<1>6. /\ results' \in Seq(Outcome) /\ Len(results') = n
      /\ DOMAIN results' = 1..n /\ results'[n] = told
      /\ \A m \in DOMAIN results : results'[m] = results[m]
  <2>1. /\ results' \in Seq(Outcome) /\ Len(results') = n /\ results'[n] = told
        /\ \A m \in 1..Len(results) : results'[m] = results[m]
    BY <1>1, <1>3, <1>4, AppendProperties
  <2> QED BY <2>1, <1>4, LenProperties
<1>7. TypeInv'
  BY <1>1, <1>6 DEF TypeInv
<1>8. TableInv' /\ PlanInv'
  BY <1>1, TableStays
<1>9. ASSUME NEW m \in DOMAIN results'
      PROVE  DOMAIN results'[m] = plan[m].selected
  <2>1. m \in DOMAIN results \/ m = n
    BY <1>4, <1>6
  <2> QED BY <2>1, <1>2, <1>5, <1>6 DEF RequestInv
<1>10. RequestInv'
  <2>1. Len(results') <= Len(plan)
    BY <1>2, <1>4, <1>6
  <2> QED BY <2>1, <1>1, <1>9 DEF RequestInv, Targets
<1>11. ASSUME NEW m \in DOMAIN results', NEW f \in DOMAIN results'[m],
              results'[m][f] = "recycled"
       PROVE  f \in Deleted'
  <2>1. DOMAIN results' \subseteq DOMAIN plan /\ PlanOf(plan, rows)
    BY <1>2, <1>4, <1>6 DEF PlanInv
  <2>2. (CHOOSE x \in ToSet(results') : f \in DOMAIN x)[f] = results'[m][f]
    BY <2>1, <1>9, DeletedOf
  <2> QED BY <2>2, <1>11 DEF Deleted, Reported, ResultOf
<1>12. Deleted \subseteq Deleted'
  <2>1. SUFFICES ASSUME NEW f \in Deleted PROVE f \in Deleted'
    OBVIOUS
  <2>2. PICK m \in DOMAIN results : f \in DOMAIN results[m]
    BY DEF Deleted, Reported
  <2>3. DOMAIN results \subseteq DOMAIN plan /\ PlanOf(plan, rows)
    BY <1>2, <1>4 DEF PlanInv
  <2>4. \A k \in DOMAIN results : DOMAIN results[k] = plan[k].selected
    BY DEF RequestInv
  <2>5. (CHOOSE x \in ToSet(results) : f \in DOMAIN x)[f] = results[m][f]
    BY <2>2, <2>3, <2>4, DeletedOf
  <2>6. results[m][f] = "recycled"
    BY <2>1, <2>5 DEF Deleted, ResultOf
  <2>7. m \in DOMAIN results' /\ results'[m] = results[m]
    BY <2>2, <1>2, <1>4, <1>6
  <2> QED BY <2>2, <2>6, <2>7, <1>11
<1>13. TruthInv'
  <2>1. ASSUME NEW f \in FilesIn(rows) \cap inBin
        PROVE  f \in untold \cup Deleted'
    <3>1. CASE f \in untold \cup Deleted
      BY <3>1, <1>12
    <3>2. CASE f \in binned /\ status[f] \in {NoResult, "recycled"}
      <4>1. f \in selected
        BY <3>2 DEF TruthInv
      <4>2. status[f] = "recycled"
        BY <4>1, <3>2, <1>1
      <4>3. n \in DOMAIN results' /\ f \in DOMAIN results'[n] /\ results'[n][f] = "recycled"
        BY <4>1, <4>2, <1>2, <1>4, <1>5, <1>6
      <4> QED BY <4>3, <1>11
    <3> QED BY <3>1, <3>2 DEF TruthInv
  <2>2. FilesIn(rows') = FilesIn(rows)
    BY <1>1
  <2> QED BY <2>1, <2>2, <1>1 DEF TruthInv
<1> QED BY <1>7, <1>8, <1>10, <1>13

LEMMA BatchPanics ==
  ASSUME BatchInv, Panics
  PROVE  BatchInv'
<1> USE DEF BatchInv
<1>1. /\ worker = "busy" /\ worker' = "returned" /\ untold' = untold \cup binned
      /\ members' = {} /\ selected' = {} /\ binned' = {} /\ status' = [m \in {} |-> NoResult]
      /\ intact' = intact
      /\ rows' = rows /\ stage' = stage /\ plan' = plan /\ approved' = approved
      /\ results' = results /\ inBin' = inBin
  BY DEF Panics, RequestDone, tableVars
<1>2. TypeInv'
  <2>1. binned \subseteq Files
    BY DEF TruthInv, TypeInv
  <2> QED BY <2>1, <1>1 DEF TypeInv
<1>3. TableInv' /\ PlanInv'
  BY <1>1, TableStays
<1>4. RequestInv'
  BY <1>1 DEF RequestInv, Targets
<1>5. TruthInv'
  <2>1. Deleted' = Deleted /\ FilesIn(rows') = FilesIn(rows)
    BY <1>1 DEF Deleted, Reported, ResultOf
  <2> QED BY <2>1, <1>1 DEF TruthInv
<1> QED BY <1>2, <1>3, <1>4, <1>5

LEMMA BatchGoroutineEnds ==
  ASSUME BatchInv, BatchReturns
  PROVE  BatchInv'
<1> USE DEF BatchInv
<1>1. /\ worker = "idle" /\ worker' = "returned"
      /\ members' = members /\ selected' = selected /\ binned' = binned /\ status' = status
      /\ intact' = intact
      /\ rows' = rows /\ stage' = stage /\ plan' = plan /\ approved' = approved
      /\ results' = results /\ inBin' = inBin /\ untold' = untold
  BY DEF BatchReturns, tableVars, fileVars, requestVars
<1>2. TypeInv'
  BY <1>1 DEF TypeInv
<1>3. TableInv' /\ PlanInv'
  BY <1>1, TableStays
<1>4. RequestInv'
  BY <1>1 DEF RequestInv, Targets
<1>5. TruthInv'
  <2>1. Deleted' = Deleted /\ FilesIn(rows') = FilesIn(rows)
    BY <1>1 DEF Deleted, Reported, ResultOf
  <2> QED BY <2>1, <1>1 DEF TruthInv
<1> QED BY <1>2, <1>3, <1>4, <1>5

LEMMA BatchOutsideChange ==
  ASSUME BatchInv, NEW f \in Files, OutsideChange(f)
  PROVE  BatchInv'
<1> USE DEF BatchInv
<1>1. /\ f \notin inBin
      /\ intact' = IF f \in intact THEN intact \ {f} ELSE intact \cup {f}
      /\ members' = members /\ selected' = selected /\ binned' = binned /\ status' = status
      /\ rows' = rows /\ stage' = stage /\ plan' = plan /\ approved' = approved
      /\ results' = results /\ worker' = worker /\ inBin' = inBin /\ untold' = untold
  BY DEF OutsideChange, tableVars, batchVars
<1>2. TypeInv'
  BY <1>1 DEF TypeInv
<1>3. TableInv' /\ PlanInv'
  BY <1>1, TableStays
<1>4. RequestInv'
  BY <1>1 DEF RequestInv, Targets
<1>5. TruthInv'
  <2>1. Deleted' = Deleted /\ FilesIn(rows') = FilesIn(rows)
    BY <1>1 DEF Deleted, Reported, ResultOf
  <2> QED BY <2>1, <1>1 DEF TruthInv
<1> QED BY <1>2, <1>3, <1>4, <1>5

-----------------------------------------------------------------------------
(* The completion.                                                         *)

LEMMA ResultsTyped ==
  ASSUME BatchInv, NEW f \in Reported
  PROVE  /\ ResultOf(f) \in Statuses
         /\ \E n \in DOMAIN plan : n \in DOMAIN results /\ f \in plan[n].selected
<1> USE DEF BatchInv
<1>1. PICK n \in DOMAIN results : f \in DOMAIN results[n]
  BY DEF Reported
<1>2. /\ results \in Seq(Outcome) /\ DOMAIN results = 1..Len(results) /\ Len(results) \in Nat
      /\ plan \in Seq(PlanGroup) /\ DOMAIN plan = 1..Len(plan) /\ Len(plan) \in Nat
      /\ Len(results) <= Len(plan)
  BY LenProperties DEF TypeInv, RequestInv
<1>3. DOMAIN results \subseteq DOMAIN plan
  BY <1>2
<1>4. ResultOf(f) = results[n][f]
  <2>1. \A m \in DOMAIN results : DOMAIN results[m] = plan[m].selected
    BY DEF RequestInv
  <2>2. PlanOf(plan, rows)
    BY DEF PlanInv
  <2> QED BY <1>1, <1>3, <2>1, <2>2, DeletedOf DEF ResultOf
<1>5. results[n] \in Outcome
  BY <1>2
<1>6. results[n][f] \in Statuses
  BY <1>1, <1>5 DEF Outcome
<1>7. f \in plan[n].selected
  BY <1>1 DEF RequestInv
<1> QED BY <1>1, <1>3, <1>4, <1>6, <1>7

LEMMA MarkedRow ==
  ASSUME BatchInv, NEW r \in Row
  PROVE  /\ Marked(r) \in Row
         /\ Marked(r).number = r.number /\ Marked(r).group = r.group
         /\ Marked(r).key = r.key /\ Marked(r).duplicate = r.duplicate
         /\ Marked(r).file = r.file
         /\ r.file \in Reported \ Deleted =>
              Marked(r).status = RetainedStatus[ResultOf(r.file)]
<1> DEFINE mark == IF r.file \in Reported \ Deleted
                   THEN RetainedStatus[ResultOf(r.file)] ELSE r.status
<1>1. ASSUME NEW f \in Reported \ Deleted
      PROVE  RetainedStatus[ResultOf(f)] \in Shown
  <2>1. ResultOf(f) \in Statuses /\ ResultOf(f) # "recycled"
    BY ResultsTyped DEF Deleted
  <2>2. ResultOf(f) \in {"changed", "protected", "cancelled", "failed"}
    BY <2>1, BatchAssumption DEF BatchAssumption
  <2>3. /\ RetainedStatus["changed"] = "Changed - kept"
        /\ RetainedStatus["protected"] = "Protected - kept"
        /\ RetainedStatus["cancelled"] = "Cancelled - kept"
        /\ RetainedStatus["failed"] = "Recycle failed - kept"
    BY DEF RetainedStatus
  <2> QED BY <2>2, <2>3 DEF Shown
<1>2. mark \in Shown
  BY <1>1 DEF Row
<1>3. Marked(r) = [r EXCEPT !.selected = FALSE, !.status = mark]
  BY DEF Marked
<1> HIDE DEF mark
<1>4. /\ [r EXCEPT !.selected = FALSE, !.status = mark] \in Row
      /\ Marked(r).status = mark
  BY <1>2, <1>3 DEF Row
<1>5. /\ Marked(r).number = r.number /\ Marked(r).group = r.group
      /\ Marked(r).key = r.key /\ Marked(r).duplicate = r.duplicate
      /\ Marked(r).file = r.file
  BY <1>3 DEF Row
<1> QED BY <1>3, <1>4, <1>5 DEF mark

MarkedRows == [i \in DOMAIN rows |-> Marked(rows[i])]

LEMMA MarkedTable ==
  ASSUME BatchInv, stage # "surface"
  PROVE  /\ MarkedRows \in Seq(Row) /\ DOMAIN MarkedRows = DOMAIN rows
         /\ DuplicateTable(MarkedRows) /\ FilesIn(MarkedRows) = FilesIn(rows)
         /\ \A i \in DOMAIN rows :
              /\ MarkedRows[i].file = rows[i].file /\ MarkedRows[i].key = rows[i].key
              /\ rows[i].file \in Reported \ Deleted =>
                   MarkedRows[i].status = RetainedStatus[ResultOf(rows[i].file)]
<1>1. rows \in Seq(Row) /\ DOMAIN rows = 1..Len(rows) /\ Len(rows) \in Nat
  BY LenProperties DEF BatchInv, TypeInv
<1>2. DuplicateTable(rows)
  BY DEF BatchInv, TableInv
<1>3. ASSUME NEW i \in DOMAIN rows
      PROVE  /\ MarkedRows[i] = Marked(rows[i])
             /\ rows[i] \in Row
  <2>1. rows[i] \in Row
    BY <1>1, RowIsRow
  <2> QED BY <2>1 DEF MarkedRows
<1>4. DOMAIN MarkedRows = DOMAIN rows
  BY DEF MarkedRows
<1>5. ASSUME NEW i \in DOMAIN rows
      PROVE  /\ MarkedRows[i] \in Row
             /\ MarkedRows[i].number = rows[i].number /\ MarkedRows[i].group = rows[i].group
             /\ MarkedRows[i].key = rows[i].key
             /\ MarkedRows[i].duplicate = rows[i].duplicate
             /\ MarkedRows[i].file = rows[i].file
             /\ rows[i].file \in Reported \ Deleted =>
                  MarkedRows[i].status = RetainedStatus[ResultOf(rows[i].file)]
  BY <1>3, MarkedRow
<1>6. MarkedRows \in Seq(Row)
  <2>1. MarkedRows \in [1..Len(rows) -> Row]
    <3>1. MarkedRows = [i \in 1..Len(rows) |-> MarkedRows[i]]
      BY <1>1 DEF MarkedRows
    <3> QED BY <3>1, <1>1, <1>5
  <2> QED BY <2>1, <1>1, FunctionIsSeq
<1>7. DuplicateTable(MarkedRows) /\ FilesIn(MarkedRows) = FilesIn(rows)
  BY <1>1, <1>2, <1>4, <1>5, Reselected
<1> QED BY <1>4, <1>5, <1>6, <1>7

LEMMA BatchApply ==
  ASSUME BatchInv, ApplyRecycleBatch
  PROVE  BatchInv'
<1> USE DEF BatchInv
<1>1. /\ worker = "returned" /\ worker' = "none" /\ stage' = "ready"
      /\ plan' = <<>> /\ results' = <<>>
      /\ rows' = RemoveDeleted(MarkedRows, Deleted)
      /\ approved' = approved /\ inBin' = inBin /\ untold' = untold
      /\ members' = members /\ selected' = selected /\ intact' = intact
      /\ binned' = binned /\ status' = status
  BY DEF ApplyRecycleBatch, BatchApplied, MarkedRows, fileVars, requestVars
<1>2. stage = "deleting" /\ members = {} /\ selected = {} /\ binned = {}
  BY <1>1 DEF RequestInv, TruthInv
<1>3. /\ MarkedRows \in Seq(Row) /\ DuplicateTable(MarkedRows)
      /\ FilesIn(MarkedRows) = FilesIn(rows)
  BY <1>2, MarkedTable
<1>4. /\ rows' \in Seq(Row) /\ DuplicateTable(rows')
      /\ \A f \in FilesIn(rows') : f \notin Deleted /\ f \in FilesIn(rows)
  BY <1>1, <1>3, RemovedRows, RemovedTable
<1>5. <<>> \in Seq(PlanGroup) /\ <<>> \in Seq(Outcome) /\ Len(<<>>) = 0
  BY EmptySeq
<1>6. TypeInv'
  BY <1>1, <1>4, <1>5 DEF TypeInv
<1>7. TableInv'
  BY <1>1, <1>4 DEF TableInv
<1>8. PlanInv'
  BY <1>1, NothingPlanned DEF PlanInv
<1>9. RequestInv'
  BY <1>1, <1>2, <1>5 DEF RequestInv
<1>10. TruthInv'
  BY <1>1, <1>2, <1>4 DEF TruthInv
<1> QED BY <1>6, <1>7, <1>8, <1>9, <1>10

LEMMA BatchStep ==
  ASSUME BatchInv, [Next]_vars
  PROVE  BatchInv'
<1>1. CASE User
  <2>1. TableInput
    BY <1>1 DEF User
  <2>2. CASE DeleteClicked
    BY <2>2, BatchDeleteClicked
  <2>3. ASSUME NEW yes \in BOOLEAN, Answered(yes)
        PROVE  BatchInv'
    BY <2>3, BatchAnswered
  <2> QED BY <2>1, <2>2, <2>3, BatchTableInput DEF TableInput
<1>2. ASSUME NEW groups \in Scans, ScanFinished(groups)
      PROVE  BatchInv'
  BY <1>2, BatchScanFinished
<1>3. CASE Worker
  <2>1. ASSUME NEW t \in selected, MovesToBin(t) PROVE BatchInv'
    BY <2>1, BatchMovesToBin
  <2>2. ASSUME NEW t \in selected, NEW s \in Statuses, FinishesItem(t, s) PROVE BatchInv'
    BY <2>2, BatchFinishesItem
  <2> QED BY <1>3, <2>1, <2>2, BatchStartRequest, BatchRejectsRequest,
             BatchRequestReturns, BatchPanics, BatchGoroutineEnds DEF Worker
<1>4. CASE ApplyRecycleBatch
  BY <1>4, BatchApply
<1>5. ASSUME NEW f \in Files, OutsideChange(f)
      PROVE  BatchInv'
  BY <1>5, BatchOutsideChange
<1>6. CASE UNCHANGED vars
  <2>1. /\ rows' = rows /\ stage' = stage /\ plan' = plan /\ approved' = approved
        /\ results' = results /\ worker' = worker /\ inBin' = inBin /\ untold' = untold
        /\ members' = members /\ selected' = selected /\ intact' = intact
        /\ binned' = binned /\ status' = status
    BY <1>6 DEF vars, tableVars, batchVars, fileVars, requestVars
  <2>2. Deleted' = Deleted
    BY <2>1 DEF Deleted, Reported, ResultOf
  <2> QED BY <2>1, <2>2 DEF BatchInv, TypeInv, TableInv, PlanInv, RequestInv, Targets, TruthInv
<1> QED BY <1>1, <1>2, <1>3, <1>4, <1>5, <1>6 DEF Next, Terminated

\* Through any number of batches, selections, refusals, panics and changes by
\* other programs, the table keeps its form, the plan is made of whole groups of
\* it, the results are those of the plan's first groups, and of every listed
\* file in the Recycle Bin the table, the results or the request at work know.
THEOREM BatchInvariant == Spec => []BatchInv
<1> QED BY BatchInit, BatchStep, PTL DEF Spec

-----------------------------------------------------------------------------
(* What follows for the table and the files.                               *)

\* Through any sequence of scans, selections and batches the rows stay numbered,
\* no file has two, and the groups are numbered in order, contiguous, of one key
\* and of at least two rows: setGroups makes them so and removeDeleted keeps it.
THEOREM TableWellFormed == Spec => []RowsWellFormed
<1>1. BatchInv => RowsWellFormed
  <2> SUFFICES ASSUME BatchInv PROVE RowsWellFormed
    OBVIOUS
  <2>1. CASE stage = "surface"
    BY <2>1 DEF BatchInv, TableInv, SurfaceTable, RowsWellFormed
  <2>2. CASE stage # "surface"
    BY <2>2 DEF BatchInv, TableInv, DuplicateTable, RowsWellFormed
  <2> QED BY <2>1, <2>2
<1> QED BY <1>1, BatchInvariant, PTL

\* Between batches the table lists no file that is in the Recycle Bin, unless its
\* own result failed to say so or was lost in a panic.
THEOREM TableIsAlwaysTrue == Spec => []TableIsTrue
<1>1. BatchInv => TableIsTrue
  <2> SUFFICES ASSUME BatchInv, stage # "deleting"
               PROVE  FilesIn(rows) \cap inBin \subseteq untold
    BY DEF TableIsTrue
  <2>1. worker = "none" /\ results = <<>> /\ selected = {}
    BY DEF BatchInv, RequestInv
  <2>2. Deleted = {} /\ binned = {}
    BY <2>1, NoResults DEF BatchInv, TruthInv
  <2> QED BY <2>2 DEF BatchInv, TruthInv
<1> QED BY <1>1, BatchInvariant, PTL

LEMMA OnlyRecycleMovesFiles ==
  ASSUME BatchInv, [Next]_vars, inBin' # inBin
  PROVE  \E t \in selected : MovesToBin(t)
<1>1. ~UNCHANGED vars
  BY DEF vars, fileVars
<1>2. CASE User
  <2>1. CASE DeleteClicked
    BY <2>1 DEF DeleteClicked, fileVars
  <2>2. ASSUME NEW yes \in BOOLEAN, Answered(yes) PROVE FALSE
    <3>1. CASE yes
      BY <2>2, <3>1 DEF Answered, StartBatch, fileVars
    <3>2. CASE ~yes
      BY <2>2, <3>2 DEF Answered, fileVars
    <3> QED BY <3>1, <3>2
  <2>3. ASSUME NEW s, TableChanged(s) PROVE FALSE
    BY <2>3 DEF TableChanged, fileVars
  <2> QED BY <1>2, <2>1, <2>2, <2>3
          DEF User, TableInput, SetChecked, SelectAllExcept, ClearSelection
<1>3. ASSUME NEW groups \in Scans, ScanFinished(groups) PROVE FALSE
  BY <1>3 DEF ScanFinished, fileVars
<1>4. CASE Worker
  BY <1>4 DEF Worker, StartRequest, FinishesItem, RejectsRequest, RequestReturns,
              Panics, BatchReturns, fileVars
<1>5. CASE ApplyRecycleBatch
  BY <1>5 DEF ApplyRecycleBatch, fileVars
<1>6. ASSUME NEW f \in Files, OutsideChange(f) PROVE FALSE
  BY <1>6 DEF OutsideChange
<1> QED BY <1>1, <1>2, <1>3, <1>4, <1>5, <1>6 DEF Next, Terminated

\* Only what a confirmation listed and the user agreed to is ever recycled, and
\* then a file that the confirmation showed as kept is in place and outside the
\* bin: the results of earlier batches, true or not, do not weaken it.
THEOREM OnlyConfirmedRecycled == Spec => RecycledAsConfirmed
<1> DEFINE Confirmed ==
      \A f \in inBin' \ inBin :
        /\ f \in approved
        /\ \E n \in DOMAIN plan :
             /\ f \in plan[n].selected
             /\ ((plan[n].files \ plan[n].selected) \cap intact') \ inBin' # {}
<1>1. ASSUME BatchInv, [Next]_vars PROVE Confirmed
  <2>1. SUFFICES ASSUME NEW f \in inBin' \ inBin
                 PROVE  /\ f \in approved
                        /\ \E n \in DOMAIN plan :
                             /\ f \in plan[n].selected
                             /\ ((plan[n].files \ plan[n].selected) \cap intact') \ inBin' # {}
    OBVIOUS
  <2>2. PICK t \in selected : MovesToBin(t)
    BY <1>1, <2>1, OnlyRecycleMovesFiles
  <2>3. /\ worker = "busy" /\ inBin' = inBin \cup {t} /\ intact' = intact \ {t}
        /\ (members \ selected) \cap intact # {}
    BY <2>2 DEF MovesToBin, Recycle
  <2>4. f = t
    BY <2>1, <2>3
  <2> DEFINE n == Len(results) + 1
  <2>5. n \in DOMAIN plan /\ members = plan[n].files /\ selected = plan[n].selected
    BY <1>1, <2>3, NextPlanned DEF BatchInv, RequestInv
  <2>6. PICK kept \in (members \ selected) \cap intact : TRUE
    BY <2>3
  <2>7. kept \in intact' /\ kept \notin inBin'
    BY <1>1, <2>3, <2>6 DEF BatchInv, TruthInv
  <2>8. f \in approved
    BY <1>1, <2>3, <2>4, <2>5 DEF BatchInv, RequestInv, Targets
  <2> HIDE DEF n
  <2> QED BY <2>4, <2>5, <2>6, <2>7, <2>8
<1>2. ASSUME BatchInv, [Next]_vars PROVE [Confirmed]_vars
  BY <1>1, <1>2
<1> QED BY <1>2, BatchInvariant, PTL DEF Spec, RecycledAsConfirmed

LEMMA OnlyCompletionChangesTable ==
  ASSUME BatchInv, [Next]_vars, stage = "deleting"
  PROVE  ApplyRecycleBatch \/ (rows' = rows /\ stage' = stage)
<1>1. CASE UNCHANGED vars
  BY <1>1 DEF vars, tableVars
<1>2. ~User
  BY DEF User, TableInput, SetChecked, SelectAllExcept, ClearSelection, DeleteClicked,
         Answered, Reviewable, ResultActions
<1>3. \A groups \in Scans : ~ScanFinished(groups)
  BY DEF ScanFinished
<1>4. CASE Worker
  BY <1>4 DEF Worker, StartRequest, MovesToBin, FinishesItem, RejectsRequest,
              RequestReturns, Panics, BatchReturns, tableVars
<1>5. ASSUME NEW f \in Files, OutsideChange(f) PROVE rows' = rows /\ stage' = stage
  BY <1>5 DEF OutsideChange, tableVars
<1> QED BY <1>1, <1>2, <1>3, <1>4, <1>5 DEF Next, Terminated

LEMMA RowOfFile ==
  ASSUME BatchInv, stage # "surface", NEW f \in FilesIn(rows)
  PROVE  \E i \in DOMAIN rows : rows[i].file = f /\ rows[i].key = KeyOf[f]
BY DEF BatchInv, TableInv, DuplicateTable, FilesIn

\* What the completion leaves: a file goes when it is deleted, or when its group
\* has no other left.
LEMMA LeavesForReason ==
  ASSUME BatchInv, ApplyRecycleBatch, NEW f \in FilesIn(rows) \ FilesIn(rows'),
         NEW g \in FilesIn(rows) \ {f}, KeyOf[g] = KeyOf[f], f \notin Deleted
  PROVE  g \in Deleted
<1>1. stage # "surface" /\ rows' = RemoveDeleted(MarkedRows, Deleted)
  BY DEF ApplyRecycleBatch, BatchApplied, MarkedRows, BatchInv, RequestInv
<1>2. /\ MarkedRows \in Seq(Row) /\ DOMAIN MarkedRows = DOMAIN rows
      /\ \A i \in DOMAIN rows :
           MarkedRows[i].file = rows[i].file /\ MarkedRows[i].key = rows[i].key
  BY <1>1, MarkedTable
<1>3. PICK i \in DOMAIN rows : rows[i].file = f /\ rows[i].key = KeyOf[f]
  BY <1>1, RowOfFile
<1>4. PICK j \in DOMAIN rows : rows[j].file = g /\ rows[j].key = KeyOf[g]
  BY <1>1, RowOfFile
<1>5. i \notin Staying(MarkedRows, Deleted)
  <2>1. SUFFICES ASSUME i \in Staying(MarkedRows, Deleted) PROVE FALSE
    OBVIOUS
  <2>2. PICK n \in DOMAIN rows' : rows'[n].file = MarkedRows[i].file
    BY <1>1, <1>2, <2>1, RemovedRows
  <2> QED BY <2>2, <1>2, <1>3 DEF FilesIn
<1>6. ~\E k \in DOMAIN MarkedRows :
         k # i /\ MarkedRows[k].key = MarkedRows[i].key /\ MarkedRows[k].file \notin Deleted
  BY <1>2, <1>3, <1>5, StayingRows
<1> QED BY <1>2, <1>3, <1>4, <1>6

\* A file with another result than "recycled" has a kept file beside it, so it
\* stays, and shows its result.
LEMMA StaysWithResult ==
  ASSUME BatchInv, ApplyRecycleBatch, NEW f \in Reported \ Deleted
  PROVE  \E i \in DOMAIN rows' :
           rows'[i].file = f /\ rows'[i].status = RetainedStatus[ResultOf(f)]
<1>1. stage # "surface" /\ rows' = RemoveDeleted(MarkedRows, Deleted)
  BY DEF ApplyRecycleBatch, BatchApplied, MarkedRows, BatchInv, RequestInv
<1>2. /\ MarkedRows \in Seq(Row) /\ DOMAIN MarkedRows = DOMAIN rows
      /\ \A i \in DOMAIN rows :
           /\ MarkedRows[i].file = rows[i].file /\ MarkedRows[i].key = rows[i].key
           /\ rows[i].file \in Reported \ Deleted =>
                MarkedRows[i].status = RetainedStatus[ResultOf(rows[i].file)]
  BY <1>1, MarkedTable
<1>3. PICK n \in DOMAIN plan : f \in plan[n].selected
  BY ResultsTyped
<1>4. /\ plan[n].selected \subseteq plan[n].files /\ plan[n].selected # plan[n].files
      /\ plan[n].files \subseteq FilesIn(rows)
      /\ \A h \in plan[n].files, g \in FilesIn(rows) :
           KeyOf[g] = KeyOf[h] <=> g \in plan[n].files
  BY DEF BatchInv, PlanInv, PlanOf
<1>5. PICK kept \in plan[n].files : kept \notin plan[n].selected
  BY <1>4
<1>6. kept \notin Deleted
  <2>1. SUFFICES ASSUME kept \in Deleted PROVE FALSE
    OBVIOUS
  <2>2. PICK m \in DOMAIN plan : kept \in plan[m].selected
    BY <2>1, ResultsTyped DEF Deleted
  <2>3. m # n /\ kept \in plan[m].files
    BY <1>5, <2>2 DEF BatchInv, PlanInv, PlanOf
  <2> QED BY <1>5, <2>3 DEF BatchInv, PlanInv, PlanOf
<1>7. f \in FilesIn(rows) /\ kept \in FilesIn(rows) /\ KeyOf[kept] = KeyOf[f] /\ kept # f
  BY <1>3, <1>4, <1>5
<1>8. PICK i \in DOMAIN rows : rows[i].file = f /\ rows[i].key = KeyOf[f]
  BY <1>1, <1>7, RowOfFile
<1>9. PICK j \in DOMAIN rows : rows[j].file = kept /\ rows[j].key = KeyOf[kept]
  BY <1>1, <1>7, RowOfFile
<1>10. i \in Staying(MarkedRows, Deleted)
  <2>1. MarkedRows[i].file \notin Deleted
    BY <1>2, <1>8
  <2>2. j # i /\ MarkedRows[j].key = MarkedRows[i].key /\ MarkedRows[j].file \notin Deleted
    BY <1>2, <1>6, <1>7, <1>8, <1>9
  <2> QED BY <1>2, <2>1, <2>2, StayingRows
<1>11. PICK k \in DOMAIN rows' : /\ rows'[k].file = MarkedRows[i].file
                                 /\ rows'[k].status = MarkedRows[i].status
  BY <1>1, <1>2, <1>10, RemovedRows
<1> QED BY <1>2, <1>8, <1>11

\* A file leaves the table only with the result that it is recycled, its own or
\* that of all others of its group; one with any other result stays, and is shown
\* with it: a failure or a refusal is never swept away with the batch.
THEOREM UncertainNeverLost == Spec => UncertainRowsStay
<1> DEFINE Kept ==
      stage = "deleting" =>
        /\ \A f \in FilesIn(rows) \ FilesIn(rows') :
             \/ f \in Deleted
             \/ \A g \in FilesIn(rows) \ {f} : KeyOf[g] = KeyOf[f] => g \in Deleted
        /\ stage' = "ready" =>
             \A f \in Reported \ Deleted : \E i \in DOMAIN rows' :
               rows'[i].file = f /\ rows'[i].status = RetainedStatus[ResultOf(f)]
<1>1. ASSUME BatchInv, [Next]_vars PROVE Kept
  <2> SUFFICES ASSUME stage = "deleting" PROVE Kept
    OBVIOUS
  <2>1. CASE ApplyRecycleBatch
    BY <1>1, <2>1, LeavesForReason, StaysWithResult
  <2>2. CASE rows' = rows /\ stage' = stage
    BY <2>2
  <2> QED BY <1>1, <2>1, <2>2, OnlyCompletionChangesTable
<1>2. ASSUME BatchInv, [Next]_vars PROVE [Kept]_vars
  BY <1>1, <1>2
<1> QED BY <1>2, BatchInvariant, PTL DEF Spec, UncertainRowsStay
-----------------------------------------------------------------------------
(* A batch that nothing disturbs.                                          *)

\* The files with the key of f; they are apart if no two are links to one file.
Mates(f) == {g \in Files : KeyOf[g] = KeyOf[f]}
Apart(S) == \A g, h \in S : g # h => IdentityOf[g] # IdentityOf[h]
Separate(f) == Apart(Mates(f))

\* The user agreed to f, and its request has yet to come or to return.
Awaited(f) ==
  /\ stage = "deleting"
  /\ \E n \in DOMAIN plan : n > Len(results) /\ f \in plan[n].selected

\* As long as nothing goes wrong: what is in the bin was agreed to, what was agreed
\* to is in the bin or still to come unless its group has links, each result says
\* which of the two it was, and a listed file has all others of its key beside it
\* or in the bin.
QuietInv ==
  quiet =>
    /\ untold = {}
    /\ \A f \in inBin : f \in approved /\ Separate(f)
    /\ \A f \in approved : Separate(f) => f \in inBin \/ Awaited(f)
    /\ \A n \in DOMAIN results : \A f \in plan[n].selected :
         IF results[n][f] = "recycled" THEN f \in inBin ELSE ~Separate(f)
    /\ worker = "busy" => \A f \in selected : status[f] # NoResult =>
         IF status[f] = "recycled" THEN f \in inBin ELSE ~Acceptable
    /\ worker = "returned" => Len(results) = Len(plan)
    /\ stage # "surface" => \A f \in FilesIn(rows) : Mates(f) \subseteq FilesIn(rows) \cup inBin

\* As many copies as files: no two of them are links to one file.
LEMMA CopiesApart ==
  ASSUME NEW S, IsFiniteSet(S)
  PROVE  Cardinality(Copies(S)) = Cardinality(S) <=> Apart(S)
<1> DEFINE T == Copies(S)
           identity == [f \in S |-> IdentityOf[f]]
<1>1. identity \in [S -> T] /\ \A f \in S : identity[f] = IdentityOf[f]
  BY DEF Copies
<1>2. \A x \in T : \E f \in S : identity[f] = x
  BY DEF Copies
<1> HIDE DEF identity, T
<1>3. identity \in Surjection(S, T)
  BY <1>1, <1>2 DEF Surjection
<1>4. Cardinality(T) = Cardinality(S) <=> identity \in Injection(S, T)
  BY <1>3, FS_Surjection
<1>5. identity \in Injection(S, T) <=> \A f, g \in S : identity[f] = identity[g] => f = g
  BY <1>1 DEF Injection, IsInjective
<1>6. (\A f, g \in S : identity[f] = identity[g] => f = g) <=> Apart(S)
  BY <1>1 DEF Apart
<1> QED BY <1>4, <1>5, <1>6 DEF T

LEMMA TableFinite ==
  ASSUME BatchInv
  PROVE  IsFiniteSet(FilesIn(rows)) /\ FilesIn(rows) \subseteq Files
<1>1. rows \in Seq(Row) /\ DOMAIN rows = 1..Len(rows) /\ Len(rows) \in Nat
  BY LenProperties DEF BatchInv, TypeInv
<1>2. \A i \in DOMAIN rows : rows[i].file \in Files
  BY <1>1, RowIsRow DEF Row
<1> DEFINE file == [i \in DOMAIN rows |-> rows[i].file]
<1>3. FilesIn(rows) = {file[i] : i \in DOMAIN rows} /\ DOMAIN rows \subseteq DOMAIN file
  BY DEF FilesIn
<1>4. IsFiniteSet(DOMAIN rows)
  BY <1>1, SubsetOfRange
<1> HIDE DEF file
<1>5. IsFiniteSet(FilesIn(rows))
  BY <1>3, <1>4, FiniteImage
<1> QED BY <1>2, <1>5 DEF FilesIn

\* What the request at work names.
LEMMA RequestNames ==
  ASSUME BatchInv, worker = "busy"
  PROVE  /\ stage = "deleting" /\ Len(results) \in Nat /\ Len(results) + 1 \in DOMAIN plan
         /\ members = plan[Len(results) + 1].files
         /\ selected = plan[Len(results) + 1].selected
         /\ selected \subseteq members /\ selected # members
         /\ members \subseteq FilesIn(rows) /\ members \subseteq Files
         /\ selected \subseteq approved
         /\ \A f \in members, g \in FilesIn(rows) : KeyOf[g] = KeyOf[f] <=> g \in members
<1> DEFINE n == Len(results) + 1
<1>1. /\ stage = "deleting" /\ members = plan[n].files /\ selected = plan[n].selected
      /\ Len(results) < Len(plan) /\ Targets(plan) \subseteq approved
  BY DEF BatchInv, RequestInv
<1>2. Len(results) \in Nat /\ n \in DOMAIN plan
  BY <1>1, NextPlanned
<1> HIDE DEF n
<1>3. plan[n].selected \subseteq approved
  BY <1>1, <1>2 DEF Targets
<1>4. PlanOf(plan, rows)
  BY DEF BatchInv, PlanInv
<1>5. members \subseteq Files
  BY <1>1, <1>2, PlanFacts
<1> QED BY <1>1, <1>2, <1>3, <1>4, <1>5 DEF PlanOf, n

\* A request is accepted exactly if its files, those in the bin by now included,
\* are no links.
LEMMA AcceptedIfSeparate ==
  ASSUME BatchInv, QuietInv, quiet, worker = "busy", NEW f \in members
  PROVE  Acceptable <=> Separate(f)
<1>1. /\ selected # members /\ members \subseteq FilesIn(rows) /\ members \subseteq Files
      /\ \A g \in FilesIn(rows) : KeyOf[g] = KeyOf[f] <=> g \in members
      /\ stage = "deleting"
  BY RequestNames
<1>2. IsFiniteSet(members)
  BY <1>1, TableFinite, FS_Subset
<1>3. Acceptable <=> Apart(members)
  BY <1>1, <1>2, CopiesApart DEF Acceptable
<1>4. members \subseteq Mates(f)
  BY <1>1 DEF Mates
<1>5. Separate(f) => Apart(members)
  BY <1>4 DEF Separate, Apart
<1>6. ASSUME NEW g \in Mates(f) \cap inBin PROVE Separate(f)
  <2>1. Separate(g)
    BY <1>6 DEF QuietInv
  <2>2. Mates(g) = Mates(f)
    BY <1>6 DEF Mates
  <2> QED BY <2>1, <2>2 DEF Separate
<1>7. ASSUME Mates(f) \cap inBin = {}, Apart(members) PROVE Separate(f)
  <2>1. Mates(f) \subseteq FilesIn(rows) \cup inBin
    BY <1>1 DEF QuietInv
  <2>2. Mates(f) \subseteq members
    BY <2>1, <1>1, <1>7 DEF Mates
  <2> QED BY <2>2, <1>7 DEF Separate, Apart
<1> QED BY <1>3, <1>5, <1>6, <1>7

LEMMA QuietInit == Init => QuietInv
BY EmptySeq DEF Init, NoRequest, QuietInv

\* The files of a scan's rows are those of its groups, and of each key it lists
\* all or none.
LEMMA GroupRowsFiles ==
  ASSUME NEW groups \in Scans
  PROVE  \A f \in FilesIn(GroupRows(groups)) : Mates(f) \subseteq FilesIn(GroupRows(groups))
<1> DEFINE s == GroupRows(groups)
           places == Places(groups)
<1>1. /\ DOMAIN s = DOMAIN places
      /\ \A i \in DOMAIN places : s[i].file = groups[places[i][1]][places[i][2]]
  BY DEF GroupRows
<1>2. /\ \A i \in DOMAIN places : /\ places[i][1] \in DOMAIN groups
                                  /\ places[i][2] \in DOMAIN groups[places[i][1]]
      /\ \A g \in DOMAIN groups : \A k \in DOMAIN groups[g] :
           \E i \in DOMAIN places : places[i][1] = g /\ places[i][2] = k
  BY PlacesInOrder
<1> HIDE DEF s, places
<1>3. ASSUME NEW f \in FilesIn(s), NEW h \in Mates(f) PROVE h \in FilesIn(s)
  <2>1. PICK i \in DOMAIN places : s[i].file = f
    BY <1>1 DEF FilesIn
  <2> DEFINE g == places[i][1]
             k == places[i][2]
  <2>2. g \in DOMAIN groups /\ k \in DOMAIN groups[g] /\ f = groups[g][k]
    BY <1>1, <1>2, <2>1
  <2> HIDE DEF g, k
  <2>3. h \in Files /\ KeyOf[h] = KeyOf[groups[g][k]]
    BY <2>2 DEF Mates
  <2>4. PICK l \in DOMAIN groups[g] : groups[g][l] = h
    BY <2>2, <2>3, BatchAssumption DEF BatchAssumption
  <2>5. PICK j \in DOMAIN places : places[j][1] = g /\ places[j][2] = l
    BY <1>2, <2>2
  <2>6. s[j].file = h
    BY <1>1, <2>4, <2>5
  <2> QED BY <1>1, <2>5, <2>6 DEF FilesIn
<1> QED BY <1>3 DEF s

LEMMA QuietTableInput ==
  ASSUME BatchInv, QuietInv, TableInput
  PROVE  QuietInv'
<1>1. CASE DeleteClicked
  <2>1. /\ stage = "ready" /\ stage' = "confirm" /\ rows' = rows /\ approved' = approved
        /\ results' = results /\ worker' = worker
        /\ inBin' = inBin /\ untold' = untold /\ quiet' = quiet
    BY <1>1 DEF DeleteClicked, ResultActions, batchVars, fileVars
  <2>2. worker = "none" /\ results = <<>>
    BY <2>1 DEF BatchInv, RequestInv, TypeInv
  <2> QED BY <2>1, <2>2 DEF QuietInv, Awaited
<1>2. ASSUME NEW yes \in BOOLEAN, Answered(yes) PROVE QuietInv'
  <2>1. /\ stage = "confirm" /\ rows' = rows
        /\ inBin' = inBin /\ untold' = untold /\ quiet' = quiet
    BY <1>2 DEF Answered, StartBatch, fileVars
  <2>2. worker = "none" /\ results = <<>>
    BY <2>1 DEF BatchInv, RequestInv, TypeInv
  <2>3. CASE ~yes
    <3>1. stage' = "ready" /\ approved' = approved /\ worker' = worker /\ results' = results
      BY <1>2, <2>3 DEF Answered, batchVars
    <3> QED BY <2>1, <2>2, <3>1 DEF QuietInv, Awaited
  <2>4. CASE yes
    <3>1. /\ stage' = "deleting" /\ worker' = "idle" /\ results' = <<>> /\ plan' = plan
          /\ approved' = approved \cup Targets(plan)
      BY <1>2, <2>4 DEF Answered, StartBatch
    <3>2. Len(results') = 0 /\ \A n \in DOMAIN plan : n > 0
      BY <3>1, EmptySeq, LenProperties DEF BatchInv, TypeInv
    <3>3. \A f \in Targets(plan) : Awaited(f)'
      BY <3>1, <3>2 DEF Targets, Awaited
    <3>4. \A f : ~Awaited(f)
      BY <2>1 DEF Awaited
    <3> QED BY <2>1, <3>1, <3>3, <3>4 DEF QuietInv
  <2> QED BY <2>3, <2>4
<1>3. ASSUME NEW t, TableChanged(t), Reviewable, FilesIn(t) = FilesIn(rows) PROVE QuietInv'
  <2>1. /\ rows' = t /\ stage' = stage /\ plan' = plan /\ approved' = approved
        /\ results' = results /\ worker' = worker
        /\ inBin' = inBin /\ untold' = untold /\ quiet' = quiet
    BY <1>3 DEF TableChanged, batchVars, fileVars
  <2>2. worker = "none" /\ stage # "deleting"
    BY <1>3 DEF BatchInv, RequestInv, Reviewable, TypeInv
  <2>3. FilesIn(rows') = FilesIn(rows)
    BY <1>3, <2>1
  <2> QED BY <2>1, <2>2, <2>3 DEF QuietInv, Awaited
<1>4. rows = [i \in DOMAIN rows |-> rows[i]] /\ \A i \in DOMAIN rows : rows[i] \in Row
  BY RowsAreFunction
<1>5. ASSUME NEW i \in DOMAIN rows, NEW checked \in BOOLEAN, SetChecked(i, checked)
      PROVE  QuietInv'
  <2> DEFINE t == [rows EXCEPT ![i].selected = checked /\ rows[i].duplicate]
  <2>1. Reviewable /\ TableChanged(t)
    BY <1>5 DEF SetChecked
  <2>2. DOMAIN t = DOMAIN rows /\ \A j \in DOMAIN rows : t[j].file = rows[j].file
    BY <1>4 DEF Row
  <2> HIDE DEF t
  <2>3. FilesIn(t) = FilesIn(rows)
    BY <2>2 DEF FilesIn
  <2> QED BY <2>1, <2>3, <1>3
<1>6. ASSUME NEW keepNewest \in BOOLEAN, SelectAllExcept(keepNewest)
      PROVE  QuietInv'
  <2> DEFINE b(i) == rows[i].duplicate /\ KeptRow(rows[i].key, keepNewest) # i
             t == [i \in DOMAIN rows |-> [rows[i] EXCEPT !.selected = b(i)]]
  <2>1. Reviewable /\ TableChanged(t)
    BY <1>6 DEF SelectAllExcept, ResultActions, Reviewable
  <2> HIDE DEF b
  <2>2. DOMAIN t = DOMAIN rows /\ \A j \in DOMAIN rows : t[j].file = rows[j].file
    BY <1>4 DEF Row
  <2> HIDE DEF t
  <2>3. FilesIn(t) = FilesIn(rows)
    BY <2>2 DEF FilesIn
  <2> QED BY <2>1, <2>3, <1>3
<1>7. ASSUME ClearSelection PROVE QuietInv'
  <2> DEFINE t == [i \in DOMAIN rows |-> [rows[i] EXCEPT !.selected = FALSE]]
  <2>1. Reviewable /\ TableChanged(t)
    BY <1>7 DEF ClearSelection, ResultActions, Reviewable
  <2>2. DOMAIN t = DOMAIN rows /\ \A j \in DOMAIN rows : t[j].file = rows[j].file
    BY <1>4 DEF Row
  <2> HIDE DEF t
  <2>3. FilesIn(t) = FilesIn(rows)
    BY <2>2 DEF FilesIn
  <2> QED BY <2>1, <2>3, <1>3
<1> QED BY <1>1, <1>2, <1>5, <1>6, <1>7 DEF TableInput

LEMMA QuietScanFinished ==
  ASSUME BatchInv, QuietInv, NEW groups \in Scans, ScanFinished(groups)
  PROVE  QuietInv'
<1>1. /\ stage = "surface" /\ stage' = "ready" /\ rows' = GroupRows(groups)
      /\ plan' = plan /\ approved' = approved /\ results' = results /\ worker' = worker
      /\ inBin' = inBin /\ untold' = untold /\ quiet' = quiet
  BY DEF ScanFinished, batchVars, fileVars
<1>2. worker = "none"
  BY <1>1 DEF BatchInv, RequestInv, TypeInv
<1>3. \A f \in FilesIn(rows') : Mates(f) \subseteq FilesIn(rows')
  BY <1>1, GroupRowsFiles
<1> QED BY <1>1, <1>2, <1>3 DEF QuietInv, Awaited

LEMMA QuietStartRequest ==
  ASSUME BatchInv, QuietInv, StartRequest
  PROVE  QuietInv'
<1> DEFINE n == Len(results) + 1
<1>1. /\ worker = "idle" /\ Len(results) < Len(plan) /\ worker' = "busy"
      /\ selected' = plan[n].selected
      /\ status' = [f \in plan[n].files |-> NoResult]
      /\ rows' = rows /\ stage' = stage /\ plan' = plan /\ approved' = approved
      /\ results' = results /\ inBin' = inBin /\ untold' = untold /\ quiet' = quiet
  BY DEF StartRequest, tableVars, fileVars
<1>2. plan[n].selected \subseteq plan[n].files
  BY <1>1, NextPlanned, PlanFacts
<1> HIDE DEF n
<1>3. \A f \in selected' : status'[f] = NoResult
  BY <1>1, <1>2
<1> QED BY <1>1, <1>3 DEF QuietInv, Awaited

LEMMA QuietMovesToBin ==
  ASSUME BatchInv, QuietInv, NEW t \in selected, MovesToBin(t)
  PROVE  QuietInv'
<1>1. /\ worker = "busy" /\ Acceptable /\ inBin' = inBin \cup {t}
      /\ members' = members /\ selected' = selected /\ status' = status
      /\ rows' = rows /\ stage' = stage /\ plan' = plan /\ approved' = approved
      /\ results' = results /\ worker' = worker /\ untold' = untold /\ quiet' = quiet
  BY DEF MovesToBin, Recycle, tableVars, batchVars
<1>2. selected \subseteq members /\ selected \subseteq approved
  BY <1>1, RequestNames
<1>3. quiet => Separate(t)
  BY <1>1, <1>2, AcceptedIfSeparate
<1>4. Acceptable'
  BY <1>1 DEF Acceptable
<1> QED BY <1>1, <1>2, <1>3, <1>4 DEF QuietInv, Awaited, Acceptable

LEMMA QuietFinishesItem ==
  ASSUME BatchInv, QuietInv, NEW t \in selected, NEW s \in Statuses, FinishesItem(t, s)
  PROVE  QuietInv'
<1>1. /\ worker = "busy" /\ (s = "recycled" => t \in binned)
      /\ status' = [status EXCEPT ![t] = s]
      /\ untold' = IF s # "recycled" THEN untold \cup ({t} \cap binned) ELSE untold
      /\ quiet' = (quiet /\ s = "recycled")
      /\ members' = members /\ selected' = selected
      /\ rows' = rows /\ stage' = stage /\ plan' = plan /\ approved' = approved
      /\ results' = results /\ worker' = worker /\ inBin' = inBin
  BY DEF FinishesItem, Report, tableVars, batchVars
<1>2. binned \subseteq inBin /\ selected \subseteq DOMAIN status
  BY <1>1, RequestNames DEF BatchInv, TruthInv, TypeInv
<1>3. Acceptable' <=> Acceptable
  BY <1>1 DEF Acceptable
<1>4. status'[t] = s /\ \A f \in selected : f # t => status'[f] = status[f]
  BY <1>1, <1>2
<1> SUFFICES ASSUME quiet' PROVE QuietInv'
  BY DEF QuietInv
<1>5. quiet /\ s = "recycled" /\ t \in inBin /\ untold' = untold
  BY <1>1, <1>2
<1>6. \A f \in selected : status'[f] # NoResult =>
        IF status'[f] = "recycled" THEN f \in inBin ELSE ~Acceptable
  BY <1>1, <1>4, <1>5 DEF QuietInv
<1> QED BY <1>1, <1>3, <1>5, <1>6 DEF QuietInv, Awaited

LEMMA QuietRejectsRequest ==
  ASSUME BatchInv, QuietInv, RejectsRequest
  PROVE  QuietInv'
<1>1. /\ worker = "busy" /\ ~Acceptable
      /\ status' = [m \in members |-> IF m \in selected THEN "failed" ELSE NoResult]
      /\ members' = members /\ selected' = selected
      /\ rows' = rows /\ stage' = stage /\ plan' = plan /\ approved' = approved
      /\ results' = results /\ worker' = worker
      /\ inBin' = inBin /\ untold' = untold /\ quiet' = quiet
  BY DEF RejectsRequest, Reject, tableVars, batchVars, fileVars
<1>2. \A f \in selected : status'[f] = "failed"
  BY <1>1, RequestNames
<1>3. Acceptable' <=> Acceptable
  BY <1>1 DEF Acceptable
<1> QED BY <1>1, <1>2, <1>3 DEF QuietInv, Awaited

LEMMA QuietRequestReturns ==
  ASSUME BatchInv, QuietInv, RequestReturns
  PROVE  QuietInv'
<1> DEFINE n == Len(results) + 1
           told == [f \in selected |-> status[f]]
<1>1. /\ worker = "busy" /\ worker' = "idle"
      /\ \A f \in selected : status[f] # NoResult
      /\ results' = Append(results, told)
      /\ rows' = rows /\ stage' = stage /\ plan' = plan /\ approved' = approved
      /\ inBin' = inBin /\ untold' = untold /\ quiet' = quiet
  BY DEF RequestReturns, RequestDone, Unanswered, tableVars, fileVars
<1>2. /\ Len(results) \in Nat /\ n \in DOMAIN plan
      /\ selected = plan[n].selected /\ selected \subseteq members
  BY <1>1, RequestNames
<1>3. results \in Seq(Outcome) /\ DOMAIN results = 1..Len(results)
  BY LenProperties DEF BatchInv, TypeInv
<1>4. \A f \in selected : told[f] = status[f]
  OBVIOUS
<1>5. told \in Outcome
  <2>1. \A f \in selected : status[f] \in Statuses
    BY <1>1, <1>2 DEF BatchInv, TypeInv
  <2>2. selected \subseteq Files
    BY <1>1, RequestNames
  <2>3. told \in [selected -> Statuses]
    BY <2>1
  <2> HIDE DEF told
  <2> QED BY <2>2, <2>3 DEF Outcome
<1> HIDE DEF told
<1>6. /\ Len(results') = n /\ DOMAIN results' = 1..n /\ results'[n] = told
      /\ \A m \in DOMAIN results : results'[m] = results[m]
  <2>1. /\ results' \in Seq(Outcome) /\ Len(results') = n /\ results'[n] = told
        /\ \A m \in 1..Len(results) : results'[m] = results[m]
    BY <1>1, <1>2, <1>3, <1>5, AppendProperties
  <2> QED BY <2>1, <1>3, LenProperties
<1> SUFFICES ASSUME quiet' PROVE QuietInv'
  BY DEF QuietInv
<1>7. \A f \in selected : Acceptable <=> Separate(f)
  BY <1>1, <1>2, AcceptedIfSeparate
<1>8. \A f \in selected : IF status[f] = "recycled" THEN f \in inBin ELSE ~Separate(f)
  BY <1>1, <1>7 DEF QuietInv
<1>9. ASSUME NEW m \in DOMAIN results', NEW f \in plan[m].selected
      PROVE  IF results'[m][f] = "recycled" THEN f \in inBin ELSE ~Separate(f)
  <2>1. CASE m = n
    BY <1>2, <1>4, <1>6, <1>8, <2>1
  <2>2. CASE m # n
    <3>1. m \in DOMAIN results
      BY <1>2, <1>3, <1>6, <2>2
    <3> QED BY <3>1, <1>1, <1>6 DEF QuietInv
  <2> QED BY <2>1, <2>2
<1>10. ASSUME NEW f \in approved, Separate(f), f \notin inBin PROVE Awaited(f)'
  <2>1. Awaited(f)
    BY <1>1, <1>10 DEF QuietInv
  <2>2. PICK m \in DOMAIN plan : m > Len(results) /\ f \in plan[m].selected
    BY <2>1 DEF Awaited
  <2>3. m # n
    BY <1>2, <1>8, <1>10, <2>2
  <2>4. m \in Nat
    BY PlanFacts
  <2>5. m > Len(results')
    BY <1>2, <1>6, <2>2, <2>3, <2>4
  <2> QED BY <1>1, <2>1, <2>2, <2>5 DEF Awaited
<1> QED BY <1>1, <1>9, <1>10 DEF QuietInv

LEMMA QuietBatchReturns ==
  ASSUME BatchInv, QuietInv, BatchReturns
  PROVE  QuietInv'
<1>1. /\ worker' = "returned" /\ Len(results) = Len(plan)
      /\ rows' = rows /\ stage' = stage /\ plan' = plan /\ approved' = approved
      /\ results' = results /\ inBin' = inBin /\ untold' = untold /\ quiet' = quiet
  BY DEF BatchReturns, tableVars, fileVars
<1> QED BY <1>1 DEF QuietInv, Awaited

LEMMA QuietApply ==
  ASSUME BatchInv, QuietInv, ApplyRecycleBatch
  PROVE  QuietInv'
<1>1. /\ worker = "returned" /\ worker' = "none" /\ stage' = "ready" /\ results' = <<>>
      /\ rows' = RemoveDeleted(MarkedRows, Deleted)
      /\ approved' = approved /\ inBin' = inBin /\ untold' = untold /\ quiet' = quiet
  BY DEF ApplyRecycleBatch, BatchApplied, MarkedRows, fileVars
<1>2. stage = "deleting"
  BY <1>1 DEF BatchInv, RequestInv
<1> SUFFICES ASSUME quiet PROVE QuietInv'
  BY <1>1 DEF QuietInv
<1>3. Deleted \subseteq inBin
  <2>1. SUFFICES ASSUME NEW f \in Deleted PROVE f \in inBin
    OBVIOUS
  <2>2. PICK n \in DOMAIN results : f \in DOMAIN results[n]
    BY DEF Deleted, Reported
  <2>3. DOMAIN results \subseteq DOMAIN plan
    <3>1. /\ Len(results) \in Nat /\ DOMAIN results = 1..Len(results)
          /\ Len(plan) \in Nat /\ DOMAIN plan = 1..Len(plan) /\ Len(results) <= Len(plan)
      BY LenProperties DEF BatchInv, TypeInv, RequestInv
    <3> QED BY <3>1
  <2>4. \A m \in DOMAIN results : DOMAIN results[m] = plan[m].selected
    BY DEF BatchInv, RequestInv
  <2>5. PlanOf(plan, rows)
    BY DEF BatchInv, PlanInv
  <2>6. results[n][f] = "recycled"
    BY <2>1, <2>2, <2>3, <2>4, <2>5, DeletedOf DEF Deleted, ResultOf
  <2> QED BY <2>2, <2>4, <2>6 DEF QuietInv
<1>4. \A f \in FilesIn(rows') : f \notin Deleted /\ f \in FilesIn(rows)
  <2>1. MarkedRows \in Seq(Row) /\ FilesIn(MarkedRows) = FilesIn(rows)
    BY <1>2, MarkedTable
  <2> QED BY <1>1, <2>1, RemovedRows
<1>5. ASSUME NEW f \in FilesIn(rows'), NEW g \in Mates(f), g \notin inBin
      PROVE  g \in FilesIn(rows')
  <2>1. g \in FilesIn(rows) /\ g \notin Deleted
    BY <1>2, <1>3, <1>4, <1>5 DEF QuietInv
  <2>2. KeyOf[f] = KeyOf[g] /\ f \in FilesIn(rows) /\ f \notin Deleted
    BY <1>4, <1>5 DEF Mates
  <2>3. SUFFICES ASSUME g \notin FilesIn(rows') PROVE FALSE
    OBVIOUS
  <2>4. f # g
    BY <1>5, <2>3
  <2> QED BY <2>1, <2>2, <2>3, <2>4, LeavesForReason
<1>6. \A f : ~Awaited(f)
  <2>1. Len(results) = Len(plan)
    BY <1>1 DEF QuietInv
  <2>2. Len(plan) \in Nat /\ DOMAIN plan = 1..Len(plan)
    BY LenProperties DEF BatchInv, TypeInv
  <2> QED BY <2>1, <2>2 DEF Awaited
<1> QED BY <1>1, <1>5, <1>6 DEF QuietInv

LEMMA QuietStep ==
  ASSUME BatchInv, QuietInv, [Next]_vars
  PROVE  QuietInv'
<1>1. CASE User
  BY <1>1, QuietTableInput DEF User
<1>2. ASSUME NEW groups \in Scans, ScanFinished(groups) PROVE QuietInv'
  BY <1>2, QuietScanFinished
<1>3. CASE Worker
  <2>1. ASSUME NEW t \in selected, MovesToBin(t) PROVE QuietInv'
    BY <2>1, QuietMovesToBin
  <2>2. ASSUME NEW t \in selected, NEW s \in Statuses, FinishesItem(t, s) PROVE QuietInv'
    BY <2>2, QuietFinishesItem
  <2>3. ASSUME Panics PROVE QuietInv'
    BY <2>3 DEF Panics, QuietInv
  <2> QED BY <1>3, <2>1, <2>2, <2>3, QuietStartRequest, QuietRejectsRequest,
             QuietRequestReturns, QuietBatchReturns DEF Worker
<1>4. ASSUME NEW f \in Files, OutsideChange(f) PROVE QuietInv'
  BY <1>4 DEF OutsideChange, QuietInv
<1>5. CASE UNCHANGED vars
  BY <1>5 DEF vars, tableVars, batchVars, fileVars, requestVars, QuietInv, Awaited, Acceptable
<1> QED BY <1>1, <1>2, <1>3, <1>4, <1>5, QuietApply DEF Next, Terminated

LEMMA QuietCarriedOut ==
  ASSUME BatchInv, QuietInv
  PROVE  QuietBatchIsCarriedOut
<1> SUFFICES ASSUME quiet, stage = "ready" PROVE QuietBatchIsCarriedOut
  BY DEF QuietBatchIsCarriedOut
<1> DEFINE separate == {f \in approved : \A g, h \in Files :
                          /\ KeyOf[f] = KeyOf[g] /\ KeyOf[g] = KeyOf[h] /\ g # h
                          => IdentityOf[g] # IdentityOf[h]}
           left(key) == {f \in Files \ inBin : KeyOf[f] = key}
<1>1. inBin = separate
  <2>1. \A f \in Files : (\A g, h \in Files :
                            /\ KeyOf[f] = KeyOf[g] /\ KeyOf[g] = KeyOf[h] /\ g # h
                            => IdentityOf[g] # IdentityOf[h]) <=> Separate(f)
    BY DEF Separate, Apart, Mates
  <2>2. approved \subseteq Files
    BY DEF BatchInv, TypeInv
  <2>3. \A f \in approved : ~Awaited(f)
    BY DEF Awaited
  <2> QED BY <2>1, <2>2, <2>3 DEF QuietInv
<1> HIDE DEF separate
<1>2. FilesIn(rows) \cap inBin = {}
  <2>1. worker = "none" /\ results = <<>> /\ selected = {}
    BY DEF BatchInv, RequestInv
  <2>2. Deleted = {} /\ binned = {}
    BY <2>1, NoResults DEF BatchInv, TruthInv
  <2> QED BY <2>2 DEF BatchInv, TruthInv, QuietInv
<1>3. /\ rows \in Seq(Row)
      /\ \A i \in DOMAIN rows : /\ rows[i].file \in Files
                                /\ rows[i].key = KeyOf[rows[i].file]
                                /\ Cardinality(RowsOf(rows, rows[i].key)) >= 2
      /\ \A i, j \in DOMAIN rows : rows[i].file = rows[j].file => i = j
  <2>1. rows \in Seq(Row) /\ DuplicateTable(rows)
    BY DEF BatchInv, TypeInv, TableInv
  <2>2. \A i \in DOMAIN rows : rows[i].file \in Files
    BY RowsAreFunction DEF Row
  <2> QED BY <2>1, <2>2 DEF DuplicateTable
<1>4. ASSUME NEW i \in DOMAIN rows
      PROVE  left(rows[i].key) = {rows[j].file : j \in RowsOf(rows, rows[i].key)}
  <2>1. ASSUME NEW f \in left(rows[i].key)
        PROVE  \E j \in RowsOf(rows, rows[i].key) : f = rows[j].file
    <3>1. f \in Files /\ f \notin inBin /\ KeyOf[f] = KeyOf[rows[i].file]
      BY <1>3
    <3>2. f \in Mates(rows[i].file) /\ rows[i].file \in FilesIn(rows)
      BY <3>1 DEF Mates, FilesIn
    <3>3. f \in FilesIn(rows)
      BY <3>1, <3>2 DEF QuietInv
    <3>4. PICK j \in DOMAIN rows : rows[j].file = f
      BY <3>3 DEF FilesIn
    <3>5. rows[j].key = rows[i].key
      BY <1>3, <3>1, <3>4
    <3> QED BY <3>4, <3>5 DEF RowsOf
  <2>2. ASSUME NEW j \in RowsOf(rows, rows[i].key)
        PROVE  rows[j].file \in left(rows[i].key)
    <3>1. j \in DOMAIN rows /\ rows[j].key = rows[i].key
      BY DEF RowsOf
    <3>2. rows[j].file \in FilesIn(rows)
      BY <3>1 DEF FilesIn
    <3> QED BY <1>2, <1>3, <3>1, <3>2
  <2> HIDE DEF left
  <2> QED BY <2>1, <2>2
<1>5. ASSUME NEW f \in FilesIn(rows)
      PROVE  Cardinality(left(KeyOf[f])) >= 2
  <2>1. PICK i \in DOMAIN rows : rows[i].file = f
    BY DEF FilesIn
  <2> DEFINE same == RowsOf(rows, rows[i].key)
  <2>2. rows[i].key = KeyOf[f] /\ left(KeyOf[f]) = {rows[j].file : j \in same}
    BY <1>3, <1>4, <2>1
  <2>3. IsFiniteSet(same) /\ same \subseteq DOMAIN rows /\ Cardinality(same) >= 2
    BY <1>3, RowsOfFinite
  <2> HIDE DEF same, left
  <2>4. PICK j, k \in same : j # k
    BY <2>3, AtLeastTwo
  <2>5. rows[j].file # rows[k].file
    BY <1>3, <2>3, <2>4
  <2>6. IsFiniteSet(left(KeyOf[f]))
    <3>1. left(KeyOf[f]) \subseteq FilesIn(rows)
      BY <2>2, <2>3 DEF FilesIn
    <3> QED BY <3>1, TableFinite, FS_Subset
  <2> QED BY <2>2, <2>5, <2>6, AtLeastTwo
<1> QED BY <1>1, <1>4, <1>5 DEF QuietBatchIsCarriedOut, separate

\* If nothing changes and nothing fails, what the user agreed to is exactly what is
\* in the bin, except in groups with hard links, where nothing is; and the table
\* has exactly the groups that still have a duplicate: for all scans, selections
\* and any number of batches.
THEOREM QuietBatchAlwaysCarriedOut == Spec => []QuietBatchIsCarriedOut
<1>1. BatchInv /\ QuietInv /\ [Next]_vars => QuietInv'
  BY QuietStep
<1>2. BatchInv /\ QuietInv => QuietBatchIsCarriedOut
  BY QuietCarriedOut
<1> QED BY <1>1, <1>2, QuietInit, BatchInvariant, PTL DEF Spec
=============================================================================
