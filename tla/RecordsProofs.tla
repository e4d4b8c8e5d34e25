--------------------------- MODULE RecordsProofs ---------------------------
(***************************************************************************)
(* Proofs about MCRecords, for every value of its constants: what Records  *)
(* promises of its cursors and of deduplication, and SqliteStore of its    *)
(* searches.                                                               *)
(***************************************************************************)
EXTENDS MCRecords, FiniteSetTheorems, WellFoundedInduction, TLAPS

-----------------------------------------------------------------------------
(* The types of Records, in parts *)

RowRecords == [s : Sessions \cup {"none"}, at : R!Time,
               state : {"none", "file", "file only", "store"}]
MemoryRecords == [s : Sessions \cup {"none"}, tells : SUBSET R!Rows, at : R!Time, there : BOOLEAN]
L1Runs == [phase : {"idle", "extract", "apply", "write", "mark"}, batch : SUBSET R!Rows,
           upto : R!Time, new : SUBSET R!Rows, known : SUBSET R!Memories,
           tells : SUBSET R!Rows, at : R!Time, deleted : SUBSET R!Memories]
L2Runs == [running : BOOLEAN, read : SUBSET R!Memories]

RowTypes == /\ row \in [R!Rows -> RowRecords] /\ rows \in 0..MaxRows
            /\ cursor \in [Sessions -> R!Time]
MemoryTypes == /\ memory \in [R!Memories -> MemoryRecords] /\ memories \in 0..MaxMemories
               /\ l2cursor \in [Sessions -> R!Time]
L1Types == l1 \in [Sessions -> L1Runs]
L2Types == l2 \in [Sessions -> L2Runs]
ClockTypes == degraded \in BOOLEAN /\ clock \in R!Time /\ faults \in 0..MaxFaults
HistoryTypes == /\ processed \cup late \cup told \cup lost \subseteq R!Rows
                /\ seen \cup twins \subseteq R!Memories
RecordTypes == RowTypes /\ MemoryTypes /\ L1Types /\ L2Types /\ ClockTypes /\ HistoryTypes

-----------------------------------------------------------------------------
(* The types of SqliteStore, in parts *)

Updates == [id : L1Ids, text : S!Texts, kind : L1Ids]
TableTypes == /\ table \in [S!Ids -> S!Row \cup {None}] /\ vec \in [S!Ids -> S!Vector \cup {None}]
              /\ fts \in [S!Ids -> 0..MaxWrites]
UpdateTypes == update \in [Requests -> Updates \cup {S!Idle}]
RestTypes == /\ model \in Models \cup {None} /\ meta \in Models \cup {None}
             /\ schema \in {"none", "v1", "v2"} /\ waiting \subseteq L0Ids /\ used \subseteq S!Ids
             /\ writes \in S!Texts /\ day \in S!Time /\ starts \in 0..MaxStarts /\ failures \in 0..MaxFaults
             /\ expired \subseteq S!Ids /\ unmatched \subseteq S!Ids /\ unindexed \subseteq S!Ids
StoreTypes == TableTypes /\ UpdateTypes /\ RestTypes

-----------------------------------------------------------------------------
(* The inductive invariant of Records *)

\* Every row there is belongs to a session, and a session has no more rows of
\* one millisecond than a capture writes.
RowsStamped ==
  /\ \A i \in R!Rows : row[i].state # "none" => row[i].s \in Sessions
  /\ \A s \in Sessions, t \in R!Time :
       Cardinality({i \in R!RowsOf(s) : row[i].at = t}) <= MaxPerCapture

\* An L1 run leaves no row of the store out up to the time its cursor will have.
RunsSkipNothing ==
  \A s \in Sessions : l1[s].phase # "idle" =>
    \A i \in R!RowsOf(s) : row[i].state = "store" /\ row[i].at <= l1[s].upto =>
      i \in processed \cup late \cup l1[s].batch

RowsInv == RowsStamped /\ RunsSkipNothing /\ R!RowsRead

\* Memories are written one after the other, and stamped before.
Written == {k \in R!Memories : k <= memories}
MemoriesStamped ==
  /\ \A k \in R!Memories : memory[k].there => k \in Written
  /\ \A k \in Written : memory[k].s \in Sessions /\ memory[k].at <= clock

\* What an L1 run is about to write is stamped no earlier than anything of its
\* session, the L2 cursor included.
StampsInOrder ==
  \A s \in Sessions :
    /\ l2cursor[s] <= clock
    /\ l1[s].phase = "write" =>
         /\ l1[s].at <= clock /\ l2cursor[s] <= l1[s].at
         /\ \A k \in Written : memory[k].s = s => memory[k].at <= l1[s].at

\* An L2 run has read something, and leaves nothing out up to the latest of it.
L2RunsSkipNothing ==
  \A s \in Sessions : l2[s].running =>
    /\ l2[s].read # {} /\ \A k \in l2[s].read : k \in Written /\ memory[k].s = s
    /\ \A k \in R!Memories, j \in l2[s].read :
         memory[k].there /\ memory[k].s = s /\ memory[k].at <= memory[j].at =>
           k \in seen \cup twins \cup l2[s].read

MemoriesInv == MemoriesStamped /\ StampsInOrder /\ L2RunsSkipNothing /\ R!MemoriesRead

\* Who is about to write a memory tells what those told that he deleted for it;
\* what they told is in the store otherwise, or lost with him.
FactsInv ==
  /\ \A s \in Sessions : l1[s].phase = "write" =>
       \A k \in l1[s].deleted : k \in Written /\ memory[k].tells \subseteq l1[s].tells
  /\ \A i \in told \ lost :
       \/ \E k \in R!Memories : memory[k].there /\ i \in memory[k].tells
       \/ \E s \in Sessions :
            l1[s].phase = "write" /\ \E k \in l1[s].deleted : i \in memory[k].tells

-----------------------------------------------------------------------------
(* The inductive invariant of SqliteStore *)

\* Only ids that were generated have rows and vectors, or are updated, and a memory
\* has the kind of a memory.
Layers ==
  /\ \A id \in S!Ids : /\ table[id] # None \/ vec[id] # None => id \in used
                       /\ id \in L1Ids /\ table[id] # None => table[id].kind \in L1Ids
  /\ \A r \in Requests : update[r] # S!Idle => S!Running /\ update[r].id \in used

\* Vectors come from the model that the database remembers, which is the running
\* one if there is one, and only a process with a model makes them.
VectorsInv ==
  /\ model \in {None, meta} /\ (waiting # {} => model # None)
  /\ \A id \in S!Ids : vec[id] # None =>
       /\ vec[id].model = meta
       /\ table[id] # None => vec[id].text = table[id].text \/ id \in unmatched

\* The keyword tables are empty before they are made, and made at the first start.
KeywordsInv ==
  /\ S!Running <=> schema = "v2"
  /\ schema = "none" => \A id \in S!Ids : fts[id] = 0
  /\ S!Running => \A id \in S!Ids \ (expired \cup unindexed) :
       fts[id] = IF table[id] = None THEN 0 ELSE table[id].text

StoreInv == Layers /\ VectorsInv /\ KeywordsInv

-----------------------------------------------------------------------------
(* The inductive invariant of MCRecords: that of the component that runs *)

RecordsInv == RecordTypes /\ RowsInv /\ MemoriesInv /\ FactsInv
IInv == /\ focus \in {"records", "store"}
        /\ focus = "records" => RecordsInv
        /\ focus = "store" => StoreTypes /\ StoreInv

-----------------------------------------------------------------------------
(* Latest times and first rows *)

(* a nonempty set of numbers up to N has a greatest one *)
LEMMA GreatestExists ==
  ASSUME NEW N \in Nat, NEW V, V \subseteq 0..N, V # {}
  PROVE  \E m \in V : \A n \in V : n <= m
<1> DEFINE W == {N - n : n \in V}
<1>1. W \subseteq Nat /\ W # {}
  <2>1. \A n \in V : n \in 0..N /\ N - n \in Nat
    OBVIOUS
  <2>2. PICK n \in V : TRUE
    OBVIOUS
  <2>3. N - n \in W
    OBVIOUS
  <2> QED BY <2>1, <2>3
<1>2. PICK x \in W : \A y \in W : ~(<<y, x>> \in OpToRel(<, Nat))
  <2> HIDE DEF W
  <2> QED BY <1>1, NatLessThanWellFounded, WFMin, Zenon
<1>3. \A y \in W : ~(y < x)
  <2> HIDE DEF W
  <2> QED BY <1>1, <1>2 DEF OpToRel
<1>4. PICK m \in V : x = N - m
  OBVIOUS
<1>5. ASSUME NEW n \in V PROVE n <= m
  <2>1. N - n \in W
    OBVIOUS
  <2>2. ~(N - n < x)
    BY <1>3, <2>1
  <2>3. n \in 0..N /\ m \in 0..N
    OBVIOUS
  <2> QED BY <1>4, <2>2, <2>3
<1> QED BY <1>5

(* and a least one *)
LEMMA LeastExists ==
  ASSUME NEW V, V \subseteq Nat, V # {}
  PROVE  \E m \in V : \A n \in V : m <= n
<1>1. PICK x \in V : \A y \in V : ~(<<y, x>> \in OpToRel(<, Nat))
  BY NatLessThanWellFounded, WFMin, Zenon
<1>2. \A y \in V : ~(y < x)
  BY <1>1 DEF OpToRel
<1> QED BY <1>2

LEMMA RecordBounds ==
  /\ L1_BATCH_PROCESS \in Nat \ {0} /\ MaxNew \in Nat \ {0}
  /\ MaxPerCapture \in 1..(L1_BATCH_PROCESS + 1)
  /\ MaxRows \in Nat /\ MaxMemories \in Nat /\ MaxTime \in Nat \ {0} /\ MaxFaults \in Nat
BY Assumption DEF R!RecordsAssumption

(* Records counts as this module does *)
LEMMA SameCardinality == \A T : R!Cardinality(T) = Cardinality(T)
BY DEF R!Cardinality, Cardinality

LEMMA RowSetsFinite ==
  ASSUME NEW q, q \subseteq R!Rows
  PROVE  IsFiniteSet(q) /\ Cardinality(q) \in Nat
<1>1. IsFiniteSet(R!Rows)
  BY RecordBounds, FS_Interval DEF R!Rows
<1> QED BY <1>1, FS_Subset, FS_CardinalityType

LEMMA RowIs ==
  ASSUME RowTypes, NEW i \in R!Rows
  PROVE  /\ row[i] \in RowRecords /\ i \in 1..MaxRows /\ i \in Nat
         /\ row[i].at \in R!Time /\ row[i].at \in 0..MaxTime /\ row[i].at \in Nat
<1>1. row[i] \in RowRecords /\ i \in 1..MaxRows
  BY DEF RowTypes, R!Rows
<1>2. row[i].at \in R!Time
  BY <1>1, Zenon DEF RowRecords
<1>3. R!Time = 0..MaxTime
  BY DEF R!Time
<1>4. i \in Nat /\ row[i].at \in Nat
  BY <1>1, <1>2, <1>3, RecordBounds
<1> QED BY <1>1, <1>2, <1>3, <1>4

(* rows are ordered by their time, and by their number *)
LEMMA BeforeOrders ==
  ASSUME RowTypes, NEW i \in R!Rows, NEW j \in R!Rows
  PROVE  /\ ~R!Before(i, i)
         /\ R!Before(i, j) => row[i].at <= row[j].at /\ ~R!Before(j, i)
         /\ i = j \/ R!Before(i, j) \/ R!Before(j, i)
         /\ \A k \in R!Rows : R!Before(i, j) /\ R!Before(j, k) => R!Before(i, k)
<1>1. \A k \in R!Rows : k \in Nat /\ row[k].at \in Nat
  BY RowIs
<1> QED BY <1>1 DEF R!Before

(* a set of rows has a first one *)
LEMMA FirstRowExists ==
  ASSUME RowTypes, NEW q, q \subseteq R!Rows, q # {}
  PROVE  \E m \in q : \A i \in q : ~R!Before(i, m)
<1>1. \A k \in R!Rows : k \in Nat /\ row[k].at \in Nat
  BY RowIs, RecordBounds
<1> DEFINE times == {row[i].at : i \in q}
<1>2. times \subseteq Nat /\ times # {}
  BY <1>1
<1>3. PICK t \in times : \A n \in times : t <= n
  <2> HIDE DEF times
  <2> QED BY <1>2, LeastExists
<1> DEFINE least == {i \in q : row[i].at = t}
<1>4. least \subseteq Nat /\ least # {}
  BY <1>1, <1>3
<1>5. PICK m \in least : \A n \in least : m <= n
  <2> HIDE DEF least, times
  <2> QED BY <1>4, LeastExists
<1>6. ASSUME NEW i \in q PROVE ~R!Before(i, m)
  <2>1. m \in q /\ row[m].at = t /\ row[i].at \in times /\ t <= row[i].at
    BY <1>3, <1>5
  <2>2. row[i].at = t => m <= i
    BY <1>5
  <2>3. i \in Nat /\ m \in Nat /\ row[i].at \in Nat /\ t \in Nat
    BY <1>1, <2>1
  <2> HIDE DEF least, times
  <2> QED BY <2>1, <2>2, <2>3 DEF R!Before
<1> QED BY <1>5, <1>6

(* and a last one *)
LEMMA LastRowExists ==
  ASSUME RowTypes, NEW q, q \subseteq R!Rows, q # {}
  PROVE  \E m \in q : \A i \in q : ~R!Before(m, i)
<1>1. \A k \in R!Rows : k \in 0..MaxRows /\ row[k].at \in 0..MaxTime /\ k \in Nat /\ row[k].at \in Nat
  BY RowIs, RecordBounds
<1> DEFINE times == {row[i].at : i \in q}
<1>2. times \subseteq 0..MaxTime /\ times # {}
  BY <1>1
<1>3. PICK t \in times : \A n \in times : n <= t
  <2> HIDE DEF times
  <2> QED BY <1>2, RecordBounds, GreatestExists
<1> DEFINE greatest == {i \in q : row[i].at = t}
<1>4. greatest \subseteq 0..MaxRows /\ greatest # {}
  BY <1>1, <1>3
<1>5. PICK m \in greatest : \A n \in greatest : n <= m
  <2> HIDE DEF greatest, times
  <2> QED BY <1>4, RecordBounds, GreatestExists
<1>6. ASSUME NEW i \in q PROVE ~R!Before(m, i)
  <2>1. m \in q /\ row[m].at = t /\ row[i].at \in times /\ row[i].at <= t
    BY <1>3, <1>5
  <2>2. row[i].at = t => i <= m
    BY <1>5
  <2>3. i \in Nat /\ m \in Nat /\ row[i].at \in Nat /\ t \in Nat
    BY <1>1, <2>1
  <2> HIDE DEF greatest, times
  <2> QED BY <2>1, <2>2, <2>3 DEF R!Before
<1> QED BY <1>5, <1>6

(* the first n rows of a query: some, at most n, and the oldest of them *)
LEMMA FirstOfIs ==
  ASSUME RowTypes, NEW q, q \subseteq R!Rows, q # {}, NEW n \in Nat \ {0}
  PROVE  /\ R!FirstOf(q, n) \subseteq q /\ R!FirstOf(q, n) # {}
         /\ Cardinality(R!FirstOf(q, n)) <= n
         /\ \A i \in q \ R!FirstOf(q, n), j \in R!FirstOf(q, n) : row[j].at <= row[i].at
<1> DEFINE first == R!FirstOf(q, n)
           ahead(i) == {j \in q : R!Before(j, i)}
<1>1. /\ first \subseteq q
      /\ \A i \in q : i \in first <=> Cardinality(ahead(i)) < n
      /\ \A i \in q : ahead(i) \subseteq q
  <2>1. first = {i \in q : Cardinality(ahead(i)) < n}
    BY SameCardinality DEF R!FirstOf
  <2>2. \A i \in q : ahead(i) \subseteq q
    OBVIOUS
  <2> HIDE DEF first, ahead
  <2> QED BY <2>1, <2>2
<1>2. \A p \in SUBSET q : IsFiniteSet(p) /\ Cardinality(p) \in Nat
  BY RowSetsFinite
<1>3. first # {}
  <2>1. PICK m \in q : \A i \in q : ~R!Before(i, m)
    BY FirstRowExists
  <2>2. ahead(m) = {}
    BY <2>1
  <2>3. Cardinality(ahead(m)) = 0
    BY <2>2, FS_EmptySet
  <2> HIDE DEF first, ahead
  <2> QED BY <1>1, <2>3
<1>4. Cardinality(first) <= n
  <2>1. PICK m \in first : \A i \in first : ~R!Before(m, i)
    <3> HIDE DEF first
    <3> QED BY <1>1, <1>3, LastRowExists
  <2>2. first \ {m} \subseteq ahead(m)
    BY <1>1, <2>1, BeforeOrders
  <2>3. Cardinality(ahead(m)) < n /\ ahead(m) \in SUBSET q /\ m \in first /\ first \in SUBSET q
    BY <1>1
  <2> HIDE DEF first, ahead
  <2>4. Cardinality(first \ {m}) = Cardinality(first) - 1
    BY <1>2, <2>3, FS_RemoveElement
  <2>5. Cardinality(first \ {m}) <= Cardinality(ahead(m))
    BY <1>2, <2>2, <2>3, FS_Subset
  <2> QED BY <1>2, <2>3, <2>4, <2>5
<1>5. ASSUME NEW i \in q \ first, NEW j \in first PROVE row[j].at <= row[i].at
  <2>1. i \in q /\ j \in q /\ i \in R!Rows /\ j \in R!Rows /\ ahead(i) \in SUBSET q /\ ahead(j) \in SUBSET q
    BY <1>1
  <2>2. ~(Cardinality(ahead(i)) < n) /\ Cardinality(ahead(j)) < n
    BY <1>1, <2>1
  <2>3. ~R!Before(i, j)
    <3> SUFFICES ASSUME R!Before(i, j) PROVE FALSE
      OBVIOUS
    <3>1. ahead(i) \subseteq ahead(j)
      BY <2>1, BeforeOrders
    <3> HIDE DEF first, ahead
    <3>2. Cardinality(ahead(i)) <= Cardinality(ahead(j))
      BY <1>2, <2>1, <3>1, FS_Subset
    <3> QED BY <1>2, <2>1, <2>2, <3>2
  <2> HIDE DEF first, ahead
  <2>4. i # j
    BY <1>5
  <2> QED BY <2>1, <2>3, <2>4, BeforeOrders
<1> HIDE DEF first
<1> QED BY <1>1, <1>3, <1>4, <1>5 DEF first

(* a slice has all rows of the query up to its latest, which is no later than *)
(* the first rows                                                             *)
LEMMA SliceIs ==
  ASSUME RowTypes, NEW q, q \subseteq R!Rows, q # {}
  PROVE  LET first == R!FirstOf(q, L1_BATCH_PROCESS)
             upto == R!LatestOf(R!Slice(q))
         IN  /\ R!Slice(q) \subseteq q /\ upto \in R!Time
             /\ \E j \in first : upto <= row[j].at
             /\ \A i \in q : row[i].at <= upto => i \in R!Slice(q)
<1> DEFINE first == R!FirstOf(q, L1_BATCH_PROCESS)
           slice == R!Slice(q)
           upto == R!LatestOf(R!Slice(q))
           times == {row[i].at : i \in slice}
<1>1. slice \subseteq q /\ \A i \in q : i \in slice <=> \E j \in first : row[i].at <= row[j].at
  BY DEF R!Slice
<1>2. first \subseteq q /\ first # {}
  BY FirstOfIs, RecordBounds
<1>3. slice # {}
  <2>1. PICK j \in first : TRUE
    BY <1>2
  <2>2. row[j].at <= row[j].at
    BY <1>2, RowIs
  <2> HIDE DEF first, slice
  <2> QED BY <1>1, <1>2, <2>2
<1>4. upto \in times /\ \A i \in slice : row[i].at <= upto
  <2> HIDE DEF slice
  <2>1. times \subseteq 0..MaxTime /\ times # {}
    BY <1>1, <1>3, RowIs
  <2>2. \E m \in times : \A n \in times : n <= m
    <3> HIDE DEF times
    <3> QED BY <2>1, RecordBounds, GreatestExists
  <2>3. \E m \in times : \A i \in slice : row[i].at <= m
    BY <2>2
  <2>4. R!LatestOf(slice) = CHOOSE t \in times : \A i \in slice : row[i].at <= t
    BY DEF R!LatestOf
  <2> HIDE DEF times
  <2>5. R!LatestOf(slice) \in times /\ \A i \in slice : row[i].at <= R!LatestOf(slice)
    BY <2>3, <2>4, Zenon
  <2> QED BY <2>5 DEF slice
<1>5. PICK m \in slice : upto = row[m].at
  <2> HIDE DEF slice, upto
  <2> QED BY <1>4
<1> HIDE DEF slice, upto, times, first
<1>6. upto \in R!Time
  BY <1>1, <1>5, RowIs
<1>7. PICK j \in first : upto <= row[j].at
  BY <1>1, <1>5
<1>8. ASSUME NEW i \in q, row[i].at <= upto PROVE i \in slice
  <2>1. row[i].at \in Nat /\ row[j].at \in Nat /\ upto \in Nat
    BY <1>1, <1>2, <1>5, RowIs
  <2> QED BY <1>1, <1>7, <1>8, <2>1
<1> QED BY <1>1, <1>6, <1>7, <1>8 DEF slice, upto, first

(* the oldest rows of a session: whatever the query leaves behind is later   *)
(* than the slice, as a capture stamps at most one row more than a batch     *)
LEMMA OldestReachFurther ==
  ASSUME RowTypes, RowsStamped, NEW s \in Sessions, NEW behind, behind \subseteq R!RowsOf(s),
         NEW q \in R!Oldest(behind, R!L1_BATCH_QUERY), q # {}, NEW i \in behind \ q
  PROVE  ~(row[i].at <= R!LatestOf(R!Slice(q)))
<1> DEFINE N == L1_BATCH_PROCESS
           first == R!FirstOf(q, N)
           upto == R!LatestOf(R!Slice(q))
<1> SUFFICES ASSUME row[i].at <= upto PROVE FALSE
  OBVIOUS
<1>1. /\ N \in Nat \ {0} /\ MaxPerCapture \in 1..(N + 1) /\ R!L1_BATCH_QUERY = 2 * N
  BY RecordBounds DEF R!L1_BATCH_QUERY
<1>2. /\ behind \subseteq R!Rows /\ q \subseteq behind /\ q \subseteq R!Rows
      /\ Cardinality(q) = (IF Cardinality(behind) < R!L1_BATCH_QUERY THEN Cardinality(behind)
                                                                     ELSE R!L1_BATCH_QUERY)
      /\ \A k \in q, j \in behind \ q : row[k].at <= row[j].at
  BY SameCardinality DEF R!Oldest, R!RowsOf
<1>3. IsFiniteSet(behind) /\ IsFiniteSet(q) /\ Cardinality(behind) \in Nat /\ Cardinality(q) \in Nat
  BY <1>2, RowSetsFinite
<1>4. Cardinality(q) = 2 * N
  <2>1. Cardinality(q) # Cardinality(behind)
    BY <1>2, <1>3, FS_Subset
  <2> QED BY <1>1, <1>2, <2>1
<1>5. /\ first \subseteq q /\ first # {} /\ Cardinality(first) <= N
      /\ \A k \in q \ first, j \in first : row[j].at <= row[k].at
  BY <1>1, <1>2, FirstOfIs
<1>6. PICK j \in first : upto <= row[j].at
  BY <1>2, SliceIs
<1> DEFINE same == {k \in R!RowsOf(s) : row[k].at = row[i].at}
<1>7. (q \ first) \cup {j, i} \subseteq same
  <2>1. upto \in R!Time /\ R!Time \subseteq Nat
    BY <1>2, SliceIs, RecordBounds DEF R!Time
  <2>2. row[j].at = row[i].at
    <3>1. row[j].at <= row[i].at /\ row[j].at \in Nat /\ row[i].at \in Nat
      BY <1>2, <1>5, RowIs
    <3>2. upto \in Nat /\ row[i].at <= upto /\ upto <= row[j].at
      BY <1>6, <2>1
    <3> HIDE DEF upto
    <3> QED BY <3>1, <3>2
  <2>3. ASSUME NEW k \in q \ first PROVE row[k].at = row[i].at
    <3>1. row[k].at \in Nat /\ row[i].at \in Nat
      BY <1>2, RowIs
    <3>2. row[i].at <= row[k].at /\ row[k].at <= row[i].at
      BY <1>2, <1>5, <2>2
    <3> QED BY <3>1, <3>2
  <2>4. \A k \in (q \ first) \cup {j, i} : k \in R!RowsOf(s) /\ row[k].at = row[i].at
    BY <1>2, <1>5, <2>2, <2>3
  <2> QED BY <2>4
<1>8. Cardinality((q \ first) \cup {j, i}) >= N + 2
  <2> HIDE DEF first
  <2>1. IsFiniteSet(first) /\ Cardinality(first) \in Nat
    BY <1>2, <1>5, RowSetsFinite
  <2>2. q \cap first = first
    BY <1>5
  <2>3. Cardinality(q \ first) = 2 * N - Cardinality(first) /\ IsFiniteSet(q \ first)
    <3>1. Cardinality(q \ first) = Cardinality(q) - Cardinality(q \cap first) /\ IsFiniteSet(q \ first)
      BY <1>3, FS_Difference
    <3> QED BY <1>4, <2>2, <3>1
  <2>4. Cardinality((q \ first) \cup {j}) = Cardinality(q \ first) + 1 /\ IsFiniteSet((q \ first) \cup {j})
    BY <2>3, FS_AddElement
  <2>5. i \notin (q \ first) \cup {j}
    BY <1>5
  <2>6. Cardinality(((q \ first) \cup {j}) \cup {i}) = Cardinality((q \ first) \cup {j}) + 1
    BY <2>4, <2>5, FS_AddElement
  <2>7. ((q \ first) \cup {j}) \cup {i} = (q \ first) \cup {j, i}
    OBVIOUS
  <2>8. Cardinality((q \ first) \cup {j, i}) = Cardinality(q \ first) + 1 + 1
    BY <2>4, <2>6, <2>7
  <2> QED BY <1>1, <1>5, <2>1, <2>3, <2>8
<1>9. Cardinality(same) <= MaxPerCapture /\ Cardinality(same) \in Nat /\ IsFiniteSet(same)
  <2>1. row[i].at \in R!Time
    BY <1>2, RowIs
  <2>2. same \subseteq R!Rows
    BY DEF R!RowsOf
  <2> QED BY <2>1, <2>2, RowSetsFinite DEF RowsStamped
<1>10. /\ Cardinality((q \ first) \cup {j, i}) <= Cardinality(same)
       /\ Cardinality((q \ first) \cup {j, i}) \in Nat
  <2> HIDE DEF same, first
  <2> QED BY <1>7, <1>9, FS_Subset, FS_CardinalityType
<1> HIDE DEF same, first
<1> QED BY <1>1, <1>8, <1>9, <1>10

(* a query of an L1 run that starts: some rows of the session *)
LEMMA QueryIs ==
  ASSUME RowTypes, NEW s \in Sessions, R!Behind(s) # {}, NEW q \in R!Queried(s)
  PROVE  /\ q # {} /\ q \subseteq R!Behind(s) /\ R!Behind(s) \subseteq R!RowsOf(s)
         /\ R!RowsOf(s) \subseteq R!Rows
<1>1. R!Behind(s) \subseteq R!RowsOf(s) /\ R!RowsOf(s) \subseteq R!Rows
  BY DEF R!Behind, R!RowsOf
<1> DEFINE B == R!Behind(s)
<1>2. /\ q \subseteq B
      /\ Cardinality(q) = (IF Cardinality(B) < R!L1_BATCH_QUERY THEN Cardinality(B) ELSE R!L1_BATCH_QUERY)
  BY SameCardinality DEF R!Queried, R!Oldest, R!Newest
<1>3. Cardinality(B) # 0 /\ R!L1_BATCH_QUERY # 0
  <2> HIDE DEF B
  <2>1. IsFiniteSet(B)
    BY <1>1, RowSetsFinite DEF B
  <2> QED BY <2>1, FS_EmptySet, RecordBounds DEF R!L1_BATCH_QUERY, B
<1>4. q # {}
  <2> HIDE DEF B
  <2> QED BY <1>2, <1>3, FS_EmptySet
<1> QED BY <1>1, <1>2, <1>4

LEMMA MemoryIs ==
  ASSUME MemoryTypes, NEW k \in R!Memories
  PROVE  /\ memory[k] \in MemoryRecords /\ k \in 1..MaxMemories /\ k \in Nat
         /\ memory[k].tells \subseteq R!Rows /\ memory[k].there \in BOOLEAN
         /\ memory[k].at \in R!Time /\ memory[k].at \in Nat
<1>1. memory[k] \in MemoryRecords /\ k \in 1..MaxMemories
  BY DEF MemoryTypes, R!Memories
<1>2. memory[k].tells \in SUBSET R!Rows /\ memory[k].there \in BOOLEAN /\ memory[k].at \in R!Time
  BY <1>1, Zenon DEF MemoryRecords
<1>3. k \in Nat /\ memory[k].at \in Nat
  BY <1>1, <1>2, RecordBounds DEF R!Time
<1> QED BY <1>1, <1>2, <1>3

LEMMA RunIs ==
  ASSUME L1Types, L2Types, NEW s \in Sessions
  PROVE  /\ l1[s] \in L1Runs /\ l2[s] \in L2Runs
         /\ l1[s].upto \in R!Time /\ l1[s].at \in R!Time /\ l1[s].upto \in Nat /\ l1[s].at \in Nat
         /\ l1[s].batch \subseteq R!Rows /\ l1[s].new \subseteq R!Rows /\ l1[s].tells \subseteq R!Rows
         /\ l1[s].known \subseteq R!Memories /\ l1[s].deleted \subseteq R!Memories
         /\ l2[s].read \subseteq R!Memories /\ l2[s].running \in BOOLEAN
<1>1. l1[s] \in L1Runs /\ l2[s] \in L2Runs
  BY DEF L1Types, L2Types
<1>2. /\ l1[s].upto \in R!Time /\ l1[s].at \in R!Time
      /\ l1[s].batch \in SUBSET R!Rows /\ l1[s].new \in SUBSET R!Rows /\ l1[s].tells \in SUBSET R!Rows
      /\ l1[s].known \in SUBSET R!Memories /\ l1[s].deleted \in SUBSET R!Memories
  BY <1>1, Zenon DEF L1Runs
<1>3. l2[s].read \in SUBSET R!Memories /\ l2[s].running \in BOOLEAN
  BY <1>1, Zenon DEF L2Runs
<1>4. l1[s].upto \in Nat /\ l1[s].at \in Nat
  BY <1>2, RecordBounds DEF R!Time
<1> QED BY <1>1, <1>2, <1>3, <1>4

(* the cursor an L2 run leaves is the time of a memory it has read *)
LEMMA LatestReadIs ==
  ASSUME MemoryTypes, L1Types, L2Types, NEW s \in Sessions, l2[s].read # {}
  PROVE  \E k \in l2[s].read : R!LatestRead(s) = memory[k].at
<1> DEFINE read == l2[s].read
           times == {memory[k].at : k \in read}
<1>1. times \subseteq 0..MaxTime /\ times # {}
  BY RunIs, MemoryIs DEF R!Time
<1>2. \E m \in times : \A n \in times : n <= m
  <2> HIDE DEF times
  <2> QED BY <1>1, RecordBounds, GreatestExists
<1>3. \E m \in times : \A k \in read : memory[k].at <= m
  BY <1>2
<1>4. R!LatestRead(s) = CHOOSE t \in times : \A k \in read : memory[k].at <= t
  BY DEF R!LatestRead
<1>5. R!LatestRead(s) \in times
  <2> HIDE DEF times, read
  <2> QED BY <1>3, <1>4, Zenon
<1> QED BY <1>5

-----------------------------------------------------------------------------
(* Records: types *)

LEMMA FaultsCounted ==
  ASSUME ClockTypes, R!Fault \/ UNCHANGED faults
  PROVE  faults' \in 0..MaxFaults
BY RecordBounds DEF R!Fault, ClockTypes

LEMMA CapturesKeepTypes ==
  ASSUME RecordTypes, NEW s \in Sessions, NEW n \in 1..MaxPerCapture, R!Capture(s, n)
  PROVE  RecordTypes'
<1>1. rows' \in 0..MaxRows
  <2>1. n \in Nat /\ rows \in Nat /\ rows + n <= MaxRows /\ rows' = rows + n
    <3>1. rows + n <= MaxRows /\ rows' = rows + n
      BY DEF R!Capture
    <3>2. rows \in 0..MaxRows
      BY DEF RecordTypes, RowTypes
    <3> QED BY <3>1, <3>2, RecordBounds
  <2> QED BY <2>1, RecordBounds
<1>2. row' \in [R!Rows -> RowRecords]
  <2> DEFINE new == [s |-> s, at |-> clock, state |-> IF degraded THEN "file only" ELSE "file"]
  <2>1. new \in RowRecords
    BY DEF RecordTypes, ClockTypes, RowRecords
  <2>2. row' = [i \in R!Rows |-> IF i \in (rows + 1)..(rows + n) THEN new ELSE row[i]]
    BY DEF R!Capture
  <2> HIDE DEF new
  <2> QED BY <2>1, <2>2 DEF RecordTypes, RowTypes
<1>3. UNCHANGED <<cursor, memory, memories, l2cursor, l1, l2, degraded, clock, faults,
                  processed, late, told, lost, seen, twins>>
  BY DEF R!Capture, R!history
<1> QED BY <1>1, <1>2, <1>3 DEF RecordTypes, RowTypes, MemoryTypes, L1Types, L2Types, ClockTypes, HistoryTypes

LEMMA RowStepsKeepTypes ==
  ASSUME RecordTypes, NEW i \in R!Rows, R!StoreRow(i) \/ R!LoseRow(i)
  PROVE  RecordTypes'
<1>1. PICK to \in {"store", "file only"} : row' = [row EXCEPT ![i].state = to]
  BY DEF R!StoreRow, R!LoseRow
<1>2. row' \in [R!Rows -> RowRecords]
  <2>1. row[i] \in RowRecords /\ row \in [R!Rows -> RowRecords]
    BY DEF RecordTypes, RowTypes
  <2>2. [row[i] EXCEPT !.state = to] \in RowRecords
    BY <2>1 DEF RowRecords
  <2>3. row' = [row EXCEPT ![i] = [row[i] EXCEPT !.state = to]]
    BY <1>1
  <2> QED BY <2>1, <2>2, <2>3
<1>3. late' \subseteq R!Rows
  BY DEF R!StoreRow, R!LoseRow, RecordTypes, HistoryTypes, R!history
<1>4. faults' \in 0..MaxFaults
  BY FaultsCounted DEF R!StoreRow, R!LoseRow, RecordTypes
<1>5. UNCHANGED <<rows, cursor, memory, memories, l2cursor, l1, l2, degraded, clock,
                  processed, told, lost, seen, twins>>
  BY DEF R!StoreRow, R!LoseRow, R!history
<1> QED BY <1>2, <1>3, <1>4, <1>5 DEF RecordTypes, RowTypes, MemoryTypes, L1Types, L2Types, ClockTypes, HistoryTypes

LEMMA SomeRun ==
  ASSUME L1Types, NEW s \in Sessions, NEW run \in L1Runs, l1' = [l1 EXCEPT ![s] = run]
  PROVE  L1Types' /\ l1'[s] = run /\ \A z \in Sessions : z # s => l1'[z] = l1[z]
BY DEF L1Types

LEMMA IdleRuns == R!IdleL1 \in L1Runs /\ R!IdleL2 \in L2Runs
<1>1. 0 \in R!Time
  BY RecordBounds DEF R!Time
<1> QED BY <1>1 DEF R!IdleL1, R!IdleL2, L1Runs, L2Runs

(* an L1 run reads *)
LEMMA ReadingRun ==
  ASSUME RecordTypes, NEW s \in Sessions, R!L1Reads(s)
  PROVE  \E q \in R!Queried(s), run \in L1Runs :
           /\ run = [R!IdleL1 EXCEPT !.phase = "extract", !.batch = R!Slice(q),
                                     !.upto = R!LatestOf(R!Slice(q)), !.new = R!NewMessages(R!Slice(q))]
           /\ l1' = [l1 EXCEPT ![s] = run]
           /\ late' = IF degraded THEN late \cup (R!Behind(s) \ q) ELSE late
<1>1. PICK q \in R!Queried(s) :
           /\ l1' = [l1 EXCEPT ![s] = [R!IdleL1 EXCEPT !.phase = "extract", !.batch = R!Slice(q),
                              !.upto = R!LatestOf(R!Slice(q)), !.new = R!NewMessages(R!Slice(q))]]
           /\ late' = IF degraded THEN late \cup (R!Behind(s) \ q) ELSE late
  BY DEF R!L1Reads
<1>2. q \subseteq R!Rows /\ q # {}
  BY QueryIs DEF R!L1Reads, RecordTypes
<1>3. R!Slice(q) \subseteq R!Rows /\ R!LatestOf(R!Slice(q)) \in R!Time
  BY <1>2, SliceIs DEF RecordTypes
<1>4. R!NewMessages(R!Slice(q)) \subseteq R!Rows
  BY <1>3 DEF R!NewMessages
<1>5. [R!IdleL1 EXCEPT !.phase = "extract", !.batch = R!Slice(q),
                       !.upto = R!LatestOf(R!Slice(q)), !.new = R!NewMessages(R!Slice(q))] \in L1Runs
  BY <1>3, <1>4, IdleRuns DEF L1Runs
<1> QED BY <1>1, <1>5

LEMMA L1ReadsKeepsTypes ==
  ASSUME RecordTypes, NEW s \in Sessions, R!L1Reads(s)
  PROVE  RecordTypes'
<1>1. L1Types'
  BY ReadingRun, SomeRun DEF RecordTypes
<1>2. late' \subseteq R!Rows
  <2>1. R!Behind(s) \subseteq R!Rows
    BY DEF R!Behind, R!RowsOf
  <2> QED BY <2>1, ReadingRun DEF RecordTypes, HistoryTypes
<1>3. UNCHANGED <<row, rows, cursor, memory, memories, l2cursor, l2, degraded, clock, faults,
                  processed, told, lost, seen, twins>>
  BY DEF R!L1Reads
<1> QED BY <1>1, <1>2, <1>3 DEF RecordTypes, RowTypes, MemoryTypes, L2Types, ClockTypes, HistoryTypes

LEMMA L1ExtractsKeepsTypes ==
  ASSUME RecordTypes, NEW s \in Sessions, R!L1Extracts(s)
  PROVE  RecordTypes' /\ l1'[s].phase \in {"apply", "mark"} /\ l1'[s].upto = l1[s].upto
         /\ l1'[s].batch = l1[s].batch /\ \A z \in Sessions : z # s => l1'[z] = l1[z]
<1>1. PICK to \in {"apply", "mark"}, known \in SUBSET R!Memories :
         l1' = [l1 EXCEPT ![s] = [l1[s] EXCEPT !.phase = to, !.known = known]]
  <2>1. l1[s] \in L1Runs /\ l1 \in [Sessions -> L1Runs] /\ l1[s].known \in SUBSET R!Memories
    BY RunIs DEF RecordTypes, L1Types
  <2>2. CASE \E known \in SUBSET {k \in R!Memories : ~degraded /\ memory[k].there} :
               l1' = [l1 EXCEPT ![s].phase = "apply", ![s].known = known]
    <3>1. PICK known \in SUBSET R!Memories : l1' = [l1 EXCEPT ![s].phase = "apply", ![s].known = known]
      BY <2>2
    <3>2. l1' = [l1 EXCEPT ![s] = [l1[s] EXCEPT !.phase = "apply", !.known = known]]
      BY <2>1, <3>1 DEF L1Runs
    <3> QED BY <3>2
  <2>3. CASE l1' = [l1 EXCEPT ![s].phase = "mark"]
    <3>1. l1' = [l1 EXCEPT ![s] = [l1[s] EXCEPT !.phase = "mark", !.known = l1[s].known]]
      BY <2>1, <2>3 DEF L1Runs
    <3> QED BY <2>1, <3>1
  <2> QED BY <2>2, <2>3 DEF R!L1Extracts
<1> DEFINE run == [l1[s] EXCEPT !.phase = to, !.known = known]
<1>2. run \in L1Runs /\ run.phase = to /\ run.upto = l1[s].upto /\ run.batch = l1[s].batch
  BY RunIs DEF RecordTypes, L1Runs
<1>3. L1Types' /\ l1'[s] = run /\ \A z \in Sessions : z # s => l1'[z] = l1[z]
  BY <1>1, <1>2, SomeRun DEF RecordTypes
<1>4. faults' \in 0..MaxFaults
  BY FaultsCounted DEF R!L1Extracts, RecordTypes
<1>5. UNCHANGED <<row, rows, cursor, memory, memories, l2cursor, l2, degraded, clock,
                  processed, late, told, lost, seen, twins>>
  BY DEF R!L1Extracts
<1>6. RecordTypes'
  BY <1>3, <1>4, <1>5 DEF RecordTypes, RowTypes, MemoryTypes, L2Types, ClockTypes, HistoryTypes
<1> QED BY <1>2, <1>3, <1>6

(* a step changes memories only by deleting them *)
OnlyDeletes ==
  \A k \in R!Memories : /\ memory'[k].s = memory[k].s /\ memory'[k].at = memory[k].at
                        /\ memory'[k].tells = memory[k].tells
                        /\ memory'[k].there => memory[k].there

(* what the run of s has deleted its new memory tells *)
TakesOver(s) ==
  \A k \in l1'[s].deleted : /\ k \in R!Memories /\ memory[k].there
                            /\ memory[k].tells \subseteq l1'[s].tells

(* what a step deletes, the run of s takes over, or the step gives up *)
DeletedFor(s) ==
  \A k \in R!Memories :
    memory[k].there => memory'[k].there \/ k \in l1'[s].deleted \/ memory[k].tells \subseteq lost'

(* a decision: what is replaced leaves the store, and its text is taken over or given up *)
LEMMA L1DecidesDoes ==
  ASSUME RecordTypes, NEW s \in Sessions, NEW targets \in SUBSET R!Memories, NEW merged \in BOOLEAN,
         R!L1Decides(s, targets, merged)
  PROVE  /\ RecordTypes' /\ l1[s].phase = "apply"
         /\ \A z \in Sessions : z # s => l1'[z] = l1[z]
         /\ l1'[s].phase = "write" /\ l1'[s].at = clock /\ l1'[s].upto = l1[s].upto
         /\ l1'[s].batch = l1[s].batch
         /\ OnlyDeletes /\ TakesOver(s) /\ DeletedFor(s) /\ lost \subseteq lost'
         /\ UNCHANGED <<row, rows, cursor, memories, l2cursor, l2, degraded, clock,
                        processed, late, told, seen, twins>>
<1> DEFINE taken == R!TakenOver(s, targets, merged)
           there == {k \in targets : memory[k].there}
           run(deleted) == [l1[s] EXCEPT !.phase = "write", !.at = clock,
                                         !.tells = l1[s].new \cup R!Told(taken), !.deleted = deleted]
           gone(k) == [memory[k] EXCEPT !.there = FALSE]
<1>1. UNCHANGED <<row, rows, cursor, memories, l2cursor, l2, degraded, clock,
                  processed, late, told, seen, twins>> /\ l1[s].phase = "apply"
  BY DEF R!L1Decides
<1>2. l1[s] \in L1Runs /\ l1 \in [Sessions -> L1Runs] /\ memory \in [R!Memories -> MemoryRecords]
  BY RunIs DEF RecordTypes, L1Types, MemoryTypes
<1>3. taken \subseteq targets /\ there \subseteq targets
  BY DEF R!TakenOver
<1>4. faults' \in 0..MaxFaults
  BY FaultsCounted DEF R!L1Decides, RecordTypes
<1>5. \A ks \in SUBSET R!Memories : /\ R!Told(ks) \subseteq R!Rows
                                    /\ \A k \in ks : memory[k].tells \subseteq R!Told(ks)
  BY MemoryIs DEF R!Told, RecordTypes
<1>6. \E deleted \in SUBSET (there \cap taken) :
        /\ l1' = [l1 EXCEPT ![s] = run(deleted)]
        /\ \/ /\ deleted = there \cap taken
              /\ lost' = lost \cup R!Told(there \ taken)
              /\ memory' = [k \in R!Memories |-> IF k \in targets THEN gone(k) ELSE memory[k]]
           \/ UNCHANGED <<memory, lost>>
  <2>1. CASE R!Deletes(s, targets, taken)
    <3>1. l1' = [l1 EXCEPT ![s] = run(there \cap taken)]
      BY <1>2, <2>1 DEF R!Deletes, L1Runs
    <3>2. lost' = lost \cup R!Told(there \ taken)
      BY <2>1 DEF R!Deletes
    <3>3. memory' = [k \in R!Memories |-> IF k \in targets THEN gone(k) ELSE memory[k]]
      BY <2>1 DEF R!Deletes, R!Replaced, R!ReplacedTargets
    <3> HIDE DEF run, there, taken, gone
    <3> QED BY <3>1, <3>2, <3>3
  <2>2. CASE R!KeepsAll(s, taken)
    <3>1. l1' = [l1 EXCEPT ![s] = run({})]
      BY <1>2, <2>2 DEF R!KeepsAll, L1Runs
    <3>2. UNCHANGED <<memory, lost>>
      BY <2>2 DEF R!KeepsAll
    <3> HIDE DEF run, there, taken, gone
    <3>3. {} \in SUBSET (there \cap taken)
      OBVIOUS
    <3> QED BY <3>1, <3>2, <3>3
  <2> QED BY <2>1, <2>2 DEF R!L1Decides
<1>7. PICK deleted \in SUBSET (there \cap taken) :
        /\ l1' = [l1 EXCEPT ![s] = run(deleted)]
        /\ \/ /\ deleted = there \cap taken
              /\ lost' = lost \cup R!Told(there \ taken)
              /\ memory' = [k \in R!Memories |-> IF k \in targets THEN gone(k) ELSE memory[k]]
           \/ UNCHANGED <<memory, lost>>
  BY <1>6
<1>8. run(deleted) \in L1Runs
  <2>1. l1[s].new \cup R!Told(taken) \in SUBSET R!Rows
    BY <1>3, <1>5, RunIs DEF RecordTypes
  <2>2. deleted \in SUBSET R!Memories
    BY <1>3
  <2>3. clock \in R!Time
    BY DEF RecordTypes, ClockTypes
  <2> HIDE DEF taken, there
  <2> QED BY <1>2, <2>1, <2>2, <2>3 DEF L1Runs
<1>9. /\ run(deleted).phase = "write" /\ run(deleted).at = clock /\ run(deleted).upto = l1[s].upto
      /\ run(deleted).batch = l1[s].batch /\ run(deleted).deleted = deleted
      /\ run(deleted).tells = l1[s].new \cup R!Told(taken)
  BY <1>2 DEF L1Runs
<1> HIDE DEF run
<1>10. L1Types' /\ l1'[s] = run(deleted) /\ \A z \in Sessions : z # s => l1'[z] = l1[z]
  BY <1>7, <1>8, SomeRun DEF RecordTypes
<1>11. \A k \in l1'[s].deleted : /\ k \in R!Memories /\ memory[k].there
                                 /\ memory[k].tells \subseteq l1'[s].tells
  <2>1. \A k \in deleted : k \in taken /\ k \in targets /\ memory[k].there
    BY <1>3
  <2>2. \A k \in deleted : memory[k].tells \subseteq R!Told(taken)
    BY <1>3, <1>5, <2>1
  <2> HIDE DEF taken, there
  <2> QED BY <1>9, <1>10, <2>1, <2>2
<1>12. \A k \in R!Memories : /\ gone(k) \in MemoryRecords
                             /\ gone(k).s = memory[k].s /\ gone(k).at = memory[k].at
                             /\ gone(k).tells = memory[k].tells /\ ~gone(k).there
  <2> TAKE k \in R!Memories
  <2>1. memory[k] \in MemoryRecords
    BY <1>2
  <2> QED BY <2>1 DEF MemoryRecords
<1> HIDE DEF gone
<1>13. /\ memory' \in [R!Memories -> MemoryRecords]
       /\ \A k \in R!Memories : \/ memory'[k] = memory[k]
                                \/ /\ k \in targets /\ memory'[k] = gone(k) /\ deleted = there \cap taken
                                   /\ lost' = lost \cup R!Told(there \ taken)
  <2>1. CASE UNCHANGED <<memory, lost>>
    BY <1>2, <2>1
  <2>2. CASE /\ deleted = there \cap taken
             /\ lost' = lost \cup R!Told(there \ taken)
             /\ memory' = [k \in R!Memories |-> IF k \in targets THEN gone(k) ELSE memory[k]]
    <3> HIDE DEF taken, there
    <3> QED BY <1>2, <1>12, <2>2
  <2> QED BY <1>7, <2>1, <2>2
<1>14. lost \subseteq lost' /\ lost' \subseteq R!Rows
  <2>1. R!Told(there \ taken) \subseteq R!Rows
    BY <1>3, <1>5
  <2> HIDE DEF taken, there
  <2> QED BY <1>7, <2>1 DEF RecordTypes, HistoryTypes
<1>15. ASSUME NEW k \in R!Memories
       PROVE  /\ memory'[k].s = memory[k].s /\ memory'[k].at = memory[k].at
              /\ memory'[k].tells = memory[k].tells
              /\ memory'[k].there => memory[k].there
              /\ memory[k].there => memory'[k].there \/ k \in l1'[s].deleted \/ memory[k].tells \subseteq lost'
  <2>1. CASE memory'[k] = memory[k]
    BY <2>1
  <2>2. CASE /\ k \in targets /\ memory'[k] = gone(k) /\ deleted = there \cap taken
             /\ lost' = lost \cup R!Told(there \ taken)
    <3>1. memory[k].there => k \in deleted \/ k \in there \ taken
      BY <2>2
    <3>2. k \in there \ taken => memory[k].tells \subseteq R!Told(there \ taken)
      BY <1>3, <1>5
    <3> HIDE DEF taken, there
    <3>3. memory[k].there => k \in l1'[s].deleted \/ memory[k].tells \subseteq lost'
      BY <1>9, <1>10, <2>2, <3>1, <3>2
    <3> QED BY <1>12, <2>2, <3>3
  <2> QED BY <1>13, <2>1, <2>2
<1>16. RecordTypes'
  BY <1>1, <1>4, <1>10, <1>13, <1>14 DEF RecordTypes, RowTypes, MemoryTypes, L2Types, ClockTypes, HistoryTypes
<1> HIDE DEF taken, there
<1>17. l1'[s].phase = "write" /\ l1'[s].at = clock /\ l1'[s].upto = l1[s].upto /\ l1'[s].batch = l1[s].batch
  BY <1>9, <1>10
<1>18. OnlyDeletes /\ DeletedFor(s)
  BY <1>15 DEF OnlyDeletes, DeletedFor
<1>19. TakesOver(s)
  BY <1>11 DEF TakesOver
<1> QED BY <1>1, <1>10, <1>14, <1>16, <1>17, <1>18, <1>19

(* a memory is written *)
LEMMA L1WritesDoes ==
  ASSUME RecordTypes, NEW s \in Sessions, R!L1Writes(s)
  PROVE  /\ RecordTypes' /\ l1[s].phase = "write" /\ memories' = memories + 1
         /\ \A z \in Sessions : z # s => l1'[z] = l1[z]
         /\ l1'[s].phase = "apply" /\ l1'[s].upto = l1[s].upto /\ l1'[s].batch = l1[s].batch
         /\ memories + 1 \in R!Memories
         /\ memory'[memories + 1] = [s |-> s, tells |-> l1[s].tells, at |-> l1[s].at, there |-> TRUE]
         /\ \A k \in R!Memories : k # memories + 1 => memory'[k] = memory[k]
         /\ twins \subseteq twins' /\ told' = told \cup l1[s].tells /\ lost' = lost \ l1[s].tells
         /\ l1[s].at = l2cursor[s] \/ (\E k \in l2[s].read : memory[k].at = l1[s].at)
              => memories + 1 \in twins'
         /\ UNCHANGED <<row, rows, cursor, l2cursor, l2, degraded, clock, faults,
                        processed, late, seen>>
<1> DEFINE run == [l1[s] EXCEPT !.phase = "apply"]
           new == [s |-> s, tells |-> l1[s].tells, at |-> l1[s].at, there |-> TRUE]
<1>1. UNCHANGED <<row, rows, cursor, l2cursor, l2, degraded, clock, faults,
                  processed, late, seen>>
  BY DEF R!L1Writes
<1>2. l1[s] \in L1Runs /\ l1 \in [Sessions -> L1Runs] /\ memory \in [R!Memories -> MemoryRecords]
  BY RunIs DEF RecordTypes, L1Types, MemoryTypes
<1>3. l1' = [l1 EXCEPT ![s] = run]
  BY <1>2 DEF R!L1Writes
<1>4. run \in L1Runs /\ run.phase = "apply" /\ run.upto = l1[s].upto /\ run.batch = l1[s].batch
  BY <1>2 DEF L1Runs
<1> HIDE DEF run
<1>5. L1Types' /\ l1'[s] = run /\ \A z \in Sessions : z # s => l1'[z] = l1[z]
  BY <1>3, <1>4, SomeRun DEF RecordTypes
<1>6. /\ memories + 1 \in R!Memories /\ memories' = memories + 1 /\ memories' \in 0..MaxMemories
  <2>1. memories < MaxMemories /\ memories' = memories + 1
    BY DEF R!L1Writes
  <2>2. memories \in 0..MaxMemories
    BY DEF RecordTypes, MemoryTypes
  <2> QED BY <2>1, <2>2, RecordBounds DEF R!Memories
<1>7. memory' = [memory EXCEPT ![memories + 1] = new] /\ l1[s].phase = "write"
  BY DEF R!L1Writes
<1>8. new \in MemoryRecords
  BY RunIs DEF RecordTypes, MemoryRecords
<1> HIDE DEF new
<1>9. /\ memory' \in [R!Memories -> MemoryRecords] /\ memory'[memories + 1] = new
      /\ \A k \in R!Memories : k # memories + 1 => memory'[k] = memory[k]
  BY <1>2, <1>6, <1>7, <1>8
<1>10. /\ twins' = IF l1[s].at = l2cursor[s] \/ \E k \in l2[s].read : memory[k].at = l1[s].at
                     THEN twins \cup {memories + 1} ELSE twins
       /\ told' = told \cup l1[s].tells /\ lost' = lost \ l1[s].tells
  BY DEF R!L1Writes
<1>11. seen \cup twins' \subseteq R!Memories /\ told' \subseteq R!Rows /\ lost' \subseteq R!Rows
  BY <1>6, <1>10, RunIs DEF RecordTypes, HistoryTypes
<1>12. RecordTypes'
  BY <1>1, <1>5, <1>6, <1>9, <1>11 DEF RecordTypes, RowTypes, MemoryTypes, L2Types, ClockTypes, HistoryTypes
<1> QED BY <1>1, <1>4, <1>5, <1>6, <1>7, <1>9, <1>10, <1>12 DEF new

(* a memory is not written *)
LEMMA L1WriteFailsDoes ==
  ASSUME RecordTypes, NEW s \in Sessions, R!L1WriteFails(s)
  PROVE  /\ RecordTypes' /\ l1[s].phase = "write"
         /\ \A z \in Sessions : z # s => l1'[z] = l1[z]
         /\ l1'[s].phase = "apply" /\ l1'[s].upto = l1[s].upto /\ l1'[s].batch = l1[s].batch
         /\ lost' = lost \cup R!Told(l1[s].deleted)
         /\ UNCHANGED <<row, rows, cursor, memory, memories, l2cursor, l2, degraded, clock,
                        processed, late, told, seen, twins>>
<1> DEFINE run == [l1[s] EXCEPT !.phase = "apply"]
<1>1. /\ UNCHANGED <<row, rows, cursor, memory, memories, l2cursor, l2, degraded, clock,
                     processed, late, told, seen, twins>>
      /\ l1[s].phase = "write" /\ lost' = lost \cup R!Told(l1[s].deleted)
  BY DEF R!L1WriteFails
<1>2. l1[s] \in L1Runs /\ l1 \in [Sessions -> L1Runs]
  BY RunIs DEF RecordTypes, L1Types
<1>3. l1' = [l1 EXCEPT ![s] = run]
  BY <1>2 DEF R!L1WriteFails
<1>4. run \in L1Runs /\ run.phase = "apply" /\ run.upto = l1[s].upto /\ run.batch = l1[s].batch
  BY <1>2 DEF L1Runs
<1> HIDE DEF run
<1>5. L1Types' /\ l1'[s] = run /\ \A z \in Sessions : z # s => l1'[z] = l1[z]
  BY <1>3, <1>4, SomeRun DEF RecordTypes
<1>6. lost' \subseteq R!Rows
  <2>1. \A k \in l1[s].deleted : memory[k].tells \subseteq R!Rows
    BY RunIs, MemoryIs DEF RecordTypes
  <2>2. R!Told(l1[s].deleted) \subseteq R!Rows
    BY <2>1 DEF R!Told
  <2> QED BY <1>1, <2>2 DEF RecordTypes, HistoryTypes
<1>7. faults' \in 0..MaxFaults
  BY FaultsCounted DEF R!L1WriteFails, RecordTypes
<1>8. RecordTypes'
  BY <1>1, <1>5, <1>6, <1>7 DEF RecordTypes, RowTypes, MemoryTypes, L2Types, ClockTypes, HistoryTypes
<1> QED BY <1>1, <1>4, <1>5, <1>8

(* the L1 cursor moves *)
LEMMA L1MarksDoes ==
  ASSUME RecordTypes, NEW s \in Sessions, R!L1Marks(s)
  PROVE  /\ RecordTypes' /\ l1[s].phase \in {"apply", "mark"}
         /\ \A z \in Sessions : z # s => l1'[z] = l1[z] /\ cursor'[z] = cursor[z]
         /\ l1'[s].phase = "idle" /\ cursor'[s] = l1[s].upto
         /\ processed' = processed \cup l1[s].batch
         /\ UNCHANGED <<row, rows, memory, memories, l2cursor, l2, degraded, clock, faults,
                        late, told, lost, seen, twins>>
<1>1. /\ UNCHANGED <<row, rows, memory, memories, l2cursor, l2, degraded, clock, faults,
                     late, told, lost, seen, twins>>
      /\ l1[s].phase \in {"apply", "mark"} /\ processed' = processed \cup l1[s].batch
      /\ cursor' = [cursor EXCEPT ![s] = l1[s].upto] /\ l1' = [l1 EXCEPT ![s] = R!IdleL1]
  BY DEF R!L1Marks
<1>2. L1Types' /\ l1'[s] = R!IdleL1 /\ \A z \in Sessions : z # s => l1'[z] = l1[z]
  BY <1>1, IdleRuns, SomeRun DEF RecordTypes
<1>3. /\ cursor' \in [Sessions -> R!Time] /\ cursor'[s] = l1[s].upto
      /\ \A z \in Sessions : z # s => cursor'[z] = cursor[z]
  <2>1. l1[s].upto \in R!Time /\ cursor \in [Sessions -> R!Time]
    BY RunIs DEF RecordTypes, RowTypes
  <2> QED BY <1>1, <2>1
<1>4. processed' \subseteq R!Rows
  BY <1>1, RunIs DEF RecordTypes, HistoryTypes
<1>5. RecordTypes'
  BY <1>1, <1>2, <1>3, <1>4 DEF RecordTypes, RowTypes, MemoryTypes, L2Types, ClockTypes, HistoryTypes
<1> QED BY <1>1, <1>2, <1>3, <1>5 DEF R!IdleL1

(* the L2 runner *)
LEMMA L2StepsDo ==
  ASSUME RecordTypes, L2RunsSkipNothing, NEW s \in Sessions, R!L2Reads(s) \/ R!L2Works(s) \/ R!L2Fails(s)
  PROVE  /\ RecordTypes'
         /\ \A z \in Sessions : z # s => l2'[z] = l2[z] /\ l2cursor'[z] = l2cursor[z]
         /\ \/ /\ R!L2Reads(s) /\ ~degraded /\ R!Unread(s) # {} /\ l2'[s].read = R!Unread(s)
               /\ UNCHANGED <<l2cursor, seen>>
            \/ /\ R!L2Works(s) /\ l2[s].running /\ ~l2'[s].running /\ seen' = seen \cup l2[s].read
               /\ \E k \in l2[s].read : l2cursor'[s] = memory[k].at
            \/ R!L2Fails(s) /\ ~l2'[s].running /\ UNCHANGED <<l2cursor, seen>>
         /\ UNCHANGED <<row, rows, cursor, memory, memories, l1, degraded, clock, faults,
                        processed, late, told, lost, twins>>
<1>1. UNCHANGED <<row, rows, cursor, memory, memories, l1, degraded, clock, faults,
                  processed, late, told, lost, twins>>
  BY DEF R!L2Reads, R!L2Works, R!L2Fails, R!history
<1>2. /\ l2 \in [Sessions -> L2Runs] /\ l2cursor \in [Sessions -> R!Time]
      /\ l2[s].read \subseteq R!Memories /\ seen \subseteq R!Memories /\ ~R!IdleL2.running
  BY RunIs DEF RecordTypes, L2Types, MemoryTypes, HistoryTypes, R!IdleL2
<1>3. CASE R!L2Reads(s)
  <2> DEFINE run == [running |-> TRUE, read |-> R!Unread(s)]
  <2>1. /\ l2' = [l2 EXCEPT ![s] = run] /\ UNCHANGED <<l2cursor, seen>>
        /\ ~degraded /\ R!Unread(s) # {}
    BY <1>3 DEF R!L2Reads, R!history
  <2>2. run \in L2Runs
    BY DEF L2Runs, R!Unread
  <2>3. run.read = R!Unread(s)
    OBVIOUS
  <2> HIDE DEF run
  <2>4. l2' \in [Sessions -> L2Runs] /\ l2'[s] = run /\ \A z \in Sessions : z # s => l2'[z] = l2[z]
    BY <1>2, <2>1, <2>2
  <2>5. RecordTypes'
    BY <1>1, <2>1, <2>4 DEF RecordTypes, RowTypes, MemoryTypes, L1Types, L2Types, ClockTypes, HistoryTypes
  <2> QED BY <1>1, <1>3, <2>1, <2>3, <2>4, <2>5
<1>4. CASE R!L2Works(s)
  <2>1. /\ l2' = [l2 EXCEPT ![s] = R!IdleL2] /\ l2[s].running /\ seen' = seen \cup l2[s].read
        /\ l2cursor' = [l2cursor EXCEPT ![s] = R!LatestRead(s)]
    BY <1>4 DEF R!L2Works, R!LatestCursor
  <2>2. PICK k \in l2[s].read : R!LatestRead(s) = memory[k].at
    BY <2>1, LatestReadIs DEF RecordTypes, L2RunsSkipNothing
  <2>3. memory[k].at \in R!Time
    BY <1>2, MemoryIs DEF RecordTypes
  <2>4. /\ l2' \in [Sessions -> L2Runs] /\ l2'[s] = R!IdleL2 /\ \A z \in Sessions : z # s => l2'[z] = l2[z]
        /\ l2cursor' \in [Sessions -> R!Time] /\ l2cursor'[s] = memory[k].at
        /\ \A z \in Sessions : z # s => l2cursor'[z] = l2cursor[z]
    BY <1>2, <2>1, <2>2, <2>3, IdleRuns
  <2>5. RecordTypes'
    BY <1>1, <1>2, <2>1, <2>4 DEF RecordTypes, RowTypes, MemoryTypes, L1Types, L2Types, ClockTypes, HistoryTypes
  <2> QED BY <1>1, <1>2, <1>4, <2>1, <2>4, <2>5
<1>5. CASE R!L2Fails(s)
  <2>1. l2' = [l2 EXCEPT ![s] = R!IdleL2] /\ UNCHANGED <<l2cursor, seen>>
    BY <1>5 DEF R!L2Fails, R!history
  <2>2. l2' \in [Sessions -> L2Runs] /\ l2'[s] = R!IdleL2 /\ \A z \in Sessions : z # s => l2'[z] = l2[z]
    BY <1>2, <2>1, IdleRuns
  <2>3. RecordTypes'
    BY <1>1, <2>1, <2>2 DEF RecordTypes, RowTypes, MemoryTypes, L1Types, L2Types, ClockTypes, HistoryTypes
  <2> QED BY <1>1, <1>2, <1>5, <2>1, <2>2, <2>3
<1> QED BY <1>3, <1>4, <1>5

(* a restart, and the passing of time *)
LEMMA CrashDoes ==
  ASSUME RecordTypes, R!Crash
  PROVE  /\ RecordTypes'
         /\ \A i \in R!Rows : /\ row'[i].s = row[i].s /\ row'[i].at = row[i].at
                              /\ row'[i].state = "none" <=> row[i].state = "none"
                              /\ row'[i].state = "store" <=> row[i].state = "store"
         /\ \A s \in Sessions : l1'[s].phase = "idle" /\ ~l2'[s].running
         /\ lost' = lost \cup UNION {IF l1[s].phase = "write" THEN R!Told(l1[s].deleted) ELSE {} : s \in Sessions}
         /\ UNCHANGED <<rows, cursor, memory, memories, l2cursor, clock,
                        processed, late, told, seen, twins>>
<1>1. /\ UNCHANGED <<rows, cursor, memory, memories, l2cursor, clock, processed, late, told, seen, twins>>
      /\ degraded' \in BOOLEAN
      /\ l1' = [s \in Sessions |-> R!IdleL1] /\ l2' = [s \in Sessions |-> R!IdleL2]
      /\ lost' = lost \cup UNION {IF l1[s].phase = "write" THEN R!Told(l1[s].deleted) ELSE {} : s \in Sessions}
  BY DEF R!Crash
<1>2. \A i \in R!Rows : /\ row'[i] \in RowRecords /\ row'[i].s = row[i].s /\ row'[i].at = row[i].at
                        /\ row'[i].state = "none" <=> row[i].state = "none"
                        /\ row'[i].state = "store" <=> row[i].state = "store"
  <2> TAKE i \in R!Rows
  <2>1. row[i] \in RowRecords
    BY RowIs DEF RecordTypes
  <2>2. row'[i] = IF row[i].state = "file" THEN [row[i] EXCEPT !.state = "file only"] ELSE row[i]
    BY DEF R!Crash
  <2> QED BY <2>1, <2>2 DEF RowRecords
<1>3. row' \in [R!Rows -> RowRecords]
  <2>1. row' = [i \in R!Rows |-> row'[i]]
    BY DEF R!Crash
  <2> QED BY <1>2, <2>1
<1>4. L1Types' /\ L2Types'
  BY <1>1, IdleRuns DEF L1Types, L2Types
<1>5. lost' \subseteq R!Rows
  <2>1. \A s \in Sessions : R!Told(l1[s].deleted) \subseteq R!Rows
    <3> TAKE s \in Sessions
    <3>1. \A k \in l1[s].deleted : memory[k].tells \subseteq R!Rows
      BY RunIs, MemoryIs DEF RecordTypes
    <3> QED BY <3>1 DEF R!Told
  <2> QED BY <1>1, <2>1 DEF RecordTypes, HistoryTypes
<1>6. faults' \in 0..MaxFaults
  BY FaultsCounted DEF R!Crash, RecordTypes
<1>7. RecordTypes'
  BY <1>1, <1>3, <1>4, <1>5, <1>6 DEF RecordTypes, RowTypes, MemoryTypes, ClockTypes, HistoryTypes
<1>8. \A s \in Sessions : l1'[s].phase = "idle" /\ ~l2'[s].running
  BY <1>1 DEF R!IdleL1, R!IdleL2
<1> QED BY <1>1, <1>2, <1>7, <1>8

LEMMA TickDoes ==
  ASSUME RecordTypes, R!Tick
  PROVE  /\ RecordTypes' /\ clock' = clock + 1
         /\ UNCHANGED <<degraded, row, rows, memory, memories, cursor, l2cursor, l1, l2, faults,
                        processed, late, told, lost, seen, twins>>
<1>1. /\ clock < MaxTime /\ clock' = clock + 1
      /\ UNCHANGED <<degraded, row, rows, memory, memories, cursor, l2cursor, l1, l2, faults,
                     processed, late, told, lost, seen, twins>>
  BY DEF R!Tick, R!history
<1>2. clock' \in R!Time
  BY <1>1, RecordBounds DEF RecordTypes, ClockTypes, R!Time
<1> QED BY <1>1, <1>2 DEF RecordTypes, RowTypes, MemoryTypes, L1Types, L2Types, ClockTypes, HistoryTypes

-----------------------------------------------------------------------------
(* Records: no row is skipped *)

LEMMA CaptureDoes ==
  ASSUME RecordTypes, NEW s \in Sessions, NEW n \in 1..MaxPerCapture, R!Capture(s, n)
  PROVE  /\ \A i \in R!Rows :
              \/ /\ i \in (rows + 1)..(rows + n) /\ row'[i].s = s /\ row'[i].at = clock
                 /\ row'[i].state \in {"file", "file only"}
              \/ row'[i] = row[i] /\ i \notin (rows + 1)..(rows + n)
         /\ \A i \in R!RowsOf(s) : row[i].at # clock
         /\ UNCHANGED <<cursor, memory, memories, l2cursor, l1, l2, degraded, clock,
                        processed, late, told, lost, seen, twins>>
BY DEF R!Capture, R!history

LEMMA RowStepsDo ==
  ASSUME RecordTypes, NEW i \in R!Rows, R!StoreRow(i) \/ R!LoseRow(i)
  PROVE  /\ \A j \in R!Rows : /\ row'[j].s = row[j].s /\ row'[j].at = row[j].at
                              /\ row'[j].state = "none" <=> row[j].state = "none"
                              /\ row'[j].state = "store" <=> row[j].state = "store" \/ (j = i /\ R!StoreRow(i))
         /\ late' \in {late, late \cup {i}}
         /\ R!StoreRow(i) /\ (\/ row[i].at <= cursor[row[i].s]
                              \/ l1[row[i].s].phase # "idle" /\ row[i].at <= l1[row[i].s].upto) => i \in late'
         /\ UNCHANGED <<cursor, memory, memories, l2cursor, l1, l2, degraded, clock,
                        processed, told, lost, seen, twins>>
<1>1. PICK to \in {"store", "file only"} : /\ row' = [row EXCEPT ![i].state = to]
                                           /\ row[i].state = "file"
                                           /\ to = "store" => R!StoreRow(i)
                                           /\ R!StoreRow(i) => to = "store"
  <2>1. CASE R!StoreRow(i)
    <3>1. row' = [row EXCEPT ![i].state = "store"] /\ row[i].state = "file"
      BY <2>1 DEF R!StoreRow
    <3> QED BY <2>1, <3>1
  <2>2. CASE R!LoseRow(i) /\ ~R!StoreRow(i)
    <3>1. row' = [row EXCEPT ![i].state = "file only"] /\ row[i].state = "file"
      BY <2>2 DEF R!LoseRow
    <3> QED BY <2>2, <3>1
  <2> QED BY <2>1, <2>2
<1>2. row \in [R!Rows -> RowRecords]
  BY DEF RecordTypes, RowTypes
<1>3. ASSUME NEW j \in R!Rows
      PROVE  /\ row'[j].s = row[j].s /\ row'[j].at = row[j].at
             /\ row'[j].state = IF j = i THEN to ELSE row[j].state
  <2>1. row[j] \in RowRecords
    BY <1>2
  <2> QED BY <1>1, <1>2, <2>1 DEF RowRecords
<1>4. /\ late' \in {late, late \cup {i}}
      /\ R!StoreRow(i) /\ (\/ row[i].at <= cursor[row[i].s]
                           \/ l1[row[i].s].phase # "idle" /\ row[i].at <= l1[row[i].s].upto) => i \in late'
      /\ UNCHANGED <<cursor, memory, memories, l2cursor, l1, l2, degraded, clock,
                     processed, told, lost, seen, twins>>
  BY DEF R!StoreRow, R!LoseRow, R!history
<1>5. ASSUME NEW j \in R!Rows
      PROVE  /\ row'[j].state = "none" <=> row[j].state = "none"
             /\ row'[j].state = "store" <=> row[j].state = "store" \/ (j = i /\ R!StoreRow(i))
  BY <1>1, <1>3
<1> QED BY <1>3, <1>4, <1>5

(* rows that stay where they are keep their stamps *)
LEMMA RowsUnmoved ==
  ASSUME RowTypes, RowsStamped,
         \A i \in R!Rows : /\ row'[i].s = row[i].s /\ row'[i].at = row[i].at
                           /\ row'[i].state = "none" <=> row[i].state = "none"
  PROVE  RowsStamped'
<1>1. ASSUME NEW s \in Sessions, NEW t \in R!Time
      PROVE  {i \in R!RowsOf(s) : row[i].at = t}' = {i \in R!RowsOf(s) : row[i].at = t}
  BY DEF R!RowsOf
<1>2. \A s \in Sessions, t \in R!Time :
        Cardinality({i \in R!RowsOf(s) : row[i].at = t}') <= MaxPerCapture
  BY <1>1 DEF RowsStamped
<1> QED BY <1>2 DEF RowsStamped

LEMMA CaptureStamps ==
  ASSUME RecordTypes, RowsStamped, NEW s \in Sessions, NEW n \in 1..MaxPerCapture, R!Capture(s, n)
  PROVE  RowsStamped'
<1> DEFINE new == (rows + 1)..(rows + n)
           Same(z, t) == {i \in R!RowsOf(z) : row[i].at = t}
<1>1. /\ \A i \in R!Rows : \/ i \in new /\ row'[i].s = s /\ row'[i].at = clock /\ row'[i].state # "none"
                           \/ row'[i] = row[i] /\ i \notin new
      /\ \A i \in R!RowsOf(s) : row[i].at # clock
  BY CaptureDoes
<1>2. IsFiniteSet(new) /\ Cardinality(new) = n /\ n \in Nat /\ n <= MaxPerCapture /\ MaxPerCapture \in Nat
  <2>1. rows \in Nat /\ n \in Nat /\ n >= 1 /\ n <= MaxPerCapture /\ MaxPerCapture \in Nat
    BY RecordBounds DEF RecordTypes, RowTypes
  <2> QED BY <2>1, FS_Interval
<1>3. ASSUME NEW z \in Sessions, NEW t \in R!Time
      PROVE  Cardinality(Same(z, t)') <= MaxPerCapture
  <2>1. Same(z, t)' \subseteq R!Rows /\ Same(z, t) \subseteq R!Rows
    BY DEF R!RowsOf
  <2>2. /\ \A i \in R!Rows : i \in Same(z, t)' <=> row'[i].s = z /\ row'[i].state # "none" /\ row'[i].at = t
        /\ \A i \in R!Rows : i \in Same(z, t) <=> row[i].s = z /\ row[i].state # "none" /\ row[i].at = t
        /\ \A i \in R!Rows : i \in R!RowsOf(s) <=> row[i].s = s /\ row[i].state # "none"
    BY DEF R!RowsOf
  <2> HIDE DEF Same, new
  <2>3. CASE z = s /\ t = clock
    <3>1. Same(z, t)' \subseteq new
      BY <1>1, <2>1, <2>2, <2>3
    <3>2. Cardinality(Same(z, t)') <= Cardinality(new) /\ Cardinality(Same(z, t)') \in Nat
      BY <1>2, <3>1, FS_Subset, FS_CardinalityType
    <3> QED BY <1>2, <3>2
  <2>4. CASE ~(z = s /\ t = clock)
    <3>1. Same(z, t)' \subseteq Same(z, t)
      BY <1>1, <2>1, <2>2, <2>4
    <3>2. IsFiniteSet(Same(z, t)) /\ Cardinality(Same(z, t)) \in Nat
      BY <2>1, RowSetsFinite
    <3>3. Cardinality(Same(z, t)') <= Cardinality(Same(z, t)) /\ Cardinality(Same(z, t)') \in Nat
      BY <3>1, <3>2, FS_Subset, FS_CardinalityType
    <3>4. Cardinality(Same(z, t)) <= MaxPerCapture
      BY DEF RowsStamped, Same
    <3> QED BY <1>2, <3>2, <3>3, <3>4
  <2> QED BY <2>3, <2>4
<1>4. \A i \in R!Rows : row'[i].state # "none" => row'[i].s \in Sessions
  BY <1>1 DEF RowsStamped
<1> QED BY <1>3, <1>4 DEF RowsStamped

(* a step that puts no row into the store, moves no cursor and starts no run *)
LEMMA NothingPassed ==
  ASSUME RowTypes, RunsSkipNothing, R!RowsRead,
         \A i \in R!Rows : row'[i].state = "store" =>
           row[i].state = "store" /\ row'[i].s = row[i].s /\ row'[i].at = row[i].at,
         cursor' = cursor, processed \subseteq processed', late \subseteq late',
         \A s \in Sessions : l1'[s].phase # "idle" =>
           l1[s].phase # "idle" /\ l1'[s].upto = l1[s].upto /\ l1'[s].batch = l1[s].batch
  PROVE  RunsSkipNothing' /\ R!RowsRead'
<1>1. R!RowsRead'
  BY DEF R!RowsRead
<1>2. ASSUME NEW s \in Sessions, l1'[s].phase # "idle", NEW i \in R!Rows,
             row'[i].s = s, row'[i].state = "store", row'[i].at <= l1'[s].upto
      PROVE  i \in processed' \cup late' \cup l1'[s].batch
  <2>1. i \in R!RowsOf(s) /\ row[i].at <= l1[s].upto /\ row[i].state = "store"
    BY <1>2 DEF R!RowsOf
  <2> QED BY <1>2, <2>1 DEF RunsSkipNothing
<1> QED BY <1>1, <1>2 DEF RunsSkipNothing, R!RowsOf

LEMMA StoreRowSkipsNothing ==
  ASSUME RecordTypes, RowsInv, NEW i \in R!Rows, R!StoreRow(i)
  PROVE  RunsSkipNothing' /\ R!RowsRead'
<1>1. /\ \A j \in R!Rows : /\ row'[j].s = row[j].s /\ row'[j].at = row[j].at
                           /\ row'[j].state = "store" => row[j].state = "store" \/ j = i
      /\ late \subseteq late' /\ processed' = processed /\ cursor' = cursor /\ l1' = l1
      /\ (\/ row[i].at <= cursor[row[i].s]
          \/ l1[row[i].s].phase # "idle" /\ row[i].at <= l1[row[i].s].upto) => i \in late'
  BY RowStepsDo
<1>2. R!RowsRead'
  BY <1>1 DEF R!RowsRead, RowsInv
<1>3. ASSUME NEW s \in Sessions, l1'[s].phase # "idle", NEW j \in R!Rows,
             row'[j].s = s, row'[j].state = "store", row'[j].at <= l1'[s].upto
      PROVE  j \in processed' \cup late' \cup l1'[s].batch
  <2>1. CASE j = i
    BY <1>1, <1>3, <2>1
  <2>2. CASE j # i
    <3>1. j \in R!RowsOf(s) /\ row[j].at <= l1[s].upto /\ row[j].state = "store"
      BY <1>1, <1>3, <2>2 DEF R!RowsOf
    <3> QED BY <1>1, <1>3, <3>1 DEF RunsSkipNothing, RowsInv
  <2> QED BY <2>1, <2>2
<1> QED BY <1>2, <1>3 DEF RunsSkipNothing, R!RowsOf

LEMMA L1ReadsSkipsNothing ==
  ASSUME RecordTypes, RowsInv, NEW s \in Sessions, R!L1Reads(s)
  PROVE  RunsSkipNothing' /\ R!RowsRead'
<1>1. PICK q \in R!Queried(s), run \in L1Runs :
           /\ run = [R!IdleL1 EXCEPT !.phase = "extract", !.batch = R!Slice(q),
                                     !.upto = R!LatestOf(R!Slice(q)), !.new = R!NewMessages(R!Slice(q))]
           /\ l1' = [l1 EXCEPT ![s] = run]
           /\ late' = IF degraded THEN late \cup (R!Behind(s) \ q) ELSE late
  BY ReadingRun
<1>2. l1'[s] = run /\ \A z \in Sessions : z # s => l1'[z] = l1[z]
  BY <1>1, SomeRun DEF RecordTypes
<1>3. run.batch = R!Slice(q) /\ run.upto = R!LatestOf(R!Slice(q))
  BY <1>1 DEF R!IdleL1
<1>4. row' = row /\ cursor' = cursor /\ processed' = processed /\ late \subseteq late'
  BY <1>1 DEF R!L1Reads
<1>5. q # {} /\ q \subseteq R!Behind(s) /\ R!Behind(s) \subseteq R!RowsOf(s) /\ R!RowsOf(s) \subseteq R!Rows
  BY QueryIs DEF R!L1Reads, RecordTypes
<1>6. ASSUME NEW i \in R!RowsOf(s), row[i].state = "store", row[i].at <= run.upto
      PROVE  i \in processed' \cup late' \cup run.batch
  <2>1. CASE row[i].at <= cursor[s]
    BY <1>4, <1>6, <2>1 DEF RowsInv, R!RowsRead, R!RowsOf
  <2>2. CASE i \in q
    BY <1>3, <1>5, <1>6, <2>2, SliceIs DEF RecordTypes
  <2>3. CASE ~(row[i].at <= cursor[s]) /\ i \notin q
    <3>1. row[i].at \in Nat /\ cursor[s] \in Nat
      <4>1. cursor[s] \in R!Time
        BY DEF RecordTypes, RowTypes
      <4> QED BY <1>5, <4>1, RowIs, RecordBounds DEF RecordTypes, R!Time
    <3>2. i \in R!Behind(s) \ q
      BY <1>6, <2>3, <3>1 DEF R!Behind
    <3>3. degraded
      <4> SUFFICES ASSUME ~degraded PROVE FALSE
        OBVIOUS
      <4>1. q \in R!Oldest(R!Behind(s), R!L1_BATCH_QUERY)
        BY DEF R!Queried
      <4>2. ~(row[i].at <= R!LatestOf(R!Slice(q)))
        BY <1>5, <3>2, <4>1, OldestReachFurther DEF RecordTypes, RowsInv
      <4> QED BY <1>3, <1>6, <4>2
    <3> QED BY <1>1, <3>2, <3>3
  <2> QED BY <2>1, <2>2, <2>3
<1>7. ASSUME NEW z \in Sessions, l1'[z].phase # "idle", NEW i \in R!Rows,
             row'[i].s = z, row'[i].state = "store", row'[i].at <= l1'[z].upto
      PROVE  i \in processed' \cup late' \cup l1'[z].batch
  <2>1. i \in R!RowsOf(z) /\ row[i].state = "store"
    BY <1>4, <1>7 DEF R!RowsOf
  <2>2. CASE z = s
    BY <1>2, <1>4, <1>6, <1>7, <2>1, <2>2
  <2>3. CASE z # s
    BY <1>2, <1>4, <1>7, <2>1, <2>3 DEF RunsSkipNothing, RowsInv
  <2> QED BY <2>2, <2>3
<1>8. R!RowsRead'
  BY <1>4 DEF R!RowsRead, RowsInv
<1> QED BY <1>7, <1>8 DEF RunsSkipNothing, R!RowsOf

LEMMA L1MarksSkipsNothing ==
  ASSUME RecordTypes, RowsInv, NEW s \in Sessions, R!L1Marks(s)
  PROVE  RunsSkipNothing' /\ R!RowsRead'
<1>1. /\ \A z \in Sessions : z # s => l1'[z] = l1[z] /\ cursor'[z] = cursor[z]
      /\ l1[s].phase # "idle" /\ l1'[s].phase = "idle" /\ cursor'[s] = l1[s].upto
      /\ processed' = processed \cup l1[s].batch /\ row' = row /\ late' = late
  BY L1MarksDoes
<1>2. ASSUME NEW z \in Sessions, l1'[z].phase # "idle", NEW i \in R!RowsOf(z),
             row[i].state = "store", row[i].at <= l1'[z].upto
      PROVE  i \in processed' \cup late' \cup l1'[z].batch
  BY <1>1, <1>2 DEF RunsSkipNothing, RowsInv
<1>3. ASSUME NEW i \in R!Rows, row[i].state = "store", row[i].at <= cursor'[row[i].s]
      PROVE  i \in processed' \cup late'
  <2>1. row[i].s \in Sessions
    BY <1>3 DEF RowsInv, RowsStamped
  <2>2. CASE row[i].s = s
    <3>1. i \in R!RowsOf(s)
      BY <1>3, <2>2 DEF R!RowsOf
    <3>2. i \in processed \cup late \cup l1[s].batch
      BY <1>1, <1>3, <2>2, <3>1 DEF RunsSkipNothing, RowsInv
    <3> QED BY <1>1, <3>2
  <2>3. CASE row[i].s # s
    BY <1>1, <1>3, <2>1, <2>3 DEF R!RowsRead, RowsInv
  <2> QED BY <2>2, <2>3
<1>4. R!RowsRead'
  BY <1>1, <1>3 DEF R!RowsRead
<1> QED BY <1>1, <1>2, <1>4 DEF RunsSkipNothing, R!RowsOf

LEMMA NextRows ==
  ASSUME RecordTypes, RowsInv, L2RunsSkipNothing, R!Next
  PROVE  RowsInv'
<1> USE DEF RecordTypes
<1>1. ASSUME NEW s \in Sessions, NEW n \in 1..MaxPerCapture, R!Capture(s, n) PROVE RowsInv'
  <2>1. RowsStamped'
    BY <1>1, CaptureStamps DEF RowsInv
  <2>2. /\ \A i \in R!Rows : row'[i].state = "store" => row'[i] = row[i]
        /\ UNCHANGED <<cursor, processed, late, l1>>
    BY <1>1, CaptureDoes
  <2>3. RunsSkipNothing' /\ R!RowsRead'
    BY <2>2, NothingPassed DEF RowsInv
  <2> QED BY <2>1, <2>3 DEF RowsInv
<1>2. ASSUME NEW i \in R!Rows, R!StoreRow(i) \/ R!LoseRow(i) PROVE RowsInv'
  <2>1. RowsStamped'
    BY <1>2, RowStepsDo, RowsUnmoved DEF RowsInv
  <2>2. CASE R!StoreRow(i)
    BY <2>1, <2>2, StoreRowSkipsNothing DEF RowsInv
  <2>3. CASE ~R!StoreRow(i)
    <3>1. /\ \A j \in R!Rows : row'[j].state = "store" =>
               row[j].state = "store" /\ row'[j].s = row[j].s /\ row'[j].at = row[j].at
          /\ UNCHANGED <<cursor, processed, l1>> /\ late \subseteq late'
      BY <1>2, <2>3, RowStepsDo
    <3>2. RunsSkipNothing' /\ R!RowsRead'
      BY <3>1, NothingPassed DEF RowsInv
    <3> QED BY <2>1, <3>2 DEF RowsInv
  <2> QED BY <2>2, <2>3
<1>3. ASSUME row' = row, RunsSkipNothing' /\ R!RowsRead' PROVE RowsInv'
  BY <1>3, RowsUnmoved DEF RowsInv
<1>4. ASSUME NEW s \in Sessions, R!L1Reads(s) PROVE RowsInv'
  <2>1. row' = row
    BY <1>4 DEF R!L1Reads
  <2> QED BY <1>3, <1>4, <2>1, L1ReadsSkipsNothing
<1>5. ASSUME NEW s \in Sessions, R!L1Marks(s) PROVE RowsInv'
  BY <1>3, <1>5, L1MarksDoes, L1MarksSkipsNothing
<1>6. ASSUME UNCHANGED <<row, cursor, processed, late>>,
             \A s \in Sessions : l1'[s].phase # "idle" =>
               l1[s].phase # "idle" /\ l1'[s].upto = l1[s].upto /\ l1'[s].batch = l1[s].batch
      PROVE  RowsInv'
  <2>1. RunsSkipNothing' /\ R!RowsRead'
    BY <1>6, NothingPassed DEF RowsInv
  <2> QED BY <1>3, <1>6, <2>1
<1>7. ASSUME NEW s \in Sessions, R!L1Extracts(s) PROVE RowsInv'
  <2>1. l1[s].phase = "extract" /\ UNCHANGED <<row, cursor, processed, late>>
    BY <1>7 DEF R!L1Extracts
  <2> QED BY <1>6, <1>7, <2>1, L1ExtractsKeepsTypes
<1>8. ASSUME NEW s \in Sessions, NEW targets \in SUBSET R!Memories, NEW merged \in BOOLEAN,
             R!L1Decides(s, targets, merged)
      PROVE  RowsInv'
  BY <1>6, <1>8, L1DecidesDoes
<1>9. ASSUME NEW s \in Sessions, R!L1Writes(s) PROVE RowsInv'
  BY <1>6, <1>9, L1WritesDoes
<1>10. ASSUME NEW s \in Sessions, R!L1WriteFails(s) PROVE RowsInv'
  BY <1>6, <1>10, L1WriteFailsDoes
<1>11. ASSUME NEW s \in Sessions, R!L2Reads(s) \/ R!L2Works(s) \/ R!L2Fails(s) PROVE RowsInv'
  BY <1>6, <1>11, L2StepsDo
<1>12. CASE R!Crash
  <2>1. RowsStamped'
    BY <1>12, CrashDoes, RowsUnmoved DEF RowsInv
  <2>2. RunsSkipNothing' /\ R!RowsRead'
    BY <1>12, CrashDoes, NothingPassed DEF RowsInv
  <2> QED BY <2>1, <2>2 DEF RowsInv
<1>13. CASE R!Tick
  BY <1>6, <1>13, TickDoes
<1> QED BY <1>1, <1>2, <1>4, <1>5, <1>7, <1>8, <1>9, <1>10, <1>11, <1>12, <1>13 DEF R!Next, R!SessionStep

-----------------------------------------------------------------------------
(* Records: no memory is skipped *)

(* a step that neither writes or replaces memories nor has L2 read them *)
LEMMA MemoriesStay ==
  ASSUME RecordTypes, MemoriesInv,
         UNCHANGED <<memory, memories, l2cursor, seen, twins>>, clock' \in {clock, clock + 1},
         \A s \in Sessions : /\ l1'[s].phase = "write" => l1[s].phase = "write" /\ l1'[s].at = l1[s].at
                             /\ l2'[s].running => l2[s].running /\ l2'[s].read = l2[s].read
  PROVE  MemoriesInv'
<1>1. /\ clock \in Nat
      /\ \A k \in R!Memories : memory[k].at \in Nat
      /\ \A s \in Sessions : l2cursor[s] \in Nat /\ l1[s].at \in Nat
  <2>1. clock \in R!Time /\ \A s \in Sessions : l2cursor[s] \in R!Time
    BY DEF RecordTypes, ClockTypes, MemoryTypes
  <2> QED BY <2>1, MemoryIs, RunIs, RecordBounds DEF RecordTypes, R!Time
<1>2. MemoriesStamped'
  <2>1. Written' = Written /\ Written \subseteq R!Memories
    BY DEF Written
  <2>2. \A k \in Written : memory[k].at <= clock'
    BY <1>1, <2>1 DEF MemoriesInv, MemoriesStamped
  <2> QED BY <2>1, <2>2 DEF MemoriesInv, MemoriesStamped
<1>3. StampsInOrder'
  <2>1. Written' = Written
    BY DEF Written
  <2>2. \A s \in Sessions : l2cursor[s] <= clock'
    BY <1>1 DEF MemoriesInv, StampsInOrder
  <2>3. \A s \in Sessions : l1'[s].phase = "write" =>
           /\ l1'[s].at <= clock' /\ l2cursor[s] <= l1'[s].at
           /\ \A k \in Written : memory[k].s = s => memory[k].at <= l1'[s].at
    BY <1>1 DEF MemoriesInv, StampsInOrder
  <2> QED BY <2>1, <2>2, <2>3 DEF StampsInOrder
<1>4. L2RunsSkipNothing'
  <2>1. Written' = Written
    BY DEF Written
  <2> QED BY <2>1 DEF MemoriesInv, L2RunsSkipNothing
<1>5. R!MemoriesRead'
  BY DEF MemoriesInv, R!MemoriesRead
<1> QED BY <1>2, <1>3, <1>4, <1>5 DEF MemoriesInv

LEMMA L1DecidesStamps ==
  ASSUME RecordTypes, MemoriesInv, NEW s \in Sessions, NEW targets \in SUBSET R!Memories,
         NEW merged \in BOOLEAN, R!L1Decides(s, targets, merged)
  PROVE  MemoriesInv'
<1>1. /\ \A z \in Sessions : z # s => l1'[z] = l1[z]
      /\ l1'[s].at = clock
      /\ \A k \in R!Memories : /\ memory'[k].s = memory[k].s /\ memory'[k].at = memory[k].at
                               /\ memory'[k].there => memory[k].there
      /\ UNCHANGED <<memories, l2cursor, l2, clock, seen, twins>>
  <2>1. /\ \A z \in Sessions : z # s => l1'[z] = l1[z]
        /\ l1'[s].at = clock /\ OnlyDeletes
        /\ UNCHANGED <<memories, l2cursor, l2, clock, seen, twins>>
    BY L1DecidesDoes
  <2>2. \A k \in R!Memories : /\ memory'[k].s = memory[k].s /\ memory'[k].at = memory[k].at
                              /\ memory'[k].there => memory[k].there
    BY <2>1 DEF OnlyDeletes
  <2> QED BY <2>1, <2>2
<1>2. Written' = Written /\ Written \subseteq R!Memories
  BY <1>1 DEF Written
<1>3. MemoriesStamped'
  BY <1>1, <1>2 DEF MemoriesInv, MemoriesStamped
<1>4. StampsInOrder'
  <2>1. clock <= clock
    BY RecordBounds DEF RecordTypes, ClockTypes, R!Time
  <2>2. ASSUME NEW z \in Sessions, l1'[z].phase = "write"
        PROVE  /\ l1'[z].at <= clock /\ l2cursor[z] <= l1'[z].at
               /\ \A k \in Written : memory'[k].s = z => memory'[k].at <= l1'[z].at
    <3>1. CASE z = s
      BY <1>1, <1>2, <2>1, <3>1 DEF MemoriesInv, MemoriesStamped, StampsInOrder
    <3>2. CASE z # s
      BY <1>1, <1>2, <2>2, <3>2 DEF MemoriesInv, StampsInOrder
    <3> QED BY <3>1, <3>2
  <2> QED BY <1>1, <1>2, <2>2 DEF MemoriesInv, StampsInOrder
<1>5. L2RunsSkipNothing'
  <2>1. ASSUME NEW z \in Sessions, l2[z].running
        PROVE  /\ l2[z].read # {} /\ \A k \in l2[z].read : k \in Written /\ memory'[k].s = z
               /\ \A k \in R!Memories, j \in l2[z].read :
                    memory'[k].there /\ memory'[k].s = z /\ memory'[k].at <= memory'[j].at =>
                      k \in seen \cup twins \cup l2[z].read
    <3>1. l2[z].read # {} /\ \A k \in l2[z].read : k \in R!Memories /\ k \in Written /\ memory[k].s = z
      BY <1>2, <2>1 DEF MemoriesInv, L2RunsSkipNothing
    <3>2. \A k \in R!Memories, j \in l2[z].read :
            memory'[k].there /\ memory'[k].s = z /\ memory'[k].at <= memory'[j].at =>
              memory[k].there /\ memory[k].s = z /\ memory[k].at <= memory[j].at
      BY <1>1, <3>1
    <3>3. \A k \in R!Memories, j \in l2[z].read :
            memory'[k].there /\ memory'[k].s = z /\ memory'[k].at <= memory'[j].at =>
              k \in seen \cup twins \cup l2[z].read
      BY <2>1, <3>2 DEF MemoriesInv, L2RunsSkipNothing
    <3> QED BY <1>1, <3>1, <3>3
  <2> QED BY <1>1, <1>2, <2>1 DEF L2RunsSkipNothing
<1>6. R!MemoriesRead'
  BY <1>1 DEF MemoriesInv, R!MemoriesRead
<1> QED BY <1>3, <1>4, <1>5, <1>6 DEF MemoriesInv

LEMMA L1WritesStamps ==
  ASSUME RecordTypes, MemoriesInv, NEW s \in Sessions, R!L1Writes(s)
  PROVE  MemoriesInv'
<1> DEFINE m == memories + 1
<1>1. /\ l1[s].phase = "write" /\ memories' = m /\ m \in R!Memories
      /\ \A z \in Sessions : z # s => l1'[z] = l1[z]
      /\ l1'[s].phase = "apply"
      /\ memory'[m] = [s |-> s, tells |-> l1[s].tells, at |-> l1[s].at, there |-> TRUE]
      /\ \A k \in R!Memories : k # m => memory'[k] = memory[k]
      /\ twins \subseteq twins'
      /\ l1[s].at = l2cursor[s] \/ (\E k \in l2[s].read : memory[k].at = l1[s].at) => m \in twins'
      /\ UNCHANGED <<l2cursor, l2, clock, seen>>
  BY L1WritesDoes
<1>2. memory'[m].s = s /\ memory'[m].at = l1[s].at
  BY <1>1
<1>3. memories \in Nat /\ Written' = Written \cup {m} /\ m \notin Written /\ Written \subseteq R!Memories
  <2>1. memories \in Nat
    BY DEF RecordTypes, MemoryTypes
  <2>2. \A k \in R!Memories : k \in Nat
    BY MemoryIs DEF RecordTypes
  <2>3. \A k \in R!Memories : k <= m <=> k <= memories \/ k = m
    BY <2>1, <2>2
  <2>4. Written' = {k \in R!Memories : k <= m}
    BY <1>1 DEF Written
  <2>5. ~(m <= memories)
    BY <2>1
  <2> QED BY <1>1, <2>1, <2>3, <2>4, <2>5 DEF Written
<1>4. /\ l1[s].at \in Nat /\ l1[s].at <= clock /\ l2cursor[s] \in Nat /\ l2cursor[s] <= l1[s].at
      /\ \A k \in Written : memory[k].at \in Nat /\ (memory[k].s = s => memory[k].at <= l1[s].at)
  <2>1. l2cursor[s] \in Nat
    BY RecordBounds DEF RecordTypes, MemoryTypes, R!Time
  <2> QED BY <1>1, <1>3, <2>1, MemoryIs, RunIs DEF RecordTypes, MemoriesInv, StampsInOrder
<1> HIDE DEF m
<1>5. MemoriesStamped'
  BY <1>1, <1>2, <1>3, <1>4 DEF MemoriesInv, MemoriesStamped
<1>6. StampsInOrder'
  <2>1. ASSUME NEW z \in Sessions, l1'[z].phase = "write"
        PROVE  /\ l1'[z].at <= clock /\ l2cursor[z] <= l1'[z].at
               /\ \A k \in Written' : memory'[k].s = z => memory'[k].at <= l1'[z].at
    <3>1. z # s /\ l1'[z] = l1[z]
      BY <1>1, <2>1
    <3>2. \A k \in Written : memory[k].s = z => memory[k].at <= l1[z].at
      BY <2>1, <3>1 DEF MemoriesInv, StampsInOrder
    <3>3. \A k \in Written' : memory'[k].s = z => memory'[k].at <= l1'[z].at
      BY <1>1, <1>2, <1>3, <3>1, <3>2
    <3> QED BY <2>1, <3>1, <3>3 DEF MemoriesInv, StampsInOrder
  <2> QED BY <1>1, <2>1 DEF MemoriesInv, StampsInOrder
<1>7. L2RunsSkipNothing'
  <2>1. ASSUME NEW z \in Sessions, l2[z].running
        PROVE  /\ l2[z].read # {} /\ \A k \in l2[z].read : k \in Written /\ memory'[k] = memory[k] /\ memory[k].s = z
               /\ \A k \in R!Memories, j \in l2[z].read :
                    memory'[k].there /\ memory'[k].s = z /\ memory'[k].at <= memory'[j].at =>
                      k \in seen \cup twins' \cup l2[z].read
    <3>1. l2[z].read # {} /\ \A k \in l2[z].read : k \in Written /\ memory'[k] = memory[k] /\ memory[k].s = z
      BY <1>1, <1>3, <2>1 DEF MemoriesInv, L2RunsSkipNothing
    <3>2. ASSUME NEW k \in R!Memories, NEW j \in l2[z].read,
                 memory'[k].there, memory'[k].s = z, memory'[k].at <= memory'[j].at
          PROVE  k \in seen \cup twins' \cup l2[z].read
      <4>1. CASE k = m
        <5>1. z = s /\ l1[s].at <= memory[j].at /\ memory[j].at <= l1[s].at /\ memory[j].at \in Nat
          BY <1>2, <1>4, <3>1, <3>2, <4>1
        <5>2. memory[j].at = l1[s].at
          BY <1>4, <5>1
        <5> QED BY <1>1, <4>1, <5>1, <5>2
      <4>2. CASE k # m
        BY <1>1, <2>1, <3>1, <3>2, <4>2 DEF MemoriesInv, L2RunsSkipNothing
      <4> QED BY <4>1, <4>2
    <3> QED BY <3>1, <3>2
  <2> QED BY <1>1, <1>3, <2>1 DEF L2RunsSkipNothing
<1>8. ASSUME NEW k \in R!Memories, memory'[k].there, memory'[k].at <= l2cursor[memory'[k].s]
      PROVE  k \in seen \cup twins'
  <2>1. CASE k = m
    <3>1. l1[s].at <= l2cursor[s]
      BY <1>2, <1>8, <2>1
    <3>2. l1[s].at = l2cursor[s]
      BY <1>4, <3>1
    <3> QED BY <1>1, <2>1, <3>2
  <2>2. CASE k # m
    BY <1>1, <1>8, <2>2 DEF MemoriesInv, R!MemoriesRead
  <2> QED BY <2>1, <2>2
<1>9. R!MemoriesRead'
  BY <1>1, <1>8 DEF R!MemoriesRead
<1> QED BY <1>5, <1>6, <1>7, <1>9 DEF MemoriesInv

LEMMA L2StepsSkipNothing ==
  ASSUME RecordTypes, MemoriesInv, NEW s \in Sessions, R!L2Reads(s) \/ R!L2Works(s) \/ R!L2Fails(s)
  PROVE  MemoriesInv'
<1>1. /\ \A z \in Sessions : z # s => l2'[z] = l2[z] /\ l2cursor'[z] = l2cursor[z]
      /\ \/ /\ R!L2Reads(s) /\ R!Unread(s) # {} /\ l2'[s].read = R!Unread(s)
            /\ UNCHANGED <<l2cursor, seen>>
         \/ /\ l2[s].running /\ ~l2'[s].running /\ seen' = seen \cup l2[s].read
            /\ \E k \in l2[s].read : l2cursor'[s] = memory[k].at
         \/ ~l2'[s].running /\ UNCHANGED <<l2cursor, seen>>
      /\ UNCHANGED <<memory, memories, l1, clock, twins>>
  BY L2StepsDo DEF MemoriesInv
<1>2. Written' = Written /\ Written \subseteq R!Memories /\ seen \subseteq seen'
  BY <1>1 DEF Written
<1>3. MemoriesStamped'
  BY <1>1, <1>2 DEF MemoriesInv, MemoriesStamped
<1>4. \/ l2cursor'[s] = l2cursor[s]
      \/ \E k \in Written : memory[k].s = s /\ l2cursor'[s] = memory[k].at
  BY <1>1 DEF MemoriesInv, L2RunsSkipNothing
<1>5. StampsInOrder'
  <2>1. ASSUME NEW z \in Sessions
        PROVE  l2cursor'[z] <= clock /\ (l1[z].phase = "write" => l2cursor'[z] <= l1[z].at)
    <3>1. CASE l2cursor'[z] = l2cursor[z]
      BY <3>1 DEF MemoriesInv, StampsInOrder
    <3>2. CASE z = s /\ \E k \in Written : memory[k].s = s /\ l2cursor'[s] = memory[k].at
      BY <3>2 DEF MemoriesInv, MemoriesStamped, StampsInOrder
    <3> QED BY <1>1, <1>4, <3>1, <3>2
  <2> QED BY <1>1, <1>2, <2>1 DEF MemoriesInv, StampsInOrder
<1>6. L2RunsSkipNothing'
  <2>1. ASSUME NEW z \in Sessions, l2'[z].running
        PROVE  /\ l2'[z].read # {} /\ \A k \in l2'[z].read : k \in Written /\ memory[k].s = z
               /\ \A k \in R!Memories, j \in l2'[z].read :
                    memory[k].there /\ memory[k].s = z /\ memory[k].at <= memory[j].at =>
                      k \in seen' \cup twins \cup l2'[z].read
    <3>1. CASE z # s
      BY <1>1, <1>2, <2>1, <3>1 DEF MemoriesInv, L2RunsSkipNothing
    <3>2. CASE z = s
      <4>1. R!Unread(s) # {} /\ l2'[s].read = R!Unread(s) /\ l2cursor' = l2cursor /\ seen' = seen
        BY <1>1, <2>1, <3>2
      <4>2. \A k \in R!Unread(s) : k \in Written /\ memory[k].s = s
        BY DEF R!Unread, MemoriesInv, MemoriesStamped
      <4>3. ASSUME NEW k \in R!Memories, memory[k].there, memory[k].s = s
            PROVE  k \in seen \cup twins \cup R!Unread(s)
        <5>1. memory[k].at \in Nat /\ l2cursor[s] \in Nat
          <6>1. l2cursor[s] \in Nat
            BY RecordBounds DEF RecordTypes, MemoryTypes, R!Time
          <6> QED BY <6>1, MemoryIs DEF RecordTypes
        <5>2. CASE memory[k].at <= l2cursor[s]
          BY <4>3, <5>2 DEF MemoriesInv, R!MemoriesRead
        <5>3. CASE memory[k].at > l2cursor[s]
          BY <4>3, <5>3 DEF R!Unread
        <5> QED BY <5>1, <5>2, <5>3
      <4> QED BY <3>2, <4>1, <4>2, <4>3
    <3> QED BY <3>1, <3>2
  <2> QED BY <1>1, <1>2, <2>1 DEF L2RunsSkipNothing
<1>7. ASSUME NEW k \in R!Memories, memory[k].there, memory[k].at <= l2cursor'[memory[k].s]
      PROVE  k \in seen' \cup twins
  <2>1. memory[k].s \in Sessions
    BY <1>7 DEF MemoriesInv, MemoriesStamped
  <2>2. CASE l2cursor'[memory[k].s] = l2cursor[memory[k].s]
    BY <1>2, <1>7, <2>2 DEF MemoriesInv, R!MemoriesRead
  <2>3. CASE memory[k].s = s /\ l2[s].running /\ seen' = seen \cup l2[s].read
             /\ \E j \in l2[s].read : l2cursor'[s] = memory[j].at
    BY <1>7, <2>3 DEF MemoriesInv, L2RunsSkipNothing
  <2> QED BY <1>1, <2>1, <2>2, <2>3
<1>8. R!MemoriesRead'
  BY <1>1, <1>7 DEF R!MemoriesRead
<1> QED BY <1>3, <1>5, <1>6, <1>8 DEF MemoriesInv

LEMMA NextMemories ==
  ASSUME RecordTypes, MemoriesInv, R!Next
  PROVE  MemoriesInv'
<1>1. ASSUME UNCHANGED <<memory, memories, l2cursor, l2, seen, twins, clock>>,
             \A s \in Sessions : l1'[s].phase = "write" => l1'[s] = l1[s]
      PROVE  MemoriesInv'
  BY <1>1, MemoriesStay
<1>2. ASSUME NEW s \in Sessions, NEW n \in 1..MaxPerCapture, R!Capture(s, n) PROVE MemoriesInv'
  BY <1>1, <1>2, CaptureDoes
<1>3. ASSUME NEW i \in R!Rows, R!StoreRow(i) \/ R!LoseRow(i) PROVE MemoriesInv'
  BY <1>1, <1>3, RowStepsDo
<1>4. ASSUME NEW s \in Sessions, R!L1Reads(s) PROVE MemoriesInv'
  <2>1. UNCHANGED <<memory, memories, l2cursor, l2, seen, twins, clock>>
    BY <1>4 DEF R!L1Reads
  <2>2. l1'[s].phase = "extract" /\ \A z \in Sessions : z # s => l1'[z] = l1[z]
    <3>1. PICK q \in R!Queried(s), run \in L1Runs :
           /\ run = [R!IdleL1 EXCEPT !.phase = "extract", !.batch = R!Slice(q),
                                     !.upto = R!LatestOf(R!Slice(q)), !.new = R!NewMessages(R!Slice(q))]
           /\ l1' = [l1 EXCEPT ![s] = run]
      BY <1>4, ReadingRun
    <3>2. run.phase = "extract"
      BY <3>1 DEF R!IdleL1
    <3> QED BY <3>1, <3>2, SomeRun DEF RecordTypes
  <2> QED BY <1>1, <2>1, <2>2
<1>5. ASSUME NEW s \in Sessions, R!L1Extracts(s) PROVE MemoriesInv'
  <2>1. UNCHANGED <<memory, memories, l2cursor, l2, seen, twins, clock>>
    BY <1>5 DEF R!L1Extracts
  <2> QED BY <1>1, <1>5, <2>1, L1ExtractsKeepsTypes
<1>6. ASSUME NEW s \in Sessions, R!L1WriteFails(s) PROVE MemoriesInv'
  BY <1>1, <1>6, L1WriteFailsDoes
<1>7. ASSUME NEW s \in Sessions, R!L1Marks(s) PROVE MemoriesInv'
  BY <1>1, <1>7, L1MarksDoes
<1>8. CASE R!Crash
  BY <1>8, CrashDoes, MemoriesStay
<1>9. CASE R!Tick
  BY <1>9, TickDoes, MemoriesStay
<1> QED BY <1>2, <1>3, <1>4, <1>5, <1>6, <1>7, <1>8, <1>9, L1DecidesStamps, L1WritesStamps,
           L2StepsSkipNothing DEF R!Next, R!SessionStep

-----------------------------------------------------------------------------
(* Records: no fact is lost *)

(* a step that leaves the memories alone and ends no write *)
LEMMA FactsStay ==
  ASSUME FactsInv, UNCHANGED <<memory, memories, told>>, lost \subseteq lost',
         \A s \in Sessions : /\ l1'[s].phase = "write" => l1'[s] = l1[s]
                             /\ l1[s].phase = "write" =>
                                  \/ l1'[s] = l1[s]
                                  \/ \A k \in l1[s].deleted : memory[k].tells \subseteq lost'
  PROVE  FactsInv'
<1>1. ASSUME NEW s \in Sessions, l1'[s].phase = "write", NEW k \in l1'[s].deleted
      PROVE  k \in Written' /\ memory[k].tells \subseteq l1'[s].tells
  BY <1>1 DEF FactsInv, Written
<1>2. ASSUME NEW i \in told \ lost'
      PROVE  \/ \E k \in R!Memories : memory[k].there /\ i \in memory[k].tells
             \/ \E s \in Sessions :
                  l1'[s].phase = "write" /\ \E k \in l1'[s].deleted : i \in memory[k].tells
  <2>1. CASE \E k \in R!Memories : memory[k].there /\ i \in memory[k].tells
    BY <2>1
  <2>2. CASE \E s \in Sessions :
               l1[s].phase = "write" /\ \E k \in l1[s].deleted : i \in memory[k].tells
    <3>1. PICK s \in Sessions : l1[s].phase = "write" /\ \E k \in l1[s].deleted : i \in memory[k].tells
      BY <2>2
    <3>2. l1'[s] = l1[s]
      BY <1>2, <3>1
    <3> QED BY <3>1, <3>2
  <2> QED BY <1>2, <2>1, <2>2 DEF FactsInv
<1> QED BY <1>1, <1>2 DEF FactsInv

LEMMA L1DecidesFacts ==
  ASSUME RecordTypes, MemoriesStamped, FactsInv, NEW s \in Sessions, NEW targets \in SUBSET R!Memories,
         NEW merged \in BOOLEAN, R!L1Decides(s, targets, merged)
  PROVE  FactsInv'
<1>1. /\ \A z \in Sessions : z # s => l1'[z] = l1[z]
      /\ l1[s].phase = "apply" /\ l1'[s].phase = "write"
      /\ \A k \in l1'[s].deleted : /\ k \in R!Memories /\ memory[k].there
                                   /\ memory[k].tells \subseteq l1'[s].tells
      /\ \A k \in R!Memories : memory'[k].tells = memory[k].tells
      /\ \A k \in R!Memories :
           memory[k].there => memory'[k].there \/ k \in l1'[s].deleted \/ memory[k].tells \subseteq lost'
      /\ lost \subseteq lost' /\ memories' = memories /\ told' = told
  <2>1. /\ \A z \in Sessions : z # s => l1'[z] = l1[z]
        /\ l1[s].phase = "apply" /\ l1'[s].phase = "write"
        /\ lost \subseteq lost' /\ memories' = memories /\ told' = told
        /\ OnlyDeletes /\ TakesOver(s) /\ DeletedFor(s)
    BY L1DecidesDoes
  <2>2. /\ \A k \in l1'[s].deleted : /\ k \in R!Memories /\ memory[k].there
                                     /\ memory[k].tells \subseteq l1'[s].tells
        /\ \A k \in R!Memories : memory'[k].tells = memory[k].tells
    BY <2>1 DEF OnlyDeletes, TakesOver
  <2>3. \A k \in R!Memories :
          memory[k].there => memory'[k].there \/ k \in l1'[s].deleted \/ memory[k].tells \subseteq lost'
    BY <2>1 DEF DeletedFor
  <2> QED BY <2>1, <2>2, <2>3
<1>2. Written' = Written /\ Written \subseteq R!Memories
  BY <1>1 DEF Written
<1>4. ASSUME NEW z \in Sessions, l1'[z].phase = "write", NEW k \in l1'[z].deleted
      PROVE  k \in Written /\ memory'[k].tells \subseteq l1'[z].tells
  <2>1. CASE z = s
    BY <1>1, <1>4, <2>1 DEF MemoriesStamped
  <2>2. CASE z # s
    BY <1>1, <1>2, <1>4, <2>2 DEF FactsInv
  <2> QED BY <2>1, <2>2
<1>5. ASSUME NEW i \in told \ lost'
      PROVE  \/ \E k \in R!Memories : memory'[k].there /\ i \in memory'[k].tells
             \/ \E z \in Sessions :
                  l1'[z].phase = "write" /\ \E k \in l1'[z].deleted : i \in memory'[k].tells
  <2>1. ASSUME NEW k \in R!Memories, memory[k].there, i \in memory[k].tells
        PROVE  memory'[k].there \/ k \in l1'[s].deleted
    BY <1>1, <1>5, <2>1
  <2>2. ASSUME NEW z \in Sessions, l1[z].phase = "write", NEW k \in l1[z].deleted, i \in memory[k].tells
        PROVE  z # s /\ l1'[z] = l1[z] /\ i \in memory'[k].tells
    BY <1>1, <1>2, <2>2 DEF FactsInv
  <2>3. CASE \E k \in R!Memories : memory[k].there /\ i \in memory[k].tells
    BY <1>1, <2>1, <2>3
  <2>4. CASE \E z \in Sessions : l1[z].phase = "write" /\ \E k \in l1[z].deleted : i \in memory[k].tells
    <3>1. PICK z \in Sessions : l1[z].phase = "write" /\ \E k \in l1[z].deleted : i \in memory[k].tells
      BY <2>4
    <3>2. PICK k \in l1[z].deleted : i \in memory[k].tells
      BY <3>1
    <3>3. z # s /\ l1'[z] = l1[z] /\ i \in memory'[k].tells
      BY <2>2, <3>1, <3>2
    <3> QED BY <3>1, <3>2, <3>3
  <2>5. i \notin lost
    BY <1>1, <1>5
  <2> QED BY <1>5, <2>3, <2>4, <2>5 DEF FactsInv
<1> QED BY <1>1, <1>2, <1>4, <1>5 DEF FactsInv

LEMMA L1WritesFacts ==
  ASSUME RecordTypes, MemoriesStamped, FactsInv, NEW s \in Sessions, R!L1Writes(s)
  PROVE  FactsInv'
<1> DEFINE m == memories + 1
<1>1. /\ \A z \in Sessions : z # s => l1'[z] = l1[z]
      /\ l1[s].phase = "write" /\ l1'[s].phase = "apply" /\ m \in R!Memories /\ memories' = m
      /\ memory'[m].there /\ memory'[m].tells = l1[s].tells
      /\ \A k \in R!Memories : k # m => memory'[k] = memory[k]
      /\ told' = told \cup l1[s].tells /\ lost' = lost \ l1[s].tells
  <2>1. /\ \A z \in Sessions : z # s => l1'[z] = l1[z]
        /\ l1[s].phase = "write" /\ l1'[s].phase = "apply" /\ m \in R!Memories /\ memories' = m
        /\ memory'[m] = [s |-> s, tells |-> l1[s].tells, at |-> l1[s].at, there |-> TRUE]
        /\ \A k \in R!Memories : k # m => memory'[k] = memory[k]
        /\ told' = told \cup l1[s].tells /\ lost' = lost \ l1[s].tells
    BY L1WritesDoes
  <2> HIDE DEF m
  <2>2. memory'[m].there /\ memory'[m].tells = l1[s].tells
    BY <2>1
  <2> QED BY <2>1, <2>2
<1>2. Written \subseteq Written' /\ m \notin Written /\ Written \subseteq R!Memories
  <2>1. memories \in Nat /\ \A k \in R!Memories : k \in Nat
    BY MemoryIs DEF RecordTypes, MemoryTypes
  <2>2. ~(m <= memories) /\ \A k \in R!Memories : k <= memories => k <= m
    BY <2>1
  <2> QED BY <1>1, <2>2 DEF Written
<1> HIDE DEF m
<1>3. ASSUME NEW z \in Sessions, l1'[z].phase = "write", NEW k \in l1'[z].deleted
      PROVE  k \in Written' /\ memory'[k].tells \subseteq l1'[z].tells
  <2>1. z # s /\ l1'[z] = l1[z]
    BY <1>1, <1>3
  <2>2. k \in Written /\ memory[k].tells \subseteq l1[z].tells
    BY <1>3, <2>1 DEF FactsInv
  <2> QED BY <1>1, <1>2, <2>1, <2>2
<1>4. ASSUME NEW i \in told' \ lost'
      PROVE  \/ \E k \in R!Memories : memory'[k].there /\ i \in memory'[k].tells
             \/ \E z \in Sessions :
                  l1'[z].phase = "write" /\ \E k \in l1'[z].deleted : i \in memory'[k].tells
  <2>1. CASE i \in l1[s].tells
    BY <1>1, <2>1
  <2>2. CASE \E k \in R!Memories : memory[k].there /\ i \in memory[k].tells
    BY <1>1, <1>2, <2>2 DEF MemoriesStamped
  <2>3. CASE i \notin l1[s].tells
             /\ \E z \in Sessions : l1[z].phase = "write" /\ \E k \in l1[z].deleted : i \in memory[k].tells
    <3>1. PICK z \in Sessions : l1[z].phase = "write" /\ \E k \in l1[z].deleted : i \in memory[k].tells
      BY <2>3
    <3>2. PICK k \in l1[z].deleted : i \in memory[k].tells
      BY <3>1
    <3>3. k \in Written /\ memory[k].tells \subseteq l1[z].tells
      BY <3>1 DEF FactsInv
    <3>4. z # s
      BY <2>3, <3>2, <3>3
    <3>5. memory'[k] = memory[k] /\ l1'[z] = l1[z]
      BY <1>1, <1>2, <3>3, <3>4
    <3> QED BY <3>1, <3>2, <3>5
  <2> QED BY <1>1, <1>4, <2>1, <2>2, <2>3 DEF FactsInv
<1> QED BY <1>3, <1>4 DEF FactsInv

LEMMA NextFacts ==
  ASSUME RecordTypes, MemoriesInv, FactsInv, R!Next
  PROVE  FactsInv'
<1>1. ASSUME UNCHANGED <<memory, memories, told, lost>>,
             \A s \in Sessions : /\ l1'[s].phase = "write" => l1'[s] = l1[s]
                                 /\ l1[s].phase = "write" => l1'[s] = l1[s]
      PROVE  FactsInv'
  BY <1>1, FactsStay
<1>2. ASSUME NEW s \in Sessions, NEW n \in 1..MaxPerCapture, R!Capture(s, n) PROVE FactsInv'
  BY <1>1, <1>2, CaptureDoes
<1>3. ASSUME NEW i \in R!Rows, R!StoreRow(i) \/ R!LoseRow(i) PROVE FactsInv'
  BY <1>1, <1>3, RowStepsDo
<1>4. ASSUME NEW s \in Sessions, R!L1Reads(s) PROVE FactsInv'
  <2>1. UNCHANGED <<memory, memories, told, lost>> /\ l1[s].phase = "idle"
    BY <1>4 DEF R!L1Reads
  <2>2. l1'[s].phase = "extract" /\ \A z \in Sessions : z # s => l1'[z] = l1[z]
    <3>1. PICK q \in R!Queried(s), run \in L1Runs :
           /\ run = [R!IdleL1 EXCEPT !.phase = "extract", !.batch = R!Slice(q),
                                     !.upto = R!LatestOf(R!Slice(q)), !.new = R!NewMessages(R!Slice(q))]
           /\ l1' = [l1 EXCEPT ![s] = run]
      BY <1>4, ReadingRun
    <3>2. run.phase = "extract"
      BY <3>1 DEF R!IdleL1
    <3> QED BY <3>1, <3>2, SomeRun DEF RecordTypes
  <2> QED BY <1>1, <2>1, <2>2
<1>5. ASSUME NEW s \in Sessions, R!L1Extracts(s) PROVE FactsInv'
  <2>1. UNCHANGED <<memory, memories, told, lost>> /\ l1[s].phase = "extract"
    BY <1>5 DEF R!L1Extracts
  <2> QED BY <1>1, <1>5, <2>1, L1ExtractsKeepsTypes
<1>6. ASSUME NEW s \in Sessions, R!L1WriteFails(s) PROVE FactsInv'
  <2>1. \A k \in l1[s].deleted : memory[k].tells \subseteq R!Told(l1[s].deleted)
    BY DEF R!Told
  <2> QED BY <1>6, <2>1, L1WriteFailsDoes, FactsStay
<1>7. ASSUME NEW s \in Sessions, R!L1Marks(s) PROVE FactsInv'
  BY <1>1, <1>7, L1MarksDoes
<1>8. ASSUME NEW s \in Sessions, R!L2Reads(s) \/ R!L2Works(s) \/ R!L2Fails(s) PROVE FactsInv'
  BY <1>1, <1>8, L2StepsDo DEF MemoriesInv
<1>9. CASE R!Crash
  <2>1. ASSUME NEW s \in Sessions, l1[s].phase = "write", NEW k \in l1[s].deleted
        PROVE  memory[k].tells \subseteq lost'
    <3>1. memory[k].tells \subseteq R!Told(l1[s].deleted)
      BY <2>1 DEF R!Told
    <3>2. R!Told(l1[s].deleted) \subseteq lost'
      BY <1>9, <2>1, CrashDoes
    <3> QED BY <3>1, <3>2
  <2> QED BY <1>9, <2>1, CrashDoes, FactsStay
<1>10. CASE R!Tick
  BY <1>1, <1>10, TickDoes
<1> QED BY <1>2, <1>3, <1>4, <1>5, <1>6, <1>7, <1>8, <1>9, <1>10, L1DecidesFacts, L1WritesFacts
        DEF R!Next, R!SessionStep, MemoriesInv

-----------------------------------------------------------------------------
(* SqliteStore: searches are true *)

LEMMA StoreBounds ==
  /\ L0Ids \cap L1Ids = {} /\ None \notin Models /\ None \notin L0Ids /\ None \notin L1Ids
  /\ None \notin S!Row /\ None \notin S!Vector /\ S!Ids = L0Ids \cup L1Ids
  /\ MaxWrites \in Nat \ {0} /\ MaxDays \in Nat /\ MaxStarts \in Nat \ {0} /\ MaxFaults \in Nat
BY Assumption DEF S!StoreAssumption, S!Ids

LEMMA EntriesAre ==
  ASSUME StoreTypes, NEW id \in S!Ids
  PROVE  /\ table[id] # None => /\ table[id] \in S!Row /\ table[id].text \in S!Texts /\ table[id].kind \in S!Ids
         /\ vec[id] # None => vec[id] \in S!Vector /\ vec[id].model \in Models
         /\ fts[id] \in 0..MaxWrites
<1>1. table[id] \in S!Row \cup {None} /\ vec[id] \in S!Vector \cup {None} /\ fts[id] \in 0..MaxWrites
  BY DEF StoreTypes, TableTypes
<1>2. \A e \in S!Row : e.text \in S!Texts /\ e.kind \in S!Ids
  BY DEF S!Row
<1>3. \A e \in S!Vector : e.model \in Models
  BY DEF S!Vector
<1> QED BY <1>1, <1>2, <1>3

LEMMA TextsAre == \A text \in S!Texts : text \in 1..MaxWrites /\ text \in Nat /\ text # 0 /\ text \in 0..MaxWrites
BY StoreBounds DEF S!Texts

(* the keyword row of a text is written, or known to be missing *)
LEMMA IndexesTextDoes ==
  ASSUME StoreTypes, NEW id \in S!Ids, NEW text \in S!Texts, S!IndexesText(id, text)
  PROVE  /\ fts' \in [S!Ids -> 0..MaxWrites] /\ unindexed' \subseteq S!Ids /\ failures' \in 0..MaxFaults
         /\ fts'[id] = text \/ id \in unindexed'
         /\ \A z \in S!Ids : z # id => fts'[z] = fts[z] /\ (z \in unindexed' <=> z \in unindexed)
<1>1. /\ fts \in [S!Ids -> 0..MaxWrites] /\ unindexed \subseteq S!Ids /\ failures \in 0..MaxFaults
      /\ text \in 0..MaxWrites /\ 0 \in 0..MaxWrites
  BY TextsAre, StoreBounds DEF StoreTypes, TableTypes, RestTypes
<1>2. CASE fts' = [fts EXCEPT ![id] = text] /\ unindexed' = unindexed \ {id} /\ UNCHANGED failures
  BY <1>1, <1>2
<1>3. CASE /\ failures < MaxFaults /\ failures' = failures + 1
           /\ fts' \in {fts, [fts EXCEPT ![id] = 0]} /\ unindexed' = unindexed \cup {id}
  <2>1. failures' \in 0..MaxFaults
    BY <1>1, <1>3, StoreBounds
  <2>2. fts' \in [S!Ids -> 0..MaxWrites] /\ \A z \in S!Ids : z # id => fts'[z] = fts[z]
    BY <1>1, <1>3
  <2> QED BY <1>1, <1>3, <2>1, <2>2
<1> QED BY <1>2, <1>3 DEF S!IndexesText

(* a row is written *)
LEMMA RowWritten ==
  ASSUME StoreTypes, StoreInv, NEW id \in S!Ids, NEW text \in S!Texts, NEW kind \in S!Ids,
         id \in L1Ids => kind \in L1Ids, S!Running,
         table' = [table EXCEPT ![id] = [text |-> text, kind |-> kind, time |-> day]],
         S!IndexesText(id, text),
         vec' \in [S!Ids -> S!Vector \cup {None}], unmatched' \subseteq S!Ids,
         \A z \in S!Ids : z # id => vec'[z] = vec[z] /\ (z \in unmatched <=> z \in unmatched'),
         vec'[id] # None => vec'[id].model = meta /\ (vec'[id].text = text \/ id \in unmatched'),
         used \subseteq used', id \in used', used' \subseteq S!Ids, writes' \in S!Texts,
         waiting' \subseteq L0Ids, waiting' # {} => model # None, UpdateTypes',
         \A r \in Requests : update'[r] # S!Idle => update'[r] = update[r],
         UNCHANGED <<model, meta, schema, day, starts, expired>>
  PROVE  StoreTypes' /\ StoreInv'
<1> DEFINE new == [text |-> text, kind |-> kind, time |-> day]
<1>1. new \in S!Row /\ new # None /\ new.text = text /\ new.kind = kind
  <2>1. new \in S!Row
    BY DEF S!Row, StoreTypes, RestTypes
  <2> QED BY <2>1, StoreBounds
<1>2. /\ table' \in [S!Ids -> S!Row \cup {None}] /\ table'[id] = new
      /\ \A z \in S!Ids : z # id => table'[z] = table[z]
  <2> HIDE DEF new
  <2>1. table' = [table EXCEPT ![id] = new]
    BY DEF new
  <2> QED BY <1>1, <2>1 DEF StoreTypes, TableTypes
<1> HIDE DEF new
<1>3. /\ fts' \in [S!Ids -> 0..MaxWrites] /\ unindexed' \subseteq S!Ids /\ failures' \in 0..MaxFaults
      /\ fts'[id] = text \/ id \in unindexed'
      /\ \A z \in S!Ids : z # id => fts'[z] = fts[z] /\ (z \in unindexed' <=> z \in unindexed)
  BY IndexesTextDoes
<1>4. StoreTypes'
  BY <1>2, <1>3 DEF StoreTypes, TableTypes, RestTypes
<1>5. Layers'
  <2>1. \A z \in S!Ids : /\ table'[z] # None \/ vec'[z] # None => z \in used'
                         /\ z \in L1Ids /\ table'[z] # None => table'[z].kind \in L1Ids
    BY <1>1, <1>2 DEF StoreInv, Layers
  <2>2. \A r \in Requests : update'[r] # S!Idle => S!Running' /\ update'[r].id \in used'
    BY DEF StoreInv, Layers, S!Running
  <2> QED BY <2>1, <2>2 DEF Layers, S!Idle
<1>6. VectorsInv'
  <2>1. ASSUME NEW z \in S!Ids, vec'[z] # None
        PROVE  /\ vec'[z].model = meta
               /\ table'[z] # None => vec'[z].text = table'[z].text \/ z \in unmatched'
    BY <1>1, <1>2, <2>1 DEF StoreInv, VectorsInv
  <2> QED BY <2>1 DEF StoreInv, VectorsInv
<1>7. KeywordsInv'
  <2>1. schema = "v2" /\ S!Running' /\ schema' = schema
    BY DEF StoreInv, KeywordsInv, S!Running
  <2>2. ASSUME NEW z \in S!Ids, z \notin expired', z \notin unindexed'
        PROVE  fts'[z] = IF table'[z] = None THEN 0 ELSE table'[z].text
    BY <1>1, <1>2, <1>3, <2>2 DEF StoreInv, KeywordsInv
  <2> QED BY <2>1, <2>2 DEF KeywordsInv
<1> QED BY <1>4, <1>5, <1>6, <1>7 DEF StoreInv

(* rows are removed *)
LEMMA RowsRemoved ==
  ASSUME StoreTypes, StoreInv, NEW ids, S!Running,
         table' \in [S!Ids -> S!Row \cup {None}], vec' \in [S!Ids -> S!Vector \cup {None}],
         fts' \in [S!Ids -> 0..MaxWrites],
         \A z \in S!Ids : /\ table'[z] = IF z \in ids THEN None ELSE table[z]
                          /\ vec'[z] \in {None, vec[z]}
                          /\ z \notin ids => (z \in unmatched <=> z \in unmatched')
                          /\ z \notin expired' \cup unindexed' =>
                               \/ z \in ids /\ fts'[z] = 0
                               \/ z \notin ids /\ z \notin expired \cup unindexed /\ fts'[z] = fts[z],
         expired' \subseteq S!Ids, unmatched' \subseteq S!Ids, unindexed' \subseteq S!Ids,
         UNCHANGED <<model, meta, schema, waiting, update, used, writes, day, starts, failures>>
  PROVE  StoreTypes' /\ StoreInv'
<1>1. StoreTypes'
  BY DEF StoreTypes, TableTypes, UpdateTypes, RestTypes
<1>2. Layers'
  BY DEF StoreInv, Layers, S!Idle, S!Running
<1>3. VectorsInv'
  <2>1. ASSUME NEW z \in S!Ids, vec'[z] # None
        PROVE  /\ vec'[z].model = meta
               /\ table'[z] # None => vec'[z].text = table'[z].text \/ z \in unmatched'
    BY <2>1 DEF StoreInv, VectorsInv
  <2> QED BY <2>1 DEF StoreInv, VectorsInv
<1>4. KeywordsInv'
  <2>1. schema = "v2" /\ S!Running' /\ schema' = schema
    BY DEF StoreInv, KeywordsInv, S!Running
  <2>2. ASSUME NEW z \in S!Ids, z \notin expired', z \notin unindexed'
        PROVE  fts'[z] = IF table'[z] = None THEN 0 ELSE table'[z].text
    BY <2>2 DEF StoreInv, KeywordsInv
  <2> QED BY <2>1, <2>2 DEF KeywordsInv
<1> QED BY <1>1, <1>2, <1>3, <1>4 DEF StoreInv

LEMMA NextTextIs ==
  ASSUME StoreTypes, S!NextText
  PROVE  S!Running /\ writes + 1 \in S!Texts /\ writes' = writes + 1
BY StoreBounds DEF S!NextText, S!Texts, StoreTypes, RestTypes

LEMMA EmbeddingIs ==
  ASSUME StoreTypes, StoreInv, model # None, NEW text \in S!Texts
  PROVE  /\ S!EmbeddingOf(text) \in S!Vector /\ S!EmbeddingOf(text).model = meta
         /\ S!EmbeddingOf(text).text = text
BY DEF S!EmbeddingOf, S!Vector, StoreTypes, RestTypes, StoreInv, VectorsInv

(* upsertL1() *)
LEMMA UpsertDoes ==
  ASSUME StoreTypes, StoreInv, NEW id \in S!Ids, NEW text \in S!Texts, NEW kind, S!UpsertL1(id, text, kind)
  PROVE  /\ table' = [table EXCEPT ![id] = [text |-> text, kind |-> kind, time |-> day]]
         /\ S!IndexesText(id, text)
         /\ vec' \in [S!Ids -> S!Vector \cup {None}] /\ unmatched' \subseteq S!Ids
         /\ \A z \in S!Ids : z # id => vec'[z] = vec[z] /\ (z \in unmatched <=> z \in unmatched')
         /\ vec'[id] # None => vec'[id].model = meta /\ (vec'[id].text = text \/ id \in unmatched')
<1>1. vec \in [S!Ids -> S!Vector \cup {None}] /\ unmatched \subseteq S!Ids
  BY DEF StoreTypes, TableTypes, RestTypes
<1>2. CASE model # None /\ vec' = [vec EXCEPT ![id] = S!EmbeddingOf(text)] /\ unmatched' = unmatched \ {id}
  <2>1. /\ S!EmbeddingOf(text) \in S!Vector /\ S!EmbeddingOf(text).model = meta
        /\ S!EmbeddingOf(text).text = text
    BY <1>2, EmbeddingIs
  <2>2. /\ vec' \in [S!Ids -> S!Vector \cup {None}] /\ vec'[id] = S!EmbeddingOf(text)
        /\ \A z \in S!Ids : z # id => vec'[z] = vec[z]
    BY <1>1, <1>2, <2>1
  <2> QED BY <1>1, <1>2, <2>1, <2>2 DEF S!UpsertL1
<1>3. CASE UNCHANGED vec /\ unmatched' = unmatched \cup {id}
  <2>1. vec[id] # None => vec[id].model = meta
    BY DEF StoreInv, VectorsInv
  <2> QED BY <1>1, <1>3, <2>1 DEF S!UpsertL1
<1> QED BY <1>2, <1>3 DEF S!UpsertL1

LEMMA WriteMemoryTrue ==
  ASSUME StoreTypes, StoreInv, NEW id \in L1Ids, S!WriteMemory(id)
  PROVE  StoreTypes' /\ StoreInv'
<1>1. /\ S!Running /\ writes + 1 \in S!Texts /\ writes' = writes + 1
      /\ used' = used \cup {id} /\ S!UpsertL1(id, writes + 1, id) /\ id \in S!Ids
      /\ UNCHANGED <<model, meta, schema, waiting, update, day, starts, expired>>
  BY NextTextIs, StoreBounds DEF S!WriteMemory
<1>2. UpdateTypes' /\ waiting \subseteq L0Ids /\ (waiting # {} => model # None) /\ used' \subseteq S!Ids
  BY <1>1 DEF StoreTypes, UpdateTypes, RestTypes, StoreInv, VectorsInv
<1> QED BY <1>1, <1>2, UpsertDoes, RowWritten

LEMMA CaptureMessageTrue ==
  ASSUME StoreTypes, StoreInv, NEW id \in L0Ids, S!CaptureMessage(id)
  PROVE  StoreTypes' /\ StoreInv'
<1>1. /\ S!Running /\ writes + 1 \in S!Texts /\ writes' = writes + 1
      /\ id \notin used /\ used' = used \cup {id} /\ id \in S!Ids /\ id \notin L1Ids
      /\ table' = [table EXCEPT ![id] = [text |-> writes + 1, kind |-> id, time |-> day]]
      /\ S!IndexesText(id, writes + 1)
      /\ waiting' = IF model = None THEN waiting ELSE waiting \cup {id}
      /\ UNCHANGED <<model, meta, schema, vec, update, day, starts, expired, unmatched>>
  BY NextTextIs, StoreBounds DEF S!CaptureMessage
<1>2. /\ UpdateTypes' /\ waiting' \subseteq L0Ids /\ (waiting' # {} => model # None)
      /\ used' \subseteq S!Ids /\ unmatched' \subseteq S!Ids /\ vec' \in [S!Ids -> S!Vector \cup {None}]
  BY <1>1 DEF StoreTypes, UpdateTypes, TableTypes, RestTypes, StoreInv, VectorsInv
<1>3. vec'[id] = None
  BY <1>1 DEF StoreInv, Layers
<1> QED BY <1>1, <1>2, <1>3, RowWritten

LEMMA EndUpdateTrue ==
  ASSUME StoreTypes, StoreInv, NEW r \in Requests, S!EndUpdate(r)
  PROVE  StoreTypes' /\ StoreInv'
<1>1. /\ update[r] # S!Idle /\ update' = [update EXCEPT ![r] = S!Idle]
      /\ S!UpsertL1(update[r].id, update[r].text, update[r].kind)
      /\ UNCHANGED <<model, meta, schema, waiting, used, writes, day, starts, expired>>
  BY DEF S!EndUpdate
<1>2. /\ update[r].id \in L1Ids /\ update[r].text \in S!Texts /\ update[r].kind \in L1Ids
      /\ update[r].id \in used
  <2>1. update[r] \in Updates
    BY <1>1 DEF StoreTypes, UpdateTypes
  <2> QED BY <1>1, <2>1 DEF Updates, StoreInv, Layers
<1>3. S!Running
  BY <1>1 DEF StoreInv, Layers
<1>4. /\ UpdateTypes' /\ \A q \in Requests : update'[q] # S!Idle => update'[q] = update[q]
  BY <1>1 DEF StoreTypes, UpdateTypes
<1>5. /\ waiting \subseteq L0Ids /\ (waiting # {} => model # None) /\ used \subseteq S!Ids
      /\ writes \in S!Texts
  BY DEF StoreTypes, RestTypes, StoreInv, VectorsInv
<1> DEFINE id == update[r].id  text == update[r].text  kind == update[r].kind
<1>6. id \in S!Ids /\ text \in S!Texts /\ kind \in S!Ids /\ kind \in L1Ids /\ id \in used /\ S!UpsertL1(id, text, kind)
  BY <1>1, <1>2, StoreBounds
<1> HIDE DEF id, text, kind
<1>7. /\ table' = [table EXCEPT ![id] = [text |-> text, kind |-> kind, time |-> day]]
      /\ S!IndexesText(id, text)
      /\ vec' \in [S!Ids -> S!Vector \cup {None}] /\ unmatched' \subseteq S!Ids
      /\ \A z \in S!Ids : z # id => vec'[z] = vec[z] /\ (z \in unmatched <=> z \in unmatched')
      /\ vec'[id] # None => vec'[id].model = meta /\ (vec'[id].text = text \/ id \in unmatched')
  BY <1>6, UpsertDoes
<1>8. /\ used \subseteq used' /\ id \in used' /\ used' \subseteq S!Ids /\ writes' \in S!Texts
      /\ waiting' \subseteq L0Ids /\ (waiting' # {} => model # None)
      /\ UNCHANGED <<model, meta, schema, day, starts, expired>>
  BY <1>1, <1>5, <1>6
<1> QED BY <1>3, <1>4, <1>6, <1>7, <1>8, RowWritten

LEMMA BeginUpdateTrue ==
  ASSUME StoreTypes, StoreInv, NEW r \in Requests, NEW id \in L1Ids, S!BeginUpdate(r, id)
  PROVE  StoreTypes' /\ StoreInv'
<1>1. PICK first \in S!FirstOfQuery :
        update' = [update EXCEPT ![r] = [id |-> id, text |-> writes + 1, kind |-> table[first].kind]]
  BY DEF S!BeginUpdate
<1>2. /\ S!Running /\ writes + 1 \in S!Texts /\ writes' = writes + 1 /\ id \in used
      /\ UNCHANGED <<model, meta, schema, table, vec, fts, waiting, used, day, starts,
                     failures, expired, unmatched, unindexed>>
  BY NextTextIs DEF S!BeginUpdate
<1>3. table[first].kind \in L1Ids
  BY StoreBounds DEF S!FirstOfQuery, S!Rows, StoreInv, Layers
<1> DEFINE new == [id |-> id, text |-> writes + 1, kind |-> table[first].kind]
<1>4. new \in Updates /\ new.id = id
  BY <1>2, <1>3 DEF Updates
<1> HIDE DEF new
<1>5. /\ update' \in [Requests -> Updates \cup {S!Idle}] /\ update'[r] = new
      /\ \A q \in Requests : q # r => update'[q] = update[q]
  <2>1. update' = [update EXCEPT ![r] = new]
    BY <1>1 DEF new
  <2> QED BY <1>4, <2>1 DEF StoreTypes, UpdateTypes
<1>6. StoreTypes'
  BY <1>2, <1>5 DEF StoreTypes, TableTypes, UpdateTypes, RestTypes
<1>7. Layers'
  <2>1. \A q \in Requests : update'[q] # S!Idle => S!Running' /\ update'[q].id \in used'
    BY <1>2, <1>4, <1>5 DEF StoreInv, Layers, S!Running
  <2> QED BY <1>2, <2>1 DEF StoreInv, Layers, S!Idle
<1>8. VectorsInv' /\ KeywordsInv'
  BY <1>2 DEF StoreInv, VectorsInv, KeywordsInv, S!Running
<1> QED BY <1>6, <1>7, <1>8 DEF StoreInv

LEMMA MessageEmbeddedTrue ==
  ASSUME StoreTypes, StoreInv, NEW id \in L0Ids, S!MessageEmbedded(id)
  PROVE  StoreTypes' /\ StoreInv'
<1>1. /\ id \in waiting /\ waiting' = waiting \ {id} /\ id \in S!Ids /\ model # None
      /\ UNCHANGED <<model, meta, schema, table, fts, update, used, writes, day, starts,
                     failures, expired, unmatched, unindexed>>
  BY StoreBounds DEF S!MessageEmbedded, StoreInv, VectorsInv
<1>2. /\ vec' \in [S!Ids -> S!Vector \cup {None}]
      /\ \A z \in S!Ids : \/ vec'[z] = vec[z]
                          \/ /\ z = id /\ table[z] # None /\ vec'[z].model = meta
                             /\ vec'[z].text = table[z].text
  <2>1. CASE table[id] # None /\ vec' = [vec EXCEPT ![id] = S!EmbeddingOf(table[id].text)]
    <3>1. table[id].text \in S!Texts
      BY <1>1, <2>1, EntriesAre
    <3>2. /\ S!EmbeddingOf(table[id].text) \in S!Vector /\ S!EmbeddingOf(table[id].text).model = meta
          /\ S!EmbeddingOf(table[id].text).text = table[id].text
      BY <1>1, <3>1, EmbeddingIs
    <3>3. vec \in [S!Ids -> S!Vector \cup {None}]
      BY DEF StoreTypes, TableTypes
    <3>4. /\ vec' \in [S!Ids -> S!Vector \cup {None}] /\ vec'[id] = S!EmbeddingOf(table[id].text)
          /\ \A z \in S!Ids : z # id => vec'[z] = vec[z]
      BY <1>1, <2>1, <3>2, <3>3
    <3> QED BY <2>1, <3>2, <3>4
  <2>2. CASE UNCHANGED vec
    BY <2>2 DEF StoreTypes, TableTypes
  <2> QED BY <2>1, <2>2 DEF S!MessageEmbedded
<1>3. StoreTypes'
  BY <1>1, <1>2 DEF StoreTypes, TableTypes, UpdateTypes, RestTypes
<1>4. Layers'
  BY <1>1, <1>2 DEF StoreInv, Layers, S!Idle, S!Running
<1>5. VectorsInv'
  <2>1. ASSUME NEW z \in S!Ids, vec'[z] # None
        PROVE  /\ vec'[z].model = meta
               /\ table[z] # None => vec'[z].text = table[z].text \/ z \in unmatched
    BY <1>2, <2>1 DEF StoreInv, VectorsInv
  <2> QED BY <1>1, <2>1 DEF StoreInv, VectorsInv
<1>6. KeywordsInv'
  BY <1>1 DEF StoreInv, KeywordsInv, S!Running
<1> QED BY <1>3, <1>4, <1>5, <1>6 DEF StoreInv

LEMMA DeleteTrue ==
  ASSUME StoreTypes, StoreInv, NEW ids, S!Delete(ids)
  PROVE  StoreTypes' /\ StoreInv'
<1>1. /\ S!Running /\ ids \subseteq S!Ids
      /\ table' = [id \in S!Ids |-> IF id \in ids THEN None ELSE table[id]]
      /\ vec' = [id \in S!Ids |-> IF id \in ids /\ model # None THEN None ELSE vec[id]]
      /\ fts' = [id \in S!Ids |-> IF id \in ids THEN 0 ELSE fts[id]]
      /\ unindexed' = unindexed \ ids /\ expired' = expired \ ids
      /\ unmatched' = IF model = None THEN unmatched \cup ids ELSE unmatched \ ids
      /\ UNCHANGED <<model, meta, schema, waiting, update, used, writes, day, starts, failures>>
  BY DEF S!Delete, S!FtsAfterDelete, S!FtsWithout, S!Rows
<1>2. /\ table' \in [S!Ids -> S!Row \cup {None}] /\ vec' \in [S!Ids -> S!Vector \cup {None}]
      /\ fts' \in [S!Ids -> 0..MaxWrites]
  BY <1>1, StoreBounds DEF StoreTypes, TableTypes
<1>3. expired' \subseteq S!Ids /\ unmatched' \subseteq S!Ids /\ unindexed' \subseteq S!Ids
  BY <1>1 DEF StoreTypes, RestTypes
<1> QED BY <1>1, <1>2, <1>3, RowsRemoved

LEMMA ExpireTrue ==
  ASSUME StoreTypes, StoreInv, NEW ids \in {L0Ids, L1Ids}, NEW cutoff, S!Expire(ids, cutoff)
  PROVE  StoreTypes' /\ StoreInv'
<1> DEFINE old == S!Older(ids, cutoff)
<1>1. /\ S!Running
      /\ table' = [id \in S!Ids |-> IF id \in old THEN None ELSE table[id]]
      /\ vec' = [id \in S!Ids |-> IF id \in ids /\ model # None /\ vec[id] # None /\ vec[id].time < cutoff
                              THEN None ELSE vec[id]]
      /\ expired' = expired \cup old /\ unmatched' = IF model = None THEN unmatched \cup old ELSE unmatched
      /\ UNCHANGED <<model, meta, schema, fts, waiting, update, used, writes, day, starts,
                     failures, unindexed>>
  BY DEF S!Expire
<1>2. old \subseteq S!Ids
  BY StoreBounds DEF S!Older, S!Rows
<1> HIDE DEF old
<1>3. /\ table' \in [S!Ids -> S!Row \cup {None}] /\ vec' \in [S!Ids -> S!Vector \cup {None}]
      /\ fts' \in [S!Ids -> 0..MaxWrites]
  BY <1>1 DEF StoreTypes, TableTypes
<1>4. \A z \in S!Ids : /\ vec'[z] \in {None, vec[z]}
                       /\ z \notin old => (z \in unmatched <=> z \in unmatched')
                       /\ table'[z] = IF z \in old THEN None ELSE table[z]
                       /\ z \notin expired' \cup unindexed' =>
                            z \notin old /\ z \notin expired \cup unindexed /\ fts'[z] = fts[z]
  BY <1>1
<1>5. expired' \subseteq S!Ids /\ unmatched' \subseteq S!Ids /\ unindexed' \subseteq S!Ids
  BY <1>1, <1>2 DEF StoreTypes, RestTypes
<1> QED BY <1>1, <1>3, <1>4, <1>5, RowsRemoved

(* initSchema(): a new model, or none before, empties the vectors *)
LEMMA StartVectors ==
  ASSUME StoreTypes, StoreInv, NEW m \in Models \cup {None}, S!Start(m)
  PROVE  /\ vec' \in [S!Ids -> S!Vector \cup {None}]
         /\ \A z \in S!Ids : vec'[z] # None => vec'[z] = vec[z] /\ vec[z].model = meta'
<1>1. /\ meta' = IF m = None THEN meta ELSE m
      /\ vec' = IF S!ConfigChanged(m) \/ S!LegacyVectors(m) THEN [id \in S!Ids |-> None] ELSE vec
  BY DEF S!Start, S!VectorsAtStart
<1>2. vec \in [S!Ids -> S!Vector \cup {None}]
  BY DEF StoreTypes, TableTypes
<1>3. CASE S!ConfigChanged(m) \/ S!LegacyVectors(m)
  BY <1>1, <1>3
<1>4. CASE ~S!ConfigChanged(m) /\ ~S!LegacyVectors(m)
  <2>1. vec' = vec
    BY <1>1, <1>4
  <2>2. ASSUME NEW z \in S!Ids, vec[z] # None
        PROVE  vec[z].model = meta'
    <3>1. vec[z].model = meta /\ meta \in Models /\ meta # None
      BY <2>2, EntriesAre, StoreBounds DEF StoreInv, VectorsInv
    <3> QED BY <1>1, <1>4, <3>1 DEF S!ConfigChanged
  <2> QED BY <1>2, <2>1, <2>2
<1> QED BY <1>3, <1>4

(* initSchema(): the keyword tables of an earlier version are filled again, missing *)
(* ones are made, and those of this version stay *)
LEMMA StartKeywords ==
  ASSUME StoreTypes, StoreInv, NEW m \in Models \cup {None}, S!Start(m)
  PROVE  /\ fts' \in [S!Ids -> 0..MaxWrites] /\ unindexed' \subseteq S!Ids
         /\ \A z \in S!Ids \ (expired' \cup unindexed') :
              fts'[z] = IF table[z] = None THEN 0 ELSE table[z].text
<1>1. /\ fts' = IF S!NeedsFtsRebuild THEN S!RebuiltFts ELSE fts
      /\ unindexed' = IF S!NeedsFtsRebuild \/ schema = "v2" THEN unindexed ELSE unindexed \cup S!Rows(S!Ids)
      /\ expired' = expired
  BY DEF S!Start
<1>2. /\ fts \in [S!Ids -> 0..MaxWrites] /\ unindexed \subseteq S!Ids
      /\ schema \in {"none", "v1", "v2"}
  BY DEF StoreTypes, TableTypes, RestTypes
<1>3. CASE S!NeedsFtsRebuild
  <2>1. \A z \in S!Ids : (IF table[z] = None THEN 0 ELSE table[z].text) \in 0..MaxWrites
    BY EntriesAre, TextsAre, StoreBounds
  <2>2. fts' = [id \in S!Ids |-> IF table[id] = None THEN 0 ELSE table[id].text]
    BY <1>1, <1>3 DEF S!RebuiltFts
  <2> QED BY <1>1, <1>2, <1>3, <2>1, <2>2
<1>4. CASE ~S!NeedsFtsRebuild /\ schema = "v2"
  BY <1>1, <1>2, <1>4 DEF StoreInv, KeywordsInv
<1>5. CASE ~S!NeedsFtsRebuild /\ schema = "none"
  <2>1. unindexed' = unindexed \cup S!Rows(S!Ids) /\ fts' = fts
    BY <1>1, <1>5
  <2>2. ASSUME NEW z \in S!Ids, z \notin unindexed'
        PROVE  table[z] = None /\ fts[z] = 0
    BY <1>5, <2>1, <2>2 DEF S!Rows, StoreInv, KeywordsInv
  <2> QED BY <1>2, <2>1, <2>2 DEF S!Rows
<1> QED BY <1>2, <1>3, <1>4, <1>5 DEF S!NeedsFtsRebuild

LEMMA StartTrue ==
  ASSUME StoreTypes, StoreInv, NEW m \in Models \cup {None}, S!Start(m)
  PROVE  StoreTypes' /\ StoreInv'
<1>1. /\ starts < MaxStarts /\ starts' = starts + 1 /\ model' = m /\ schema' = "v2"
      /\ meta' = IF m = None THEN meta ELSE m
      /\ waiting' = {} /\ update' = [r \in Requests |-> S!Idle]
      /\ UNCHANGED <<table, used, writes, day, failures, expired, unmatched>>
  BY DEF S!Start
<1>2. /\ vec' \in [S!Ids -> S!Vector \cup {None}]
      /\ \A z \in S!Ids : vec'[z] # None => vec'[z] = vec[z] /\ vec[z].model = meta'
  BY StartVectors
<1>3. /\ fts' \in [S!Ids -> 0..MaxWrites] /\ unindexed' \subseteq S!Ids
      /\ \A z \in S!Ids \ (expired' \cup unindexed') :
           fts'[z] = IF table[z] = None THEN 0 ELSE table[z].text
  BY StartKeywords
<1>4. starts' \in 0..MaxStarts /\ starts' > 0
  BY <1>1, StoreBounds DEF StoreTypes, RestTypes
<1>5. StoreTypes'
  <2>1. TableTypes'
    BY <1>1, <1>2, <1>3 DEF StoreTypes, TableTypes
  <2>2. UpdateTypes'
    BY <1>1 DEF UpdateTypes, S!Idle
  <2>3. RestTypes'
    BY <1>1, <1>3, <1>4 DEF StoreTypes, RestTypes
  <2> QED BY <2>1, <2>2, <2>3 DEF StoreTypes
<1>6. Layers'
  <2>1. \A z \in S!Ids : /\ table'[z] # None \/ vec'[z] # None => z \in used'
                         /\ z \in L1Ids /\ table'[z] # None => table'[z].kind \in L1Ids
    BY <1>1, <1>2 DEF StoreInv, Layers
  <2>2. \A r \in Requests : update'[r] = S!Idle'
    BY <1>1 DEF S!Idle
  <2> QED BY <2>1, <2>2 DEF Layers
<1>7. VectorsInv'
  <2>1. model' \in {None, meta'} /\ waiting' = {}
    BY <1>1
  <2>2. ASSUME NEW z \in S!Ids, vec'[z] # None
        PROVE  /\ vec'[z].model = meta'
               /\ table'[z] # None => vec'[z].text = table'[z].text \/ z \in unmatched'
    BY <1>1, <1>2, <2>2 DEF StoreInv, VectorsInv
  <2> QED BY <2>1, <2>2 DEF VectorsInv
<1>8. KeywordsInv'
  <2>1. S!Running' /\ schema' = "v2"
    BY <1>1, <1>4 DEF S!Running
  <2>2. \A z \in S!Ids \ (expired' \cup unindexed') :
          fts'[z] = IF table'[z] = None THEN 0 ELSE table'[z].text
    BY <1>1, <1>3
  <2> QED BY <2>1, <2>2 DEF KeywordsInv
<1> QED BY <1>5, <1>6, <1>7, <1>8 DEF StoreInv

LEMMA NextStore ==
  ASSUME StoreTypes, StoreInv, S!Next
  PROVE  StoreTypes' /\ StoreInv'
<1>1. CASE \E m \in Models \cup {None} : S!Start(m)
  BY <1>1, StartTrue
<1>2. CASE \E id \in L1Ids : S!WriteMemory(id)
  BY <1>2, WriteMemoryTrue
<1>3. CASE \E id \in L0Ids : S!CaptureMessage(id) \/ S!MessageEmbedded(id)
  BY <1>3, CaptureMessageTrue, MessageEmbeddedTrue
<1>4. CASE \E r \in Requests : S!EndUpdate(r) \/ \E id \in L1Ids : S!BeginUpdate(r, id)
  BY <1>4, EndUpdateTrue, BeginUpdateTrue
<1>5. CASE \E id \in S!Ids : S!Delete({id})
  BY <1>5, DeleteTrue
<1>6. CASE S!Delete(S!Rows(L0Ids)) \/ S!Delete(S!Rows(L1Ids))
  BY <1>6, DeleteTrue
<1>7. CASE \E ids \in {L0Ids, L1Ids}, cutoff \in S!Time : S!Expire(ids, cutoff)
  BY <1>7, ExpireTrue
<1>8. CASE S!Tick
  <2>1. /\ day' \in S!Time
        /\ UNCHANGED <<model, meta, schema, table, vec, fts, waiting, update, used, writes,
                       starts, failures, expired, unmatched, unindexed>>
    BY <1>8, StoreBounds DEF S!Tick, S!Time, StoreTypes, RestTypes
  <2>2. StoreTypes'
    BY <2>1 DEF StoreTypes, TableTypes, UpdateTypes, RestTypes
  <2>3. StoreInv'
    BY <2>1 DEF StoreInv, Layers, VectorsInv, KeywordsInv, S!Running, S!Idle
  <2> QED BY <2>2, <2>3
<1> QED BY <1>1, <1>2, <1>3, <1>4, <1>5, <1>6, <1>7, <1>8 DEF S!Next

LEMMA InitStore ==
  ASSUME S!Init
  PROVE  StoreTypes /\ StoreInv
<1>1. PICK old \in SUBSET S!Ids :
        /\ used = old
        /\ table = [id \in S!Ids |-> IF id \in old THEN [text |-> 1, kind |-> id, time |-> 0] ELSE None]
  BY DEF S!Init
<1>2. /\ model = None /\ meta = None /\ schema \in {"none", "v1"}
      /\ vec = [id \in S!Ids |-> None] /\ fts = [id \in S!Ids |-> 0]
      /\ waiting = {} /\ update = [r \in Requests |-> S!Idle]
      /\ writes = 1 /\ day = 0 /\ starts = 0 /\ failures = 0
      /\ expired = {} /\ unmatched = {} /\ unindexed = {}
  BY DEF S!Init
<1>3. ASSUME NEW id \in S!Ids
      PROVE  [text |-> 1, kind |-> id, time |-> 0] \in S!Row
  BY StoreBounds DEF S!Row, S!Texts, S!Time
<1>4. /\ table \in [S!Ids -> S!Row \cup {None}]
      /\ \A id \in S!Ids : table[id] # None => id \in used /\ table[id].kind = id
  BY <1>1, <1>3
<1>5. TableTypes
  BY <1>2, <1>4, StoreBounds DEF TableTypes
<1>6. UpdateTypes
  BY <1>2 DEF UpdateTypes
<1>7. RestTypes
  BY <1>1, <1>2, StoreBounds DEF RestTypes, S!Texts, S!Time
<1>8. Layers
  BY <1>2, <1>4 DEF Layers
<1>9. VectorsInv /\ KeywordsInv
  BY <1>2 DEF VectorsInv, KeywordsInv, S!Running
<1> QED BY <1>5, <1>6, <1>7, <1>8, <1>9 DEF StoreTypes, StoreInv

LEMMA StoreTyped ==
  ASSUME StoreTypes
  PROVE  S!TypeOK
<1>1. \A id \in S!Ids : /\ table[id] # None => table[id] \in S!Row
                        /\ vec[id] # None => vec[id] \in S!Vector
                        /\ fts[id] \in 0..MaxWrites
  BY EntriesAre
<1>2. \A r \in Requests : update[r] # S!Idle => update[r] \in Updates
  BY DEF StoreTypes, UpdateTypes
<1> QED BY <1>1, <1>2 DEF S!TypeOK, StoreTypes, RestTypes, Updates

(* the tables agree, so that searches are true *)
LEMMA TablesAgree ==
  ASSUME StoreTypes, StoreInv
  PROVE  S!SearchesTrue
<1>1. S!VectorHitsTrue
  BY DEF S!VectorHitsTrue, S!VectorHits, StoreInv, VectorsInv
<1>2. S!KeywordHitsTrue
  <2>1. ASSUME S!Running, NEW id \in S!Ids \ (expired \cup unindexed)
        PROVE  /\ id \in S!KeywordHits(S!Ids) <=> table[id] # None
               /\ table[id] # None => fts[id] = table[id].text
    <3>1. fts[id] = IF table[id] = None THEN 0 ELSE table[id].text
      BY <2>1 DEF StoreInv, KeywordsInv
    <3>2. table[id] # None => table[id].text # 0
      BY EntriesAre, TextsAre
    <3> QED BY <2>1, <3>1, <3>2 DEF S!KeywordHits
  <2> QED BY <2>1 DEF S!KeywordHitsTrue
<1> QED BY <1>1, <1>2 DEF S!SearchesTrue

-----------------------------------------------------------------------------
(* Records: the invariant as a whole *)

LEMMA InitRecords ==
  ASSUME R!Init
  PROVE  RecordTypes /\ RowsInv /\ MemoriesInv /\ FactsInv
<1>1. /\ degraded \in BOOLEAN /\ rows = 0 /\ memories = 0 /\ clock = 1 /\ faults = 0
      /\ row = [i \in R!Rows |-> R!NoRow] /\ memory = [k \in R!Memories |-> R!NoMemory]
      /\ cursor = [s \in Sessions |-> 0] /\ l2cursor = [s \in Sessions |-> 0]
      /\ l1 = [s \in Sessions |-> R!IdleL1] /\ l2 = [s \in Sessions |-> R!IdleL2]
      /\ processed = {} /\ late = {} /\ told = {} /\ lost = {} /\ seen = {} /\ twins = {}
  BY DEF R!Init
<1>2. 0 \in R!Time /\ 1 \in R!Time
  BY RecordBounds DEF R!Time
<1>3. R!NoRow \in RowRecords /\ R!NoRow.state = "none"
  BY <1>2 DEF R!NoRow, RowRecords
<1>4. R!NoMemory \in MemoryRecords /\ ~R!NoMemory.there
  BY <1>2 DEF R!NoMemory, MemoryRecords
<1>5. R!IdleL1.phase = "idle" /\ ~R!IdleL2.running
  BY DEF R!IdleL1, R!IdleL2
<1>6. RecordTypes
  <2>1. RowTypes
    BY <1>1, <1>2, <1>3, RecordBounds DEF RowTypes
  <2>2. MemoryTypes
    BY <1>1, <1>2, <1>4, RecordBounds DEF MemoryTypes
  <2>3. L1Types /\ L2Types
    BY <1>1, IdleRuns DEF L1Types, L2Types
  <2>4. ClockTypes /\ HistoryTypes
    BY <1>1, <1>2, RecordBounds DEF ClockTypes, HistoryTypes
  <2> QED BY <2>1, <2>2, <2>3, <2>4 DEF RecordTypes
<1>7. RowsInv
  <2>1. \A i \in R!Rows : row[i].state = "none"
    BY <1>1, <1>3
  <2>2. ASSUME NEW s \in Sessions, NEW t \in R!Time
        PROVE  Cardinality({i \in R!RowsOf(s) : row[i].at = t}) <= MaxPerCapture
    <3>1. {i \in R!RowsOf(s) : row[i].at = t} = {}
      BY <2>1 DEF R!RowsOf
    <3>2. 0 <= MaxPerCapture
      BY RecordBounds
    <3> QED BY <3>1, <3>2, FS_EmptySet
  <2>3. RowsStamped
    BY <2>1, <2>2 DEF RowsStamped
  <2>4. RunsSkipNothing /\ R!RowsRead
    BY <2>1 DEF RunsSkipNothing, R!RowsRead, R!RowsOf
  <2> QED BY <2>3, <2>4 DEF RowsInv
<1>8. MemoriesInv
  <2>1. \A k \in R!Memories : ~memory[k].there
    BY <1>1, <1>4
  <2>2. Written = {}
    BY <1>1, RecordBounds DEF Written, R!Memories
  <2>3. \A s \in Sessions : l1[s].phase # "write" /\ ~l2[s].running /\ l2cursor[s] <= clock
    BY <1>1, <1>5
  <2> QED BY <2>1, <2>2, <2>3
          DEF MemoriesInv, MemoriesStamped, StampsInOrder, L2RunsSkipNothing, R!MemoriesRead
<1>9. FactsInv
  <2>1. \A s \in Sessions : l1[s].phase # "write"
    BY <1>1, <1>5
  <2> QED BY <1>1, <2>1 DEF FactsInv
<1> QED BY <1>6, <1>7, <1>8, <1>9

LEMMA NextRecordTypes ==
  ASSUME RecordTypes, L2RunsSkipNothing, R!Next
  PROVE  RecordTypes'
<1>1. ASSUME NEW s \in Sessions, R!SessionStep(s)
      PROVE  RecordTypes'
  <2>1. CASE \E n \in 1..MaxPerCapture : R!Capture(s, n)
    BY <2>1, CapturesKeepTypes
  <2>2. CASE R!L1Reads(s)
    BY <2>2, L1ReadsKeepsTypes
  <2>3. CASE R!L1Extracts(s)
    BY <2>3, L1ExtractsKeepsTypes
  <2>4. CASE \E targets \in SUBSET R!Memories, merged \in BOOLEAN : R!L1Decides(s, targets, merged)
    BY <2>4, L1DecidesDoes
  <2>5. CASE R!L1Writes(s)
    BY <2>5, L1WritesDoes
  <2>6. CASE R!L1WriteFails(s)
    BY <2>6, L1WriteFailsDoes
  <2>7. CASE R!L1Marks(s)
    BY <2>7, L1MarksDoes
  <2>8. CASE R!L2Reads(s) \/ R!L2Works(s) \/ R!L2Fails(s)
    BY <2>8, L2StepsDo
  <2> QED BY <1>1, <2>1, <2>2, <2>3, <2>4, <2>5, <2>6, <2>7, <2>8 DEF R!SessionStep
<1>2. CASE \E i \in R!Rows : R!StoreRow(i) \/ R!LoseRow(i)
  BY <1>2, RowStepsKeepTypes
<1>3. CASE R!Crash
  BY <1>3, CrashDoes
<1>4. CASE R!Tick
  BY <1>4, TickDoes
<1> QED BY <1>1, <1>2, <1>3, <1>4 DEF R!Next

LEMMA RecordsTyped ==
  ASSUME RecordTypes
  PROVE  R!TypeOK
BY DEF R!TypeOK, RecordTypes, RowTypes, MemoryTypes, L1Types, L2Types, ClockTypes, HistoryTypes,
       RowRecords, MemoryRecords, L1Runs, L2Runs

(* what memories have told is in the store, or about to be *)
LEMMA FactsAreThere ==
  ASSUME FactsInv
  PROVE  R!MemoriesKeepFacts
BY DEF FactsInv, R!MemoriesKeepFacts

-----------------------------------------------------------------------------
(* The theorems *)

LEMMA InitHolds ==
  ASSUME Init
  PROVE  IInv
BY InitRecords, InitStore DEF Init, RecordsInv, IInv

LEMMA RecordsStay ==
  ASSUME RecordsInv, UNCHANGED recordVars
  PROVE  RecordsInv'
<1>1. UNCHANGED <<degraded, row, rows, memory, memories, cursor, l2cursor, l1, l2, clock,
                  faults, processed, late, told, lost, seen, twins>>
  BY DEF recordVars
<1>2. RecordTypes'
  BY <1>1 DEF RecordsInv, RecordTypes, RowTypes, MemoryTypes, L1Types, L2Types, ClockTypes, HistoryTypes
<1>3. RowsInv'
  BY <1>1 DEF RecordsInv, RowsInv, RowsStamped, RunsSkipNothing, R!RowsRead, R!RowsOf
<1>4. MemoriesInv'
  BY <1>1 DEF RecordsInv, MemoriesInv, MemoriesStamped, StampsInOrder, L2RunsSkipNothing,
              R!MemoriesRead, Written
<1>5. FactsInv'
  BY <1>1 DEF RecordsInv, FactsInv, Written
<1> QED BY <1>2, <1>3, <1>4, <1>5 DEF RecordsInv

LEMMA StoreStays ==
  ASSUME StoreTypes, StoreInv, UNCHANGED storeVars
  PROVE  StoreTypes' /\ StoreInv'
<1>1. UNCHANGED <<model, meta, schema, table, vec, fts, waiting, update, used, writes, day,
                  starts, failures, expired, unmatched, unindexed>>
  BY DEF storeVars
<1>2. StoreTypes'
  BY <1>1 DEF StoreTypes, TableTypes, UpdateTypes, RestTypes
<1>3. StoreInv'
  BY <1>1 DEF StoreInv, Layers, VectorsInv, KeywordsInv, S!Running, S!Idle
<1> QED BY <1>2, <1>3

LEMMA StepHolds ==
  ASSUME IInv, [Next]_vars
  PROVE  IInv'
<1>1. CASE focus = "records" /\ R!Next /\ UNCHANGED <<focus, storeVars>>
  <2>1. RecordsInv'
    BY <1>1, NextRecordTypes, NextRows, NextMemories, NextFacts DEF IInv, RecordsInv, MemoriesInv
  <2> QED BY <1>1, <2>1 DEF IInv
<1>2. CASE focus = "store" /\ S!Next /\ UNCHANGED <<focus, recordVars>>
  <2>1. StoreTypes' /\ StoreInv'
    BY <1>2, NextStore DEF IInv
  <2> QED BY <1>2, <2>1 DEF IInv
<1>3. CASE UNCHANGED vars
  <2>1. UNCHANGED focus /\ UNCHANGED recordVars /\ UNCHANGED storeVars
    BY <1>3 DEF vars
  <2> QED BY <2>1, RecordsStay, StoreStays DEF IInv
<1> QED BY <1>1, <1>2, <1>3 DEF Next

LEMMA InvariantHolds == Spec => []IInv
<1>1. Init => IInv
  BY InitHolds
<1>2. IInv /\ [Next]_vars => IInv'
  BY StepHolds
<1> QED BY <1>1, <1>2, PTL DEF Spec

\* The variables of the component that runs have their types, in every reachable state.
THEOREM TypeCorrect == Spec => []TypeOK
<1>1. IInv => TypeOK
  BY RecordsTyped, StoreTyped DEF IInv, TypeOK, RecordsInv
<1> QED BY <1>1, InvariantHolds, PTL

\* The L1 cursor of a session passes no row of the store that no L1 run has
\* processed, and its L2 cursor no memory that no L2 run has read, whatever the
\* sessions, the batches, the captures and the crashes: as long as one capture
\* stamps at most one row more than a batch has.
THEOREM CursorsAreExact == Spec => []CursorsSkipNothing
<1>1. IInv => CursorsSkipNothing
  BY DEF IInv, CursorsSkipNothing, R!CursorsSkipNothing, RecordsInv, RowsInv, MemoriesInv
<1> QED BY <1>1, InvariantHolds, PTL

\* What memories have told stays told: deduplication, on a search that is stale by
\* the time it replaces what it found, in any number of sessions, loses nothing but
\* what a decision deletes without a text that takes it over (no merged text, or a
\* memory the LLM was not shown), and what was deleted for a memory that could not
\* be written.
THEOREM FactsAreKept == Spec => []MemoriesKeepFacts
<1>1. IInv => MemoriesKeepFacts
  BY FactsAreThere DEF IInv, MemoriesKeepFacts, RecordsInv
<1> QED BY <1>1, InvariantHolds, PTL

\* Searches of the SQLite store find the rows there are, by their present texts and
\* with the vectors of the running model only, through any number of records,
\* models, restarts and failed writes, but for the rows that SqliteStore names.
THEOREM SearchesAreTrue == Spec => []SearchesTrue
<1>1. IInv => SearchesTrue
  BY TablesAgree DEF IInv, SearchesTrue
<1> QED BY <1>1, InvariantHolds, PTL
=============================================================================
