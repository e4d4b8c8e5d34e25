---------------------------- MODULE OffloadProofs ----------------------------
(* What the context offload keeps for every number of tool calls, tasks,      *)
(* prompts and workers: the plugin's lists, the server's tasks, and the       *)
(* conversations that the server compacts.                                    *)
EXTENDS MCOffload, Subsequences, SequenceTheorems, FiniteSetTheorems, WellFoundedInduction,
        TLAPS

-----------------------------------------------------------------------------
(* Subsequences *)

(* a set of numbers with a member has a least one *)
LEMMA LeastExists ==
  ASSUME NEW V, V \subseteq Nat, V # {}
  PROVE  \E m \in V : \A n \in V : m <= n
<1>1. PICK x \in V : \A y \in V : ~(<<y, x>> \in OpToRel(<, Nat))
  BY NatLessThanWellFounded, WFMin, Zenon
<1>2. \A y \in V : ~(y < x)
  BY <1>1 DEF OpToRel
<1> QED BY <1>2

(* the recursion in Kept defines a function *)
LEMMA KeptRecursion ==
  ASSUME NEW D, NEW s \in Seq(D), NEW keep
  PROVE  \E f : /\ Kept(s, keep) = f[Len(s)]
                /\ f = [n \in 0..Len(s) |-> IF n = 0 THEN <<>> ELSE IF n \in keep
                                            THEN Append(f[n - 1], s[n]) ELSE f[n - 1]]
<1> DEFINE Step(f, n) == IF n = 0 THEN <<>> ELSE IF n \in keep THEN Append(f[n - 1], s[n]) ELSE f[n - 1]
           Def(f, m) == f = [n \in 0..m |-> Step(f, n)]
           Bad == {m \in Nat : ~\E f : Def(f, m)}
<1>1. Bad = {}
  <2>1. SUFFICES ASSUME Bad # {} PROVE FALSE
    OBVIOUS
  <2>2. PICK b \in Bad : \A m \in Bad : b <= m
    <3>1. Bad \subseteq Nat
      OBVIOUS
    <3> HIDE DEF Bad
    <3> QED BY <2>1, <3>1, LeastExists
  <2>3. b # 0
    <3> DEFINE z == [n \in 0..0 |-> <<>>]
    <3>1. Def(z, 0)
      <4>1. \A n \in 0..0 : Step(z, n) = <<>>
        OBVIOUS
      <4> HIDE DEF Step
      <4> QED BY <4>1
    <3>2. 0 \notin Bad
      <4> HIDE DEF z, Def
      <4> QED BY <3>1
    <3> HIDE DEF Bad
    <3> QED BY <3>2
  <2>4. b \in Nat /\ b - 1 \in Nat /\ b - 1 \notin Bad
    <3>1. b \in Nat
      OBVIOUS
    <3> HIDE DEF Bad
    <3> QED BY <2>2, <2>3, <3>1
  <2>5. PICK f : Def(f, b - 1)
    <3> HIDE DEF Def
    <3> QED BY <2>4
  <2> DEFINE g == [n \in 0..b |-> IF n < b THEN f[n] ELSE Step(f, b)]
  <2>6. \A n \in 0..(b - 1) : g[n] = f[n] /\ f[n] = Step(f, n)
    <3>1. \A n \in 0..(b - 1) : f[n] = Step(f, n)
      <4> HIDE DEF Step
      <4> QED BY <2>5
    <3>2. \A n \in 0..(b - 1) : n \in 0..b /\ n < b
      BY <2>4
    <3> HIDE DEF Step
    <3> QED BY <3>1, <3>2
  <2>7. \A n \in 0..b : g[n] = Step(g, n)
    <3> TAKE n \in 0..b
    <3>1. CASE n < b
      <4>1. n \in 0..(b - 1) /\ (n # 0 => n - 1 \in 0..(b - 1))
        BY <3>1, <2>4
      <4>2. Step(g, n) = Step(f, n)
        <5> HIDE DEF g
        <5> QED BY <2>6, <4>1
      <4> HIDE DEF g, Step
      <4> QED BY <2>6, <4>1, <4>2
    <3>2. CASE n = b
      <4>1. g[b] = Step(f, b)
        BY <2>4
      <4>2. b - 1 \in 0..(b - 1) /\ g[b - 1] = f[b - 1]
        BY <2>4, <2>6
      <4>3. Step(g, b) = Step(f, b)
        <5> HIDE DEF g
        <5> QED BY <4>2, <2>3
      <4> HIDE DEF g, Step
      <4> QED BY <3>2, <4>1, <4>3
    <3> QED BY <3>1, <3>2, <2>4
  <2>8. g = [n \in 0..b |-> g[n]]
    BY <2>4
  <2>9. Def(g, b)
    <3> HIDE DEF g, Step
    <3> QED BY <2>7, <2>8
  <2> HIDE DEF g
  <2> QED BY <2>9, <2>4, <2>2
<1>2. Len(s) \in Nat
  OBVIOUS
<1>3. \E f : Def(f, Len(s))
  BY <1>1, <1>2
<1> DEFINE up == CHOOSE f : Def(f, Len(s))
<1>4. Def(up, Len(s))
  <2> HIDE DEF Def
  <2> QED BY <1>3
<1>5. Kept(s, keep) = up[Len(s)]
  BY DEF Kept
<1> HIDE DEF up
<1> QED BY <1>4, <1>5

(* the positions a filter keeps: increasing, exactly those of keep *)
Places(g, s, keep, m, r) ==
  /\ g \in [1..Len(r) -> (1..m) \cap keep]
  /\ \A i, j \in 1..Len(r) : i < j => g[i] < g[j]
  /\ \A k \in (1..m) \cap keep : \E i \in 1..Len(r) : g[i] = k
  /\ \A i \in 1..Len(r) : r[i] = s[g[i]]

LEMMA PlacesAppend ==
  ASSUME NEW D, NEW s \in Seq(D), NEW keep, NEW m \in 1..Len(s), NEW r \in Seq(D), NEW g,
         Places(g, s, keep, m - 1, r), m \in keep
  PROVE  \E h : Places(h, s, keep, m, Append(r, s[m]))
<1> DEFINE l == Len(r)
           q == Append(r, s[m])
           h == [i \in 1..(l + 1) |-> IF i <= l THEN g[i] ELSE m]
<1>1. l \in Nat /\ m \in Nat /\ s[m] \in D /\ m - 1 \in Nat
  OBVIOUS
<1>2. q \in Seq(D) /\ Len(q) = l + 1 /\ (\A i \in 1..l : q[i] = r[i]) /\ q[l + 1] = s[m]
  BY <1>1
<1>3. \A i \in 1..l : g[i] \in (1..(m - 1)) \cap keep /\ h[i] = g[i]
  BY <1>1, SMTT(30) DEF Places
<1>4. h[l + 1] = m
  BY <1>1
<1>5. \A i \in 1..(l + 1) : i \in 1..l \/ i = l + 1
  BY <1>1
<1>6. h \in [1..(l + 1) -> (1..m) \cap keep]
  <2>1. \A i \in 1..(l + 1) : h[i] \in (1..m) \cap keep
    <3> HIDE DEF h, l
    <3> QED BY <1>1, <1>3, <1>4, <1>5
  <2> QED BY <2>1
<1>7. \A i, j \in 1..(l + 1) : i < j => h[i] < h[j]
  <2> HIDE DEF h, q
  <2> TAKE i, j \in 1..(l + 1)
  <2>1. CASE j = l + 1
    BY <2>1, <1>1, <1>3, <1>4, <1>5
  <2>2. CASE j \in 1..l
    BY <2>2, <1>1, <1>3, <1>5 DEF Places
  <2> QED BY <2>1, <2>2, <1>5
<1>8. \A k \in (1..m) \cap keep : \E i \in 1..(l + 1) : h[i] = k
  <2> TAKE k \in (1..m) \cap keep
  <2>1. CASE k = m
    <3>1. l + 1 \in 1..(l + 1)
      BY <1>1
    <3> HIDE DEF h
    <3> QED BY <2>1, <1>4, <3>1
  <2>2. CASE k # m
    <3>1. k \in (1..(m - 1)) \cap keep
      BY <2>2, <1>1
    <3>2. PICK i \in 1..l : g[i] = k
      BY <3>1 DEF Places
    <3>3. i \in 1..(l + 1)
      BY <1>1
    <3> HIDE DEF h, l
    <3> QED BY <3>2, <3>3, <1>3
  <2> QED BY <2>1, <2>2
<1>9. \A i \in 1..(l + 1) : q[i] = s[h[i]]
  <2>1. \A i \in 1..l : r[i] = s[g[i]]
    BY DEF Places
  <2> HIDE DEF h, q, l
  <2> QED BY <1>2, <1>3, <1>4, <1>5, <2>1
<1> HIDE DEF h, q, l
<1>10. Places(h, s, keep, m, q)
  BY <1>2, <1>6, <1>7, <1>8, <1>9 DEF Places
<1> QED BY <1>10 DEF q

LEMMA PlacesSkip ==
  ASSUME NEW s, NEW keep, NEW m \in Nat \ {0}, NEW r, NEW g,
         Places(g, s, keep, m - 1, r), m \notin keep
  PROVE  Places(g, s, keep, m, r)
<1>1. (1..m) \cap keep = (1..(m - 1)) \cap keep
  OBVIOUS
<1> QED BY <1>1 DEF Places

(* what Kept returns: a sequence of the elements at the places of keep *)
LEMMA KeptPlaces ==
  ASSUME NEW D, NEW s \in Seq(D), NEW keep
  PROVE  /\ Kept(s, keep) \in Seq(D)
         /\ \E g : Places(g, s, keep, Len(s), Kept(s, keep))
<1>1. PICK f : /\ Kept(s, keep) = f[Len(s)]
               /\ f = [n \in 0..Len(s) |-> IF n = 0 THEN <<>> ELSE IF n \in keep
                                           THEN Append(f[n - 1], s[n]) ELSE f[n - 1]]
  BY KeptRecursion, ZenonT(40)
<1> DEFINE N == Len(s)
           Good(m) == f[m] \in Seq(D) /\ \E g : Places(g, s, keep, m, f[m])
           Bad == {m \in 0..N : ~Good(m)}
<1>2. N \in Nat
  OBVIOUS
<1>3. f[0] = <<>>
  BY <1>1, <1>2
<1>4. \A n \in 1..N : f[n] = IF n \in keep THEN Append(f[n - 1], s[n]) ELSE f[n - 1]
  <2> TAKE n \in 1..N
  <2>1. n \in 0..N /\ n # 0
    BY <1>2
  <2>2. f[n] = IF n = 0 THEN <<>> ELSE IF n \in keep THEN Append(f[n - 1], s[n]) ELSE f[n - 1]
    BY <1>1, <2>1
  <2> QED BY <2>1, <2>2
<1>5. Good(0)
  <2>1. Places(<<>>, s, keep, 0, <<>>)
    BY DEF Places
  <2>2. <<>> \in Seq(D)
    OBVIOUS
  <2> QED BY <1>3, <2>1, <2>2
<1>6. ASSUME NEW m \in 1..N, Good(m - 1) PROVE Good(m)
  <2>1. PICK g : Places(g, s, keep, m - 1, f[m - 1])
    BY <1>6
  <2>2. f[m - 1] \in Seq(D)
    BY <1>6
  <2>3. m \in Nat \ {0} /\ s[m] \in D
    BY <1>2
  <2>4. CASE m \in keep
    <3>1. f[m] = Append(f[m - 1], s[m])
      BY <2>4, <1>4
    <3>2. \E h : Places(h, s, keep, m, Append(f[m - 1], s[m]))
      BY <2>1, <2>2, <2>4, PlacesAppend
    <3> QED BY <3>1, <3>2, <2>2, <2>3
  <2>5. CASE m \notin keep
    <3>1. f[m] = f[m - 1]
      BY <2>5, <1>4
    <3>2. Places(g, s, keep, m, f[m - 1])
      BY <2>1, <2>3, <2>5, PlacesSkip
    <3> QED BY <3>1, <3>2, <2>2
  <2> QED BY <2>4, <2>5
<1>7. Bad = {}
  <2>1. SUFFICES ASSUME Bad # {} PROVE FALSE
    OBVIOUS
  <2>2. Bad \subseteq Nat /\ Bad \subseteq 0..N
    BY <1>2
  <2>3. PICK b \in Bad : \A m \in Bad : b <= m
    <3> HIDE DEF Bad
    <3> QED BY <2>1, <2>2, LeastExists
  <2>4. b # 0
    <3> HIDE DEF Good
    <3> QED BY <1>5
  <2>5. b \in 1..N /\ b - 1 \in 0..N /\ ~(b <= b - 1)
    <3> HIDE DEF Bad
    <3> QED BY <2>2, <2>4, <1>2
  <2>6. Good(b - 1)
    <3> HIDE DEF Good
    <3> QED BY <2>3, <2>5
  <2>7. Good(b)
    <3> HIDE DEF Good
    <3> QED BY <1>6, <2>5, <2>6
  <2> HIDE DEF Good
  <2> QED BY <2>7
<1>8. Good(N)
  <2> HIDE DEF Good
  <2> QED BY <1>7, <1>2
<1> QED BY <1>8, <1>1

(* what Kept returns, as a set *)
LEMMA KeptRange ==
  ASSUME NEW D, NEW s \in Seq(D), NEW keep
  PROVE  LET r == Kept(s, keep) IN
           /\ r \in Seq(D)
           /\ {r[i] : i \in 1..Len(r)} = {s[k] : k \in (1..Len(s)) \cap keep}
<1> DEFINE r == Kept(s, keep)
<1>1. PICK g : Places(g, s, keep, Len(s), r)
  BY KeptPlaces
<1>2. r \in Seq(D)
  BY KeptPlaces
<1>3. \A i \in 1..Len(r) : r[i] = s[g[i]] /\ g[i] \in (1..Len(s)) \cap keep
  BY <1>1 DEF Places
<1>4. \A k \in (1..Len(s)) \cap keep : \E i \in 1..Len(r) : s[k] = r[i]
  <2> HIDE DEF r
  <2> QED BY <1>1 DEF Places
<1>5. {r[i] : i \in 1..Len(r)} = {s[k] : k \in (1..Len(s)) \cap keep}
  <2> HIDE DEF r
  <2>1. ASSUME NEW i \in 1..Len(r) PROVE r[i] \in {s[k] : k \in (1..Len(s)) \cap keep}
    <3>1. r[i] = s[g[i]] /\ g[i] \in (1..Len(s)) \cap keep
      BY <1>3
    <3> QED BY <3>1
  <2>2. ASSUME NEW k \in (1..Len(s)) \cap keep PROVE s[k] \in {r[i] : i \in 1..Len(r)}
    BY <1>4
  <2> QED BY <2>1, <2>2
<1> QED BY <1>2, <1>5

-----------------------------------------------------------------------------
(* The plugin: the invariant *)

Null == P!Null
Wait == P!Wait
Callers == P!Callers
Entries == [id : Pairs, node : {Null, Wait} \cup Tasks]
Flushes == [by : Nat, max : Nat, chunks : Seq(Seq(Pairs)), taken : BOOLEAN, uncounted : Nat]
Boundaries == [start : Nat, task : Tasks \cup {NoTask}]
Judges == [n : Nat, phase : {"flush", "ask", "retry"}, tries : {0, 1}, start : Nat,
           prev : Tasks \cup {NoTask}]
Batches == Tasks \X SUBSET Pairs
Phases == {"idle", "check", "residual", "next", "mark", "ask", "backfill", "done", "status"}
AnyBatch == {<<>>} \cup Batches \cup (Tasks \X Nat)
Runs == [phase : Phases, batches : SUBSET Batches, batch : AnyBatch, seen : Seq(Entries)]

L1Types ==
  /\ reported \subseteq Pairs /\ omitted \subseteq Pairs /\ lost \subseteq Pairs
  /\ pending \in Seq(Pairs)
  /\ flushes \in Seq(Flushes)
  /\ fails \in [Pairs -> 0..MAX_L1_CHUNK_RETRIES - 1]
  /\ entries \in Seq(Entries) /\ entryCounter \in Nat
JudgeTypes ==
  /\ boundaries \in Seq(Boundaries) /\ active \in Tasks \cup {NoTask} /\ settled \in BOOLEAN
  /\ judges \subseteq Judges /\ prompts \in Nat
RunOf(r) ==
  /\ r \in Runs
  /\ r.phase \in {"mark", "ask", "backfill"} => r.batch \in Batches
  /\ r.phase = "residual" => r.batch \in Tasks \X Nat
L2Types ==
  /\ l2 = [c \in Callers |-> l2[c]] /\ \A c \in Callers : RunOf(l2[c])
  /\ poll \in BOOLEAN /\ l2Running = (l2["trigger"].phase # "idle")

(* a flush that waits for the lock has no chunks yet *)
NoChunksYet == \A k \in 1..Len(flushes) : flushes[k].taken \/ flushes[k].chunks = <<>>

PluginInv == L1Types /\ JudgeTypes /\ L2Types /\ NoChunksYet /\ P!PairsKept

-----------------------------------------------------------------------------
(* The plugin: sequences of tool calls *)

ChunkPairs(cs) == UNION {P!ToSet(cs[i]) : i \in 1..Len(cs)}
FlushPairs(fs) == UNION {ChunkPairs(fs[k].chunks) : k \in 1..Len(fs)}

LEMMA PluginConstants ==
  /\ NoTask \notin Tasks /\ L1_BATCH_SIZE \in Nat \ {0} /\ MAX_L1_CHUNK_RETRIES \in Nat \ {0}
  /\ ForceThreshold \in Nat \ {0} /\ NullThreshold \in Nat \ {0} /\ MaxPrompts \in Nat
  /\ IsFiniteSet(Pairs)
BY OffloadAssumption DEF OffloadAssumption, P!PluginAssumption, P!IsFiniteSet, IsFiniteSet

LEMMA ElementOf ==
  ASSUME NEW D, NEW s \in Seq(D), NEW p
  PROVE  p \in P!ToSet(s) <=> \E i \in 1..Len(s) : s[i] = p
BY DEF P!ToSet

LEMMA ElementsOf ==
  ASSUME NEW D, NEW s \in Seq(D)
  PROVE  P!ToSet(s) \subseteq D
BY ElementOf

LEMMA ConcatFacts ==
  ASSUME NEW D, NEW s \in Seq(D), NEW t \in Seq(D)
  PROVE  /\ s \o t \in Seq(D) /\ Len(s \o t) = Len(s) + Len(t) /\ Len(s) \in Nat /\ Len(t) \in Nat
         /\ \A i \in 1..Len(s) : (s \o t)[i] = s[i] /\ i \in 1..Len(s \o t)
         /\ \A i \in 1..Len(t) : (s \o t)[Len(s) + i] = t[i] /\ Len(s) + i \in 1..Len(s \o t)
<1>1. s \o t \in Seq(D) /\ Len(s \o t) = Len(s) + Len(t) /\ Len(s) \in Nat /\ Len(t) \in Nat
  OBVIOUS
<1>2. \A i \in 1..Len(s) : (s \o t)[i] = s[i] /\ i \in 1..Len(s \o t)
  BY <1>1
<1>3. \A i \in 1..Len(t) : (s \o t)[Len(s) + i] = t[i] /\ Len(s) + i \in 1..Len(s \o t)
  BY <1>1
<1> QED BY <1>1, <1>2, <1>3

LEMMA ElementsConcat ==
  ASSUME NEW D, NEW s \in Seq(D), NEW t \in Seq(D)
  PROVE  s \o t \in Seq(D) /\ P!ToSet(s) \cup P!ToSet(t) = P!ToSet(s \o t)
<1>1. s \o t \in Seq(D) /\ Len(s \o t) = Len(s) + Len(t) /\ Len(s) \in Nat /\ Len(t) \in Nat
  OBVIOUS
<1>2. \A i \in 1..Len(s) : (s \o t)[i] = s[i] /\ i \in 1..Len(s \o t)
  BY <1>1
<1>3. \A i \in 1..Len(t) : (s \o t)[i + Len(s)] = t[i] /\ i + Len(s) \in 1..Len(s \o t)
  BY <1>1
<1>4. ASSUME NEW i \in 1..Len(s \o t), i \notin 1..Len(s)
      PROVE  i - Len(s) \in 1..Len(t) /\ (s \o t)[i] = t[i - Len(s)]
  BY <1>1, <1>4
<1>5. ASSUME NEW p PROVE p \in P!ToSet(s) \/ p \in P!ToSet(t) <=> p \in P!ToSet(s \o t)
  <2> DEFINE u == s \o t
  <2>1. u \in Seq(D)
    BY <1>1
  <2> HIDE DEF u
  <2>2. p \in P!ToSet(s) => p \in P!ToSet(u)
    <3> HAVE p \in P!ToSet(s)
    <3>1. PICK i \in 1..Len(s) : s[i] = p
      BY ElementOf
    <3>2. u[i] = p /\ i \in 1..Len(u)
      BY <3>1, <1>2 DEF u
    <3> QED BY <2>1, <3>2, ElementOf
  <2>3. p \in P!ToSet(t) => p \in P!ToSet(u)
    <3> HAVE p \in P!ToSet(t)
    <3>1. PICK i \in 1..Len(t) : t[i] = p
      BY ElementOf
    <3>2. u[i + Len(s)] = p /\ i + Len(s) \in 1..Len(u)
      BY <3>1, <1>3 DEF u
    <3> QED BY <2>1, <3>2, ElementOf
  <2>4. p \in P!ToSet(u) => p \in P!ToSet(s) \/ p \in P!ToSet(t)
    <3> HAVE p \in P!ToSet(u)
    <3>1. PICK i \in 1..Len(u) : u[i] = p
      BY <2>1, ElementOf
    <3>2. CASE i \in 1..Len(s)
      BY <3>1, <3>2, <1>2, ElementOf DEF u
    <3>3. CASE i \notin 1..Len(s)
      BY <3>1, <3>3, <1>4, ElementOf DEF u
    <3> QED BY <3>2, <3>3
  <2> QED BY <2>2, <2>3, <2>4 DEF u
<1> QED BY <1>1, <1>5

LEMMA ElementsAppend ==
  ASSUME NEW D, NEW s \in Seq(D), NEW d \in D
  PROVE  Append(s, d) \in Seq(D) /\ P!ToSet(Append(s, d)) = P!ToSet(s) \cup {d}
<1>1. /\ Append(s, d) \in Seq(D) /\ Len(Append(s, d)) = Len(s) + 1 /\ Len(s) \in Nat
      /\ Append(s, d)[Len(s) + 1] = d /\ \A i \in 1..Len(s) : Append(s, d)[i] = s[i]
  OBVIOUS
<1>2. \A i \in 1..(Len(s) + 1) : i \in 1..Len(s) \/ i = Len(s) + 1
  BY <1>1
<1>3. 1..Len(s) \subseteq 1..(Len(s) + 1) /\ Len(s) + 1 \in 1..(Len(s) + 1)
  BY <1>1
<1> DEFINE u == Append(s, d)
<1>4. u \in Seq(D)
  BY <1>1
<1>5. ASSUME NEW p PROVE p \in P!ToSet(u) <=> p \in P!ToSet(s) \/ p = d
  <2>1. p \in P!ToSet(u) <=> \E i \in 1..Len(u) : u[i] = p
    <3> HIDE DEF u
    <3> QED BY <1>4, ElementOf
  <2>2. p \in P!ToSet(s) <=> \E i \in 1..Len(s) : s[i] = p
    BY ElementOf
  <2> HIDE DEF u
  <2> QED BY <1>1, <1>2, <1>3, <2>1, <2>2 DEF u
<1> QED BY <1>1, <1>5

LEMMA ElementsSplit ==
  ASSUME NEW D, NEW s \in Seq(D), NEW n \in 0..Len(s)
  PROVE  /\ SubSeq(s, 1, n) \in Seq(D) /\ SubSeq(s, n + 1, Len(s)) \in Seq(D)
         /\ P!ToSet(s) \subseteq P!ToSet(SubSeq(s, 1, n)) \cup P!ToSet(SubSeq(s, n + 1, Len(s)))
<1> DEFINE a == SubSeq(s, 1, n)
           b == SubSeq(s, n + 1, Len(s))
<1>1. Len(s) \in Nat /\ n \in Nat
  OBVIOUS
<1>2. a \in Seq(D) /\ Len(a) = n /\ \A i \in 1..n : a[i] = s[i]
  BY <1>1
<1>3. b \in Seq(D) /\ Len(b) = Len(s) - n /\ \A i \in 1..(Len(s) - n) : b[i] = s[n + i]
  BY <1>1
<1> HIDE DEF a, b
<1>4. ASSUME NEW p \in P!ToSet(s) PROVE p \in P!ToSet(a) \cup P!ToSet(b)
  <2>1. PICK i \in 1..Len(s) : s[i] = p
    BY ElementOf
  <2>2. CASE i <= n
    <3>1. i \in 1..n
      BY <2>2, <1>1
    <3> QED BY <2>1, <3>1, <1>2, ElementOf
  <2>3. CASE i > n
    <3>1. i - n \in 1..(Len(s) - n) /\ n + (i - n) = i
      BY <2>3, <1>1
    <3>2. b[i - n] = p
      BY <2>1, <3>1, <1>3
    <3> QED BY <3>1, <3>2, <1>3, ElementOf
  <2> QED BY <2>2, <2>3, <1>1
<1> QED BY <1>2, <1>3, <1>4 DEF a, b

(* a number is in the k-th group of B *)
LEMMA GroupOf ==
  ASSUME NEW B \in Nat \ {0}, NEW n \in Nat, NEW i \in 1..n
  PROVE  \E k \in 1..((n + B - 1) \div B) : (k - 1) * B + 1 <= i /\ i <= k * B
<1> DEFINE V == {k \in Nat : i <= k * B}
<1>1. i \in V
  <2>1. i \in Nat /\ B >= 1
    OBVIOUS
  <2>2. i * B >= i
    BY <2>1
  <2> QED BY <2>1, <2>2
<1>2. PICK k \in V : \A m \in V : k <= m
  <2>1. V \subseteq Nat /\ V # {}
    BY <1>1
  <2> HIDE DEF V
  <2> QED BY <2>1, LeastExists
<1>3. k \in Nat /\ i <= k * B
  OBVIOUS
<1>4. k # 0
  BY <1>3
<1>5. k - 1 \in Nat /\ ~(i <= (k - 1) * B)
  <2>1. k - 1 \in Nat /\ ~(k <= k - 1)
    BY <1>3, <1>4
  <2>2. k - 1 \notin V
    <3> HIDE DEF V
    <3> QED BY <1>2, <2>1
  <2> QED BY <2>1, <2>2
<1>6. (k - 1) * B + 1 <= i
  <2>1. (k - 1) * B \in Nat
    BY <1>5
  <2> QED BY <1>5, <2>1
<1>7. k <= (n + B - 1) \div B
  <2>1. k * B = (k - 1) * B + B
    BY <1>3
  <2>2. k * B <= n + B - 1
    BY <1>6, <2>1
  <2> DEFINE a == n + B - 1
             q == a \div B
  <2>3. a \in Nat
    OBVIOUS
  <2> HIDE DEF a
  <2>4. q \in Nat /\ a < (q + 1) * B
    BY <2>3
  <2> HIDE DEF q
  <2>5. k * B < (q + 1) * B
    BY <2>2, <2>4, <1>3, <2>3 DEF a
  <2>6. k < q + 1
    BY <2>5, <2>4, <1>3
  <2> QED BY <2>6, <2>4, <1>3 DEF q, a
<1> QED BY <1>3, <1>4, <1>6, <1>7

(* the chunks of a sequence hold all of its tool calls *)
LEMMA ChunksCover ==
  ASSUME NEW s \in Seq(Pairs)
  PROVE  P!Chunks(s) \in Seq(Seq(Pairs)) /\ P!ToSet(s) \subseteq ChunkPairs(P!Chunks(s))
<1> DEFINE B == L1_BATCH_SIZE
           n == Len(s)
           c == (n + B - 1) \div B
           last(k) == IF k * B < n THEN k * B ELSE n
           cs == P!Chunks(s)
<1>1. n \in Nat /\ B \in Nat \ {0} /\ n + B - 1 \in Nat
  BY PluginConstants
<1>2. c \in Nat
  <2> DEFINE a == n + B - 1
  <2>1. a \in Nat
    BY <1>1
  <2> HIDE DEF a, B
  <2>2. a \div B \in Nat
    BY <2>1, <1>1
  <2> QED BY <2>2 DEF a
<1>3. \A k \in 1..c : (k - 1) * B + 1 \in Nat /\ last(k) \in 0..n /\ (k - 1) * B + 1 >= 1
  <2> HIDE DEF c
  <2> TAKE k \in 1..c
  <2>1. k \in Nat /\ k - 1 \in Nat
    BY <1>2
  <2>2. (k - 1) * B \in Nat /\ k * B \in Nat
    BY <2>1, <1>1
  <2> QED BY <2>2, <1>1
<1>4. cs = [k \in 1..c |-> SubSeq(s, (k - 1) * B + 1, last(k))]
  BY DEF P!Chunks, P!Chunk
<1>5. \A k \in 1..c : /\ SubSeq(s, (k - 1) * B + 1, last(k)) \in Seq(Pairs)
                      /\ \A i \in 1..n : (k - 1) * B + 1 <= i /\ i <= k * B
                           => s[i] \in P!ToSet(SubSeq(s, (k - 1) * B + 1, last(k)))
  <2> TAKE k \in 1..c
  <2> DEFINE a == (k - 1) * B
             b == last(k)
             u == SubSeq(s, a + 1, b)
  <2>1. a \in Nat /\ b \in 0..n
    <3>1. k - 1 \in Nat /\ k \in Nat
      BY <1>2
    <3> QED BY <1>1, <1>3, <3>1
  <2>2. \A i \in 1..n : i <= k * B => i <= b
    <3>1. k * B \in Nat
      BY <1>1, <1>2
    <3> QED BY <1>1, <3>1
  <2> HIDE DEF a, b
  <2>3. \A j \in (a + 1)..b : j \in 1..n
    BY <2>1, <1>1
  <2>4. u \in Seq(Pairs) /\ (a + 1 <= b => Len(u) = b - a)
    BY <2>1, <2>3, <1>1
  <2>5. \A i \in 1..n : a + 1 <= i /\ i <= b => i - a \in 1..Len(u) /\ u[i - a] = s[i]
    <3> TAKE i \in 1..n
    <3> HAVE a + 1 <= i /\ i <= b
    <3>1. a + 1 <= b /\ i - a \in 1..(b - a) /\ (a + 1) + (i - a) - 1 = i
      BY <2>1, <1>1
    <3>2. u[i - a] = s[(a + 1) + (i - a) - 1]
      BY <3>1, <2>1, <1>1
    <3> QED BY <3>1, <3>2, <2>4
  <2> HIDE DEF u
  <2>6. \A i \in 1..n : a + 1 <= i /\ i <= b => s[i] \in P!ToSet(u)
    <3> TAKE i \in 1..n
    <3> HAVE a + 1 <= i /\ i <= b
    <3> QED BY <2>4, <2>5, ElementOf
  <2>7. a = (k - 1) * B
    BY DEF a
  <2> QED BY <2>2, <2>4, <2>6, <2>7 DEF u, b
<1>6. cs \in Seq(Seq(Pairs)) /\ Len(cs) = c
  <2> HIDE DEF c, last, cs
  <2> QED BY <1>2, <1>4, <1>5
<1>7. ASSUME NEW p \in P!ToSet(s) PROVE p \in ChunkPairs(cs)
  <2>1. PICK i \in 1..n : s[i] = p
    BY ElementOf
  <2>2. PICK k \in 1..c : (k - 1) * B + 1 <= i /\ i <= k * B
    <3> HIDE DEF B
    <3> QED BY GroupOf, <1>1
  <2>3. p \in P!ToSet(cs[k])
    <3>1. cs[k] = SubSeq(s, (k - 1) * B + 1, last(k))
      <4> HIDE DEF last, cs, c
      <4> QED BY <1>4
    <3> HIDE DEF last, cs, c
    <3> QED BY <1>5, <2>1, <2>2, <3>1
  <2> HIDE DEF cs, c
  <2> QED BY <2>3, <1>6 DEF ChunkPairs
<1> QED BY <1>6, <1>7

(* an element of a sequence of flushes is a flush *)
LEMMA FlushFields ==
  ASSUME NEW f \in Flushes
  PROVE  /\ f.by \in Nat /\ f.max \in Nat /\ f.chunks \in Seq(Seq(Pairs))
         /\ f.taken \in BOOLEAN /\ f.uncounted \in Nat
BY DEF Flushes

LEMMA FlushPair ==
  ASSUME NEW fs, NEW p
  PROVE  p \in FlushPairs(fs) <=> \E k \in 1..Len(fs) : p \in ChunkPairs(fs[k].chunks)
BY DEF FlushPairs

LEMMA FlushAppended ==
  ASSUME NEW fs \in Seq(Flushes), NEW h \in Flushes
  PROVE  /\ Append(fs, h) \in Seq(Flushes)
         /\ FlushPairs(fs) \subseteq FlushPairs(Append(fs, h))
<1> DEFINE gs == Append(fs, h)
<1>1. gs \in Seq(Flushes) /\ \A k \in 1..Len(fs) : k \in 1..Len(gs) /\ gs[k] = fs[k]
  OBVIOUS
<1> HIDE DEF gs
<1>2. ASSUME NEW p \in FlushPairs(fs) PROVE p \in FlushPairs(gs)
  BY <1>1, FlushPair
<1> QED BY <1>1, <1>2 DEF gs

(* the holder of the lock changes its record *)
LEMMA HolderChanges ==
  ASSUME NEW fs \in Seq(Flushes), fs # <<>>, NEW h \in Flushes
  PROVE  LET gs == [fs EXCEPT ![1] = h] IN
         /\ gs \in Seq(Flushes)
         /\ FlushPairs(fs) \subseteq ChunkPairs(fs[1].chunks) \cup FlushPairs(gs)
         /\ ChunkPairs(h.chunks) \subseteq FlushPairs(gs)
         /\ Len(gs) = Len(fs) /\ gs[1] = h /\ \A k \in 2..Len(fs) : gs[k] = fs[k]
<1> DEFINE gs == [fs EXCEPT ![1] = h]
<1>1. Len(fs) \in Nat /\ Len(fs) >= 1 /\ 1 \in 1..Len(fs)
  OBVIOUS
<1>2. gs \in Seq(Flushes) /\ Len(gs) = Len(fs) /\ gs[1] = h
  BY <1>1
<1>3. \A k \in 2..Len(fs) : gs[k] = fs[k]
  BY <1>1
<1> HIDE DEF gs
<1>4. \A k \in 1..Len(fs) : k = 1 \/ k \in 2..Len(fs)
  BY <1>1
<1>5. ASSUME NEW p \in FlushPairs(fs) PROVE p \in ChunkPairs(fs[1].chunks) \cup FlushPairs(gs)
  <2>1. PICK k \in 1..Len(fs) : p \in ChunkPairs(fs[k].chunks)
    BY FlushPair
  <2>2. CASE k \in 2..Len(fs)
    <3>1. gs[k].chunks = fs[k].chunks /\ k \in 1..Len(gs)
      BY <1>2, <1>3, <2>2
    <3> QED BY <2>1, <3>1, FlushPair
  <2> QED BY <2>1, <2>2, <1>4
<1>6. ASSUME NEW p \in ChunkPairs(h.chunks) PROVE p \in FlushPairs(gs)
  BY <1>1, <1>2, FlushPair
<1> QED BY <1>2, <1>3, <1>5, <1>6 DEF gs

(* and gives the lock to the next one *)
LEMMA HolderEnds ==
  ASSUME NEW fs \in Seq(Flushes), fs # <<>>, fs[1].chunks = <<>>
  PROVE  /\ Tail(fs) \in Seq(Flushes) /\ FlushPairs(fs) \subseteq FlushPairs(Tail(fs))
         /\ \A k \in 1..Len(Tail(fs)) : k + 1 \in 1..Len(fs) /\ Tail(fs)[k] = fs[k + 1]
<1> DEFINE gs == Tail(fs)
<1>1. Len(fs) \in Nat /\ gs \in Seq(Flushes) /\ Len(gs) = Len(fs) - 1
  OBVIOUS
<1>2. \A k \in 1..Len(gs) : k + 1 \in 1..Len(fs) /\ gs[k] = fs[k + 1]
  BY <1>1
<1>3. \A k \in 1..Len(fs) : k = 1 \/ (k - 1 \in 1..Len(gs) /\ gs[k - 1] = fs[k])
  <2> TAKE k \in 1..Len(fs)
  <2>1. CASE k # 1
    <3>1. k - 1 \in 1..Len(gs) /\ (k - 1) + 1 = k
      BY <1>1, <2>1
    <3>2. gs[k - 1] = fs[(k - 1) + 1]
      BY <1>2, <3>1
    <3> QED BY <3>1, <3>2
  <2> QED BY <2>1
<1> HIDE DEF gs
<1>4. ChunkPairs(<<>>) = {}
  BY DEF ChunkPairs
<1>5. ASSUME NEW p \in FlushPairs(fs) PROVE p \in FlushPairs(gs)
  BY <1>3, <1>4, FlushPair, SMTT(30)
<1> QED BY <1>1, <1>2, <1>5 DEF gs

(* the first chunk and the others *)
LEMMA FirstChunkAndRest ==
  ASSUME NEW cs \in Seq(Seq(Pairs)), cs # <<>>
  PROVE  /\ cs[1] \in Seq(Pairs) /\ Tail(cs) \in Seq(Seq(Pairs))
         /\ ChunkPairs(cs) = P!ToSet(cs[1]) \cup ChunkPairs(Tail(cs))
<1> DEFINE ds == Tail(cs)
<1>1. Len(cs) \in Nat /\ Len(cs) >= 1 /\ ds \in Seq(Seq(Pairs)) /\ Len(ds) = Len(cs) - 1
  OBVIOUS
<1>2. \A k \in 1..Len(ds) : k + 1 \in 1..Len(cs) /\ ds[k] = cs[k + 1]
  BY <1>1
<1>3. \A k \in 1..Len(cs) : k = 1 \/ (k - 1 \in 1..Len(ds) /\ ds[k - 1] = cs[k])
  <2> TAKE k \in 1..Len(cs)
  <2>1. CASE k # 1
    <3>1. k - 1 \in 1..Len(ds) /\ (k - 1) + 1 = k
      BY <1>1, <2>1
    <3>2. ds[k - 1] = cs[(k - 1) + 1]
      BY <1>2, <3>1
    <3> QED BY <3>1, <3>2
  <2> QED BY <2>1
<1>4. 1 \in 1..Len(cs) /\ cs[1] \in Seq(Pairs)
  BY <1>1
<1> HIDE DEF ds
<1>5. ASSUME NEW p PROVE p \in ChunkPairs(cs) <=> p \in P!ToSet(cs[1]) \/ p \in ChunkPairs(ds)
  BY <1>2, <1>3, <1>4, ZenonT(40) DEF ChunkPairs
<1> QED BY <1>1, <1>4, <1>5 DEF ds

-----------------------------------------------------------------------------
(* The plugin: L1 *)

PairsHeld ==
  reported \subseteq P!ToSet(pending) \cup FlushPairs(flushes) \cup P!Ids(entries) \cup omitted \cup lost
L1Inv == L1Types /\ NoChunksYet /\ PairsHeld

LEMMA HeldIsKept ==
  P!PairsKept <=> PairsHeld
BY DEF P!PairsKept, P!InFlush, P!InChunks, PairsHeld, FlushPairs, ChunkPairs

LEMMA HeldIsKeptPrime ==
  P!PairsKept' <=> PairsHeld'
BY DEF P!PairsKept, P!InFlush, P!InChunks, PairsHeld, FlushPairs, ChunkPairs

LEMMA NewFlush ==
  ASSUME NEW by \in Nat, NEW max \in Nat
  PROVE  P!Flush(by, max) \in Flushes /\ P!Flush(by, max).chunks = <<>>
BY DEF P!Flush, Flushes

LEMMA PairsNumber ==
  P!Cardinality(Pairs) \in Nat
<1>1. Cardinality(Pairs) \in Nat
  BY PluginConstants, FS_CardinalityType
<1> QED BY <1>1 DEF P!Cardinality, Cardinality

LEMMA FlushQueued ==
  ASSUME flushes \in Seq(Flushes), NoChunksYet, NEW h \in Flushes, h.chunks = <<>>,
         flushes' = Append(flushes, h)
  PROVE  flushes' \in Seq(Flushes) /\ NoChunksYet' /\ FlushPairs(flushes) \subseteq FlushPairs(flushes)'
<1>1. flushes' \in Seq(Flushes) /\ FlushPairs(flushes) \subseteq FlushPairs(flushes')
  BY FlushAppended
<1>2. \A k \in 1..Len(flushes') : flushes'[k].taken \/ flushes'[k].chunks = <<>>
  <2> TAKE k \in 1..Len(flushes')
  <2>1. CASE k \in 1..Len(flushes)
    <3>1. flushes'[k] = flushes[k]
      BY <2>1
    <3> QED BY <2>1, <3>1 DEF NoChunksYet
  <2>2. CASE k = Len(flushes) + 1
    <3>1. flushes'[k] = h
      BY <2>2
    <3> QED BY <3>1
  <2>3. Len(flushes') = Len(flushes) + 1 /\ Len(flushes) \in Nat
    OBVIOUS
  <2> QED BY <2>1, <2>2, <2>3
<1> QED BY <1>1, <1>2 DEF NoChunksYet, FlushPairs, ChunkPairs

LEMMA HolderSet ==
  ASSUME flushes \in Seq(Flushes), flushes # <<>>, NoChunksYet, NEW h \in Flushes,
         h.taken \/ h.chunks = <<>>, P!SetHolder(h)
  PROVE  /\ flushes' \in Seq(Flushes) /\ NoChunksYet'
         /\ FlushPairs(flushes) \subseteq ChunkPairs(P!Holder.chunks) \cup FlushPairs(flushes)'
         /\ ChunkPairs(h.chunks) \subseteq FlushPairs(flushes)'
<1> DEFINE gs == [flushes EXCEPT ![1] = h]
<1>1. flushes' = gs
  BY DEF P!SetHolder
<1>2. /\ gs \in Seq(Flushes)
      /\ FlushPairs(flushes) \subseteq ChunkPairs(flushes[1].chunks) \cup FlushPairs(gs)
      /\ ChunkPairs(h.chunks) \subseteq FlushPairs(gs)
      /\ Len(gs) = Len(flushes) /\ gs[1] = h
      /\ \A k \in 2..Len(flushes) : gs[k] = flushes[k]
  BY HolderChanges, ZenonT(40)
<1> HIDE DEF gs
<1>3. \A k \in 1..Len(flushes') : flushes'[k].taken \/ flushes'[k].chunks = <<>>
  <2> TAKE k \in 1..Len(flushes')
  <2>1. CASE k = 1
    BY <2>1, <1>1, <1>2
  <2>2. CASE k \in 2..Len(flushes)
    <3>1. flushes'[k] = flushes[k] /\ k \in 1..Len(flushes)
      BY <2>2, <1>1, <1>2
    <3> QED BY <3>1 DEF NoChunksYet
  <2> QED BY <2>1, <2>2, <1>1, <1>2
<1> QED BY <1>1, <1>2, <1>3 DEF NoChunksYet, P!Holder, FlushPairs, ChunkPairs

LEMMA HolderTyped ==
  ASSUME flushes \in Seq(Flushes), flushes # <<>>
  PROVE  /\ P!Holder \in Flushes /\ P!Holder = flushes[1] /\ 1 \in 1..Len(flushes)
BY DEF P!Holder

LEMMA ToolCallKept ==
  ASSUME L1Inv, NEW p \in Pairs, P!AfterToolCall(p)
  PROVE  L1Inv'
<1>1. pending' \in Seq(Pairs) /\ P!ToSet(pending') = P!ToSet(pending) \cup {p}
  BY ElementsAppend DEF L1Inv, L1Types, P!AfterToolCall, P!AddToolPair
<1>2. P!Flush(0, P!Cardinality(Pairs)) \in Flushes /\ P!Flush(0, P!Cardinality(Pairs)).chunks = <<>>
  BY PairsNumber, NewFlush
<1>3. flushes' \in Seq(Flushes) /\ NoChunksYet' /\ FlushPairs(flushes) \subseteq FlushPairs(flushes)'
  <2>1. CASE flushes' = flushes
    BY <2>1 DEF L1Inv, L1Types, NoChunksYet, FlushPairs
  <2>2. CASE flushes' = Append(flushes, P!Flush(0, P!Cardinality(Pairs)))
    BY <2>2, <1>2, FlushQueued DEF L1Inv, L1Types
  <2> QED BY <2>1, <2>2 DEF P!AfterToolCall
<1>4. L1Types'
  BY <1>1, <1>3 DEF L1Inv, L1Types, P!AfterToolCall
<1>5. PairsHeld'
  <2>1. P!ToSet(pending)' = P!ToSet(pending) \cup {p}
    BY <1>1 DEF P!ToSet
  <2>2. P!Ids(entries)' = P!Ids(entries)
    BY DEF P!AfterToolCall, P!Ids
  <2> QED BY <1>3, <2>1, <2>2 DEF L1Inv, PairsHeld, P!AfterToolCall
<1> QED BY <1>3, <1>4, <1>5 DEF L1Inv

(* a flush joins the queue, and nothing else of L1 changes *)
LEMMA QueuedKept ==
  ASSUME L1Inv, NEW by \in Nat, NEW max \in Nat, flushes' = Append(flushes, P!Flush(by, max)),
         UNCHANGED <<reported, pending, fails, omitted, entries, entryCounter, lost>>
  PROVE  L1Inv'
<1>1. P!Flush(by, max) \in Flushes /\ P!Flush(by, max).chunks = <<>>
  BY NewFlush
<1>2. flushes' \in Seq(Flushes) /\ NoChunksYet' /\ FlushPairs(flushes) \subseteq FlushPairs(flushes)'
  BY <1>1, FlushQueued DEF L1Inv, L1Types
<1>3. L1Types'
  BY <1>2 DEF L1Inv, L1Types
<1>4. PairsHeld'
  BY <1>2 DEF L1Inv, PairsHeld, P!Ids, P!ToSet
<1> QED BY <1>2, <1>3, <1>4 DEF L1Inv

LEMMA L1Unchanged ==
  ASSUME L1Inv, UNCHANGED <<reported, pending, flushes, fails, omitted, entries, entryCounter, lost>>
  PROVE  L1Inv'
<1>1. L1Types'
  BY DEF L1Inv, L1Types
<1>2. NoChunksYet'
  BY DEF L1Inv, NoChunksYet
<1>3. FlushPairs(flushes)' = FlushPairs(flushes) /\ P!Ids(entries)' = P!Ids(entries)
      /\ P!ToSet(pending)' = P!ToSet(pending)
  BY DEF FlushPairs, ChunkPairs, P!Ids, P!ToSet
<1>4. PairsHeld'
  BY <1>3 DEF L1Inv, PairsHeld
<1> QED BY <1>1, <1>2, <1>4 DEF L1Inv

LEMMA TakePendingKept ==
  ASSUME L1Inv, P!TakePending
  PROVE  L1Inv'
<1> DEFINE n == IF P!Holder.max < Len(pending) THEN P!Holder.max ELSE Len(pending)
           head == SubSeq(pending, 1, n)
           tail == SubSeq(pending, n + 1, Len(pending))
           h == [P!Holder EXCEPT !.taken = TRUE, !.chunks = P!Chunks(head)]
<1>1. P!Holder \in Flushes /\ P!Holder = flushes[1] /\ 1 \in 1..Len(flushes)
  BY HolderTyped DEF P!TakePending, L1Inv, L1Types
<1>2. P!SetHolder(h) /\ pending' = tail
  BY DEF P!TakePending
<1>3. n \in 0..Len(pending) /\ pending \in Seq(Pairs)
  BY <1>1, FlushFields DEF L1Inv, L1Types
<1> HIDE DEF n
<1>4. head \in Seq(Pairs) /\ tail \in Seq(Pairs) /\ P!ToSet(pending) \subseteq P!ToSet(head) \cup P!ToSet(tail)
  BY <1>3, ElementsSplit
<1> HIDE DEF head, tail
<1>5. P!Chunks(head) \in Seq(Seq(Pairs)) /\ P!ToSet(head) \subseteq ChunkPairs(P!Chunks(head))
  BY <1>4, ChunksCover
<1>6. h \in Flushes /\ h.taken /\ h.chunks = P!Chunks(head)
  BY <1>1, <1>5 DEF Flushes
<1>7. P!Holder.chunks = <<>>
  BY <1>1 DEF P!TakePending, L1Inv, NoChunksYet
<1>8. ChunkPairs(<<>>) = {}
  BY DEF ChunkPairs
<1>9. /\ flushes' \in Seq(Flushes) /\ NoChunksYet'
      /\ FlushPairs(flushes) \subseteq FlushPairs(flushes)' /\ ChunkPairs(h.chunks) \subseteq FlushPairs(flushes)'
  <2> HIDE DEF h
  <2> QED BY <1>2, <1>6, <1>7, <1>8, HolderSet DEF P!TakePending, L1Inv, L1Types
<1>10. L1Types'
  BY <1>2, <1>4, <1>9 DEF L1Inv, L1Types, P!TakePending
<1>11. PairsHeld'
  <2>1. P!ToSet(pending)' = P!ToSet(tail)
    BY <1>2 DEF P!ToSet
  <2>2. P!Ids(entries)' = P!Ids(entries)
    BY DEF P!TakePending, P!Ids
  <2>3. P!ToSet(head) \subseteq FlushPairs(flushes)'
    BY <1>5, <1>6, <1>9
  <2>4. UNCHANGED <<reported, omitted, lost>>
    BY DEF P!TakePending
  <2> QED BY <1>4, <1>9, <2>1, <2>2, <2>3, <2>4 DEF L1Inv, PairsHeld
<1> QED BY <1>9, <1>10, <1>11 DEF L1Inv

LEMMA FlushEndsKept ==
  ASSUME L1Inv, P!FlushEnds
  PROVE  L1Inv'
<1>1. P!Holder = flushes[1]
  BY DEF P!Holder
<1>2. /\ flushes' \in Seq(Flushes) /\ FlushPairs(flushes) \subseteq FlushPairs(flushes')
      /\ \A k \in 1..Len(flushes') : k + 1 \in 1..Len(flushes) /\ flushes'[k] = flushes[k + 1]
  BY <1>1, HolderEnds DEF P!FlushEnds, L1Inv, L1Types
<1>3. NoChunksYet'
  <2>1. \A k \in 1..Len(flushes') : flushes'[k].taken \/ flushes'[k].chunks = <<>>
    BY <1>2 DEF L1Inv, NoChunksYet
  <2> QED BY <2>1 DEF NoChunksYet
<1>4. L1Types'
  BY <1>2 DEF L1Inv, L1Types, P!FlushEnds
<1>5. PairsHeld'
  <2>1. FlushPairs(flushes)' = FlushPairs(flushes')
    BY DEF FlushPairs, ChunkPairs
  <2> QED BY <1>2, <2>1 DEF L1Inv, PairsHeld, P!FlushEnds, P!Ids, P!ToSet
<1> QED BY <1>3, <1>4, <1>5 DEF L1Inv

LEMMA KeyFails ==
  ASSUME L1Inv, NEW x \in 0..MAX_L1_CHUNK_RETRIES - 1
  PROVE  [fails EXCEPT ![P!Key] = x] \in [Pairs -> 0..MAX_L1_CHUNK_RETRIES - 1]
BY DEF L1Inv, L1Types

(* the pairs of a flush that breaks off are its chunks' *)
LEMMA FallbackKept ==
  ASSUME L1Inv, P!FallbackFails
  PROVE  L1Inv'
<1> DEFINE cs == P!Holder.chunks
           gs == Tail(flushes)
<1>1. P!Holder \in Flushes /\ P!Holder = flushes[1] /\ flushes \in Seq(Flushes) /\ flushes # <<>>
  BY HolderTyped DEF P!FallbackFails, P!Summarising, L1Inv, L1Types
<1>2. /\ flushes' = gs /\ omitted' = omitted \cup P!InChunks(P!Holder)
      /\ fails' = [fails EXCEPT ![P!Key] = 0]
      /\ UNCHANGED <<reported, pending, entries, entryCounter, lost>>
  BY DEF P!FallbackFails
<1>3. P!InChunks(P!Holder) = ChunkPairs(cs) /\ cs \in Seq(Seq(Pairs))
  BY <1>1, FlushFields DEF P!InChunks, ChunkPairs
<1> HIDE DEF cs
<1>4. ChunkPairs(cs) \subseteq Pairs
  <2>1. \A i \in 1..Len(cs) : P!ToSet(cs[i]) \subseteq Pairs
    <3> TAKE i \in 1..Len(cs)
    <3>1. cs[i] \in Seq(Pairs)
      BY <1>3
    <3> QED BY <3>1, ElementsOf
  <2> QED BY <2>1 DEF ChunkPairs
<1>5. gs \in Seq(Flushes) /\ \A k \in 1..Len(gs) : k + 1 \in 1..Len(flushes) /\ gs[k] = flushes[k + 1]
  <2>1. Len(flushes) \in Nat /\ gs \in Seq(Flushes) /\ Len(gs) = Len(flushes) - 1
    BY <1>1
  <2> QED BY <2>1, <1>1
<1>6. \A k \in 1..Len(flushes) : k = 1 \/ (k - 1 \in 1..Len(gs) /\ gs[k - 1] = flushes[k])
  <2> TAKE k \in 1..Len(flushes)
  <2>1. CASE k # 1
    <3>1. k - 1 \in 1..Len(gs) /\ (k - 1) + 1 = k
      BY <1>1, <2>1
    <3>2. gs[k - 1] = flushes[(k - 1) + 1]
      BY <1>5, <3>1
    <3> QED BY <3>1, <3>2
  <2> QED BY <2>1
<1> HIDE DEF gs
<1>7. ASSUME NEW p \in FlushPairs(flushes) PROVE p \in ChunkPairs(cs) \cup FlushPairs(gs)
  <2>1. PICK k \in 1..Len(flushes) : p \in ChunkPairs(flushes[k].chunks)
    BY FlushPair
  <2>2. CASE k = 1
    BY <2>1, <2>2, <1>1 DEF cs
  <2>3. CASE k - 1 \in 1..Len(gs) /\ gs[k - 1] = flushes[k]
    BY <2>1, <2>3, FlushPair
  <2> QED BY <2>2, <2>3, <1>6
<1>8. NoChunksYet'
  <2>1. \A k \in 1..Len(flushes') : flushes'[k].taken \/ flushes'[k].chunks = <<>>
    BY <1>2, <1>5 DEF L1Inv, NoChunksYet
  <2> QED BY <2>1 DEF NoChunksYet
<1>9. fails' \in [Pairs -> 0..MAX_L1_CHUNK_RETRIES - 1]
  <2>1. 0 \in 0..MAX_L1_CHUNK_RETRIES - 1
    BY PluginConstants
  <2> QED BY <2>1, <1>2, KeyFails
<1>10. L1Types'
  BY <1>2, <1>3, <1>4, <1>5, <1>9 DEF L1Inv, L1Types
<1>11. PairsHeld'
  <2>1. P!ToSet(pending)' = P!ToSet(pending) /\ P!Ids(entries)' = P!Ids(entries)
    BY <1>2 DEF P!ToSet, P!Ids
  <2>2. FlushPairs(flushes)' = FlushPairs(gs)
    BY <1>2 DEF FlushPairs, ChunkPairs
  <2> QED BY <1>2, <1>3, <1>7, <2>1, <2>2 DEF L1Inv, PairsHeld
<1> QED BY <1>8, <1>10, <1>11 DEF L1Inv

LEMMA KeptInPlugin ==
  ASSUME NEW s, NEW keep
  PROVE  P!Kept(s, keep) = Kept(s, keep)
BY DEF P!Kept, Kept

LEMMA IdOf ==
  ASSUME NEW es, NEW p
  PROVE  p \in P!Ids(es) <=> \E i \in 1..Len(es) : es[i].id = p
BY DEF P!Ids

(* the ids that have no entry yet get one *)
LEMMA EntriesAppended ==
  ASSUME entries \in Seq(Entries), NEW ids \in Seq(Pairs), P!AppendOffloadEntries(ids)
  PROVE  entries' \in Seq(Entries) /\ P!Ids(entries) \cup P!ToSet(ids) \subseteq P!Ids(entries)'
<1> DEFINE fresh == {i \in DOMAIN ids : ids[i] \notin P!Ids(entries)}
           new == Kept(ids, fresh)
           es == [i \in DOMAIN new |-> [id |-> new[i], node |-> Null]]
           file == entries \o es
<1>1. entries' = file
  <2>1. entries' = entries \o [i \in DOMAIN P!Kept(ids, fresh) |->
                                 [id |-> P!Kept(ids, fresh)[i], node |-> P!Null]]
    BY DEF P!AppendOffloadEntries
  <2>2. P!Kept(ids, fresh) = new
    BY KeptInPlugin
  <2> QED BY <2>1, <2>2 DEF Null
<1>2. new \in Seq(Pairs) /\ {new[i] : i \in 1..Len(new)} = {ids[k] : k \in (1..Len(ids)) \cap fresh}
  <2> HIDE DEF fresh
  <2> QED BY KeptRange, ZenonT(40)
<1> HIDE DEF new
<1>3. es \in Seq(Entries) /\ Len(es) = Len(new) /\ \A i \in 1..Len(new) : es[i].id = new[i]
  <2>1. \A i \in 1..Len(new) : [id |-> new[i], node |-> Null] \in Entries
    BY <1>2 DEF Entries
  <2>2. DOMAIN new = 1..Len(new) /\ Len(new) \in Nat
    BY <1>2
  <2> QED BY <2>1, <2>2
<1> HIDE DEF es
<1>4. /\ file \in Seq(Entries) /\ Len(file) = Len(entries) + Len(es)
      /\ Len(entries) \in Nat /\ Len(es) \in Nat
      /\ \A i \in 1..Len(entries) : file[i] = entries[i] /\ i \in 1..Len(file)
      /\ \A i \in 1..Len(es) : file[Len(entries) + i] = es[i] /\ Len(entries) + i \in 1..Len(file)
  BY <1>3, ConcatFacts
<1> HIDE DEF file
<1>5. ASSUME NEW p \in P!Ids(entries) PROVE p \in P!Ids(file)
  BY <1>4, IdOf, SMTT(30)
<1>6. ASSUME NEW p \in P!ToSet(ids) PROVE p \in P!Ids(file)
  <2>1. PICK k \in 1..Len(ids) : ids[k] = p
    BY ElementOf
  <2>2. CASE p \in P!Ids(entries)
    BY <2>2, <1>5
  <2>3. CASE p \notin P!Ids(entries)
    <3>1. k \in (1..Len(ids)) \cap fresh
      BY <2>1, <2>3
    <3>2. p \in {new[i] : i \in 1..Len(new)}
      <4> HIDE DEF fresh
      <4> QED BY <1>2, <2>1, <3>1
    <3>3. PICK i \in 1..Len(new) : new[i] = p
      BY <3>2
    <3>4. file[Len(entries) + i].id = p /\ Len(entries) + i \in 1..Len(file)
      BY <3>3, <1>3, <1>4
    <3> QED BY <3>4, IdOf
  <2> QED BY <2>2, <2>3
<1>7. P!Ids(entries)' = P!Ids(file)
  BY <1>1 DEF P!Ids
<1> QED BY <1>1, <1>4, <1>5, <1>6, <1>7

(* the first chunk leaves its flush *)
LEMMA ChunkLeaves ==
  ASSUME L1Inv, P!Summarising, NEW n \in Nat, NEW h,
         h = [P!Holder EXCEPT !.uncounted = n, !.chunks = Tail(@)] \/ h = [P!Holder EXCEPT !.chunks = Tail(@)],
         P!SetHolder(h)
  PROVE  /\ flushes' \in Seq(Flushes) /\ NoChunksYet' /\ P!FirstChunk \in Seq(Pairs)
         /\ FlushPairs(flushes) \subseteq P!ToSet(P!FirstChunk) \cup FlushPairs(flushes)'
<1>1. P!Holder \in Flushes /\ P!Holder = flushes[1] /\ 1 \in 1..Len(flushes) /\ flushes # <<>>
  BY HolderTyped DEF P!Summarising, L1Inv, L1Types
<1> DEFINE cs == P!Holder.chunks
<1>2. cs \in Seq(Seq(Pairs)) /\ cs # <<>> /\ P!Holder.taken /\ P!Holder.taken \in BOOLEAN
  BY <1>1, FlushFields DEF P!Summarising, L1Inv, NoChunksYet
<1>3. /\ P!FirstChunk \in Seq(Pairs) /\ Tail(cs) \in Seq(Seq(Pairs))
      /\ ChunkPairs(cs) = P!ToSet(P!FirstChunk) \cup ChunkPairs(Tail(cs))
  <2> HIDE DEF cs
  <2> QED BY <1>2, FirstChunkAndRest DEF P!FirstChunk, cs
<1>4. h \in Flushes /\ h.taken /\ h.chunks = Tail(cs)
  BY <1>1, <1>2, <1>3 DEF Flushes
<1>5. /\ flushes' \in Seq(Flushes) /\ NoChunksYet'
      /\ FlushPairs(flushes) \subseteq ChunkPairs(cs) \cup FlushPairs(flushes)'
      /\ ChunkPairs(h.chunks) \subseteq FlushPairs(flushes)'
  BY <1>1, <1>4, HolderSet DEF L1Inv, L1Types
<1> QED BY <1>3, <1>4, <1>5

LEMMA AnswersKept ==
  ASSUME L1Inv, P!L1Answers
  PROVE  L1Inv'
<1>0. P!Summarising
  BY DEF P!L1Answers
<1>1. PICK some \in SUBSET P!ToSet(P!FirstChunk) :
        /\ P!Appended(P!Kept(P!FirstChunk, {i \in DOMAIN P!FirstChunk : P!FirstChunk[i] \in some}))
        /\ omitted' = omitted \cup (P!ToSet(P!FirstChunk) \ some)
  BY DEF P!L1Answers
<1> DEFINE c == P!FirstChunk
           answered == {i \in DOMAIN c : c[i] \in some}
           ids == Kept(c, answered)
<1>2. P!Appended(ids)
  BY <1>1, KeptInPlugin
<1>3. c \in Seq(Pairs)
  <2>1. P!Holder \in Flushes
    BY <1>0, HolderTyped DEF P!Summarising, L1Inv, L1Types
  <2> QED BY <1>0, <2>1, FlushFields, FirstChunkAndRest DEF P!Summarising, P!FirstChunk
<1> HIDE DEF c
<1>4. ids \in Seq(Pairs) /\ {ids[i] : i \in 1..Len(ids)} = {c[k] : k \in (1..Len(c)) \cap answered}
  <2> HIDE DEF answered
  <2> QED BY <1>3, KeptRange, ZenonT(40)
<1>5. some \subseteq P!ToSet(ids)
  <2> SUFFICES ASSUME NEW p \in some PROVE p \in P!ToSet(ids)
    OBVIOUS
  <2>1. PICK k \in 1..Len(c) : c[k] = p
    <3>1. p \in P!ToSet(c)
      BY DEF c
    <3> QED BY <1>3, <3>1, ElementOf
  <2>2. k \in (1..Len(c)) \cap answered
    BY <2>1, <1>3
  <2>3. p \in {ids[i] : i \in 1..Len(ids)}
    <3> HIDE DEF answered, ids
    <3> QED BY <1>4, <2>1, <2>2
  <2> HIDE DEF ids
  <2> QED BY <2>3, <1>4, ElementOf
<1> HIDE DEF ids
<1>6. entries' \in Seq(Entries) /\ P!Ids(entries) \cup P!ToSet(ids) \subseteq P!Ids(entries)'
  BY <1>2, <1>4, EntriesAppended DEF P!Appended, L1Inv, L1Types
<1>7. P!SetHolder([P!Holder EXCEPT !.uncounted = Len(ids), !.chunks = Tail(@)]) /\ Len(ids) \in Nat
  BY <1>2, <1>4 DEF P!Appended
<1>8. /\ flushes' \in Seq(Flushes) /\ NoChunksYet'
      /\ FlushPairs(flushes) \subseteq P!ToSet(c) \cup FlushPairs(flushes)'
  BY <1>0, <1>7, ChunkLeaves DEF c
<1>9. omitted' = omitted \cup (P!ToSet(c) \ some) /\ P!ToSet(c) \subseteq Pairs
  BY <1>1, <1>3, ElementsOf DEF c
<1>10. fails' \in [Pairs -> 0..MAX_L1_CHUNK_RETRIES - 1]
  <2>1. 0 \in 0..MAX_L1_CHUNK_RETRIES - 1
    BY PluginConstants
  <2> QED BY <2>1, KeyFails DEF P!L1Answers
<1>11. UNCHANGED <<reported, pending, entryCounter, lost>>
  BY DEF P!L1Answers
<1>12. L1Types'
  BY <1>6, <1>8, <1>9, <1>10, <1>11 DEF L1Inv, L1Types
<1>13. PairsHeld'
  <2>1. P!ToSet(pending)' = P!ToSet(pending)
    BY <1>11 DEF P!ToSet
  <2> QED BY <2>1, <1>5, <1>6, <1>8, <1>9, <1>11 DEF L1Inv, PairsHeld
<1> QED BY <1>8, <1>12, <1>13 DEF L1Inv

LEMMA FailsKept ==
  ASSUME L1Inv, P!L1Fails
  PROVE  L1Inv'
<1> DEFINE c == P!FirstChunk
           h == [P!Holder EXCEPT !.chunks = Tail(@)]
<1>1. P!Summarising /\ P!SetHolder(h) /\ pending' = pending \o c
  BY DEF P!L1Fails, P!Requeued
<1>2. /\ flushes' \in Seq(Flushes) /\ NoChunksYet' /\ c \in Seq(Pairs)
      /\ FlushPairs(flushes) \subseteq P!ToSet(c) \cup FlushPairs(flushes)'
  <2>1. 0 \in Nat
    OBVIOUS
  <2> HIDE DEF c
  <2> QED BY <1>1, <2>1, ChunkLeaves DEF c
<1> HIDE DEF c
<1>3. pending' \in Seq(Pairs) /\ P!ToSet(pending') = P!ToSet(pending) \cup P!ToSet(c)
  BY <1>1, <1>2, ElementsConcat DEF L1Inv, L1Types
<1>4. fails' \in [Pairs -> 0..MAX_L1_CHUNK_RETRIES - 1]
  <2>1. fails' = [fails EXCEPT ![P!Key] = fails[P!Key] + 1] /\ fails[P!Key] + 1 < MAX_L1_CHUNK_RETRIES
    BY DEF P!L1Fails
  <2>2. CASE P!Key \in Pairs
    <3>1. fails[P!Key] + 1 \in 0..MAX_L1_CHUNK_RETRIES - 1
      BY <2>1, <2>2, PluginConstants DEF L1Inv, L1Types
    <3> QED BY <2>1, <3>1, KeyFails
  <2>3. CASE P!Key \notin Pairs
    BY <2>1, <2>3 DEF L1Inv, L1Types
  <2> QED BY <2>2, <2>3
<1>5. UNCHANGED <<reported, omitted, entries, entryCounter, lost>>
  BY DEF P!L1Fails
<1>6. L1Types'
  BY <1>2, <1>3, <1>4, <1>5 DEF L1Inv, L1Types
<1>7. PairsHeld'
  <2>1. P!ToSet(pending)' = P!ToSet(pending')
    BY DEF P!ToSet
  <2>2. P!Ids(entries)' = P!Ids(entries)
    BY <1>5 DEF P!Ids
  <2> QED BY <2>1, <2>2, <1>2, <1>3, <1>5 DEF L1Inv, PairsHeld
<1> QED BY <1>2, <1>6, <1>7 DEF L1Inv

LEMMA GivesUpKept ==
  ASSUME L1Inv, P!L1GivesUp
  PROVE  L1Inv'
<1> DEFINE c == P!FirstChunk
<1>1. P!Summarising /\ P!Appended(c)
  BY DEF P!L1GivesUp
<1>2. c \in Seq(Pairs)
  <2>1. P!Holder \in Flushes
    BY <1>1, HolderTyped DEF P!Summarising, L1Inv, L1Types
  <2> QED BY <1>1, <2>1, FlushFields, FirstChunkAndRest DEF P!Summarising, P!FirstChunk
<1>3. P!SetHolder([P!Holder EXCEPT !.uncounted = Len(c), !.chunks = Tail(@)]) /\ Len(c) \in Nat
  BY <1>1, <1>2 DEF P!Appended
<1> HIDE DEF c
<1>4. entries' \in Seq(Entries) /\ P!Ids(entries) \cup P!ToSet(c) \subseteq P!Ids(entries)'
  BY <1>1, <1>2, EntriesAppended DEF P!Appended, L1Inv, L1Types
<1>5. /\ flushes' \in Seq(Flushes) /\ NoChunksYet'
      /\ FlushPairs(flushes) \subseteq P!ToSet(c) \cup FlushPairs(flushes)'
  BY <1>1, <1>3, ChunkLeaves DEF c
<1>6. fails' \in [Pairs -> 0..MAX_L1_CHUNK_RETRIES - 1]
  <2>1. 0 \in 0..MAX_L1_CHUNK_RETRIES - 1
    BY PluginConstants
  <2> QED BY <2>1, KeyFails DEF P!L1GivesUp
<1>7. UNCHANGED <<reported, pending, omitted, entryCounter, lost>>
  BY DEF P!L1GivesUp
<1>8. L1Types'
  BY <1>4, <1>5, <1>6, <1>7 DEF L1Inv, L1Types
<1>9. PairsHeld'
  <2>1. P!ToSet(pending)' = P!ToSet(pending)
    BY <1>7 DEF P!ToSet
  <2> QED BY <2>1, <1>4, <1>5, <1>7 DEF L1Inv, PairsHeld
<1> QED BY <1>5, <1>8, <1>9 DEF L1Inv

LEMMA CountsKept ==
  ASSUME L1Inv, P!L1Counts
  PROVE  L1Inv'
<1> DEFINE h == [P!Holder EXCEPT !.uncounted = 0]
<1>1. P!Holder \in Flushes /\ P!Holder = flushes[1] /\ 1 \in 1..Len(flushes) /\ flushes # <<>>
  BY HolderTyped DEF P!L1Counts, L1Inv, L1Types
<1>2. h \in Flushes /\ h.chunks = P!Holder.chunks /\ h.taken = P!Holder.taken
  BY <1>1 DEF Flushes
<1>3. h.taken \/ h.chunks = <<>>
  BY <1>1, <1>2 DEF L1Inv, NoChunksYet
<1>4. P!SetHolder(h)
  BY DEF P!L1Counts
<1> HIDE DEF h
<1>5. flushes' \in Seq(Flushes) /\ NoChunksYet' /\ FlushPairs(flushes) \subseteq FlushPairs(flushes)'
  BY <1>1, <1>2, <1>3, <1>4, HolderSet DEF L1Inv, L1Types
<1>6. entryCounter' \in Nat
  BY <1>1, FlushFields DEF P!L1Counts, L1Inv, L1Types
<1>7. UNCHANGED <<reported, pending, fails, omitted, entries, lost>>
  BY DEF P!L1Counts
<1>8. L1Types'
  BY <1>5, <1>6, <1>7 DEF L1Inv, L1Types
<1>9. PairsHeld'
  <2>1. P!ToSet(pending)' = P!ToSet(pending) /\ P!Ids(entries)' = P!Ids(entries)
    BY <1>7 DEF P!ToSet, P!Ids
  <2> QED BY <2>1, <1>5, <1>7 DEF L1Inv, PairsHeld
<1> QED BY <1>5, <1>8, <1>9 DEF L1Inv

(* a rewrite of the file remembers the ids it runs over *)
LEMMA RewrittenKept ==
  ASSUME L1Inv, NEW es \in Seq(Entries), P!Rewritten(es),
         UNCHANGED <<reported, pending, flushes, fails, omitted, entryCounter>>
  PROVE  L1Inv'
<1>1. entries' = es /\ lost' = (lost \cup P!Ids(entries)) \ P!Ids(es) /\ P!Ids(entries)' = P!Ids(es)
  BY DEF P!Rewritten, P!Ids
<1>2. P!Ids(entries) \subseteq Pairs
  <2>1. ASSUME NEW p \in P!Ids(entries) PROVE p \in Pairs
    <3>1. PICK i \in 1..Len(entries) : entries[i].id = p
      BY IdOf
    <3>2. entries[i] \in Entries
      BY DEF L1Inv, L1Types
    <3> QED BY <3>1, <3>2 DEF Entries
  <2> QED BY <2>1
<1>3. L1Types'
  BY <1>1, <1>2 DEF L1Inv, L1Types
<1>4. NoChunksYet'
  BY DEF L1Inv, NoChunksYet
<1>5. P!ToSet(pending)' = P!ToSet(pending) /\ FlushPairs(flushes)' = FlushPairs(flushes)
  BY DEF P!ToSet, FlushPairs, ChunkPairs
<1>6. PairsHeld'
  BY <1>1, <1>5 DEF L1Inv, PairsHeld
<1> QED BY <1>3, <1>4, <1>6 DEF L1Inv

-----------------------------------------------------------------------------
(* The plugin: L1.5 and L2 *)

LEMMA AskingTyped ==
  ASSUME entryCounter \in Nat, active \in Tasks \cup {NoTask}, NEW j \in Judges
  PROVE  P!Asking(j) \in Judges
BY DEF P!Asking, Judges

LEMMA JudgeFields ==
  ASSUME NEW j \in Judges
  PROVE  /\ j.n \in Nat /\ j.tries \in {0, 1} /\ j.start \in Nat /\ j.prev \in Tasks \cup {NoTask}
         /\ j.phase \in {"flush", "ask", "retry"}
BY DEF Judges

LEMMA BoundaryPushed ==
  ASSUME boundaries \in Seq(Boundaries), NEW start \in Nat, NEW task \in Tasks \cup {NoTask},
         P!PushBoundary(start, task)
  PROVE  boundaries' \in Seq(Boundaries)
<1> DEFINE b == [start |-> start, task |-> task]
<1>1. b \in Boundaries
  BY DEF Boundaries
<1> HIDE DEF b
<1>2. boundaries' = Append(P!Front(boundaries), b) \/ boundaries' = Append(boundaries, b)
  BY DEF P!PushBoundary, b
<1>3. boundaries # <<>> => P!Front(boundaries) \in Seq(Boundaries)
  <2>1. boundaries # <<>> => Len(boundaries) \in Nat \ {0}
    OBVIOUS
  <2>2. boundaries # <<>> => \A i \in 1..(Len(boundaries) - 1) : boundaries[i] \in Boundaries
    BY <2>1
  <2> QED BY <2>1, <2>2 DEF P!Front
<1>4. boundaries = <<>> => boundaries' = Append(boundaries, b)
  BY DEF P!PushBoundary, b
<1>5. CASE boundaries' = Append(P!Front(boundaries), b) /\ boundaries # <<>>
  <2> DEFINE f == P!Front(boundaries)
  <2>1. f \in Seq(Boundaries)
    BY <1>3, <1>5
  <2> HIDE DEF f
  <2>2. Append(f, b) \in Seq(Boundaries)
    BY <2>1, <1>1
  <2> QED BY <1>5, <2>2 DEF f
<1>6. CASE boundaries' = Append(boundaries, b)
  BY <1>1, <1>6
<1> QED BY <1>2, <1>4, <1>5, <1>6

LEMMA TaskOfTyped ==
  ASSUME boundaries \in Seq(Boundaries), NEW i
  PROVE  P!TaskOf(i) \in Tasks \cup {NoTask}
<1> DEFINE V == {m \in 1..Len(boundaries) : boundaries[m].start > i}
           k == (IF V # {} THEN P!Min(V) ELSE 0) - 1
           n == IF k >= 0 THEN k ELSE Len(boundaries)
<1>1. V # {} => P!Min(V) \in 1..Len(boundaries)
  <2> HAVE V # {}
  <2>1. V \subseteq Nat /\ V \subseteq 1..Len(boundaries)
    OBVIOUS
  <2> HIDE DEF V
  <2>2. \E m \in V : \A l \in V : m <= l
    BY <2>1, LeastExists
  <2> QED BY <2>1, <2>2 DEF P!Min
<1>2. P!TaskOf(i) = IF n = 0 THEN NoTask ELSE boundaries[n].task
  BY DEF P!TaskOf, P!SelectInSeq
<1> HIDE DEF V
<1>3. Len(boundaries) \in Nat
  OBVIOUS
<1>4. n \in 0..Len(boundaries)
  BY <1>1, <1>3
<1> HIDE DEF n
<1>5. n # 0 => boundaries[n] \in Boundaries
  BY <1>3, <1>4
<1> QED BY <1>2, <1>5 DEF Boundaries

LEMMA JudgesKept ==
  ASSUME JudgeTypes, L1Types, P!Next
  PROVE  JudgeTypes'
<1> USE DEF JudgeTypes
<1>1. CASE P!FlushEnds \/ P!FallbackFails
  <2>1. judges' = {IF j.n = P!Holder.by THEN P!Asking(j) ELSE j : j \in judges}
    BY <1>1 DEF P!FlushEnds, P!FallbackFails, P!Releases
  <2>2. judges' \subseteq Judges
    <3>1. \A j \in judges : P!Asking(j) \in Judges
      BY AskingTyped DEF L1Types
    <3> QED BY <2>1, <3>1
  <2> QED BY <1>1, <2>2 DEF P!FlushEnds, P!FallbackFails
<1>2. CASE P!JudgeL15
  <2> DEFINE j == [n |-> prompts + 1, phase |-> "flush", tries |-> 0, start |-> 0, prev |-> NoTask]
  <2>1. j \in Judges
    BY DEF Judges
  <2>2. P!Asking(j) \in Judges
    BY <2>1, AskingTyped DEF L1Types
  <2>3. judges' = judges \cup {j} \/ judges' = judges \cup {P!Asking(j)}
    BY <1>2 DEF P!JudgeL15
  <2> HIDE DEF j
  <2>4. judges' \subseteq Judges
    BY <2>1, <2>2, <2>3
  <2>5. settled' = FALSE /\ UNCHANGED <<boundaries, active>>
    BY <1>2 DEF P!JudgeL15
  <2>6. prompts' \in Nat
    BY <1>2 DEF P!JudgeL15
  <2> QED BY <2>4, <2>5, <2>6
<1>3. ASSUME NEW j \in judges, NEW t \in Tasks \cup {NoTask}, P!JudgmentMade(j, t) PROVE JudgeTypes'
  <2>1. boundaries' \in Seq(Boundaries)
    BY <1>3, JudgeFields, BoundaryPushed DEF P!JudgmentMade
  <2> QED BY <1>3, <2>1 DEF P!JudgmentMade
<1>4. ASSUME NEW j \in judges, P!JudgmentFails(j) PROVE JudgeTypes'
  <2>0. j \in Judges
    OBVIOUS
  <2>1. [j EXCEPT !.phase = "retry", !.tries = 1] \in Judges
    BY <2>0 DEF Judges
  <2>2. boundaries' \in Seq(Boundaries)
    BY <1>4, JudgeFields, BoundaryPushed DEF P!JudgmentFails
  <2>3. judges' \subseteq Judges
    BY <1>4, <2>1 DEF P!JudgmentFails
  <2> QED BY <1>4, <2>2, <2>3 DEF P!JudgmentFails
<1>5. ASSUME NEW j \in judges, P!RetryFires(j) PROVE JudgeTypes'
  <2>1. [j EXCEPT !.phase = "ask", !.prev = active] \in Judges
    BY DEF Judges
  <2>2. judges' \subseteq Judges
    BY <1>5, <2>1 DEF P!RetryFires
  <2> QED BY <1>5, <2>2 DEF P!RetryFires
<1>6. CASE P!PollTick
  BY <1>6 DEF P!PollTick
<1>7. CASE UNCHANGED <<boundaries, active, settled, judges, prompts>>
  BY <1>7
<1>8. ASSUME NEW p \in Pairs, P!AfterToolCall(p) PROVE UNCHANGED <<boundaries, active, settled, judges, prompts>>
  BY <1>8 DEF P!AfterToolCall, P!judgeVars
<1>9. P!TurnHook \/ P!TakePending \/ P!L1Answers \/ P!L1Fails \/ P!L1GivesUp \/ P!L1Counts
      => UNCHANGED <<boundaries, active, settled, judges, prompts>>
  BY DEF P!TurnHook, P!TakePending, P!L1Answers, P!L1Fails, P!L1GivesUp, P!L1Counts, P!judgeVars
<1>10. P!L2Step \/ P!MarkOffloadStatus \/ P!StatusMarked => UNCHANGED <<boundaries, active, settled, judges, prompts>>
  BY DEF P!MarkOffloadStatus, P!StatusMarked, P!L2Step, P!CheckL2Trigger, P!Residual, P!SwitchEnds, P!PostCompletion, P!RunEnds,
         P!BatchRead, P!BatchMarked, P!L2Answers, P!L2FailsOrMapsNothing, P!BackfillNodeIds, P!judgeVars
<1> QED BY <1>1, <1>2, <1>3, <1>4, <1>5, <1>6, <1>7, <1>8, <1>9, <1>10 DEF P!Next

LEMMA EntryFields ==
  ASSUME NEW es \in Seq(Entries), NEW i \in 1..Len(es)
  PROVE  /\ es[i] \in Entries /\ es[i].id \in Pairs /\ es[i].node \in {Null, Wait} \cup Tasks
<1>1. es[i] \in Entries
  OBVIOUS
<1> QED BY <1>1 DEF Entries

LEMMA EntryWithNode ==
  ASSUME NEW e \in Entries, NEW n \in {Null, Wait} \cup Tasks
  PROVE  [e EXCEPT !.node = n] \in Entries
BY DEF Entries

LEMMA MarkedTyped ==
  ASSUME NEW es \in Seq(Entries), NEW ids
  PROVE  P!MarkedWaiting(es, ids) \in Seq(Entries)
<1>1. \A i \in 1..Len(es) : es[i] \in Entries /\ [es[i] EXCEPT !.node = Wait] \in Entries
  BY EntryFields, EntryWithNode
<1>2. Len(es) \in Nat
  OBVIOUS
<1> QED BY <1>1, <1>2 DEF P!MarkedWaiting, Wait

LEMMA BackfilledTyped ==
  ASSUME NEW es \in Seq(Entries), NEW ids, NEW t \in Tasks
  PROVE  P!Backfilled(es, ids, t) \in Seq(Entries)
<1>1. \A i \in 1..Len(es) : es[i] \in Entries /\ [es[i] EXCEPT !.node = t] \in Entries
  BY EntryFields, EntryWithNode
<1>2. Len(es) \in Nat
  OBVIOUS
<1> QED BY <1>1, <1>2 DEF P!Backfilled

LEMMA BatchesTyped ==
  ASSUME boundaries \in Seq(Boundaries), entries \in Seq(Entries), NEW is,
         is \subseteq 1..Len(entries), \A i \in is : P!TaskOf(i - 1) # NoTask
  PROVE  P!EntriesByMmd(is) \subseteq Batches
<1>1. \A k \in is : P!TaskOf(k - 1) \in Tasks
  BY TaskOfTyped
<1>2. \A t : {entries[i].id : i \in {k \in is : P!TaskOf(k - 1) = t}} \subseteq Pairs
  BY EntryFields
<1> QED BY <1>1, <1>2 DEF P!EntriesByMmd, Batches

(* one caller's run changes, and the other's does not *)
LEMMA RunSet ==
  ASSUME L2Types, NEW c \in Callers, NEW r, RunOf(r), P!SetRun(c, r)
  PROVE  /\ l2' = [d \in Callers |-> l2'[d]] /\ \A d \in Callers : RunOf(l2'[d])
         /\ l2'[c] = r /\ \A d \in Callers \ {c} : l2'[d] = l2[d]
<1>1. l2' = [l2 EXCEPT ![c] = r]
  BY DEF P!SetRun
<1>2. DOMAIN l2 = Callers
  BY DEF L2Types
<1>3. l2'[c] = r /\ (\A d \in Callers \ {c} : l2'[d] = l2[d]) /\ l2' = [d \in Callers |-> l2'[d]]
  BY <1>1, <1>2
<1> QED BY <1>3 DEF L2Types

LEMMA IdleRun ==
  RunOf(P!NoRun) /\ P!NoRun.phase = "idle"
<1>1. P!NoRun = [phase |-> "idle", batches |-> {}, batch |-> <<>>, seen |-> <<>>]
  BY DEF P!NoRun
<1>2. <<>> \in AnyBatch /\ "idle" \in Phases /\ {} \in SUBSET Batches /\ <<>> \in Seq(Entries)
  BY DEF AnyBatch, Phases
<1>3. P!NoRun \in Runs
  BY <1>1, <1>2 DEF Runs
<1> QED BY <1>1, <1>3 DEF RunOf

LEMMA CallerNames ==
  /\ {"trigger", "switch", "status"} \subseteq Callers
  /\ "trigger" # "switch" /\ "trigger" # "status"
BY DEF Callers, P!Callers

LEMMA RunFields ==
  ASSUME NEW r, RunOf(r)
  PROVE  /\ r \in Runs /\ r.phase \in Phases /\ r.batches \in SUBSET Batches /\ r.seen \in Seq(Entries)
         /\ r.phase \in {"mark", "ask", "backfill"} => r.batch \in Batches
         /\ r.phase = "residual" => r.batch \in Tasks \X Nat
BY DEF RunOf, Runs

LEMMA RunMade ==
  ASSUME NEW ph \in Phases, NEW bs \in SUBSET Batches, NEW b, NEW s \in Seq(Entries), b \in AnyBatch,
         ph \in {"mark", "ask", "backfill"} => b \in Batches, ph = "residual" => b \in Tasks \X Nat
  PROVE  LET r == [phase |-> ph, batches |-> bs, batch |-> b, seen |-> s] IN RunOf(r) /\ r.phase = ph
BY DEF RunOf, Runs

(* EXCEPT on a run *)
LEMMA RunPhase ==
  ASSUME NEW r \in Runs, NEW ph \in Phases
  PROVE  [r EXCEPT !.phase = ph]
         = [phase |-> ph, batches |-> r.batches, batch |-> r.batch, seen |-> r.seen]
<1> DEFINE AB == SUBSET Batches
           AD == Seq(Entries)
           AR == [phase : Phases, batches : AB, batch : AnyBatch, seen : AD]
           q == [r EXCEPT !.phase = ph]
<1>1. r \in AR
  BY DEF Runs
<1> HIDE DEF AB, AD
<1>2. q \in AR
  BY <1>1
<1>3. q.phase = ph /\ q.batches = r.batches /\ q.batch = r.batch /\ q.seen = r.seen
  BY <1>1
<1> HIDE DEF q
<1>4. q = [phase |-> q.phase, batches |-> q.batches, batch |-> q.batch, seen |-> q.seen]
  BY <1>2
<1> QED BY <1>3, <1>4 DEF q

LEMMA RunBatches ==
  ASSUME NEW r \in Runs, NEW ph \in Phases, NEW bs \in SUBSET Batches
  PROVE  [r EXCEPT !.phase = ph, !.batches = bs]
         = [phase |-> ph, batches |-> bs, batch |-> r.batch, seen |-> r.seen]
<1> DEFINE AB == SUBSET Batches
           AD == Seq(Entries)
           AR == [phase : Phases, batches : AB, batch : AnyBatch, seen : AD]
           q == [r EXCEPT !.phase = ph, !.batches = bs]
<1>1. r \in AR /\ bs \in AB
  BY DEF Runs
<1> HIDE DEF AB, AD
<1>2. q \in AR
  BY <1>1
<1>3. q.phase = ph /\ q.batches = bs /\ q.batch = r.batch /\ q.seen = r.seen
  BY <1>1
<1> HIDE DEF q
<1>4. q = [phase |-> q.phase, batches |-> q.batches, batch |-> q.batch, seen |-> q.seen]
  BY <1>2
<1> QED BY <1>3, <1>4 DEF q

LEMMA RunSeen ==
  ASSUME NEW r \in Runs, NEW ph \in Phases, NEW s \in Seq(Entries)
  PROVE  [r EXCEPT !.phase = ph, !.seen = s]
         = [phase |-> ph, batches |-> r.batches, batch |-> r.batch, seen |-> s]
<1> DEFINE AB == SUBSET Batches
           AD == Seq(Entries)
           AR == [phase : Phases, batches : AB, batch : AnyBatch, seen : AD]
           q == [r EXCEPT !.phase = ph, !.seen = s]
<1>1. r \in AR /\ s \in AD
  BY DEF Runs
<1> HIDE DEF AB, AD
<1>2. q \in AR
  BY <1>1
<1>3. q.phase = ph /\ q.batches = r.batches /\ q.batch = r.batch /\ q.seen = s
  BY <1>1
<1> HIDE DEF q
<1>4. q = [phase |-> q.phase, batches |-> q.batches, batch |-> q.batch, seen |-> q.seen]
  BY <1>2
<1> QED BY <1>3, <1>4 DEF q

LEMMA RunBatch ==
  ASSUME NEW r \in Runs, NEW ph \in Phases, NEW b \in AnyBatch
  PROVE  [r EXCEPT !.phase = ph, !.batch = b]
         = [phase |-> ph, batches |-> r.batches, batch |-> b, seen |-> r.seen]
<1> DEFINE AB == SUBSET Batches
           AD == Seq(Entries)
           AR == [phase : Phases, batches : AB, batch : AnyBatch, seen : AD]
           q == [r EXCEPT !.phase = ph, !.batch = b]
<1>1. r \in AR /\ b \in AnyBatch
  BY DEF Runs
<1> HIDE DEF AB, AD
<1>2. q \in AR
  BY <1>1
<1>3. q.phase = ph /\ q.batches = r.batches /\ q.batch = b /\ q.seen = r.seen
  BY <1>1
<1> HIDE DEF q
<1>4. q = [phase |-> q.phase, batches |-> q.batches, batch |-> q.batch, seen |-> q.seen]
  BY <1>2
<1> QED BY <1>3, <1>4 DEF q

LEMMA RunBatchSeen ==
  ASSUME NEW r \in Runs, NEW ph \in Phases, NEW b \in AnyBatch, NEW s \in Seq(Entries)
  PROVE  [r EXCEPT !.phase = ph, !.batch = b, !.seen = s]
         = [phase |-> ph, batches |-> r.batches, batch |-> b, seen |-> s]
<1> DEFINE AB == SUBSET Batches
           AD == Seq(Entries)
           AR == [phase : Phases, batches : AB, batch : AnyBatch, seen : AD]
           q == [r EXCEPT !.phase = ph, !.batch = b, !.seen = s]
<1>1. r \in AR /\ b \in AnyBatch /\ s \in AD
  BY DEF Runs
<1> HIDE DEF AB, AD
<1>2. q \in AR
  BY <1>1
<1>3. q.phase = ph /\ q.batches = r.batches /\ q.batch = b /\ q.seen = s
  BY <1>1
<1> HIDE DEF q
<1>4. q = [phase |-> q.phase, batches |-> q.batches, batch |-> q.batch, seen |-> q.seen]
  BY <1>2
<1> QED BY <1>3, <1>4 DEF q

LEMMA FreshRun ==
  ASSUME NEW ph \in Phases
  PROVE  /\ [P!NoRun EXCEPT !.phase = ph] = [phase |-> ph, batches |-> {}, batch |-> <<>>, seen |-> <<>>]
         /\ \A b \in Tasks \X Nat :
              [P!NoRun EXCEPT !.phase = ph, !.batch = b] = [phase |-> ph, batches |-> {}, batch |-> b, seen |-> <<>>]
         /\ \A bs \in SUBSET Batches :
              [P!NoRun EXCEPT !.phase = ph, !.batches = bs] = [phase |-> ph, batches |-> bs, batch |-> <<>>, seen |-> <<>>]
<1> DEFINE r == P!NoRun
<1>1. r \in Runs /\ r.batches = {} /\ r.batch = <<>> /\ r.seen = <<>>
  BY IdleRun DEF P!NoRun, RunOf
<1>2. {} \in SUBSET Batches /\ <<>> \in AnyBatch /\ Tasks \X Nat \subseteq AnyBatch /\ <<>> \in Seq(Entries)
  BY DEF AnyBatch
<1> HIDE DEF r
<1>3. [r EXCEPT !.phase = ph] = [phase |-> ph, batches |-> {}, batch |-> <<>>, seen |-> <<>>]
  <2>1. [r EXCEPT !.phase = ph] = [phase |-> ph, batches |-> r.batches, batch |-> r.batch, seen |-> r.seen]
    BY <1>1, <1>2, RunPhase, Zenon
  <2> QED BY <1>1, <2>1, Zenon
<1>4. ASSUME NEW b \in Tasks \X Nat
      PROVE  [r EXCEPT !.phase = ph, !.batch = b] = [phase |-> ph, batches |-> {}, batch |-> b, seen |-> <<>>]
  <2>1. b \in AnyBatch
    BY <1>2
  <2>2. [r EXCEPT !.phase = ph, !.batch = b] = [phase |-> ph, batches |-> r.batches, batch |-> b, seen |-> r.seen]
    BY <1>1, <1>2, <2>1, RunBatch, Zenon
  <2> QED BY <1>1, <2>2, Zenon
<1>5. ASSUME NEW bs \in SUBSET Batches
      PROVE  [r EXCEPT !.phase = ph, !.batches = bs] = [phase |-> ph, batches |-> bs, batch |-> <<>>, seen |-> <<>>]
  <2>2. [r EXCEPT !.phase = ph, !.batches = bs] = [phase |-> ph, batches |-> bs, batch |-> r.batch, seen |-> r.seen]
    BY <1>1, <1>2, RunBatches, Zenon
  <2> QED BY <1>1, <2>2, Zenon
<1> QED BY <1>3, <1>4, <1>5, Zenon DEF r

LEMMA PhaseNames ==
  {"idle", "check", "residual", "next", "mark", "ask", "backfill", "done", "status"} = Phases
BY DEF Phases

LEMMA NoneYet ==
  /\ <<>> \in Seq(Entries) /\ {} \in SUBSET Batches
  /\ <<>> \in AnyBatch /\ Batches \subseteq AnyBatch /\ Tasks \X Nat \subseteq AnyBatch
BY DEF AnyBatch

LEMMA NextRun ==
  ASSUME NEW ph \in Phases, ph \in {"check", "next", "done"}, NEW bs \in SUBSET Batches
  PROVE  LET r == [P!NoRun EXCEPT !.phase = ph, !.batches = bs] IN RunOf(r) /\ r.phase = ph
<1> DEFINE r == [P!NoRun EXCEPT !.phase = ph, !.batches = bs]
<1>1. r = [phase |-> ph, batches |-> bs, batch |-> <<>>, seen |-> <<>>]
  BY FreshRun, Zenon
<1> HIDE DEF r
<1>2. RunOf(r) /\ r.phase = ph
  BY <1>1, RunMade, NoneYet
<1> QED BY <1>2 DEF r

LEMMA CheckingRun ==
  LET r == [P!NoRun EXCEPT !.phase = "check"] IN RunOf(r) /\ r.phase = "check"
<1> DEFINE r == [P!NoRun EXCEPT !.phase = "check"]
<1>1. r = [phase |-> "check", batches |-> {}, batch |-> <<>>, seen |-> <<>>]
  BY FreshRun, PhaseNames, NoneYet, Zenon
<1> HIDE DEF r
<1>2. /\ "check" \in Phases /\ {} \in SUBSET Batches /\ <<>> \in Seq(Entries) /\ <<>> \in AnyBatch
      /\ "check" \notin {"mark", "ask", "backfill"} /\ "check" # "residual"
  BY PhaseNames, NoneYet
<1>3. RunOf(r) /\ r.phase = "check"
  BY <1>1, <1>2, RunMade
<1> QED BY <1>3 DEF r

(* a run that has read the file *)
LEMMA ReadingRun ==
  ASSUME NEW s \in Seq(Entries)
  PROVE  RunOf([P!NoRun EXCEPT !.phase = "status", !.seen = s])
<1> DEFINE r == P!NoRun
           q == [r EXCEPT !.phase = "status", !.seen = s]
<1>1. r \in Runs /\ r.batches = {} /\ r.batch = <<>>
  BY IdleRun DEF P!NoRun, RunOf
<1> HIDE DEF r
<1>2. q = [phase |-> "status", batches |-> {}, batch |-> <<>>, seen |-> s]
  BY <1>1, RunSeen, PhaseNames, Zenon
<1>3. /\ "status" \in Phases /\ {} \in SUBSET Batches /\ <<>> \in AnyBatch
      /\ "status" \notin {"mark", "ask", "backfill"} /\ "status" # "residual"
  BY PhaseNames, NoneYet
<1> HIDE DEF q
<1>4. RunOf(q)
  BY <1>2, <1>3, RunMade
<1> QED BY <1>4 DEF q, r

LEMMA TriggerSet ==
  ASSUME L2Types, NEW r, RunOf(r), P!SetRun("trigger", r), poll' \in BOOLEAN,
         l2Running' = (r.phase # "idle")
  PROVE  L2Types'
<1>1. /\ l2' = [d \in Callers |-> l2'[d]] /\ \A d \in Callers : RunOf(l2'[d])
      /\ l2'["trigger"] = r
  BY RunSet, CallerNames
<1>2. \A d \in Callers : RunOf(l2[d])'
  BY <1>1 DEF RunOf, Phases, Batches, Entries
<1> QED BY <1>1, <1>2, Zenon DEF L2Types, Callers, P!Callers

LEMMA RunMoves ==
  ASSUME L2Types, NEW c \in Callers, NEW r, RunOf(r), P!SetRun(c, r), UNCHANGED <<l2Running, poll>>,
         c = "trigger" => (r.phase = "idle" <=> l2[c].phase = "idle")
  PROVE  L2Types'
<1>1. /\ l2' = [d \in Callers |-> l2'[d]] /\ \A d \in Callers : RunOf(l2'[d])
      /\ l2'[c] = r /\ \A d \in Callers \ {c} : l2'[d] = l2[d]
  BY RunSet
<1>2. l2'["trigger"].phase = "idle" <=> l2["trigger"].phase = "idle"
  BY <1>1, CallerNames
<1>3. l2Running' = (l2'["trigger"].phase # "idle")
  BY <1>2 DEF L2Types
<1> QED BY <1>1, <1>3, Zenon DEF L2Types, Callers, P!Callers, RunOf, Phases, Batches, Entries

LEMMA RunsKept ==
  ASSUME L2Types, JudgeTypes, L1Types, P!Next
  PROVE  L2Types'
<1>0. \A c \in Callers : RunOf(l2[c])
  BY DEF L2Types
<1>1. ASSUME NEW j \in judges, NEW t \in Tasks \cup {NoTask}, P!JudgmentMade(j, t) PROVE L2Types'
  <2> DEFINE r == [P!NoRun EXCEPT !.phase = "residual", !.batch = <<j.prev, j.start>>]
  <2>1. CASE j.prev # NoTask /\ l2' = [l2 EXCEPT !["switch"] = r]
    <3>1. j.prev \in Tasks /\ j.start \in Nat
      BY <2>1, JudgeFields DEF JudgeTypes
    <3>2. RunOf(r) /\ r.phase = "residual"
      <4>1. r = [phase |-> "residual", batches |-> {}, batch |-> <<j.prev, j.start>>, seen |-> <<>>]
        <5>1. <<j.prev, j.start>> \in Tasks \X Nat /\ "residual" \in Phases /\ {} \in SUBSET Batches
          BY <3>1, PhaseNames
        <5> QED BY <5>1, FreshRun, Zenon
      <4>2. <<j.prev, j.start>> \in Tasks \X Nat /\ "residual" \in Phases
        BY <3>1, PhaseNames
      <4> HIDE DEF r
      <4>3. <<j.prev, j.start>> \in AnyBatch
        BY <4>2, NoneYet
      <4> QED BY <4>1, <4>2, <4>3, RunMade, NoneYet
    <3> HIDE DEF r
    <3>3. P!SetRun("switch", r)
      BY <2>1 DEF P!SetRun
    <3> QED BY <1>1, <3>2, <3>3, CallerNames, RunMoves DEF P!JudgmentMade
  <2>2. CASE l2' = l2
    BY <1>1, <2>2 DEF P!JudgmentMade, L2Types, RunOf, Phases, Batches, Entries
  <2> HIDE DEF r
  <2> QED BY <1>1, <2>1, <2>2 DEF P!JudgmentMade, r
<1>2. CASE P!PollTick
  <2> DEFINE r == [P!NoRun EXCEPT !.phase = "check"]
  <2>1. RunOf(r) /\ r.phase = "check"
    BY CheckingRun
  <2>2. CASE P!StartRun /\ poll' = FALSE
    <3>1. P!SetRun("trigger", r) /\ l2Running' = TRUE
      BY <2>2 DEF P!StartRun
    <3> HIDE DEF r
    <3> QED BY <2>1, <2>2, <3>1, TriggerSet
  <2>3. CASE UNCHANGED <<l2, l2Running>> /\ poll' \in BOOLEAN
    BY <2>3 DEF L2Types, RunOf, Phases, Batches, Entries
  <2> HIDE DEF r
  <2> QED BY <1>2, <2>2, <2>3 DEF P!PollTick, L2Types
<1>3. CASE P!CheckL2Trigger
  <2>1. PICK old \in BOOLEAN, timedOut \in BOOLEAN :
          LET is == P!Eligible(old)
              start == is # {} /\ (timedOut \/ P!Cardinality(is \cap P!Nulls) >= NullThreshold)
          IN P!SetRun("trigger", [P!NoRun EXCEPT !.phase = IF start THEN "next" ELSE "done",
                                                 !.batches = IF start THEN P!EntriesByMmd(is) ELSE {}])
    BY <1>3 DEF P!CheckL2Trigger
  <2> DEFINE is == P!Eligible(old)
             start == is # {} /\ (timedOut \/ P!Cardinality(is \cap P!Nulls) >= NullThreshold)
             r == [P!NoRun EXCEPT !.phase = IF start THEN "next" ELSE "done",
                                  !.batches = IF start THEN P!EntriesByMmd(is) ELSE {}]
  <2>2. P!SetRun("trigger", r)
    BY <2>1
  <2>3. P!EntriesByMmd(is) \subseteq Batches
    <3>1. is \subseteq 1..Len(entries) /\ \A i \in is : P!TaskOf(i - 1) # NoTask
      BY DEF P!Eligible
    <3> HIDE DEF is
    <3> QED BY <3>1, BatchesTyped DEF L1Types, JudgeTypes
  <2> HIDE DEF is, start
  <2>4. RunOf(r) /\ r.phase \in {"next", "done"}
    <3> DEFINE ph == IF start THEN "next" ELSE "done"
               bs == IF start THEN P!EntriesByMmd(is) ELSE {}
    <3>1. ph \in Phases /\ ph \in {"next", "done"} /\ bs \in SUBSET Batches
      BY <2>3, PhaseNames
    <3>2. r = [P!NoRun EXCEPT !.phase = ph, !.batches = bs]
      BY Zenon
    <3> HIDE DEF ph, bs, r
    <3> QED BY <3>1, <3>2, NextRun, Zenon
  <2> HIDE DEF r
  <2>5. l2["trigger"].phase = "check" /\ UNCHANGED <<l2Running, poll>>
    BY <1>3 DEF P!CheckL2Trigger
  <2> QED BY <2>2, <2>4, <2>5, CallerNames, RunMoves
<1>4. CASE P!Residual
  <2> DEFINE b == l2["switch"].batch
             ids == {entries[i].id : i \in {k \in 1..Len(entries) : k <= b[2] /\ entries[k].node \in {P!Null, P!Wait}}}
             r == [P!NoRun EXCEPT !.phase = "next", !.batches = IF ids = {} THEN {} ELSE {<<b[1], ids>>}]
  <2>1. P!SetRun("switch", r) /\ l2["switch"].phase = "residual" /\ UNCHANGED <<l2Running, poll>>
    BY <1>4 DEF P!Residual
  <2>2. b \in Tasks \X Nat
    BY <2>1, <1>0, CallerNames DEF RunOf
  <2>3. ids \subseteq Pairs
    BY EntryFields DEF L1Types
  <2> HIDE DEF b, ids
  <2>4. {<<b[1], ids>>} \subseteq Batches
    BY <2>2, <2>3 DEF Batches
  <2>5. RunOf(r)
    <3> DEFINE bs == IF ids = {} THEN {} ELSE {<<b[1], ids>>}
    <3>1. bs \in SUBSET Batches
      BY <2>4
    <3> HIDE DEF bs
    <3>2. RunOf([P!NoRun EXCEPT !.phase = "next", !.batches = bs])
      BY <3>1, NextRun, PhaseNames, Zenon
    <3> QED BY <3>2, Zenon DEF bs
  <2> HIDE DEF r
  <2> QED BY <2>1, <2>5, CallerNames, RunMoves
<1>5. CASE P!SwitchEnds
  BY <1>5, CallerNames, IdleRun, RunMoves DEF P!SwitchEnds
<1>6. CASE P!PostCompletion
  <2> DEFINE r == [P!NoRun EXCEPT !.phase = "check"]
  <2>1. RunOf(r) /\ r.phase = "check"
    BY CheckingRun
  <2>2. P!SetRun("trigger", r) /\ l2Running' = TRUE /\ poll' = FALSE
    BY <1>6 DEF P!PostCompletion, P!StartRun
  <2> HIDE DEF r
  <2> QED BY <2>1, <2>2, TriggerSet
<1>7. CASE P!RunEnds
  <2>1. P!SetRun("trigger", P!NoRun) /\ l2Running' = FALSE /\ poll' \in BOOLEAN
    BY <1>7 DEF P!RunEnds
  <2> QED BY <2>1, IdleRun, TriggerSet
<1>8. ASSUME NEW c \in Callers, P!BatchRead(c) PROVE L2Types'
  <2>1. PICK b \in l2[c].batches :
          P!SetRun(c, [phase |-> "mark", batches |-> l2[c].batches \ {b}, batch |-> b, seen |-> entries])
    BY <1>8 DEF P!BatchRead
  <2> DEFINE r == [phase |-> "mark", batches |-> l2[c].batches \ {b}, batch |-> b, seen |-> entries]
  <2>2. RunOf(r) /\ r.phase = "mark"
    <3>1. l2[c].batches \in SUBSET Batches
      BY <1>0, RunFields
    <3>2. b \in Batches /\ l2[c].batches \ {b} \in SUBSET Batches /\ entries \in Seq(Entries)
      BY <3>1 DEF L1Types
    <3> QED BY <3>2, RunMade, PhaseNames, NoneYet
  <2>3. P!SetRun(c, r) /\ l2[c].phase = "next" /\ UNCHANGED <<l2Running, poll>>
    BY <1>8, <2>1 DEF P!BatchRead
  <2> HIDE DEF r
  <2> QED BY <2>2, <2>3, RunMoves
<1>9. ASSUME NEW c \in Callers, P!BatchMarked(c) PROVE L2Types'
  <2> DEFINE r == [l2[c] EXCEPT !.phase = "ask", !.seen = <<>>]
  <2>1. P!SetRun(c, r) /\ l2[c].phase = "mark" /\ UNCHANGED <<l2Running, poll>>
    BY <1>9 DEF P!BatchMarked
  <2>2. RunOf(r) /\ r.phase = "ask"
    <3>1. /\ RunOf(l2[c]) /\ l2[c] \in Runs /\ l2[c].batches \in SUBSET Batches /\ l2[c].seen \in Seq(Entries)
          /\ l2[c].batch \in Batches
      BY <1>0, <2>1, RunFields
    <3>2. entries \in Seq(Entries)
      BY DEF L1Types
    <3>3. r = [phase |-> "ask", batches |-> l2[c].batches, batch |-> l2[c].batch, seen |-> <<>>]
      <4>1. l2[c].batch \in AnyBatch /\ l2[c].batches \in SUBSET Batches /\ "ask" \in Phases /\ <<>> \in Seq(Entries)
        BY <3>1, <3>2, PhaseNames, NoneYet
      <4> QED BY <3>1, <4>1, RunSeen, Zenon
    <3> HIDE DEF r
    <3> QED BY <3>1, <3>2, <3>3, RunMade, PhaseNames, NoneYet
  <2> HIDE DEF r
  <2> QED BY <2>1, <2>2, RunMoves
<1>10. ASSUME NEW c \in Callers, P!L2Answers(c) PROVE L2Types'
  <2> DEFINE r == [l2[c] EXCEPT !.phase = "backfill", !.seen = entries]
  <2>1. P!SetRun(c, r) /\ l2[c].phase = "ask" /\ UNCHANGED <<l2Running, poll>>
    BY <1>10 DEF P!L2Answers
  <2>2. RunOf(r) /\ r.phase = "backfill"
    <3>1. /\ RunOf(l2[c]) /\ l2[c] \in Runs /\ l2[c].batches \in SUBSET Batches /\ l2[c].seen \in Seq(Entries)
          /\ l2[c].batch \in Batches
      BY <1>0, <2>1, RunFields
    <3>2. entries \in Seq(Entries)
      BY DEF L1Types
    <3>3. r = [phase |-> "backfill", batches |-> l2[c].batches, batch |-> l2[c].batch, seen |-> entries]
      <4>1. l2[c].batch \in AnyBatch /\ l2[c].batches \in SUBSET Batches /\ "backfill" \in Phases /\ entries \in Seq(Entries)
        BY <3>1, <3>2, PhaseNames, NoneYet
      <4> QED BY <3>1, <4>1, RunSeen, Zenon
    <3> HIDE DEF r
    <3> QED BY <3>1, <3>2, <3>3, RunMade, PhaseNames, NoneYet
  <2> HIDE DEF r
  <2> QED BY <2>1, <2>2, RunMoves
<1>11. ASSUME NEW c \in Callers, P!L2FailsOrMapsNothing(c) PROVE L2Types'
  <2> DEFINE r == [l2[c] EXCEPT !.phase = "next", !.batch = <<>>]
  <2>1. P!SetRun(c, r) /\ l2[c].phase = "ask" /\ UNCHANGED <<l2Running, poll>>
    BY <1>11 DEF P!L2FailsOrMapsNothing
  <2>2. RunOf(r) /\ r.phase = "next"
    <3>1. /\ RunOf(l2[c]) /\ l2[c] \in Runs /\ l2[c].batches \in SUBSET Batches /\ l2[c].seen \in Seq(Entries)
          /\ l2[c].batch \in Batches
      BY <1>0, <2>1, RunFields
    <3>2. entries \in Seq(Entries)
      BY DEF L1Types
    <3>3. r = [phase |-> "next", batches |-> l2[c].batches, batch |-> <<>>, seen |-> l2[c].seen]
      <4>1. "next" \in Phases /\ <<>> \in AnyBatch /\ l2[c].seen \in Seq(Entries)
        BY <3>1, PhaseNames, NoneYet
      <4> QED BY <3>1, <4>1, RunBatch, Zenon
    <3> HIDE DEF r
    <3>4. "next" \in Phases /\ l2[c].batches \in SUBSET Batches
      BY <3>1, PhaseNames
    <3> QED BY <3>1, <3>3, <3>4, RunMade, NoneYet
  <2> HIDE DEF r
  <2> QED BY <2>1, <2>2, RunMoves
<1>12. ASSUME NEW c \in Callers, P!BackfillNodeIds(c) PROVE L2Types'
  <2> DEFINE r == [l2[c] EXCEPT !.phase = "next", !.batch = <<>>, !.seen = <<>>]
  <2>1. P!SetRun(c, r) /\ l2[c].phase = "backfill" /\ UNCHANGED <<l2Running, poll>>
    BY <1>12 DEF P!BackfillNodeIds
  <2>2. RunOf(r) /\ r.phase = "next"
    <3>1. /\ RunOf(l2[c]) /\ l2[c] \in Runs /\ l2[c].batches \in SUBSET Batches /\ l2[c].seen \in Seq(Entries)
          /\ l2[c].batch \in Batches
      BY <1>0, <2>1, RunFields
    <3>2. entries \in Seq(Entries)
      BY DEF L1Types
    <3>3. r = [phase |-> "next", batches |-> l2[c].batches, batch |-> <<>>, seen |-> <<>>]
      <4>1. "next" \in Phases /\ <<>> \in AnyBatch /\ <<>> \in Seq(Entries)
        BY <3>1, PhaseNames, NoneYet
      <4> QED BY <3>1, <4>1, RunBatchSeen, Zenon
    <3> HIDE DEF r
    <3>4. "next" \in Phases /\ l2[c].batches \in SUBSET Batches
      BY <3>1, PhaseNames
    <3> QED BY <3>1, <3>3, <3>4, RunMade, NoneYet
  <2> HIDE DEF r
  <2> QED BY <2>1, <2>2, RunMoves
<1>13. CASE P!FlushEnds
  <2>1. UNCHANGED <<l2, l2Running>> /\ poll' \in BOOLEAN
    BY <1>13 DEF P!FlushEnds, L2Types
  <2> QED BY <2>1 DEF L2Types, RunOf, Phases, Batches, Entries
<1>14. CASE UNCHANGED <<l2, l2Running, poll>>
  BY <1>14 DEF L2Types, RunOf, Phases, Batches, Entries
<1>15. ASSUME NEW p \in Pairs, P!AfterToolCall(p) PROVE UNCHANGED <<l2, l2Running, poll>>
  BY <1>15 DEF P!AfterToolCall, P!l2Vars
<1>16. P!TurnHook \/ P!TakePending \/ P!L1Answers \/ P!L1Fails \/ P!L1GivesUp \/ P!FallbackFails \/ P!L1Counts
      \/ P!JudgeL15 => UNCHANGED <<l2, l2Running, poll>>
  BY DEF P!TurnHook, P!TakePending, P!L1Answers, P!L1Fails, P!L1GivesUp, P!FallbackFails, P!L1Counts,
         P!JudgeL15, P!l2Vars
<1>17. ASSUME NEW j \in judges, P!JudgmentFails(j) \/ P!RetryFires(j) PROVE UNCHANGED <<l2, l2Running, poll>>
  BY <1>17 DEF P!JudgmentFails, P!RetryFires, P!l2Vars
<1>18. CASE P!L2Step
  BY <1>18, <1>3, <1>4, <1>5, <1>6, <1>7, <1>8, <1>9, <1>10, <1>11, <1>12 DEF P!L2Step, Callers
<1>19. CASE P!MarkOffloadStatus
  <2> DEFINE r == [P!NoRun EXCEPT !.phase = "status", !.seen = entries]
  <2>1. P!SetRun("status", r) /\ UNCHANGED <<l2Running, poll>>
    BY <1>19 DEF P!MarkOffloadStatus
  <2>2. RunOf(r)
    <3>1. entries \in Seq(Entries)
      BY DEF L1Types
    <3> QED BY <3>1, ReadingRun
  <2> HIDE DEF r
  <2> QED BY <2>1, <2>2, CallerNames, RunMoves
<1>20. CASE P!StatusMarked
  BY <1>20, CallerNames, IdleRun, RunMoves DEF P!StatusMarked
<1> QED BY <1>1, <1>2, <1>13, <1>14, <1>15, <1>16, <1>17, <1>18, <1>19, <1>20 DEF P!Next

-----------------------------------------------------------------------------
(* The plugin: its invariant *)

(* so has a mark of the results that were cut *)
LEMMA StatusKept ==
  ASSUME L1Inv, L2Types, P!StatusMarked
  PROVE  L1Inv'
<1> DEFINE es == l2["status"].seen
<1>1. es \in Seq(Entries)
  BY RunFields, CallerNames DEF L2Types
<1>2. P!Rewritten(es) /\ UNCHANGED <<reported, pending, flushes, fails, omitted, entryCounter>>
  BY DEF P!StatusMarked, P!l1Vars
<1> HIDE DEF es
<1> QED BY <1>1, <1>2, RewrittenKept

(* a run that has changed the file has only rewritten it *)
LEMMA BatchesKept ==
  ASSUME L1Inv, L2Types, NEW c \in Callers, P!BatchMarked(c) \/ P!BackfillNodeIds(c)
  PROVE  L1Inv'
<1> DEFINE r == l2[c]
           ms == P!MarkedWaiting(r.seen, r.batch[2])
           bs == P!Backfilled(r.seen, r.batch[2], r.batch[1])
<1>1. RunOf(r)
  BY DEF L2Types
<1>2. UNCHANGED <<reported, pending, flushes, fails, omitted, entryCounter>>
  BY DEF P!BatchMarked, P!BackfillNodeIds, P!l1Vars
<1>3. CASE UNCHANGED <<entries, lost>>
  BY <1>2, <1>3, L1Unchanged
<1>4. CASE P!Rewritten(ms)
  <2>1. ms \in Seq(Entries)
    <3>1. r.seen \in Seq(Entries)
      BY <1>1, RunFields
    <3> HIDE DEF r
    <3> QED BY <3>1, MarkedTyped
  <2> HIDE DEF ms
  <2> QED BY <1>2, <1>4, <2>1, RewrittenKept
<1>5. CASE P!Rewritten(bs) /\ r.phase = "backfill"
  <2>1. bs \in Seq(Entries)
    <3>1. r.seen \in Seq(Entries) /\ r.batch \in Batches
      BY <1>1, <1>5, RunFields
    <3>2. r.batch[1] \in Tasks
      BY <3>1 DEF Batches
    <3> HIDE DEF r
    <3> QED BY <3>1, <3>2, BackfilledTyped
  <2> HIDE DEF bs
  <2> QED BY <1>2, <1>5, <2>1, RewrittenKept
<1>6. P!BatchMarked(c) => UNCHANGED <<entries, lost>> \/ P!Rewritten(ms)
  BY DEF P!BatchMarked
<1>7. P!BackfillNodeIds(c) => UNCHANGED <<entries, lost>> \/ (P!Rewritten(bs) /\ r.phase = "backfill")
  BY DEF P!BackfillNodeIds
<1> HIDE DEF r, ms, bs
<1> QED BY <1>3, <1>4, <1>5, <1>6, <1>7

LEMMA L1Kept ==
  ASSUME L1Inv, JudgeTypes, L2Types, P!Next
  PROVE  L1Inv'
<1>1. ASSUME NEW p \in Pairs, P!AfterToolCall(p) PROVE L1Inv'
  BY <1>1, ToolCallKept
<1>2. CASE P!TurnHook
  <2>1. UNCHANGED <<reported, pending, fails, omitted, entries, entryCounter, lost>>
    BY <1>2 DEF P!TurnHook
  <2>2. flushes' = Append(flushes, P!Flush(0, P!Cardinality(Pairs)))
    BY <1>2 DEF P!TurnHook
  <2>3. 0 \in Nat
    OBVIOUS
  <2> QED BY <2>1, <2>2, <2>3, PairsNumber, QueuedKept
<1>3. CASE P!TakePending
  BY <1>3, TakePendingKept
<1>4. CASE P!L1Answers
  BY <1>4, AnswersKept
<1>5. CASE P!L1Fails
  BY <1>5, FailsKept
<1>6. CASE P!L1GivesUp
  BY <1>6, GivesUpKept
<1>7. CASE P!L1Counts
  BY <1>7, CountsKept
<1>8. CASE P!FlushEnds
  BY <1>8, FlushEndsKept
<1>9. CASE P!JudgeL15
  <2>1. UNCHANGED <<reported, pending, fails, omitted, entries, entryCounter, lost>>
    BY <1>9 DEF P!JudgeL15
  <2>2. flushes' = flushes \/ flushes' = Append(flushes, P!Flush(prompts + 1, Len(pending)))
    BY <1>9 DEF P!JudgeL15
  <2>3. prompts + 1 \in Nat /\ Len(pending) \in Nat
    BY DEF JudgeTypes, L1Inv, L1Types
  <2>4. CASE flushes' = flushes
    BY <2>1, <2>4, L1Unchanged
  <2>5. CASE flushes' = Append(flushes, P!Flush(prompts + 1, Len(pending)))
    BY <2>1, <2>3, <2>5, QueuedKept
  <2> QED BY <2>2, <2>4, <2>5
<1>10. ASSUME NEW j \in judges,
              P!JudgmentFails(j) \/ P!RetryFires(j) \/ \E t \in Tasks \cup {NoTask} : P!JudgmentMade(j, t)
       PROVE  L1Inv'
  <2>1. UNCHANGED <<reported, pending, flushes, fails, omitted, entries, entryCounter, lost>>
    BY <1>10 DEF P!JudgmentFails, P!RetryFires, P!JudgmentMade, P!l1Vars
  <2> QED BY <2>1, L1Unchanged
<1>11. CASE P!PollTick \/ P!CheckL2Trigger \/ P!Residual \/ P!SwitchEnds \/ P!PostCompletion \/ P!RunEnds
  <2>1. UNCHANGED <<reported, pending, flushes, fails, omitted, entries, entryCounter, lost>>
    BY <1>11 DEF P!PollTick, P!CheckL2Trigger, P!Residual, P!SwitchEnds, P!PostCompletion, P!RunEnds, P!l1Vars
  <2> QED BY <2>1, L1Unchanged
<1>12. ASSUME NEW c \in Callers, P!BatchRead(c) \/ P!L2Answers(c) \/ P!L2FailsOrMapsNothing(c) PROVE L1Inv'
  <2>1. UNCHANGED <<reported, pending, flushes, fails, omitted, entries, entryCounter, lost>>
    BY <1>12 DEF P!BatchRead, P!L2Answers, P!L2FailsOrMapsNothing, P!l1Vars
  <2> QED BY <2>1, L1Unchanged
<1>13. CASE P!L2Step
  BY <1>11, <1>12, <1>13, BatchesKept DEF P!L2Step, Callers
<1>14. CASE P!FallbackFails
  BY <1>14, FallbackKept
<1>15. CASE P!MarkOffloadStatus
  <2>1. UNCHANGED <<reported, pending, flushes, fails, omitted, entries, entryCounter, lost>>
    BY <1>15 DEF P!MarkOffloadStatus, P!l1Vars
  <2> QED BY <2>1, L1Unchanged
<1>16. CASE P!StatusMarked
  BY <1>16, StatusKept
<1> QED BY <1>1, <1>2, <1>3, <1>4, <1>5, <1>6, <1>7, <1>8, <1>9, <1>10, <1>11, <1>13, <1>14, <1>15, <1>16
        DEF P!Next

LEMMA PluginIsL1 ==
  PluginInv <=> L1Inv /\ JudgeTypes /\ L2Types
BY HeldIsKept DEF PluginInv, L1Inv

LEMMA PluginIsL1Prime ==
  PluginInv' <=> L1Inv' /\ JudgeTypes' /\ L2Types'
BY HeldIsKeptPrime DEF PluginInv, L1Inv

LEMMA PluginInit ==
  ASSUME P!Init
  PROVE  PluginInv
<1>1. L1Types
  <2>1. 0 \in 0..MAX_L1_CHUNK_RETRIES - 1
    BY PluginConstants
  <2> QED BY <2>1 DEF P!Init, L1Types
<1>2. JudgeTypes
  <2>1. boundaries = <<>> /\ active = NoTask /\ settled = FALSE /\ judges = {} /\ prompts = 0
    BY DEF P!Init
  <2>2. boundaries \in Seq(Boundaries)
    BY <2>1
  <2> QED BY <2>1, <2>2 DEF JudgeTypes
<1>3. L2Types
  <2>1. l2 = [c \in Callers |-> P!NoRun] /\ l2Running = FALSE /\ poll = FALSE
    BY DEF P!Init, Callers
  <2> QED BY <2>1, IdleRun, CallerNames DEF L2Types
<1>4. NoChunksYet /\ P!PairsKept
  BY DEF P!Init, NoChunksYet, P!PairsKept
<1> QED BY <1>1, <1>2, <1>3, <1>4 DEF PluginInv

LEMMA PluginStep ==
  ASSUME PluginInv, P!Next
  PROVE  PluginInv'
<1>1. L1Inv /\ JudgeTypes /\ L2Types /\ L1Types
  BY PluginIsL1 DEF L1Inv
<1>2. L1Inv'
  BY <1>1, L1Kept
<1>3. JudgeTypes'
  BY <1>1, JudgesKept
<1>4. L2Types'
  BY <1>1, RunsKept
<1> QED BY <1>2, <1>3, <1>4, PluginIsL1Prime

LEMMA PluginStutter ==
  ASSUME PluginInv, UNCHANGED pluginVars
  PROVE  PluginInv'
<1>1. L1Inv'
  BY PluginIsL1, L1Unchanged DEF pluginVars
<1>2. JudgeTypes'
  BY DEF pluginVars, PluginInv, JudgeTypes
<1>3. L2Types'
  <2>1. UNCHANGED <<l2, l2Running, poll>>
    BY DEF pluginVars
  <2> QED BY <2>1 DEF PluginInv, L2Types, RunOf, Phases, Batches, Entries
<1> QED BY <1>1, <1>2, <1>3, PluginIsL1Prime

LEMMA PluginTyped ==
  ASSUME PluginInv
  PROVE  P!TypeOK
<1>1. \A i \in 1..Len(entries) : entries[i].id \in Pairs /\ entries[i].node \in {P!Null, P!Wait} \cup Tasks
  BY EntryFields DEF PluginInv, L1Types, Null, Wait
<1>2. /\ reported \subseteq Pairs /\ omitted \subseteq Pairs /\ lost \subseteq Pairs
      /\ pending \in Seq(Pairs) /\ fails \in [Pairs -> 0..MAX_L1_CHUNK_RETRIES - 1] /\ entryCounter \in Nat
  BY DEF PluginInv, L1Types
<1>3. active \in Tasks \cup {NoTask} /\ settled \in BOOLEAN
  BY DEF PluginInv, JudgeTypes
<1>4. poll \in BOOLEAN /\ l2Running = (l2["trigger"].phase # "idle")
  BY DEF PluginInv, L2Types
<1> QED BY <1>1, <1>2, <1>3, <1>4 DEF P!TypeOK

PluginHolds == focus = "plugin" => PluginInv

LEMMA PluginEverywhere == Spec => []PluginHolds
<1>1. Init => PluginHolds
  BY PluginInit DEF Init, PluginHolds
<1>2. PluginHolds /\ [Next]_vars => PluginHolds'
  <2> SUFFICES ASSUME PluginHolds, [Next]_vars, focus' = "plugin" PROVE PluginInv'
    BY DEF PluginHolds
  <2>1. focus = "plugin"
    BY DEF Next, vars
  <2>2. PluginInv
    BY <2>1 DEF PluginHolds
  <2>3. P!Next \/ UNCHANGED pluginVars
    BY <2>1 DEF Next, vars
  <2> QED BY <2>2, <2>3, PluginStep, PluginStutter
<1> QED BY <1>1, <1>2, PTL DEF Spec

(* OffloadPlugin: a reported tool call is pending, with a flush or has its   *)
(* entry, through failed chunks that are put back and three kinds of flushes  *)
(* at once, but for the three ways to lose it that the ghosts record: the     *)
(* backend's answer leaves it out, its degraded entry cannot be appended, or  *)
(* an unlocked rewrite of the file (a batch or a backfill of L2, a mark of L3)*)
(* runs over its entry. *)
THEOREM ToolCallsKept ==
  Spec => []PairsKept
<1>1. PluginHolds => PairsKept
  BY DEF PluginHolds, PluginInv, PairsKept
<1> QED BY <1>1, PluginEverywhere, PTL

-----------------------------------------------------------------------------
(* The server: the invariant *)

L1Phases == {"offload-l1", "claim", "summarise", "check", "timers"}
L15Phases == {"offload-l15", "judged", "backfilled"}
L2Runs == {"offload-l2", "l2 reads", "l2 asks", "l2 mapped"}
L2Phases == L2Runs \cup {"sleeping", "requeued"}
AnyPhase == {"idle"} \cup L1Phases \cup L15Phases \cup L2Phases
ServerTasks ==
  [type : {"none", "offload-l1", "offload-l15", "offload-l2"}, of : Tasks \cup Nat, try : Nat]
Ranges == Tasks \cup {NoTask, S!Pending}
Works == [phase : AnyPhase, task : ServerTasks, seen : SUBSET Pairs, bounds : Seq(Ranges)]

(* an L2 task names an MMD, and one that threw may wait for its retry; what a run *)
(* of it has seen are entries es *)
TaskOk(t) == t \in ServerTasks /\ (t.type = "offload-l2" => t.of \in Tasks)
WorkOk(r, es) ==
  /\ r \in Works /\ TaskOk(r.task)
  /\ r.task.type = "offload-l2" => r.phase \in L2Phases
  /\ r.phase \in L2Runs => r.task.type = "offload-l2"
  /\ r.task.type = "none" => r.phase = "idle"
  /\ r.phase \in {"offload-l2", "l2 reads", "sleeping", "requeued"} => r.seen = {}
  /\ r.phase \in {"l2 asks", "l2 mapped"} => r.seen \subseteq es

FileTypes ==
  /\ lines \subseteq Pairs /\ left \subseteq Pairs /\ clobbered \subseteq Pairs
  /\ records \subseteq Pairs /\ nodes \subseteq records
  /\ stamp \in [Pairs -> Nat] /\ \A p \in Pairs : stamp[p] <= Len(ranges)
StateTypes ==
  /\ ranges \in Seq(Ranges) /\ current \in Tasks \cup {NoTask}
  /\ stateLock \in {"free", S!Ingestion} \cup Coroutines
WorkTypes ==
  /\ timers \subseteq {"L1"} \cup Tasks /\ stranded \subseteq Tasks
  /\ \A t \in queue : TaskOk(t) /\ t.type # "none"
RunTypes ==
  /\ run = [c \in Coroutines |-> run[c]]
  /\ \A c \in Coroutines : WorkOk(run[c], records)
ServerTypes == FileTypes /\ StateTypes /\ WorkTypes /\ RunTypes
ServerInv == ServerTypes /\ S!EntriesReachL2

LEMMA ServerConstants ==
  /\ NoTask \notin Tasks /\ "L1" \notin Tasks /\ maxRetries \in Nat
BY OffloadAssumption DEF S!ServerAssumption

LEMMA IdleWork ==
  ASSUME NEW es
  PROVE  WorkOk(S!Idle, es) /\ S!Idle.phase = "idle" /\ S!Idle.task.type = "none"
<1> DEFINE t == S!Task("none", 0)
<1>1. t \in ServerTasks /\ t.type = "none"
  BY DEF S!Task, ServerTasks
<1> HIDE DEF t
<1>2. S!Idle = [phase |-> "idle", task |-> t, seen |-> {}, bounds |-> <<>>]
  BY DEF S!Idle, t
<1>3. S!Idle \in Works
  BY <1>1, <1>2 DEF Works, AnyPhase
<1> QED BY <1>1, <1>2, <1>3 DEF WorkOk, TaskOk, L2Runs

LEMMA WorkFields ==
  ASSUME NEW es, NEW r, WorkOk(r, es)
  PROVE  /\ r \in Works /\ r.task \in ServerTasks /\ TaskOk(r.task) /\ r.seen \subseteq Pairs
         /\ r.bounds \in Seq(Ranges) /\ r.phase \in AnyPhase
         /\ r.task.type = "offload-l2" => r.phase \in L2Phases
         /\ r.phase \in L2Runs => r.task.type = "offload-l2"
BY DEF WorkOk, Works, TaskOk

(* the record of a run that moves on *)
Goes(r, ph) == [r EXCEPT !.phase = ph]
GoesSeeing(r, ph, s) == [r EXCEPT !.phase = ph, !.seen = s]
GoesKnowing(r, ph, b) == [r EXCEPT !.phase = ph, !.bounds = b]

LEMMA WorkPhase ==
  ASSUME NEW r \in Works, NEW ph \in AnyPhase
  PROVE  /\ Goes(r, ph) \in Works
         /\ Goes(r, ph).phase = ph
         /\ Goes(r, ph).task = r.task
         /\ Goes(r, ph).seen = r.seen
         /\ Goes(r, ph).bounds = r.bounds
<1> DEFINE AS == SUBSET Pairs
           AB == Seq(Ranges)
<1>1. r \in [phase : AnyPhase, task : ServerTasks, seen : AS, bounds : AB]
  BY DEF Works
<1>2. Works = [phase : AnyPhase, task : ServerTasks, seen : AS, bounds : AB]
  BY DEF Works
<1> HIDE DEF AS, AB
<1> QED BY <1>1, <1>2 DEF Goes

LEMMA WorkSeen ==
  ASSUME NEW r \in Works, NEW ph \in AnyPhase, NEW s \in SUBSET Pairs
  PROVE  /\ GoesSeeing(r, ph, s) \in Works
         /\ GoesSeeing(r, ph, s).phase = ph
         /\ GoesSeeing(r, ph, s).task = r.task
         /\ GoesSeeing(r, ph, s).seen = s
         /\ GoesSeeing(r, ph, s).bounds = r.bounds
<1> DEFINE AS == SUBSET Pairs
           AB == Seq(Ranges)
<1>1. r \in [phase : AnyPhase, task : ServerTasks, seen : AS, bounds : AB] /\ s \in AS
  BY DEF Works
<1>2. Works = [phase : AnyPhase, task : ServerTasks, seen : AS, bounds : AB]
  BY DEF Works
<1> HIDE DEF AS, AB
<1> QED BY <1>1, <1>2 DEF GoesSeeing

LEMMA WorkBounds ==
  ASSUME NEW r \in Works, NEW ph \in AnyPhase, NEW b \in Seq(Ranges)
  PROVE  /\ GoesKnowing(r, ph, b) \in Works
         /\ GoesKnowing(r, ph, b).phase = ph
         /\ GoesKnowing(r, ph, b).task = r.task
         /\ GoesKnowing(r, ph, b).seen = r.seen
         /\ GoesKnowing(r, ph, b).bounds = b
<1> DEFINE AS == SUBSET Pairs
           AB == Seq(Ranges)
<1>1. r \in [phase : AnyPhase, task : ServerTasks, seen : AS, bounds : AB] /\ b \in AB
  BY DEF Works
<1>2. Works = [phase : AnyPhase, task : ServerTasks, seen : AS, bounds : AB]
  BY DEF Works
<1> HIDE DEF AS, AB
<1> QED BY <1>1, <1>2 DEF GoesKnowing

LEMMA WorkOfReader ==
  ASSUME NEW r \in Works, NEW ph \in AnyPhase, NEW s \in SUBSET Pairs
  PROVE  GoesSeeing(r, ph, s).task = r.task /\ GoesSeeing(r, ph, s).seen = s
BY WorkSeen, ZenonT(40)

LEMMA WorkOfKnower ==
  ASSUME NEW r \in Works, NEW ph \in AnyPhase, NEW b \in Seq(Ranges)
  PROVE  GoesKnowing(r, ph, b).task = r.task /\ GoesKnowing(r, ph, b).seen = r.seen
BY WorkBounds

(* a run that begins, or waits for its retry *)
With(ph, t) == [S!Idle EXCEPT !.phase = ph, !.task = t]

LEMMA WorkWith ==
  ASSUME NEW ph \in AnyPhase, NEW t \in ServerTasks
  PROVE  With(ph, t) \in Works /\ With(ph, t).phase = ph /\ With(ph, t).task = t /\ With(ph, t).seen = {}
<1> DEFINE q == With(ph, t)
           AS == SUBSET Pairs
           AB == Seq(Ranges)
<1>1. S!Idle \in [phase : AnyPhase, task : ServerTasks, seen : AS, bounds : AB] /\ S!Idle.seen = {}
  BY IdleWork DEF WorkOk, Works, S!Idle
<1>2. Works = [phase : AnyPhase, task : ServerTasks, seen : AS, bounds : AB]
  BY DEF Works
<1> HIDE DEF AS, AB
<1>3. q \in Works /\ q.phase = ph /\ q.task = t /\ q.seen = S!Idle.seen
  BY <1>1, <1>2 DEF With
<1> QED BY <1>1, <1>3

LEMMA WorkBegun ==
  ASSUME NEW es, NEW t, TaskOk(t), t.type # "none"
  PROVE  WorkOk(With(t.type, t), es) /\ With(t.type, t).phase = t.type /\ With(t.type, t).task = t
<1> DEFINE q == With(t.type, t)
<1>1. t \in ServerTasks /\ t.type \in {"offload-l1", "offload-l15", "offload-l2"}
  BY DEF TaskOk, ServerTasks
<1>2. t.type \in AnyPhase
  BY <1>1 DEF AnyPhase, L1Phases, L15Phases, L2Phases, L2Runs
<1>3. q \in Works /\ q.phase = t.type /\ q.task = t /\ q.seen = {}
  BY <1>1, <1>2, WorkWith
<1> HIDE DEF q
<1>4. WorkOk(q, es)
  BY <1>1, <1>3 DEF WorkOk, L2Phases, L2Runs
<1> QED BY <1>3, <1>4 DEF q

LEMMA WorkSleeps ==
  ASSUME NEW es, NEW t, TaskOk(t), t.type # "none"
  PROVE  /\ WorkOk(With("sleeping", t), es)
         /\ With("sleeping", t).phase = "sleeping" /\ With("sleeping", t).task = t
<1> DEFINE q == With("sleeping", t)
<1>1. t \in ServerTasks
  BY DEF TaskOk
<1>2. "sleeping" \in AnyPhase /\ "sleeping" \in L2Phases /\ "sleeping" \notin L2Runs
  BY DEF AnyPhase, L2Phases, L2Runs
<1>3. q \in Works /\ q.phase = "sleeping" /\ q.task = t /\ q.seen = {}
  BY <1>1, <1>2, WorkWith
<1> HIDE DEF q
<1>4. WorkOk(q, es)
  BY <1>2, <1>3 DEF WorkOk
<1> QED BY <1>3, <1>4 DEF q

(* the run of one coroutine changes, and the others do not *)
LEMMA WorkMoves ==
  ASSUME run = [c \in Coroutines |-> run[c]], NEW c \in Coroutines, NEW r, S!Moves(c, r)
  PROVE  /\ run' = [d \in Coroutines |-> run'[d]]
         /\ run'[c] = r /\ \A d \in Coroutines \ {c} : run'[d] = run[d]
<1>1. run' = [run EXCEPT ![c] = r]
  BY DEF S!Moves
<1>2. DOMAIN run = Coroutines
  OBVIOUS
<1> QED BY <1>1, <1>2

LEMMA WorkMoved ==
  ASSUME RunTypes, NEW c \in Coroutines, NEW r, S!Moves(c, r), WorkOk(r, records'), records \subseteq records'
  PROVE  RunTypes'
<1>1. /\ run' = [d \in Coroutines |-> run'[d]]
      /\ run'[c] = r /\ \A d \in Coroutines \ {c} : run'[d] = run[d]
  BY WorkMoves DEF RunTypes
<1>2. \A d \in Coroutines \ {c} : WorkOk(run'[d], records')
  BY <1>1 DEF RunTypes, WorkOk
<1>3. \A d \in Coroutines : WorkOk(run'[d], records')
  BY <1>1, <1>2
<1>4. \A d \in Coroutines : WorkOk(run[d], records)'
  BY <1>3 DEF WorkOk, Works, TaskOk, ServerTasks, Ranges
<1> QED BY <1>1, <1>4 DEF RunTypes

LEMMA WorkSame ==
  ASSUME RunTypes, UNCHANGED <<run, records>>
  PROVE  RunTypes'
BY DEF RunTypes, WorkOk, Works, TaskOk, ServerTasks, Ranges

LEMMA PhasesKnown ==
  /\ {"claim", "summarise", "check", "timers"} \subseteq AnyPhase \ L2Phases
  /\ {"judged", "backfilled", "offload-l1", "offload-l15", "idle"} \subseteq AnyPhase \ L2Phases
  /\ {"offload-l2", "l2 reads", "l2 asks", "l2 mapped"} \subseteq AnyPhase \cap L2Phases \cap L2Runs
  /\ {"sleeping", "requeued"} \subseteq (AnyPhase \cap L2Phases) \ L2Runs
BY DEF AnyPhase, L1Phases, L15Phases, L2Phases, L2Runs

LEMMA WorkEnded ==
  ASSUME RunTypes, NEW c \in Coroutines, S!Ends(c), UNCHANGED records
  PROVE  RunTypes'
<1>1. S!Moves(c, S!Idle) /\ WorkOk(S!Idle, records')
  BY IdleWork DEF S!Ends
<1> HIDE DEF S!Idle
<1> QED BY <1>1, WorkMoved

(* a run of L1 or L1.5 goes on *)
LEMMA WorkGoesOn ==
  ASSUME NEW es, NEW fs, NEW r, WorkOk(r, es), r.phase \notin L2Phases, r.phase # "idle", NEW q \in Works,
         q.phase \notin L2Phases, q.task = r.task
  PROVE  WorkOk(q, fs)
<1>1. q.task.type # "offload-l2" /\ q.task.type # "none" /\ TaskOk(q.task)
  BY DEF WorkOk
<1>2. q.phase \notin {"offload-l2", "l2 reads", "l2 asks", "l2 mapped", "sleeping", "requeued"}
  BY DEF L2Phases, L2Runs
<1>3. q.phase \notin L2Runs
  BY DEF L2Phases
<1> QED BY <1>1, <1>2, <1>3 DEF WorkOk

(* a run that breaks off waits for its retry or is over *)
LEMMA BreakMoves ==
  ASSUME NEW c \in Coroutines, NEW leaves, S!BreaksOff(c, leaves)
  PROVE  S!Ends(c) \/ S!Moves(c, With("sleeping", run[c].task))
BY DEF S!BreaksOff, S!Throws, S!Ends, With

LEMMA WorkBroken ==
  ASSUME RunTypes, NEW c \in Coroutines, NEW leaves, S!BreaksOff(c, leaves), run[c].phase # "idle",
         UNCHANGED records
  PROVE  RunTypes'
<1> DEFINE q == With("sleeping", run[c].task)
<1>1. WorkOk(q, records')
  <2>1. TaskOk(run[c].task) /\ run[c].task.type # "none"
    BY DEF RunTypes, WorkOk
  <2> QED BY <2>1, WorkSleeps
<1>2. S!Ends(c) \/ S!Moves(c, q)
  BY BreakMoves
<1> HIDE DEF q
<1> QED BY <1>1, <1>2, WorkEnded, WorkMoved

LEMMA RunTypesKept ==
  ASSUME ServerTypes, S!Next
  PROVE  RunTypes'
<1> USE DEF S!files, S!state, S!work, S!ghosts
<1>0. /\ RunTypes /\ \A c \in Coroutines : WorkOk(run[c], records)
      /\ lines \subseteq Pairs /\ records \subseteq Pairs /\ ranges \in Seq(Ranges)
  BY DEF ServerTypes, RunTypes, FileTypes, StateTypes
<1>1. CASE UNCHANGED <<run, records>>
  BY <1>0, <1>1, WorkSame
<1>2. ASSUME NEW c \in Coroutines, S!Ends(c), UNCHANGED records PROVE RunTypes'
  BY <1>0, <1>2, WorkEnded
<1>3. ASSUME NEW c \in Coroutines, NEW t \in queue, S!Begins(c, t) PROVE RunTypes'
  <2> DEFINE q == With(t.type, t)
  <2>1. WorkOk(q, records')
    <3>1. TaskOk(t) /\ t.type # "none"
      BY DEF ServerTypes, WorkTypes
    <3> QED BY <3>1, WorkBegun, Zenon
  <2>2. S!Moves(c, q) /\ UNCHANGED records
    BY <1>3 DEF S!Begins, S!Moves, With
  <2> HIDE DEF q
  <2> QED BY <1>0, <2>1, <2>2, WorkMoved
<1>4. ASSUME NEW c \in Coroutines, S!ClaimReads(c) PROVE RunTypes'
  <2> DEFINE q == GoesSeeing(run[c], "claim", lines)
  <2>1. run[c].phase = "offload-l1" /\ UNCHANGED records /\ (S!Moves(c, q) \/ S!Ends(c))
    BY <1>4 DEF S!ClaimReads, S!At, Goes, GoesSeeing, GoesKnowing
  <2>2. CASE S!Moves(c, q)
    <3>1. WorkOk(run[c], records) /\ run[c] \in Works
      BY <1>0, WorkFields
    <3>2. "claim" \in AnyPhase /\ "offload-l1" \notin L2Phases /\ "claim" \notin L2Phases /\ lines \in SUBSET Pairs
      BY <1>0, PhasesKnown
    <3>3. q \in Works /\ q.phase = "claim" /\ q.task = run[c].task
      BY <3>1, <3>2, WorkSeen
    <3> HIDE DEF q
    <3>4. WorkOk(q, records')
      BY <2>1, <3>1, <3>2, <3>3, WorkGoesOn
    <3> QED BY <1>0, <2>1, <2>2, <3>4, WorkMoved
  <2> QED BY <2>1, <2>2, <1>2
<1>5. ASSUME NEW c \in Coroutines, S!L1ReadsState(c) PROVE RunTypes'
  <2> DEFINE q == GoesKnowing(run[c], "timers", ranges)
  <2>1. run[c].phase = "check" /\ UNCHANGED records /\ S!Moves(c, q)
    BY <1>5 DEF S!L1ReadsState, S!At, Goes, GoesSeeing, GoesKnowing
  <2>2. CASE S!Moves(c, q)
    <3>1. WorkOk(run[c], records) /\ run[c] \in Works
      BY <1>0, WorkFields
    <3>2. "timers" \in AnyPhase /\ "check" \notin L2Phases /\ "timers" \notin L2Phases /\ ranges \in Seq(Ranges)
      BY <1>0, PhasesKnown
    <3>3. q \in Works /\ q.phase = "timers" /\ q.task = run[c].task
      BY <3>1, <3>2, WorkBounds
    <3> HIDE DEF q
    <3>4. WorkOk(q, records')
      BY <2>1, <3>1, <3>2, <3>3, WorkGoesOn
    <3> QED BY <1>0, <2>1, <2>2, <3>4, WorkMoved
  <2> QED BY <2>1, <2>2, <1>2
<1>6. ASSUME NEW c \in Coroutines, S!L15Locks(c) PROVE RunTypes'
  <2> DEFINE q == Goes(run[c], "judged")
  <2>1. run[c].phase = "offload-l15" /\ UNCHANGED records /\ S!Moves(c, q)
    BY <1>6 DEF S!L15Locks, S!At, Goes, GoesSeeing, GoesKnowing
  <2>2. CASE S!Moves(c, q)
    <3>1. WorkOk(run[c], records) /\ run[c] \in Works
      BY <1>0, WorkFields
    <3>2. "judged" \in AnyPhase /\ "offload-l15" \notin L2Phases /\ "judged" \notin L2Phases /\ TRUE
      BY <1>0, PhasesKnown
    <3>3. q \in Works /\ q.phase = "judged" /\ q.task = run[c].task
      BY <3>1, <3>2, WorkPhase
    <3> HIDE DEF q
    <3>4. WorkOk(q, records')
      BY <2>1, <3>1, <3>2, <3>3, WorkGoesOn
    <3> QED BY <1>0, <2>1, <2>2, <3>4, WorkMoved
  <2> QED BY <2>1, <2>2, <1>2
<1>7. ASSUME NEW c \in Coroutines, S!L15Writes(c) PROVE RunTypes'
  <2> DEFINE q == Goes(run[c], "backfilled")
  <2>1. run[c].phase = "judged" /\ UNCHANGED records /\ (S!Moves(c, q) \/ S!Ends(c))
    BY <1>7 DEF S!L15Writes, S!At, Goes, GoesSeeing, GoesKnowing
  <2>2. CASE S!Moves(c, q)
    <3>1. WorkOk(run[c], records) /\ run[c] \in Works
      BY <1>0, WorkFields
    <3>2. "backfilled" \in AnyPhase /\ "judged" \notin L2Phases /\ "backfilled" \notin L2Phases /\ TRUE
      BY <1>0, PhasesKnown
    <3>3. q \in Works /\ q.phase = "backfilled" /\ q.task = run[c].task
      BY <3>1, <3>2, WorkPhase
    <3> HIDE DEF q
    <3>4. WorkOk(q, records')
      BY <2>1, <3>1, <3>2, <3>3, WorkGoesOn
    <3> QED BY <1>0, <2>1, <2>2, <3>4, WorkMoved
  <2> QED BY <2>1, <2>2, <1>2
<1>8. ASSUME NEW c \in Coroutines, S!ClaimDeletes(c) PROVE RunTypes'
  <2> DEFINE s == run[c].seen \ records
             q == GoesSeeing(run[c], "summarise", s)
  <2>1. run[c].phase = "claim" /\ UNCHANGED records
    BY <1>8 DEF S!ClaimDeletes, S!At
  <2>2. S!Moves(c, q) \/ S!Moves(c, S!Idle)
    BY <1>8 DEF S!ClaimDeletes, GoesSeeing
  <2>3. CASE S!Moves(c, q)
    <3>1. WorkOk(run[c], records) /\ run[c] \in Works /\ s \in SUBSET Pairs
      BY <1>0, WorkFields
    <3>2. "summarise" \in AnyPhase /\ "summarise" \notin L2Phases /\ "claim" \notin L2Phases
      BY PhasesKnown, Zenon
    <3> HIDE DEF s
    <3>3. q \in Works /\ q.phase = "summarise" /\ q.task = run[c].task
      BY <3>1, <3>2, WorkSeen
    <3> HIDE DEF q
    <3>4. WorkOk(q, records')
      BY <2>1, <3>1, <3>2, <3>3, WorkGoesOn
    <3> QED BY <1>0, <2>1, <2>3, <3>4, WorkMoved
  <2>4. CASE S!Moves(c, S!Idle)
    BY <1>2, <2>1, <2>4 DEF S!Ends
  <2> QED BY <2>2, <2>3, <2>4
<1>9. ASSUME NEW c \in Coroutines, S!L1Summarises(c) PROVE RunTypes'
  <2> DEFINE q == GoesSeeing(run[c], "check", {})
  <2>1. run[c].phase = "summarise" /\ records \subseteq records' /\ S!Moves(c, q)
    BY <1>9 DEF S!L1Summarises, S!At, GoesSeeing
  <2>2. WorkOk(run[c], records) /\ run[c] \in Works
    BY <1>0, WorkFields
  <2>3. "check" \in AnyPhase /\ "check" \notin L2Phases /\ "summarise" \notin L2Phases /\ {} \in SUBSET Pairs
    BY PhasesKnown, Zenon
  <2>4. q \in Works /\ q.phase = "check" /\ q.task = run[c].task
    BY <2>2, <2>3, WorkSeen
  <2> HIDE DEF q
  <2>5. WorkOk(q, records')
    BY <2>1, <2>2, <2>3, <2>4, WorkGoesOn
  <2> QED BY <1>0, <2>1, <2>5, WorkMoved
<1>10. ASSUME NEW c \in Coroutines, S!L2ReadsState(c) PROVE RunTypes'
  <2> DEFINE q == GoesKnowing(run[c], "l2 reads", ranges)
  <2>1. run[c].phase = "offload-l2" /\ UNCHANGED records /\ S!Moves(c, q)
    BY <1>10 DEF S!L2ReadsState, S!At, Goes, GoesSeeing, GoesKnowing
  <2>2. WorkOk(run[c], records) /\ run[c] \in Works
    BY <1>0, WorkFields
  <2>3. "l2 reads" \in AnyPhase /\ "l2 reads" \in L2Phases /\ "offload-l2" \in L2Runs
    BY PhasesKnown, Zenon
  <2>4. q \in Works /\ q.phase = "l2 reads" /\ q.task = run[c].task /\ q.seen = run[c].seen
    <3>1. ranges \in Seq(Ranges) /\ run[c] \in Works /\ "l2 reads" \in AnyPhase
      BY <1>0, <2>2, <2>3
    <3>2. q \in Works
      BY <3>1, WorkBounds
    <3>3. q.phase = "l2 reads"
      BY <3>1, WorkBounds, Zenon
    <3>4. q.task = run[c].task
      BY <3>1, WorkOfKnower, Zenon
    <3>5. q.seen = run[c].seen
      BY <3>1, WorkOfKnower, Zenon
    <3> QED BY <3>2, <3>3, <3>4, <3>5, Zenon
  <2> HIDE DEF q
  <2>5. WorkOk(q, records')
    BY <2>1, <2>2, <2>3, <2>4, Zenon DEF WorkOk
  <2> QED BY <1>0, <2>1, <2>5, WorkMoved
<1>11. ASSUME NEW c \in Coroutines, S!L2ReadsEntries(c) PROVE RunTypes'
  <2> DEFINE s == S!Relevant(c)
             q == GoesSeeing(run[c], "l2 asks", s)
  <2>1. run[c].phase = "l2 reads" /\ UNCHANGED records /\ (S!Moves(c, q) \/ S!Ends(c))
    BY <1>11, Zenon DEF S!L2ReadsEntries, S!At, Goes, GoesSeeing, GoesKnowing
  <2>2. CASE S!Moves(c, q)
    <3>1. WorkOk(run[c], records) /\ run[c] \in Works /\ s \in SUBSET Pairs /\ s \subseteq records
      BY <1>0, WorkFields DEF S!Relevant, S!NullsOf
    <3>2. "l2 asks" \in AnyPhase /\ "l2 asks" \in L2Phases /\ "l2 reads" \in L2Runs
      BY PhasesKnown, Zenon
    <3> HIDE DEF s
    <3>3. q \in Works /\ q.phase = "l2 asks" /\ q.task = run[c].task /\ q.seen = s
      <4>1. s \in SUBSET Pairs /\ run[c] \in Works /\ "l2 asks" \in AnyPhase
        BY <3>1, <3>2, Zenon
      <4>2. q \in Works
        BY <4>1, WorkSeen, Zenon
      <4>3. q.phase = "l2 asks"
        BY <4>1, WorkSeen, ZenonT(40)
      <4>4. q.task = run[c].task /\ q.seen = s
        BY <4>1, WorkOfReader, Zenon
      <4> QED BY <4>2, <4>3, <4>4, Zenon
    <3> HIDE DEF q
    <3>4. WorkOk(q, records')
      BY <2>1, <3>1, <3>2, <3>3 DEF WorkOk
    <3> QED BY <1>0, <2>1, <2>2, <3>4, WorkMoved
  <2> QED BY <2>1, <2>2, <1>2
<1>12. ASSUME NEW c \in Coroutines, S!L2Maps(c) PROVE RunTypes'
  <2> DEFINE q == Goes(run[c], "l2 mapped")
  <2>1. run[c].phase = "l2 asks" /\ UNCHANGED records /\ S!Moves(c, q)
    BY <1>12 DEF S!L2Maps, S!At, Goes, GoesSeeing, GoesKnowing
  <2>2. WorkOk(run[c], records) /\ run[c] \in Works
    BY <1>0, WorkFields
  <2>3. "l2 mapped" \in AnyPhase /\ "l2 mapped" \in L2Phases /\ "l2 asks" \in L2Runs
    BY PhasesKnown, Zenon
  <2>4. q \in Works /\ q.phase = "l2 mapped" /\ q.task = run[c].task /\ q.seen = run[c].seen
    BY <2>2, <2>3, WorkPhase
  <2> HIDE DEF q
  <2>5. WorkOk(q, records')
    BY <2>1, <2>2, <2>3, <2>4 DEF WorkOk
  <2> QED BY <1>0, <2>1, <2>5, WorkMoved
<1>13. ASSUME NEW c \in Coroutines,
              S!L1SetsTimers(c) \/ S!L15SetsTimers(c) \/ S!L2Ends(c) \/ S!ClaimFails(c) \/ S!DiesAsleep(c)
              \/ S!Releases(c)
       PROVE  S!Ends(c) /\ UNCHANGED records
  BY <1>13 DEF S!L1SetsTimers, S!L15SetsTimers, S!L2Ends, S!ClaimFails, S!DiesAsleep, S!Releases
<1>14. ASSUME NEW c \in Coroutines, S!L1Fails(c) \/ S!L15Fails(c) \/ S!TimersFail(c) \/ S!L2Fails(c)
       PROVE  RunTypes'
  <2>1. UNCHANGED records /\ run[c].phase # "idle"
    BY <1>14 DEF S!L1Fails, S!L15Fails, S!TimersFail, S!L2Fails, S!At
  <2>2. S!Ends(c) \/ \E leaves : S!BreaksOff(c, leaves)
    BY <1>14 DEF S!L1Fails, S!L15Fails, S!TimersFail, S!L2Fails
  <2> QED BY <1>0, <1>2, <2>1, <2>2, WorkBroken
<1>15. ASSUME NEW c \in Coroutines, S!Requeues(c) PROVE RunTypes'
  <2> DEFINE q == Goes(run[c], "requeued")
  <2>1. run[c].phase = "sleeping" /\ UNCHANGED records
    BY <1>15 DEF S!Requeues, S!At
  <2>2. S!Moves(c, q) \/ S!Moves(c, S!Idle)
    BY <1>15 DEF S!Requeues, Goes
  <2>3. WorkOk(run[c], records) /\ run[c] \in Works
    BY <1>0, WorkFields
  <2>4. "requeued" \in AnyPhase /\ "requeued" \in L2Phases /\ "requeued" \notin L2Runs
    BY PhasesKnown, Zenon
  <2>5. q \in Works /\ q.phase = "requeued" /\ q.task = run[c].task /\ q.seen = run[c].seen
    BY <2>3, <2>4, WorkPhase
  <2> HIDE DEF q
  <2>6. WorkOk(q, records')
    BY <2>1, <2>3, <2>4, <2>5 DEF WorkOk
  <2>7. CASE S!Moves(c, q)
    BY <1>0, <2>1, <2>6, <2>7, WorkMoved
  <2>8. CASE S!Moves(c, S!Idle)
    BY <1>2, <2>1, <2>8 DEF S!Ends
  <2> QED BY <2>2, <2>7, <2>8
<1>16. ASSUME NEW p \in Pairs, S!IngestPair(p) PROVE UNCHANGED <<run, records>>
  BY <1>16 DEF S!IngestPair
<1>17. S!IngestCounts \/ S!IngestPrompt \/ S!PromptQueued => UNCHANGED <<run, records>>
  BY DEF S!IngestCounts, S!IngestPrompt, S!PromptQueued
<1>18. ASSUME NEW t, S!TimerFires(t) \/ \E c \in Coroutines : S!SkipsOnConflict(c, t)
       PROVE  UNCHANGED <<run, records>>
  BY <1>18 DEF S!TimerFires, S!SkipsOnConflict
<1>19. ASSUME NEW c \in Coroutines, S!ClaimStale(c) PROVE UNCHANGED <<run, records>>
  BY <1>19 DEF S!ClaimStale
<1> QED BY <1>1, <1>2, <1>3, <1>4, <1>5, <1>6, <1>7, <1>8, <1>9, <1>10, <1>11, <1>12, <1>13, <1>14, <1>15, <1>16,
           <1>17, <1>18, <1>19 DEF S!Next

LEMMA TargetTyped ==
  ASSUME NEW bs \in Seq(Ranges), stamp \in [Pairs -> Nat], NEW p \in Pairs
  PROVE  S!TargetIn(bs, p) \in Ranges
<1> DEFINE k == IF stamp[p] < Len(bs) THEN stamp[p] ELSE Len(bs)
<1>1. k \in 0..Len(bs)
  OBVIOUS
<1> HIDE DEF k
<1>2. k # 0 => bs[k] \in Ranges
  BY <1>1
<1>3. S!TargetIn(bs, p) = IF k = 0 THEN NoTask ELSE bs[k]
  BY DEF S!TargetIn, k
<1> QED BY <1>2, <1>3 DEF Ranges

LEMMA FilesKept ==
  ASSUME ServerTypes, S!Next
  PROVE  FileTypes'
<1> USE DEF S!files, S!state, S!work, S!ghosts
<1>0. FileTypes /\ ranges \in Seq(Ranges) /\ \A c \in Coroutines : WorkOk(run[c], records)
  BY DEF ServerTypes, StateTypes, RunTypes
<1>1. ASSUME UNCHANGED <<lines, stamp, records, nodes, left, clobbered, ranges>> PROVE FileTypes'
  BY <1>0, <1>1 DEF FileTypes
<1>2. ASSUME NEW p \in Pairs, S!IngestPair(p) PROVE FileTypes'
  <2>1. PICK k \in 0..Len(ranges) : stamp' = [stamp EXCEPT ![p] = k]
    BY <1>2 DEF S!IngestPair
  <2>2. Len(ranges) \in Nat /\ k \in Nat /\ k <= Len(ranges)
    BY <1>0
  <2>3. stamp' \in [Pairs -> Nat] /\ \A q \in Pairs : stamp'[q] <= Len(ranges)
    BY <1>0, <2>1, <2>2 DEF FileTypes
  <2>4. lines' = lines \cup {p} /\ UNCHANGED <<records, nodes, left, clobbered, ranges>>
    BY <1>2 DEF S!IngestPair
  <2> QED BY <1>0, <2>3, <2>4 DEF FileTypes
<1>3. CASE S!IngestPrompt
  <2>1. ranges' = Append(ranges, S!Pending) /\ UNCHANGED <<lines, stamp, records, nodes, left, clobbered>>
    BY <1>3 DEF S!IngestPrompt
  <2>2. Len(ranges') = Len(ranges) + 1 /\ Len(ranges) \in Nat
    BY <1>0, <2>1
  <2>3. \A p \in Pairs : stamp[p] <= Len(ranges) + 1
    BY <1>0, <2>2 DEF FileTypes
  <2> QED BY <1>0, <2>1, <2>2, <2>3 DEF FileTypes
<1>4. ASSUME NEW c \in Coroutines, S!ClaimDeletes(c) PROVE FileTypes'
  BY <1>0, <1>4 DEF FileTypes, S!ClaimDeletes
<1>5. ASSUME NEW c \in Coroutines, S!L1Summarises(c) PROVE FileTypes'
  <2>1. run[c].seen \subseteq Pairs
    BY <1>0, WorkFields
  <2> QED BY <1>0, <1>5, <2>1 DEF FileTypes, S!L1Summarises
<1>6. ASSUME NEW c \in Coroutines, S!L1Fails(c) PROVE FileTypes'
  <2>1. run[c].seen \subseteq Pairs
    BY <1>0, WorkFields
  <2>2. left' = left \cup run[c].seen /\ UNCHANGED <<lines, stamp, records, nodes, clobbered, ranges>>
    BY <1>6 DEF S!L1Fails
  <2> QED BY <1>0, <2>1, <2>2 DEF FileTypes
<1>7. ASSUME NEW c \in Coroutines, S!L15Writes(c) PROVE FileTypes'
  <2>1. Len(ranges') = Len(ranges)
    <3>1. ranges' = ranges \/ ranges' = [ranges EXCEPT ![run[c].task.of] = current']
      BY <1>7 DEF S!L15Writes
    <3>2. ASSUME NEW x, NEW y PROVE Len([ranges EXCEPT ![x] = y]) = Len(ranges)
      <4>1. DOMAIN [ranges EXCEPT ![x] = y] = 1..Len(ranges) /\ Len(ranges) \in Nat
        BY <1>0
      <4> QED BY <4>1
    <3> QED BY <3>1, <3>2
  <2>2. UNCHANGED <<lines, stamp, records, nodes, left, clobbered>>
    BY <1>7 DEF S!L15Writes
  <2> QED BY <1>0, <2>1, <2>2 DEF FileTypes
<1>8. ASSUME NEW c \in Coroutines, S!L2Maps(c) PROVE FileTypes'
  <2>1. run[c].seen \subseteq records
    <3>1. run[c].phase = "l2 asks"
      BY <1>8 DEF S!L2Maps, S!At
    <3> QED BY <1>0, <3>1 DEF WorkOk
  <2>2. nodes' \subseteq nodes \cup run[c].seen
    BY <1>8 DEF S!L2Maps
  <2>3. UNCHANGED <<lines, stamp, records, left, clobbered, ranges>>
    BY <1>8 DEF S!L2Maps
  <2> QED BY <1>0, <2>1, <2>2, <2>3 DEF FileTypes
<1>9. S!IngestCounts \/ S!PromptQueued => UNCHANGED <<lines, stamp, records, nodes, left, clobbered, ranges>>
  BY DEF S!IngestCounts, S!PromptQueued
<1>10. ASSUME NEW t, S!TimerFires(t) \/ \E c \in Coroutines : S!Begins(c, t) \/ S!SkipsOnConflict(c, t)
       PROVE  UNCHANGED <<lines, stamp, records, nodes, left, clobbered, ranges>>
  BY <1>10 DEF S!TimerFires, S!Begins, S!SkipsOnConflict
<1>11. ASSUME NEW c \in Coroutines,
              \/ S!ClaimReads(c) \/ S!L1ReadsState(c) \/ S!L1SetsTimers(c) \/ S!L15Fails(c) \/ S!L15Locks(c)
              \/ S!L15SetsTimers(c) \/ S!L2ReadsState(c) \/ S!L2ReadsEntries(c) \/ S!L2Fails(c) \/ S!L2Ends(c)
              \/ S!ClaimFails(c) \/ S!TimersFail(c) \/ S!Requeues(c) \/ S!DiesAsleep(c) \/ S!Releases(c)
              \/ S!ClaimStale(c)
       PROVE  UNCHANGED <<lines, stamp, records, nodes, left, clobbered, ranges>>
  BY <1>11 DEF S!ClaimReads, S!L1ReadsState, S!L1SetsTimers, S!L15Fails, S!L15Locks, S!L15SetsTimers,
               S!L2ReadsState, S!L2ReadsEntries, S!L2Fails, S!L2Ends, S!ClaimFails, S!TimersFail, S!Requeues,
               S!DiesAsleep, S!Releases, S!ClaimStale
<1> QED BY <1>1, <1>2, <1>3, <1>4, <1>5, <1>6, <1>7, <1>8, <1>9, <1>10, <1>11 DEF S!Next

LEMMA StateKept ==
  ASSUME ServerTypes, S!Next
  PROVE  StateTypes'
<1> USE DEF S!files, S!state, S!work, S!ghosts
<1>0. /\ ranges \in Seq(Ranges) /\ current \in Tasks \cup {NoTask}
      /\ stateLock \in {"free", S!Ingestion} \cup Coroutines
  BY DEF ServerTypes, StateTypes
<1>1. ASSUME UNCHANGED <<ranges, current>>, stateLock' \in {"free", S!Ingestion, stateLock} \cup Coroutines
      PROVE  StateTypes'
  BY <1>0, <1>1 DEF StateTypes, Ranges
<1>2. CASE S!IngestPrompt
  <2>1. ranges' = Append(ranges, S!Pending) /\ stateLock' = S!Ingestion /\ current' = current
    BY <1>2 DEF S!IngestPrompt
  <2>2. S!Pending \in Ranges
    BY DEF Ranges
  <2>3. ranges' \in Seq(Ranges)
    BY <1>0, <2>1, <2>2
  <2> QED BY <1>0, <2>1, <2>3 DEF StateTypes, Ranges
<1>3. ASSUME NEW c \in Coroutines, S!L15Writes(c) PROVE StateTypes'
  <2>1. CASE /\ current' \in S!AfterTransition /\ UNCHANGED stateLock
             /\ ranges' = [ranges EXCEPT ![run[c].task.of] = current']
    <3>1. current' \in Tasks \cup {NoTask} /\ current' \in Ranges
      BY <1>0, <2>1 DEF S!AfterTransition, Ranges
    <3>2. ASSUME NEW x, NEW y \in Ranges PROVE [ranges EXCEPT ![x] = y] \in Seq(Ranges)
      <4>1. ranges \in [1..Len(ranges) -> Ranges] /\ Len(ranges) \in Nat
        BY <1>0
      <4>2. [ranges EXCEPT ![x] = y] \in [1..Len(ranges) -> Ranges]
        BY <4>1, <3>2
      <4> QED BY <4>1, <4>2, SeqDef
    <3>3. ranges' \in Seq(Ranges)
      BY <2>1, <3>1, <3>2
    <3> QED BY <1>0, <2>1, <3>1, <3>3 DEF StateTypes, Ranges
  <2>2. CASE UNCHANGED <<ranges, current>> /\ stateLock' = "free"
    BY <1>1, <2>2
  <2> QED BY <1>3, <2>1, <2>2 DEF S!L15Writes
<1>4. ASSUME NEW c \in Coroutines, S!L15Locks(c) \/ S!L15SetsTimers(c) \/ S!L15Fails(c) \/ S!TimersFail(c)
      PROVE  StateTypes'
  BY <1>1, <1>4 DEF S!L15Locks, S!L15SetsTimers, S!L15Fails, S!TimersFail
<1>5. CASE S!PromptQueued
  BY <1>1, <1>5 DEF S!PromptQueued
<1>6. ASSUME NEW p \in Pairs, S!IngestPair(p) PROVE UNCHANGED <<ranges, current, stateLock>>
  BY <1>6 DEF S!IngestPair
<1>7. S!IngestCounts => UNCHANGED <<ranges, current, stateLock>>
  BY DEF S!IngestCounts
<1>8. ASSUME NEW t, S!TimerFires(t) \/ \E c \in Coroutines : S!Begins(c, t) \/ S!SkipsOnConflict(c, t)
      PROVE  UNCHANGED <<ranges, current, stateLock>>
  BY <1>8 DEF S!TimerFires, S!Begins, S!SkipsOnConflict
<1>9. ASSUME NEW c \in Coroutines,
             \/ S!ClaimReads(c) \/ S!ClaimDeletes(c) \/ S!L1Summarises(c) \/ S!L1Fails(c) \/ S!L1ReadsState(c)
             \/ S!L1SetsTimers(c) \/ S!L2ReadsState(c) \/ S!L2ReadsEntries(c) \/ S!L2Fails(c)
             \/ S!L2Maps(c) \/ S!L2Ends(c)
             \/ S!ClaimFails(c) \/ S!Requeues(c) \/ S!DiesAsleep(c) \/ S!Releases(c) \/ S!ClaimStale(c)
      PROVE  UNCHANGED <<ranges, current, stateLock>>
  BY <1>9 DEF S!ClaimReads, S!ClaimDeletes, S!L1Summarises, S!L1Fails, S!L1ReadsState, S!L1SetsTimers,
              S!L2ReadsState, S!L2ReadsEntries, S!L2Fails, S!L2Maps, S!L2Ends, S!ClaimFails, S!Requeues,
              S!DiesAsleep, S!Releases, S!ClaimStale
<1>10. UNCHANGED <<ranges, current, stateLock>> => StateTypes'
  BY <1>1
<1> QED BY <1>2, <1>3, <1>4, <1>5, <1>6, <1>7, <1>8, <1>9, <1>10 DEF S!Next

LEMMA TaskMade ==
  ASSUME NEW n \in Nat, NEW m \in Tasks
  PROVE  /\ TaskOk(S!Task("offload-l1", n)) /\ S!Task("offload-l1", n).type = "offload-l1"
         /\ TaskOk(S!Task("offload-l15", n)) /\ S!Task("offload-l15", n).type = "offload-l15"
         /\ TaskOk(S!Task("offload-l2", m)) /\ S!Task("offload-l2", m).type = "offload-l2"
         /\ S!Task("offload-l2", m).of = m
BY DEF S!Task, TaskOk, ServerTasks

LEMMA TaskAgain ==
  ASSUME NEW t, TaskOk(t)
  PROVE  LET u == [t EXCEPT !.try = @ + 1] IN TaskOk(u) /\ u.type = t.type /\ u.of = t.of
BY DEF TaskOk, ServerTasks

LEMMA DueTyped ==
  ASSUME NEW bs
  PROVE  S!DueMmds(bs) \subseteq Tasks
BY DEF S!DueMmds

LEMMA WorksKept ==
  ASSUME ServerTypes, S!Next
  PROVE  WorkTypes'
<1> USE DEF S!files, S!state, S!work, S!ghosts
<1>0. /\ timers \subseteq {"L1"} \cup Tasks /\ stranded \subseteq Tasks
      /\ \A t \in queue : TaskOk(t) /\ t.type # "none"
      /\ \A c \in Coroutines : WorkOk(run[c], records)
      /\ Len(ranges) \in Nat
  BY DEF ServerTypes, WorkTypes, RunTypes, StateTypes
<1>1. ASSUME timers' \subseteq {"L1"} \cup Tasks, stranded' \subseteq Tasks,
             \A t \in queue' : t \in queue \/ (TaskOk(t) /\ t.type # "none")
      PROVE  WorkTypes'
  BY <1>0, <1>1 DEF WorkTypes, TaskOk, ServerTasks
<1>2. CASE S!IngestCounts
  <2>1. TaskOk(S!Task("offload-l1", 0)) /\ S!Task("offload-l1", 0).type # "none"
    BY DEF S!Task, TaskOk, ServerTasks
  <2>2. timers' \subseteq timers \cup {"L1"} /\ queue' \subseteq queue \cup {S!Task("offload-l1", 0)} /\ stranded' = stranded
    BY <1>2 DEF S!IngestCounts
  <2> QED BY <1>0, <1>1, <2>1, <2>2
<1>3. CASE S!PromptQueued
  <2> DEFINE u == S!Task("offload-l15", Len(ranges))
  <2>1. TaskOk(u) /\ u.type # "none"
    BY <1>0 DEF S!Task, TaskOk, ServerTasks
  <2>2. UNCHANGED <<timers, stranded>> /\ queue' = queue \cup {u}
    BY <1>3 DEF S!PromptQueued
  <2> HIDE DEF u
  <2> QED BY <1>0, <1>1, <2>1, <2>2
<1>4. ASSUME NEW t \in timers, S!TimerFires(t) PROVE WorkTypes'
  <2> DEFINE u == IF t = "L1" THEN S!Task("offload-l1", 0) ELSE S!Task("offload-l2", t)
  <2>1. TaskOk(u) /\ u.type # "none"
    <3>1. t = "L1" \/ t \in Tasks
      BY <1>0
    <3>2. CASE t = "L1"
      BY <3>2 DEF S!Task, TaskOk, ServerTasks
    <3>3. CASE t # "L1" /\ t \in Tasks
      BY <3>3 DEF S!Task, TaskOk, ServerTasks
    <3> QED BY <3>1, <3>2, <3>3
  <2>2. timers' = timers \ {t} /\ stranded' \subseteq stranded \cup Tasks /\ queue' \subseteq queue \cup {u}
    BY <1>4 DEF S!TimerFires
  <2> HIDE DEF u
  <2> QED BY <1>0, <1>1, <2>1, <2>2
<1>5. ASSUME NEW c \in Coroutines, NEW t \in queue, S!Begins(c, t) PROVE WorkTypes'
  BY <1>0, <1>1, <1>5 DEF S!Begins
<1>6. ASSUME NEW c \in Coroutines, NEW t \in queue, S!SkipsOnConflict(c, t) PROVE WorkTypes'
  <2>1. t.of \in Tasks
    BY <1>0, <1>6 DEF S!SkipsOnConflict, S!IsL2, TaskOk
  <2> QED BY <1>0, <1>1, <1>6, <2>1 DEF S!SkipsOnConflict
<1>7. ASSUME NEW c \in Coroutines, NEW leaves \in SUBSET Tasks, S!BreaksOff(c, leaves), run[c].phase # "idle",
             timers' \subseteq {"L1"} \cup Tasks
      PROVE  WorkTypes'
  <2> DEFINE t == run[c].task
  <2>1. TaskOk(t) /\ t.type # "none"
    BY <1>0, <1>7 DEF WorkOk
  <2>2. S!GivenUp(c) \subseteq Tasks
    BY <2>1 DEF S!GivenUp, S!IsL2, TaskOk
  <2>3. queue' \subseteq queue \cup {t} /\ stranded' \subseteq stranded \cup leaves \cup S!GivenUp(c)
    BY <1>7 DEF S!BreaksOff
  <2> HIDE DEF t
  <2> QED BY <1>0, <1>1, <1>7, <2>1, <2>2, <2>3
<1>8. ASSUME NEW c \in Coroutines, S!L1Fails(c) \/ S!L15Fails(c) \/ S!L2Fails(c) \/ S!TimersFail(c) PROVE WorkTypes'
  <2>1. run[c].phase # "idle"
    BY <1>8 DEF S!L1Fails, S!L15Fails, S!L2Fails, S!TimersFail, S!At
  <2>2. CASE S!TimersFail(c)
    <3> DEFINE due == S!DueMmds(IF S!At(c, "timers") THEN run[c].bounds ELSE ranges)
    <3>1. due \subseteq Tasks
      BY DueTyped
    <3> HIDE DEF due
    <3>2. \E set \in SUBSET due : timers' = timers \cup set /\ S!BreaksOff(c, due \ set)
      BY <2>2 DEF S!TimersFail, due
    <3>3. PICK set \in SUBSET due : timers' = timers \cup set /\ S!BreaksOff(c, due \ set)
      BY <3>2
    <3> QED BY <1>0, <1>7, <2>1, <3>1, <3>3
  <2>3. CASE UNCHANGED <<timers, queue, stranded>>
    BY <1>0, <1>1, <2>3
  <2>4. CASE UNCHANGED timers /\ S!BreaksOff(c, {})
    BY <1>0, <1>7, <2>1, <2>4
  <2>5. S!L1Fails(c) \/ S!L15Fails(c) \/ S!L2Fails(c) =>
          UNCHANGED timers /\ (S!BreaksOff(c, {}) \/ UNCHANGED <<queue, stranded>>)
    BY DEF S!L1Fails, S!L15Fails, S!L2Fails
  <2> QED BY <1>8, <2>2, <2>3, <2>4, <2>5
<1>9. ASSUME NEW c \in Coroutines, S!L1SetsTimers(c) \/ S!L15SetsTimers(c) \/ S!L2Ends(c) PROVE WorkTypes'
  <2>1. queue' = queue /\ \E due : S!SetsTimers(due)
    BY <1>9 DEF S!L1SetsTimers, S!L15SetsTimers, S!L2Ends
  <2>2. stranded' \subseteq stranded
    BY <2>1 DEF S!SetsTimers
  <2>3. S!L1SetsTimers(c) \/ S!L15SetsTimers(c) => timers' \subseteq timers \cup Tasks
    BY DueTyped DEF S!L1SetsTimers, S!L15SetsTimers, S!SetsTimers
  <2>4. S!L2Ends(c) => timers' \subseteq timers \cup Tasks
    <3>1. S!L2Ends(c) => run[c].task.of \in Tasks
      BY <1>0, PhasesKnown DEF S!L2Ends, S!At, WorkOk, TaskOk
    <3> QED BY <3>1 DEF S!L2Ends, S!SetsTimers
  <2> QED BY <1>0, <1>1, <1>9, <2>1, <2>2, <2>3, <2>4
<1>10. ASSUME NEW p \in Pairs, S!IngestPair(p) PROVE UNCHANGED <<timers, queue, stranded>>
  BY <1>10 DEF S!IngestPair
<1>11. S!IngestPrompt => UNCHANGED <<timers, queue, stranded>>
  BY DEF S!IngestPrompt
<1>12. ASSUME NEW c \in Coroutines,
              \/ S!ClaimReads(c) \/ S!ClaimDeletes(c) \/ S!L1Summarises(c) \/ S!L1ReadsState(c) \/ S!L15Locks(c)
              \/ S!L15Writes(c) \/ S!L2ReadsState(c) \/ S!L2ReadsEntries(c) \/ S!L2Maps(c)
       PROVE  UNCHANGED <<timers, queue, stranded>>
  BY <1>12 DEF S!ClaimReads, S!ClaimDeletes, S!L1Summarises, S!L1ReadsState, S!L15Locks, S!L15Writes,
               S!L2ReadsState, S!L2ReadsEntries, S!L2Maps
<1>13. UNCHANGED <<timers, queue, stranded>> => WorkTypes'
  BY <1>0, <1>1
<1>14. ASSUME NEW c \in Coroutines, S!ClaimFails(c) \/ S!ClaimStale(c) PROVE WorkTypes'
  <2> DEFINE t == run[c].task
  <2>1. TaskOk(t) /\ t.type # "none"
    BY <1>0, <1>14 DEF WorkOk, S!ClaimFails, S!ClaimStale, S!At
  <2>2. UNCHANGED <<timers, stranded>> /\ queue' \subseteq queue \cup {t}
    BY <1>14 DEF S!ClaimFails, S!ClaimStale
  <2> HIDE DEF t
  <2> QED BY <1>0, <1>1, <2>1, <2>2
<1>15. ASSUME NEW c \in Coroutines, S!Requeues(c) PROVE WorkTypes'
  <2> DEFINE t == run[c].task
             u == [t EXCEPT !.try = @ + 1]
  <2>1. TaskOk(t) /\ t.type # "none"
    BY <1>0, <1>15 DEF WorkOk, S!Requeues, S!At
  <2>2. UNCHANGED <<timers, stranded>> /\ queue' = queue \cup {u}
    BY <1>15 DEF S!Requeues
  <2> HIDE DEF t
  <2>3. TaskOk(u) /\ u.type = t.type
    BY <2>1, TaskAgain
  <2> HIDE DEF u
  <2> QED BY <1>0, <1>1, <2>1, <2>2, <2>3
<1>16. ASSUME NEW c \in Coroutines, S!DiesAsleep(c) \/ S!Releases(c) PROVE WorkTypes'
  BY <1>0, <1>1, <1>16 DEF S!DiesAsleep, S!Releases
<1> QED BY <1>2, <1>3, <1>4, <1>5, <1>6, <1>8, <1>9, <1>10, <1>11, <1>12, <1>13, <1>14, <1>15, <1>16 DEF S!Next

-----------------------------------------------------------------------------
(* The server: entries reach L2 *)

Target(bs, k) == LET n == IF k < Len(bs) THEN k ELSE Len(bs) IN IF n = 0 THEN NoTask ELSE bs[n]
ServesIn(r, k, p, t) ==
  \/ r.phase \in {"check", "backfilled"}
  \/ r.phase = "timers" /\ Target(r.bounds, k) = t
  \/ /\ r.task.type = "offload-l2" /\ r.task.of = t
     /\ \/ r.phase \in {"offload-l2", "sleeping"}
        \/ r.phase = "l2 reads" /\ Target(r.bounds, k) = t
        \/ p \in r.seen
QueuedFor(t) == \E q \in queue : q.type = "offload-l2" /\ q.of = t
Woken(p, t) == t \in timers \/ QueuedFor(t) \/ \E c \in Coroutines : ServesIn(run[c], stamp[p], p, t)

LEMMA TargetIs ==
  ASSUME NEW bs, NEW p
  PROVE  S!TargetIn(bs, p) = Target(bs, stamp[p])
BY DEF S!TargetIn, Target

LEMMA ServesIs ==
  ASSUME NEW c, NEW p, NEW t
  PROVE  S!Serves(c, p, t) <=> ServesIn(run[c], stamp[p], p, t)
<1>1. S!TargetIn(run[c].bounds, p) = Target(run[c].bounds, stamp[p])
  BY TargetIs
<1> QED BY <1>1 DEF S!Serves, ServesIn, S!IsL2

LEMMA ReachIs ==
  S!EntriesReachL2 <=>
    \A p \in records \ nodes, t \in Tasks \ stranded : Target(ranges, stamp[p]) = t => Woken(p, t)
<1>1. \A p : S!TargetIn(ranges, p) = Target(ranges, stamp[p])
  BY TargetIs
<1>2. \A p, t : (\E c \in Coroutines : S!Serves(c, p, t)) <=> \E c \in Coroutines : ServesIn(run[c], stamp[p], p, t)
  BY ServesIs
<1>3. \A p, t : Woken(p, t) <=> \/ t \in timers \/ (\E q \in queue : q.type = "offload-l2" /\ q.of = t)
                              \/ \E c \in Coroutines : S!Serves(c, p, t)
  BY <1>2 DEF Woken, QueuedFor
<1> QED BY <1>1, <1>3 DEF S!EntriesReachL2, S!IsL2

LEMMA ReachIsPrime ==
  S!EntriesReachL2' <=>
    \A p \in records' \ nodes', t \in Tasks \ stranded' : Target(ranges', stamp'[p]) = t => Woken(p, t)'
<1>1. \A p : S!TargetIn(ranges, p)' = Target(ranges', stamp'[p])
  BY DEF S!TargetIn, Target
<1>2. ASSUME NEW c, NEW p, NEW t PROVE S!Serves(c, p, t)' <=> ServesIn(run[c], stamp[p], p, t)'
  <2>1. S!TargetIn(run[c].bounds, p)' = Target(run[c].bounds, stamp[p])'
    BY DEF S!TargetIn, Target
  <2> QED BY <2>1 DEF S!Serves, ServesIn, S!IsL2
<1>3. \A p, t : Woken(p, t)' <=> \/ t \in timers' \/ (\E q \in queue' : q.type = "offload-l2" /\ q.of = t)
                               \/ \E c \in Coroutines : S!Serves(c, p, t)'
  BY <1>2 DEF Woken, QueuedFor
<1> QED BY <1>1, <1>3 DEF S!EntriesReachL2, S!IsL2

(* what carries an entry on when the run of one coroutine changes *)
LEMMA WokenOn ==
  ASSUME NEW p, NEW t, Woken(p, t), stamp'[p] = stamp[p], NEW c \in Coroutines,
         \A d \in Coroutines \ {c} : run'[d] = run[d],
         t \in timers => t \in timers' \/ QueuedFor(t)', QueuedFor(t) => Woken(p, t)',
         ServesIn(run[c], stamp[p], p, t) => Woken(p, t)'
  PROVE  Woken(p, t)'
<1>1. ASSUME NEW d \in Coroutines \ {c}, ServesIn(run[d], stamp[p], p, t) PROVE Woken(p, t)'
  <2>1. ServesIn(run'[d], stamp'[p], p, t)
    BY <1>1
  <2>2. ServesIn(run[d], stamp[p], p, t)'
    BY <2>1 DEF ServesIn, Target
  <2> QED BY <2>2 DEF Woken
<1>2. QueuedFor(t)' => Woken(p, t)'
  BY DEF Woken
<1>3. t \in timers' => Woken(p, t)'
  BY DEF Woken
<1> QED BY <1>1, <1>2, <1>3 DEF Woken

LEMMA WokenSame ==
  ASSUME NEW p, NEW t, Woken(p, t), stamp'[p] = stamp[p], run' = run,
         t \in timers => t \in timers' \/ QueuedFor(t)', QueuedFor(t) => QueuedFor(t)'
  PROVE  Woken(p, t)'
<1>1. ASSUME NEW d \in Coroutines, ServesIn(run[d], stamp[p], p, t) PROVE Woken(p, t)'
  <2>1. ServesIn(run'[d], stamp'[p], p, t)
    BY <1>1
  <2>2. ServesIn(run[d], stamp[p], p, t)'
    BY <2>1 DEF ServesIn, Target
  <2> QED BY <2>2 DEF Woken
<1>2. QueuedFor(t)' => Woken(p, t)'
  BY DEF Woken
<1>3. t \in timers' => Woken(p, t)'
  BY DEF Woken
<1> QED BY <1>1, <1>2, <1>3 DEF Woken

LEMMA QueueGrows ==
  ASSUME queue \subseteq queue', NEW t, QueuedFor(t)
  PROVE  QueuedFor(t)'
BY DEF QueuedFor

LEMMA ServedBy ==
  ASSUME NEW c \in Coroutines, NEW p, NEW t, ServesIn(run'[c], stamp'[p], p, t)
  PROVE  Woken(p, t)'
<1>1. ServesIn(run[c], stamp[p], p, t)'
  BY DEF ServesIn, Target
<1> QED BY <1>1 DEF Woken

LEMMA NullsIs ==
  ASSUME NEW bs, NEW t, NEW p
  PROVE  p \in S!NullsOf(bs, t) <=> p \in records \ nodes /\ Target(bs, stamp[p]) = t
<1>1. S!TargetIn(bs, p) = Target(bs, stamp[p])
  BY TargetIs
<1> QED BY <1>1 DEF S!NullsOf

(* the boundary of an entry does not move when a new one is drawn *)
LEMMA TargetStays ==
  ASSUME NEW bs \in Seq(Ranges), NEW b, b \in Ranges, NEW k \in Nat, k <= Len(bs)
  PROVE  Target(Append(bs, b), k) = Target(bs, k)
<1> DEFINE cs == Append(bs, b)
<1>1. Len(bs) \in Nat /\ Len(cs) = Len(bs) + 1 /\ \A i \in 1..Len(bs) : cs[i] = bs[i]
  OBVIOUS
<1> HIDE DEF cs
<1>2. k < Len(cs) /\ (k # 0 => k \in 1..Len(bs))
  BY <1>1
<1>3. Target(cs, k) = IF k = 0 THEN NoTask ELSE cs[k]
  BY <1>2 DEF Target
<1>4. Target(bs, k) = IF k = 0 THEN NoTask ELSE bs[k]
  BY <1>1 DEF Target
<1> QED BY <1>1, <1>2, <1>3, <1>4 DEF cs

(* the actions that change neither a run nor which entries wait *)
LEMMA ReachUnmoved ==
  ASSUME S!EntriesReachL2, UNCHANGED <<run, records, nodes>>, stranded \subseteq stranded',
         \A p \in records : stamp'[p] = stamp[p] /\ Target(ranges', stamp[p]) = Target(ranges, stamp[p]),
         \A t \in timers : t \in timers' \/ QueuedFor(t)' \/ t \notin Tasks \ stranded',
         \A t \in Tasks \ stranded' : QueuedFor(t) => QueuedFor(t)'
  PROVE  S!EntriesReachL2'
<1> SUFFICES ASSUME NEW p \in records \ nodes, NEW t \in Tasks \ stranded', Target(ranges', stamp'[p]) = t
             PROVE  Woken(p, t)'
  BY ReachIsPrime
<1>1. Woken(p, t)
  BY ReachIs
<1> QED BY <1>1, WokenSame

(* the actions of one coroutine that leave entries, stamps and boundaries *)
LEMMA ReachMoved ==
  ASSUME S!EntriesReachL2, NEW c \in Coroutines, UNCHANGED <<records, ranges, stamp>>,
         nodes \subseteq nodes', stranded \subseteq stranded' \cup timers', timers \subseteq timers',
         \A d \in Coroutines \ {c} : run'[d] = run[d],
         \A p \in records \ nodes', t \in Tasks \ stranded' : QueuedFor(t) => Woken(p, t)',
         \A p \in records \ nodes', t \in Tasks \ stranded' :
           Target(ranges, stamp[p]) = t /\ ServesIn(run[c], stamp[p], p, t) => Woken(p, t)'
  PROVE  S!EntriesReachL2'
<1> SUFFICES ASSUME NEW p \in records \ nodes', NEW t \in Tasks \ stranded', Target(ranges, stamp[p]) = t
             PROVE  Woken(p, t)'
  BY ReachIsPrime
<1>1. CASE t \in stranded
  BY <1>1 DEF Woken
<1>2. CASE t \notin stranded
  <2>1. Woken(p, t)
    BY <1>2, ReachIs
  <2> QED BY <2>1, WokenOn
<1> QED BY <1>1, <1>2

LEMMA QueuedStays ==
  ASSUME queue \subseteq queue'
  PROVE  \A p, t : QueuedFor(t) => Woken(p, t)'
BY DEF QueuedFor, Woken

LEMMA NotServing ==
  ASSUME NEW c \in Coroutines, WorkOk(run[c], records), run[c].phase \notin L2Phases,
         run[c].phase \notin {"check", "backfilled", "timers"}, NEW k, NEW p, NEW t
  PROVE  ~ServesIn(run[c], k, p, t)
BY DEF ServesIn, WorkOk

LEMMA IngestionReaches ==
  ASSUME ServerTypes, S!EntriesReachL2,
         S!IngestCounts \/ S!IngestPrompt \/ S!PromptQueued \/ \E q \in Pairs : S!IngestPair(q)
  PROVE  S!EntriesReachL2'
<1> USE DEF S!files, S!state, S!work, S!ghosts
<1>0. /\ ranges \in Seq(Ranges) /\ records \subseteq Pairs /\ stamp \in [Pairs -> Nat]
      /\ \A p \in Pairs : stamp[p] <= Len(ranges)
  BY DEF ServerTypes, FileTypes, StateTypes
<1>1. UNCHANGED <<run, records, nodes, stranded>> /\ timers \subseteq timers' /\ queue \subseteq queue'
  BY DEF S!IngestCounts, S!IngestPrompt, S!PromptQueued, S!IngestPair
<1>2. \A p \in records : stamp'[p] = stamp[p]
  <2>1. CASE stamp' = stamp
    BY <2>1
  <2>2. ASSUME NEW q \in Pairs, S!IngestPair(q) PROVE \A p \in records : stamp'[p] = stamp[p]
    <3>1. q \notin records /\ \E k : stamp' = [stamp EXCEPT ![q] = k]
      BY <2>2 DEF S!IngestPair, S!Reported
    <3>2. PICK k : stamp' = [stamp EXCEPT ![q] = k]
      BY <3>1
    <3> QED BY <1>0, <3>1, <3>2
  <2>3. S!IngestCounts \/ S!IngestPrompt \/ S!PromptQueued => stamp' = stamp
    BY DEF S!IngestCounts, S!IngestPrompt, S!PromptQueued
  <2> QED BY <2>1, <2>2, <2>3
<1>3. \A p \in records : Target(ranges', stamp[p]) = Target(ranges, stamp[p])
  <2>1. ranges' = ranges \/ ranges' = Append(ranges, S!Pending)
    BY DEF S!IngestCounts, S!IngestPrompt, S!PromptQueued, S!IngestPair
  <2>2. CASE ranges' = Append(ranges, S!Pending)
    <3>1. S!Pending \in Ranges
      BY DEF Ranges
    <3>2. \A p \in records : stamp[p] \in Nat /\ stamp[p] <= Len(ranges)
      BY <1>0
    <3> QED BY <1>0, <2>2, <3>1, <3>2, TargetStays
  <2> QED BY <2>1, <2>2
<1>4. \A t : QueuedFor(t) => QueuedFor(t)'
  BY <1>1, QueueGrows
<1> QED BY <1>1, <1>2, <1>3, <1>4, ReachUnmoved

LEMMA TimerReaches ==
  ASSUME ServerTypes, S!EntriesReachL2, NEW u \in timers, S!TimerFires(u)
  PROVE  S!EntriesReachL2'
<1> USE DEF S!files, S!state, S!work, S!ghosts
<1>1. /\ UNCHANGED <<run, records, nodes, stamp, ranges>> /\ timers' = timers \ {u}
      /\ queue \subseteq queue' /\ stranded \subseteq stranded'
  BY DEF S!TimerFires
<1>2. u \in Tasks => QueuedFor(u)' \/ u \in stranded'
  <2>1. u \in Tasks => S!Task("offload-l2", u) \in queue' \/ u \in stranded'
    BY ServerConstants DEF S!TimerFires
  <2> QED BY <2>1 DEF QueuedFor, S!Task
<1>3. \A t : QueuedFor(t) => QueuedFor(t)'
  BY <1>1, QueueGrows
<1>4. \A t \in timers : t \in timers' \/ QueuedFor(t)' \/ t \notin Tasks \ stranded'
  BY <1>1, <1>2
<1> QED BY <1>1, <1>3, <1>4, ReachUnmoved

LEMMA SkipReaches ==
  ASSUME ServerTypes, S!EntriesReachL2, NEW c \in Coroutines, NEW q \in queue, S!SkipsOnConflict(c, q)
  PROVE  S!EntriesReachL2'
<1> USE DEF S!files, S!state, S!work, S!ghosts
<1>1. UNCHANGED <<run, records, nodes, stamp, ranges, timers>>
  BY DEF S!SkipsOnConflict
<1>2. queue' = queue \ {q} /\ stranded' = stranded \cup {q.of}
  BY DEF S!SkipsOnConflict
<1>3. \A t \in Tasks \ stranded' : QueuedFor(t) => QueuedFor(t)'
  BY <1>2 DEF QueuedFor
<1> QED BY <1>1, <1>2, <1>3, ReachUnmoved

LEMMA BeginReaches ==
  ASSUME ServerTypes, S!EntriesReachL2, NEW c \in Coroutines, NEW q \in queue, S!Begins(c, q)
  PROVE  S!EntriesReachL2'
<1> USE DEF S!files, S!state, S!work, S!ghosts
<1> DEFINE r == With(q.type, q)
<1>1. UNCHANGED <<records, nodes, stamp, ranges, timers, stranded>> /\ queue' = queue \ {q} /\ run[c] = S!Idle
  BY DEF S!Begins
<1>2. run'[c] = r /\ \A d \in Coroutines \ {c} : run'[d] = run[d]
  <2>1. S!Moves(c, r)
    BY DEF S!Begins, S!Moves, With
  <2> HIDE DEF r
  <2> QED BY <2>1, WorkMoves DEF ServerTypes, RunTypes
<1>3. r.phase = q.type /\ r.task = q
  <2>1. TaskOk(q) /\ q.type # "none"
    BY DEF ServerTypes, WorkTypes
  <2> QED BY <2>1, WorkBegun, Zenon
<1> HIDE DEF r
<1>4. ASSUME NEW p, NEW t, QueuedFor(t) PROVE Woken(p, t)'
  <2>1. PICK o \in queue : o.type = "offload-l2" /\ o.of = t
    BY <1>4 DEF QueuedFor
  <2>2. CASE o = q
    <3>1. ServesIn(run'[c], stamp'[p], p, t)
      BY <1>2, <1>3, <2>1, <2>2 DEF ServesIn
    <3> QED BY <3>1, ServedBy
  <2>3. CASE o # q
    BY <1>1, <2>1, <2>3 DEF Woken, QueuedFor
  <2> QED BY <2>2, <2>3
<1>5. \A k, p, t : ~ServesIn(run[c], k, p, t)
  BY <1>1, IdleWork DEF ServesIn
<1> QED BY <1>1, <1>2, <1>4, <1>5, ReachMoved

(* L1 serves no entry until it has appended its own, L1.5 none until its boundary *)
LEMMA ClaimReaches ==
  ASSUME ServerTypes, S!EntriesReachL2, NEW c \in Coroutines,
         S!ClaimReads(c) \/ S!ClaimDeletes(c) \/ S!ClaimFails(c) \/ S!L1Fails(c) \/ S!L15Fails(c) \/ S!L15Locks(c)
  PROVE  S!EntriesReachL2'
<1> USE DEF S!files, S!state, S!work, S!ghosts
<1>1. UNCHANGED <<records, nodes, stamp, ranges, timers>>
  BY DEF S!ClaimReads, S!ClaimDeletes, S!ClaimFails, S!L1Fails, S!L15Fails, S!L15Locks
<1>2. run[c].phase \in {"offload-l1", "claim", "summarise", "offload-l15", "judged"}
  BY DEF S!ClaimReads, S!ClaimDeletes, S!ClaimFails, S!L1Fails, S!L15Fails, S!L15Locks, S!At
<1>3. WorkOk(run[c], records) /\ run[c].phase \notin L2Phases
  BY <1>2, PhasesKnown DEF ServerTypes, RunTypes
<1>4. queue \subseteq queue' /\ stranded \subseteq stranded'
  <2>1. \A leaves : S!BreaksOff(c, leaves) => queue \subseteq queue' /\ stranded \subseteq stranded'
    BY DEF S!BreaksOff
  <2> QED BY <2>1 DEF S!ClaimReads, S!ClaimDeletes, S!ClaimFails, S!L1Fails, S!L15Fails, S!L15Locks
<1>5. \A d \in Coroutines \ {c} : run'[d] = run[d]
  <2>1. \A leaves : S!BreaksOff(c, leaves) => \E r : S!Moves(c, r)
    BY BreakMoves DEF S!Ends
  <2>2. \E r : S!Moves(c, r)
    BY <2>1 DEF S!ClaimReads, S!ClaimDeletes, S!ClaimFails, S!L1Fails, S!L15Fails, S!L15Locks, S!Ends
  <2> QED BY <2>2, WorkMoves DEF ServerTypes, RunTypes
<1>6. \A k, p, t : ~ServesIn(run[c], k, p, t)
  BY <1>2, <1>3, NotServing
<1> QED BY <1>1, <1>4, <1>5, <1>6, QueuedStays, ReachMoved

(* after the append, or the judgment, the run serves every entry *)
LEMMA ServesAll ==
  ASSUME NEW c \in Coroutines, run'[c].phase \in {"check", "backfilled"}
  PROVE  S!EntriesReachL2'
<1>1. \A p, t : Woken(p, t)'
  BY ServedBy DEF ServesIn
<1> QED BY <1>1, ReachIsPrime

LEMMA SummaryReaches ==
  ASSUME ServerTypes, S!EntriesReachL2, NEW c \in Coroutines, S!L1Summarises(c)
  PROVE  S!EntriesReachL2'
<1> DEFINE q == GoesSeeing(run[c], "check", {})
<1>1. S!Moves(c, q)
  BY DEF S!L1Summarises, GoesSeeing
<1>2. q.phase = "check"
  <2>1. run[c] \in Works /\ "check" \in AnyPhase /\ {} \in SUBSET Pairs
    BY PhasesKnown, WorkFields DEF ServerTypes, RunTypes
  <2> QED BY <2>1, WorkSeen
<1> HIDE DEF q
<1>3. run'[c] = q
  BY <1>1, WorkMoves DEF ServerTypes, RunTypes
<1> QED BY <1>2, <1>3, ServesAll

LEMMA JudgmentReaches ==
  ASSUME ServerTypes, S!EntriesReachL2, NEW c \in Coroutines, S!L15Writes(c)
  PROVE  S!EntriesReachL2'
<1> USE DEF S!files, S!state, S!work, S!ghosts
<1> DEFINE q == Goes(run[c], "backfilled")
<1>0. WorkOk(run[c], records) /\ run[c] \in Works
  BY WorkFields DEF ServerTypes, RunTypes
<1>1. S!Moves(c, q) \/ (S!Ends(c) /\ UNCHANGED <<ranges, current>>)
  BY DEF S!L15Writes, Goes
<1>2. q.phase = "backfilled"
  <2>1. "backfilled" \in AnyPhase
    BY PhasesKnown, Zenon
  <2> QED BY <1>0, <2>1, WorkPhase
<1> HIDE DEF q
<1>3. CASE S!Moves(c, q)
  <2>1. run'[c] = q
    BY <1>3, WorkMoves DEF ServerTypes, RunTypes
  <2> QED BY <1>2, <2>1, ServesAll
<1>4. CASE S!Ends(c) /\ UNCHANGED <<ranges, current>>
  <2>1. UNCHANGED <<records, nodes, stamp, ranges, timers, queue, stranded>>
    BY <1>4 DEF S!L15Writes
  <2>2. run[c].phase = "judged" /\ run[c].phase \notin L2Phases
    BY PhasesKnown DEF S!L15Writes, S!At
  <2>3. \A d \in Coroutines \ {c} : run'[d] = run[d]
    BY <1>4, WorkMoves DEF ServerTypes, RunTypes, S!Ends
  <2>4. \A k, p, t : ~ServesIn(run[c], k, p, t)
    BY <1>0, <2>2, NotServing
  <2> QED BY <2>1, <2>3, <2>4, QueuedStays, ReachMoved
<1> QED BY <1>1, <1>3, <1>4

LEMMA BoundsReach ==
  ASSUME ServerTypes, S!EntriesReachL2, NEW c \in Coroutines, S!L1ReadsState(c) \/ S!L2ReadsState(c)
  PROVE  S!EntriesReachL2'
<1> USE DEF S!files, S!state, S!work, S!ghosts
<1> DEFINE ph == IF run[c].phase = "check" THEN "timers" ELSE "l2 reads"
           q == GoesKnowing(run[c], ph, ranges)
<1>0. WorkOk(run[c], records) /\ run[c] \in Works /\ ranges \in Seq(Ranges)
  BY WorkFields DEF ServerTypes, RunTypes, StateTypes
<1>1. UNCHANGED <<records, nodes, stamp, ranges, timers, queue, stranded>> /\ S!Moves(c, q)
  BY DEF S!L1ReadsState, S!L2ReadsState, S!At, GoesKnowing
<1>2. run[c].phase \in {"check", "offload-l2"}
  BY DEF S!L1ReadsState, S!L2ReadsState, S!At
<1>3. q.phase = ph /\ q.bounds = ranges
  <2>1. ph \in AnyPhase
    BY PhasesKnown, Zenon
  <2> HIDE DEF ph
  <2>2. q.phase = ph
    BY <1>0, <2>1, WorkBounds
  <2>3. q.bounds = ranges
    BY <1>0, <2>1, WorkBounds, ZenonT(40)
  <2> QED BY <2>2, <2>3
<1>4. q.task = run[c].task
  <2>1. ph \in AnyPhase
    BY PhasesKnown, Zenon
  <2> HIDE DEF ph
  <2> QED BY <1>0, <2>1, WorkOfKnower, Zenon
<1> HIDE DEF q
<1>5. run'[c] = q /\ \A d \in Coroutines \ {c} : run'[d] = run[d]
  BY <1>1, WorkMoves DEF ServerTypes, RunTypes
<1>6. ASSUME NEW p, NEW t, Target(ranges, stamp[p]) = t, ServesIn(run[c], stamp[p], p, t)
      PROVE  Woken(p, t)'
  <2>1. CASE run[c].phase = "check"
    <3>1. q.phase = "timers" /\ Target(q.bounds, stamp[p]) = t
      BY <1>3, <1>6, <2>1
    <3>2. ServesIn(q, stamp'[p], p, t)
      BY <1>1, <3>1 DEF ServesIn
    <3> QED BY <1>5, <3>2, ServedBy
  <2>2. CASE run[c].phase = "offload-l2"
    <3>1. q.phase = "l2 reads" /\ Target(q.bounds, stamp[p]) = t
      BY <1>3, <1>6, <2>2
    <3>2. q.task.type = "offload-l2" /\ q.task.of = t
      BY <1>4, <1>6, <2>2 DEF ServesIn
    <3>3. ServesIn(q, stamp'[p], p, t)
      BY <1>1, <3>1, <3>2 DEF ServesIn
    <3> QED BY <1>5, <3>3, ServedBy
  <2> QED BY <1>2, <2>1, <2>2
<1> QED BY <1>1, <1>5, <1>6, QueuedStays, ReachMoved

(* the timers of the MMDs whose entries have no node *)
LEMMA DueReaches ==
  ASSUME ServerTypes, S!EntriesReachL2, NEW c \in Coroutines, S!L1SetsTimers(c) \/ S!L15SetsTimers(c)
  PROVE  S!EntriesReachL2'
<1> USE DEF S!files, S!state, S!work, S!ghosts
<1> DEFINE bs == IF run[c].phase = "timers" THEN run[c].bounds ELSE ranges
<1>1. /\ UNCHANGED <<records, nodes, stamp, ranges, queue>> /\ S!Ends(c)
      /\ timers' = timers \cup S!DueMmds(bs) /\ stranded' = stranded \ S!DueMmds(bs)
  BY DEF S!L1SetsTimers, S!L15SetsTimers, S!SetsTimers, S!At
<1>2. run[c].phase \in {"timers", "backfilled"} /\ WorkOk(run[c], records)
  BY DEF S!L1SetsTimers, S!L15SetsTimers, S!At, ServerTypes, RunTypes
<1>3. run[c].task.type # "offload-l2"
  BY <1>2, PhasesKnown DEF WorkOk
<1>4. \A d \in Coroutines \ {c} : run'[d] = run[d]
  BY <1>1, WorkMoves DEF ServerTypes, RunTypes, S!Ends
<1>5. ASSUME NEW p \in records \ nodes, NEW t \in Tasks,
             Target(ranges, stamp[p]) = t, ServesIn(run[c], stamp[p], p, t)
      PROVE  Woken(p, t)'
  <2>1. Target(bs, stamp[p]) = t
    BY <1>2, <1>3, <1>5 DEF ServesIn
  <2> HIDE DEF bs
  <2>2. p \in S!NullsOf(bs, t)
    BY <1>5, <2>1, NullsIs
  <2>3. t \in timers'
    BY <1>1, <2>2 DEF S!DueMmds
  <2> QED BY <2>3 DEF Woken
<1> HIDE DEF bs
<1>6. timers \subseteq timers' /\ queue \subseteq queue' /\ stranded \subseteq stranded' \cup timers'
  BY <1>1
<1> QED BY <1>1, <1>4, <1>5, <1>6, QueuedStays, ReachMoved

(* an MMD whose entries had no node is stranded, unless its timer was set before the failure *)
LEMMA TimersFailReach ==
  ASSUME ServerTypes, S!EntriesReachL2, NEW c \in Coroutines, S!TimersFail(c)
  PROVE  S!EntriesReachL2'
<1> USE DEF S!files, S!state, S!work, S!ghosts
<1> DEFINE bs == IF S!At(c, "timers") THEN run[c].bounds ELSE ranges
           due == S!DueMmds(bs)
<1>1. UNCHANGED <<records, nodes, stamp, ranges>>
  BY DEF S!TimersFail
<1>2. run[c].phase \in {"check", "timers", "backfilled"} /\ WorkOk(run[c], records)
  BY DEF S!TimersFail, ServerTypes, RunTypes
<1>3. run[c].task.type # "offload-l2"
  BY <1>2, PhasesKnown DEF WorkOk
<1>4. ASSUME NEW p \in records \ nodes, NEW t \in Tasks,
             Target(ranges, stamp[p]) = t, ServesIn(run[c], stamp[p], p, t)
      PROVE  t \in due
  <2>1. Target(bs, stamp[p]) = t
    BY <1>2, <1>3, <1>4 DEF ServesIn, S!At
  <2> HIDE DEF bs
  <2>2. p \in S!NullsOf(bs, t)
    BY <1>4, <2>1, NullsIs
  <2> QED BY <2>2 DEF S!DueMmds
<1>5. \E set \in SUBSET due : timers' = timers \cup set /\ S!BreaksOff(c, due \ set)
  BY DEF S!TimersFail
<1> HIDE DEF due
<1>6. PICK set \in SUBSET due : timers' = timers \cup set /\ S!BreaksOff(c, due \ set)
  BY <1>5
<1>7. queue \subseteq queue' /\ stranded \cup (due \ set) \subseteq stranded'
  BY <1>6 DEF S!BreaksOff
<1>8. \A d \in Coroutines \ {c} : run'[d] = run[d]
  BY <1>6, BreakMoves, WorkMoves DEF ServerTypes, RunTypes, S!Ends
<1>9. ASSUME NEW p \in records \ nodes, NEW t \in Tasks \ stranded',
             Target(ranges, stamp[p]) = t, ServesIn(run[c], stamp[p], p, t)
      PROVE  Woken(p, t)'
  <2>1. t \in timers'
    BY <1>4, <1>6, <1>7, <1>9
  <2> QED BY <2>1 DEF Woken
<1>10. timers \subseteq timers' /\ stranded \subseteq stranded' \cup timers'
  BY <1>6, <1>7
<1> QED BY <1>1, <1>7, <1>8, <1>9, <1>10, QueuedStays, ReachMoved

LEMMA L2EntriesReach ==
  ASSUME ServerTypes, S!EntriesReachL2, NEW c \in Coroutines, S!L2ReadsEntries(c)
  PROVE  S!EntriesReachL2'
<1> USE DEF S!files, S!state, S!work, S!ghosts
<1> DEFINE s == S!Relevant(c)
           q == GoesSeeing(run[c], "l2 asks", s)
<1>0. WorkOk(run[c], records) /\ run[c] \in Works /\ s \in SUBSET Pairs
  BY WorkFields DEF ServerTypes, RunTypes, FileTypes, S!Relevant, S!NullsOf
<1>1. /\ UNCHANGED <<records, nodes, stamp, ranges, timers, queue, stranded>> /\ run[c].phase = "l2 reads"
      /\ IF s = {} THEN S!Ends(c) ELSE S!Moves(c, q)
  BY DEF S!L2ReadsEntries, S!At, GoesSeeing
<1>2. \A p, t : Target(run[c].bounds, stamp[p]) = t /\ run[c].task.of = t /\ p \in records \ nodes => p \in s
  BY NullsIs DEF S!Relevant
<1>3. run[c].seen = {}
  BY <1>0, <1>1 DEF WorkOk
<1> HIDE DEF s
<1>4. q.task = run[c].task /\ q.seen = s
  <2>1. "l2 asks" \in AnyPhase
    BY PhasesKnown, Zenon
  <2>2. q.task = run[c].task
    BY <1>0, <2>1, WorkOfReader, Zenon
  <2>3. q.seen = s
    BY <1>0, <2>1, WorkOfReader, Zenon
  <2> QED BY <2>2, <2>3
<1> HIDE DEF q
<1>5. \A d \in Coroutines \ {c} : run'[d] = run[d]
  BY <1>1, WorkMoves DEF ServerTypes, RunTypes, S!Ends
<1>6. s # {} => run'[c] = q
  BY <1>1, WorkMoves DEF ServerTypes, RunTypes
<1>7. ASSUME NEW p \in records \ nodes, NEW t, ServesIn(run[c], stamp[p], p, t) PROVE Woken(p, t)'
  <2>1. run[c].task.type = "offload-l2" /\ run[c].task.of = t /\ Target(run[c].bounds, stamp[p]) = t
    BY <1>1, <1>3, <1>7 DEF ServesIn
  <2>2. p \in s
    BY <1>2, <2>1
  <2>3. run'[c] = q
    BY <1>6, <2>2
  <2>4. ServesIn(q, stamp'[p], p, t)
    BY <1>4, <2>1, <2>2 DEF ServesIn
  <2> QED BY <2>3, <2>4, ServedBy
<1> QED BY <1>1, <1>5, <1>7, QueuedStays, ReachMoved

(* a run that failed sleeps, is delivered again, or was its task's last *)
LEMMA L2FailureReaches ==
  ASSUME ServerTypes, S!EntriesReachL2, NEW c \in Coroutines, S!L2Fails(c)
  PROVE  S!EntriesReachL2'
<1> USE DEF S!files, S!state, S!work, S!ghosts
<1> DEFINE u == run[c].task
           q == With("sleeping", u)
<1>0. WorkOk(run[c], records)
  BY DEF ServerTypes, RunTypes
<1>1. /\ UNCHANGED <<records, nodes, stamp, ranges, timers>> /\ S!BreaksOff(c, {})
      /\ run[c].phase \in {"offload-l2", "l2 reads", "l2 asks", "l2 mapped"}
  BY DEF S!L2Fails
<1>2. u.type = "offload-l2"
  BY <1>0, <1>1, PhasesKnown DEF WorkOk
<1>3. q.phase = "sleeping" /\ q.task = u
  <2>1. TaskOk(u) /\ u.type # "none"
    BY <1>0, <1>2 DEF WorkOk
  <2> QED BY <2>1, WorkSleeps
<1>4. S!Moves(c, q) \/ u.of \in stranded' \/ u \in queue'
  <2>1. S!BreaksOff(c, {})
    BY <1>1
  <2>2. u.try < maxRetries \/ u.try >= maxRetries
    <3>1. u.try \in Nat
      BY <1>0, WorkFields DEF ServerTasks
    <3> QED BY <3>1, ServerConstants
  <2>3. CASE u.try < maxRetries
    BY <2>1, <2>3 DEF S!BreaksOff, S!Throws, With
  <2>4. CASE u.try >= maxRetries
    BY <1>2, <2>1, <2>4 DEF S!BreaksOff, S!GivenUp, S!IsL2
  <2> QED BY <2>2, <2>3, <2>4
<1>5. queue \subseteq queue' /\ stranded \subseteq stranded'
  BY <1>1 DEF S!BreaksOff
<1>6. \A d \in Coroutines \ {c} : run'[d] = run[d]
  BY <1>1, BreakMoves, WorkMoves DEF ServerTypes, RunTypes, S!Ends
<1> HIDE DEF q
<1>7. S!Moves(c, q) => run'[c] = q
  BY WorkMoves DEF ServerTypes, RunTypes
<1>8. ASSUME NEW p, NEW t, t \notin stranded', ServesIn(run[c], stamp[p], p, t) PROVE Woken(p, t)'
  <2>1. u.of = t
    BY <1>1, <1>8 DEF ServesIn
  <2>2. CASE u \in queue'
    BY <1>2, <2>1, <2>2 DEF Woken, QueuedFor
  <2>3. CASE S!Moves(c, q)
    <3>1. ServesIn(q, stamp'[p], p, t)
      BY <1>2, <1>3, <2>1 DEF ServesIn
    <3> QED BY <1>7, <2>3, <3>1, ServedBy
  <2> QED BY <1>4, <1>8, <2>1, <2>2, <2>3
<1> QED BY <1>1, <1>5, <1>6, <1>8, QueuedStays, ReachMoved

(* the retry is queued before its lock is released; it is lost with a worker that dies in between *)
LEMMA SleepReaches ==
  ASSUME ServerTypes, S!EntriesReachL2, NEW c \in Coroutines, S!Requeues(c) \/ S!DiesAsleep(c) \/ S!Releases(c)
  PROVE  S!EntriesReachL2'
<1> USE DEF S!files, S!state, S!work, S!ghosts
<1> DEFINE u == run[c].task
           v == [u EXCEPT !.try = @ + 1]
<1>0. WorkOk(run[c], records) /\ TaskOk(u)
  BY WorkFields DEF ServerTypes, RunTypes
<1>1. /\ UNCHANGED <<records, nodes, stamp, ranges, timers>> /\ run[c].phase \in {"sleeping", "requeued"}
      /\ queue \subseteq queue' /\ stranded \subseteq stranded'
  BY DEF S!Requeues, S!DiesAsleep, S!Releases, S!At
<1>2. \A d \in Coroutines \ {c} : run'[d] = run[d]
  <2>1. \E r : S!Moves(c, r)
    BY DEF S!Requeues, S!DiesAsleep, S!Releases, S!Ends
  <2> QED BY <2>1, WorkMoves DEF ServerTypes, RunTypes
<1>3. \/ S!Requeues(c) /\ v \in queue'
      \/ S!DiesAsleep(c) /\ (u.type = "offload-l2" => u.of \in stranded')
      \/ run[c].phase = "requeued"
  <2>1. S!Requeues(c) => v \in queue'
    BY DEF S!Requeues
  <2>2. S!DiesAsleep(c) => (u.type = "offload-l2" => u.of \in stranded')
    BY <1>0 DEF S!DiesAsleep, S!IsL2, TaskOk
  <2>3. S!Releases(c) => run[c].phase = "requeued"
    BY DEF S!Releases, S!At
  <2> QED BY <2>1, <2>2, <2>3
<1>4. v.type = u.type /\ v.of = u.of
  <2> HIDE DEF u
  <2> QED BY <1>0, TaskAgain
<1> HIDE DEF v
<1>5. ASSUME NEW p, NEW t, t \notin stranded', ServesIn(run[c], stamp[p], p, t) PROVE Woken(p, t)'
  <2>1. run[c].seen = {}
    BY <1>0, <1>1 DEF WorkOk
  <2>2. u.type = "offload-l2" /\ u.of = t /\ run[c].phase = "sleeping"
    BY <1>1, <1>5, <2>1 DEF ServesIn
  <2>3. v \in queue' /\ v.type = "offload-l2" /\ v.of = t
    BY <1>3, <1>4, <1>5, <2>2
  <2> QED BY <2>3 DEF Woken, QueuedFor
<1> QED BY <1>1, <1>2, <1>5, QueuedStays, ReachMoved

LEMMA StaleReaches ==
  ASSUME S!EntriesReachL2, NEW c \in Coroutines, S!ClaimStale(c)
  PROVE  S!EntriesReachL2'
<1> USE DEF S!files, S!state, S!work, S!ghosts
<1>1. UNCHANGED <<run, records, nodes, stamp, ranges, timers, stranded>> /\ queue \subseteq queue'
  BY DEF S!ClaimStale
<1>2. \A t : QueuedFor(t) => QueuedFor(t)'
  BY <1>1, QueueGrows
<1> QED BY <1>1, <1>2, ReachUnmoved

LEMMA L2MapReaches ==
  ASSUME ServerTypes, S!EntriesReachL2, NEW c \in Coroutines, S!L2Maps(c)
  PROVE  S!EntriesReachL2'
<1> USE DEF S!files, S!state, S!work, S!ghosts
<1> DEFINE q == Goes(run[c], "l2 mapped")
<1>0. WorkOk(run[c], records) /\ run[c] \in Works
  BY WorkFields DEF ServerTypes, RunTypes
<1>1. /\ UNCHANGED <<records, stamp, ranges, timers, queue, stranded>> /\ run[c].phase = "l2 asks"
      /\ nodes \subseteq nodes' /\ S!Moves(c, q)
  BY DEF S!L2Maps, S!At, Goes
<1>2. q.task = run[c].task /\ q.seen = run[c].seen
  <2>1. "l2 mapped" \in AnyPhase
    BY PhasesKnown, Zenon
  <2>2. q.task = run[c].task
    BY <1>0, <2>1, WorkPhase
  <2>3. q.seen = run[c].seen
    BY <1>0, <2>1, WorkPhase, Zenon
  <2> QED BY <2>2, <2>3
<1> HIDE DEF q
<1>3. run'[c] = q /\ \A d \in Coroutines \ {c} : run'[d] = run[d]
  BY <1>1, WorkMoves DEF ServerTypes, RunTypes
<1>4. ASSUME NEW p, NEW t, ServesIn(run[c], stamp[p], p, t) PROVE Woken(p, t)'
  <2>1. ServesIn(q, stamp'[p], p, t)
    BY <1>1, <1>2, <1>4 DEF ServesIn
  <2> QED BY <1>3, <2>1, ServedBy
<1> QED BY <1>1, <1>3, <1>4, QueuedStays, ReachMoved

LEMMA L2EndReaches ==
  ASSUME ServerTypes, S!EntriesReachL2, NEW c \in Coroutines, S!L2Ends(c)
  PROVE  S!EntriesReachL2'
<1> USE DEF S!files, S!state, S!work, S!ghosts
<1>1. /\ UNCHANGED <<records, nodes, stamp, ranges, queue>> /\ run[c].phase = "l2 mapped" /\ S!Ends(c)
      /\ run[c].seen \ nodes # {} => run[c].task.of \in timers'
      /\ timers \subseteq timers' /\ stranded \subseteq stranded' \cup timers'
  BY DEF S!L2Ends, S!At, S!Remaining, S!SetsTimers
<1>2. \A d \in Coroutines \ {c} : run'[d] = run[d]
  BY <1>1, WorkMoves DEF ServerTypes, RunTypes, S!Ends
<1>3. ASSUME NEW p \in records \ nodes, NEW t, ServesIn(run[c], stamp[p], p, t) PROVE Woken(p, t)'
  <2>1. run[c].task.of = t /\ p \in run[c].seen
    BY <1>1, <1>3 DEF ServesIn
  <2>2. t \in timers'
    BY <1>1, <2>1
  <2> QED BY <2>2 DEF Woken
<1>4. queue \subseteq queue'
  BY <1>1
<1> QED BY <1>1, <1>2, <1>3, <1>4, QueuedStays, ReachMoved

LEMMA ReachKept ==
  ASSUME ServerInv, S!Next
  PROVE  S!EntriesReachL2'
<1>0. ServerTypes /\ S!EntriesReachL2
  BY DEF ServerInv
<1>1. S!IngestCounts \/ S!IngestPrompt \/ S!PromptQueued \/ (\E q \in Pairs : S!IngestPair(q)) => S!EntriesReachL2'
  BY <1>0, IngestionReaches
<1>2. ASSUME NEW t \in timers, S!TimerFires(t) PROVE S!EntriesReachL2'
  BY <1>0, <1>2, TimerReaches
<1>3. ASSUME NEW c \in Coroutines, NEW t \in queue, S!Begins(c, t) \/ S!SkipsOnConflict(c, t)
      PROVE  S!EntriesReachL2'
  BY <1>0, <1>3, BeginReaches, SkipReaches
<1>4. ASSUME NEW c \in Coroutines,
             \/ S!ClaimReads(c) \/ S!ClaimDeletes(c) \/ S!ClaimFails(c) \/ S!L1Fails(c) \/ S!L15Fails(c)
             \/ S!L15Locks(c)
      PROVE  S!EntriesReachL2'
  BY <1>0, <1>4, ClaimReaches
<1>5. ASSUME NEW c \in Coroutines,
             S!L1Summarises(c) \/ S!L15Writes(c) \/ S!L1ReadsState(c) \/ S!L2ReadsState(c) \/ S!L1SetsTimers(c)
             \/ S!L15SetsTimers(c)
      PROVE  S!EntriesReachL2'
  BY <1>0, <1>5, SummaryReaches, JudgmentReaches, BoundsReach, DueReaches
<1>6. ASSUME NEW c \in Coroutines, S!L2ReadsEntries(c) \/ S!L2Fails(c) \/ S!L2Maps(c) \/ S!L2Ends(c)
      PROVE  S!EntriesReachL2'
  BY <1>0, <1>6, L2EntriesReach, L2FailureReaches, L2MapReaches, L2EndReaches
<1>7. ASSUME NEW c \in Coroutines,
             S!TimersFail(c) \/ S!Requeues(c) \/ S!DiesAsleep(c) \/ S!Releases(c) \/ S!ClaimStale(c)
      PROVE  S!EntriesReachL2'
  BY <1>0, <1>7, TimersFailReach, SleepReaches, StaleReaches
<1> QED BY <1>1, <1>2, <1>3, <1>4, <1>5, <1>6, <1>7 DEF S!Next

LEMMA ServerInit ==
  ASSUME S!Init
  PROVE  ServerInv
<1>1. FileTypes
  BY DEF S!Init, FileTypes
<1>2. StateTypes
  <2>1. ranges = <<>> /\ current = NoTask /\ stateLock = "free"
    BY DEF S!Init
  <2>2. ranges \in Seq(Ranges)
    BY <2>1
  <2> QED BY <2>1, <2>2 DEF StateTypes
<1>3. WorkTypes
  BY DEF S!Init, WorkTypes
<1>4. RunTypes
  <2>1. run = [c \in Coroutines |-> S!Idle]
    BY DEF S!Init
  <2> HIDE DEF S!Idle
  <2> QED BY <2>1, IdleWork DEF RunTypes
<1>5. S!EntriesReachL2
  BY DEF S!Init, S!EntriesReachL2
<1> QED BY <1>1, <1>2, <1>3, <1>4, <1>5 DEF ServerInv, ServerTypes

LEMMA ServerStep ==
  ASSUME ServerInv, S!Next
  PROVE  ServerInv'
<1>0. ServerTypes
  BY DEF ServerInv
<1>1. FileTypes' /\ StateTypes' /\ WorkTypes' /\ RunTypes'
  BY <1>0, FilesKept, StateKept, WorksKept, RunTypesKept
<1>2. S!EntriesReachL2'
  BY ReachKept
<1> QED BY <1>1, <1>2 DEF ServerInv, ServerTypes

LEMMA ServerStutter ==
  ASSUME ServerInv, UNCHANGED serverVars
  PROVE  ServerInv'
<1>1. /\ UNCHANGED <<lines, stamp, ranges, current, stateLock, records, nodes, timers, queue, run, left,
                     clobbered, stranded>>
      /\ ServerTypes /\ S!EntriesReachL2
  BY DEF serverVars, ServerInv
<1>2. FileTypes'
  BY <1>1 DEF ServerTypes, FileTypes
<1>3. StateTypes'
  BY <1>1 DEF ServerTypes, StateTypes, Ranges
<1>4. WorkTypes'
  BY <1>1 DEF ServerTypes, WorkTypes, TaskOk, ServerTasks
<1>5. RunTypes'
  BY <1>1, WorkSame DEF ServerTypes
<1>6. S!EntriesReachL2'
  <2>1. \A t : QueuedFor(t) => QueuedFor(t)'
    BY <1>1, QueueGrows
  <2> QED BY <1>1, <2>1, ReachUnmoved
<1> QED BY <1>2, <1>3, <1>4, <1>5, <1>6 DEF ServerInv, ServerTypes

LEMMA ServerTyped ==
  ASSUME ServerInv
  PROVE  S!TypeOK
<1>1. \A k \in 1..Len(ranges) : ranges[k] \in Tasks \cup {NoTask, S!Pending}
  BY DEF ServerInv, ServerTypes, StateTypes, Ranges
<1>2. /\ lines \subseteq Pairs /\ nodes \subseteq records /\ records \subseteq Pairs
      /\ left \subseteq Pairs /\ clobbered \subseteq Pairs
  BY DEF ServerInv, ServerTypes, FileTypes
<1>3. current \in Tasks \cup {NoTask} /\ stateLock \in {"free", S!Ingestion} \cup Coroutines
  BY DEF ServerInv, ServerTypes, StateTypes
<1>4. timers \subseteq {"L1"} \cup Tasks /\ stranded \subseteq Tasks
  BY DEF ServerInv, ServerTypes, WorkTypes
<1> QED BY <1>1, <1>2, <1>3, <1>4 DEF S!TypeOK

ServerHolds == focus = "server" => ServerInv

LEMMA ServerEverywhere == Spec => []ServerHolds
<1>1. Init => ServerHolds
  BY ServerInit DEF Init, ServerHolds
<1>2. ServerHolds /\ [Next]_vars => ServerHolds'
  <2> SUFFICES ASSUME ServerHolds, [Next]_vars, focus' = "server" PROVE ServerInv'
    BY DEF ServerHolds
  <2>1. focus = "server"
    BY DEF Next, vars
  <2>2. ServerInv
    BY <2>1 DEF ServerHolds
  <2>3. S!Next \/ UNCHANGED serverVars
    BY <2>1 DEF Next, vars
  <2> QED BY <2>2, <2>3, ServerStep, ServerStutter
<1> QED BY <1>1, <1>2, PTL DEF Spec

(* OffloadServer: an entry of a task always has a timer, a task or a run that  *)
(* will bring L2 to it, however L1, L1.5 and L2 interleave on files they do    *)
(* not lock together, for each MMD that has not lost its trigger since its     *)
(* timer was last set: to a lock conflict, the end of the retries, a worker    *)
(* that died before it queued one, a scanner that took the timer and queued    *)
(* nothing, or an L1 or L1.5 that broke off between its write and the timers.  *)
THEOREM EntriesAreServed ==
  Spec => []EntriesReachL2
<1>1. ServerHolds => EntriesReachL2
  BY DEF ServerHolds, ServerInv, EntriesReachL2
<1> QED BY <1>1, ServerEverywhere, PTL

-----------------------------------------------------------------------------
(* Sequences of messages *)

(* messages of s, perhaps edited, in their order *)
Follows(r, s, g) ==
  /\ g \in [1..Len(r) -> 1..Len(s)]
  /\ \A i, j \in 1..Len(r) : i < j => g[i] < g[j]
  /\ \A i \in 1..Len(r) : r[i].kind = s[g[i]].kind /\ r[i].at = s[g[i]].at

LEMMA KeptFollows ==
  ASSUME NEW D, NEW s \in Seq(D), NEW keep
  PROVE  /\ Kept(s, keep) \in Seq(D)
         /\ \E g : /\ Follows(Kept(s, keep), s, g)
                   /\ \A i \in 1..Len(Kept(s, keep)) : Kept(s, keep)[i] = s[g[i]] /\ g[i] \in keep
                   /\ \A k \in (1..Len(s)) \cap keep : \E i \in 1..Len(Kept(s, keep)) : g[i] = k
<1> DEFINE r == Kept(s, keep)
<1>1. r \in Seq(D) /\ \E g : Places(g, s, keep, Len(s), r)
  BY KeptPlaces
<1>2. PICK g : Places(g, s, keep, Len(s), r)
  BY <1>1
<1> HIDE DEF r
<1>3. g \in [1..Len(r) -> (1..Len(s)) \cap keep] /\ Len(r) \in Nat /\ Len(s) \in Nat
  BY <1>1, <1>2 DEF Places
<1>4. \A i \in 1..Len(r) : g[i] \in keep /\ g[i] \in 1..Len(s) /\ r[i] = s[g[i]]
  BY <1>2, <1>3 DEF Places
<1>5. g \in [1..Len(r) -> 1..Len(s)]
  BY <1>3
<1>6. Follows(r, s, g)
  BY <1>2, <1>4, <1>5, Zenon DEF Places, Follows
<1>7. \A k \in (1..Len(s)) \cap keep : \E i \in 1..Len(r) : g[i] = k
  BY <1>2, Zenon DEF Places
<1>8. r \in Seq(D) /\ \E h : /\ Follows(r, s, h)
                             /\ \A i \in 1..Len(r) : r[i] = s[h[i]] /\ h[i] \in keep
                             /\ \A k \in (1..Len(s)) \cap keep : \E i \in 1..Len(r) : h[i] = k
  BY <1>1, <1>4, <1>6, <1>7, Zenon
<1> QED BY <1>8, Zenon DEF r

(* the messages from a cut on *)
LEMMA FromFacts ==
  ASSUME NEW D, NEW ms \in Seq(D), NEW k \in 0..Len(ms)
  PROVE  /\ E!From(ms, k) \in Seq(D) /\ Len(E!From(ms, k)) = Len(ms) - k
         /\ \A i \in 1..Len(E!From(ms, k)) : i + k \in 1..Len(ms) /\ E!From(ms, k)[i] = ms[i + k]
<1>1. Len(ms) \in Nat
  OBVIOUS
<1>2. E!From(ms, k) = SubSeq(ms, k + 1, Len(ms))
  BY DEF E!From
<1>3. /\ SubSeq(ms, k + 1, Len(ms)) \in Seq(D)
      /\ Len(SubSeq(ms, k + 1, Len(ms))) = Len(ms) - k
      /\ \A i \in 1..(Len(ms) - k) : SubSeq(ms, k + 1, Len(ms))[i] = ms[i + k] /\ i + k \in 1..Len(ms)
  BY <1>1
<1> QED BY <1>1, <1>2, <1>3

LEMMA MinOfIs ==
  ASSUME NEW V, V \subseteq Nat, V # {}
  PROVE  E!MinOf(V) \in V /\ \A y \in V : E!MinOf(V) <= y
<1>1. \E x \in V : \A y \in V : x <= y
  BY LeastExists, Zenon
<1> QED BY <1>1, Zenon DEF E!MinOf

LEMMA MaxOfIs ==
  ASSUME NEW b \in Nat, NEW V, V \subseteq 0..b, V # {}
  PROVE  E!MaxOf(V) \in V /\ \A y \in V : y <= E!MaxOf(V)
<1> DEFINE W == {b - v : v \in V}
<1>1. W \subseteq Nat /\ W # {}
  <2>1. \A v \in V : b - v \in Nat
    OBVIOUS
  <2>2. PICK v \in V : TRUE
    OBVIOUS
  <2>3. b - v \in W
    OBVIOUS
  <2> QED BY <2>1, <2>3
<1>2. PICK m \in W : \A w \in W : m <= w
  <2> HIDE DEF W
  <2> QED BY <1>1, LeastExists
<1>3. PICK x \in V : m = b - x
  OBVIOUS
<1>4. \A y \in V : x >= y
  <2> TAKE y \in V
  <2>1. b - y \in W
    OBVIOUS
  <2>2. b - x <= b - y
    <3> HIDE DEF W
    <3> QED BY <1>2, <1>3, <2>1
  <2>3. x \in Nat /\ y \in Nat /\ b \in Nat
    OBVIOUS
  <2> HIDE DEF W
  <2> QED BY <2>2, <2>3
<1>5. E!MaxOf(V) \in V /\ \A y \in V : E!MaxOf(V) >= y
  <2>1. \E z \in V : \A y \in V : z >= y
    BY <1>4
  <2> QED BY <2>1, Zenon DEF E!MaxOf
<1> QED BY <1>5

LEMMA SeqDomain ==
  ASSUME NEW D, NEW ms \in Seq(D)
  PROVE  Len(ms) \in Nat /\ DOMAIN ms = 1..Len(ms) /\ \A i \in 1..Len(ms) : ms[i] \in D
OBVIOUS

(* one more message; r is ms with m after the first k *)
LEMMA InsertFacts ==
  ASSUME NEW D, NEW ms \in Seq(D), NEW m \in D, NEW k \in 0..Len(ms)
  PROVE  /\ E!InsertedAt(ms, k, m) \in Seq(D) /\ Len(E!InsertedAt(ms, k, m)) = Len(ms) + 1
         /\ \A i \in 1..k : E!InsertedAt(ms, k, m)[i] = ms[i]
         /\ E!InsertedAt(ms, k, m)[k + 1] = m
         /\ \A i \in (k + 1)..Len(ms) : E!InsertedAt(ms, k, m)[i + 1] = ms[i]
<1> DEFINE a == SubSeq(ms, 1, k)
           b == SubSeq(ms, k + 1, Len(ms))
<1>1. Len(ms) \in Nat /\ k \in Nat /\ k <= Len(ms)
  OBVIOUS
<1>2. a \in Seq(D) /\ Len(a) = k /\ \A i \in 1..k : a[i] = ms[i]
  BY <1>1
<1>3. b \in Seq(D) /\ Len(b) = Len(ms) - k /\ \A i \in 1..(Len(ms) - k) : b[i] = ms[k + i]
  BY <1>1
<1>4. E!InsertedAt(ms, k, m) = (a \o <<m>>) \o b
  BY DEF E!InsertedAt
<1> HIDE DEF a, b
<1> DEFINE c == a \o <<m>>
<1>5. c \in Seq(D) /\ Len(c) = k + 1 /\ (\A i \in 1..k : c[i] = ms[i]) /\ c[k + 1] = m
  BY <1>1, <1>2
<1> HIDE DEF c
<1> DEFINE r == c \o b
<1>6. r \in Seq(D) /\ Len(r) = Len(ms) + 1
  <2>1. r \in Seq(D) /\ Len(r) = Len(c) + Len(b)
    BY <1>3, <1>5, ConcatFacts
  <2> HIDE DEF r
  <2> QED BY <1>1, <1>3, <1>5, <2>1
<1>7. /\ \A i \in 1..(k + 1) : r[i] = c[i]
      /\ \A i \in 1..(Len(ms) - k) : r[k + 1 + i] = b[i]
  <2>1. c \in Seq(D) /\ b \in Seq(D)
    BY <1>3, <1>5
  <2>2. \A i \in 1..Len(c) : (c \o b)[i] = c[i] /\ i \in 1..Len(c \o b)
    BY <2>1, ConcatFacts
  <2>3. \A i \in 1..Len(b) : (c \o b)[Len(c) + i] = b[i] /\ Len(c) + i \in 1..Len(c \o b)
    BY <2>1, ConcatFacts
  <2> HIDE DEF r
  <2>4. (\A i \in 1..Len(c) : r[i] = c[i]) /\ (\A i \in 1..Len(b) : r[Len(c) + i] = b[i])
    BY <2>2, <2>3, Zenon DEF r
  <2> QED BY <1>3, <1>5, <2>4
<1>8. \A i \in 1..(Len(ms) - k) : r[k + 1 + i] = b[i]
  BY <1>7
<1>9. E!InsertedAt(ms, k, m) = r
  BY <1>4 DEF c
<1> HIDE DEF r
<1>10. \A i \in 1..k : r[i] = ms[i]
  BY <1>1, <1>5, <1>7
<1>11. r[k + 1] = m
  BY <1>1, <1>5, <1>7
<1>12. ASSUME NEW i \in (k + 1)..Len(ms) PROVE r[i + 1] = ms[i]
  <2>1. i - k \in 1..(Len(ms) - k) /\ k + 1 + (i - k) = i + 1 /\ k + (i - k) = i
    BY <1>1
  <2>2. r[k + 1 + (i - k)] = b[i - k] /\ b[i - k] = ms[k + (i - k)]
    BY <2>1, <1>8, <1>3
  <2> QED BY <2>1, <2>2
<1> QED BY <1>6, <1>9, <1>10, <1>11, <1>12

LEMMA MoreSeq ==
  ASSUME NEW D, NEW D2, D \subseteq D2, NEW ms \in Seq(D)
  PROVE  ms \in Seq(D2)
OBVIOUS

-----------------------------------------------------------------------------
(* The server's conversations *)

CKinds == {"system", "user", "assistant", "result", "mmd", "history mmd"}
CRecords(n) ==
  [kind : CKinds, text : BOOLEAN, uses : SUBSET (1..n), results : SUBSET (1..n), offloaded : BOOLEAN]
CMessages(f, n) ==
  {m \in CRecords(n) : /\ m.kind = "result" <=> m.results # {}
                       /\ m.uses # {} => m.kind = "assistant"
                       /\ f # "merged" => \A x, y \in m.results : x = y}

(* no result comes twice, and no call is made twice *)
Apart(ms) ==
  \A i, j \in 1..Len(ms) : (\E x : x \in ms[i].results /\ x \in ms[j].results) => i = j
UsesApart(ms) ==
  \A i, j \in 1..Len(ms) : (\E x : x \in ms[i].uses /\ x \in ms[j].uses) => i = j
(* the results at i are of the calls at j, and nothing but results comes between *)
Answers(f, ms, i, j) ==
  /\ ms[i].results \subseteq ms[j].uses /\ (f = "merged" => ms[i].results = ms[j].uses)
  /\ \A k \in (j + 1)..i : ms[k].results # {}
Linked(f, ms) == \A i \in 1..Len(ms) : ms[i].results # {} => \E j \in 1..(i - 1) : Answers(f, ms, i, j)
Answered(ms) == \A i \in 1..Len(ms) : \A x \in ms[i].uses : \E j \in 1..Len(ms) : x \in ms[j].results
Talks(f, n, ms) == ms \in Seq(CMessages(f, n)) /\ Apart(ms)
Complete(f, ms) == UsesApart(ms) /\ Linked(f, ms) /\ Answered(ms)

LEMMA CFields ==
  ASSUME NEW f, NEW n \in Nat, NEW m \in CMessages(f, n)
  PROVE  /\ m \in CRecords(n) /\ m.kind \in CKinds /\ m.text \in BOOLEAN /\ m.offloaded \in BOOLEAN
         /\ m.uses \subseteq 1..n /\ m.results \subseteq 1..n
         /\ m.kind = "result" <=> m.results # {}
         /\ m.uses # {} => m.kind = "assistant"
         /\ m.uses = {} \/ m.results = {}
         /\ f # "merged" => \A x, y \in m.results : x = y
BY DEF CMessages, CRecords

(* r is of messages of s in their order, with the calls that are left *)
Derives(r, s, g, stays) ==
  /\ g \in [1..Len(r) -> 1..Len(s)]
  /\ \A i, j \in 1..Len(r) : i < j => g[i] < g[j]
  /\ \A i \in 1..Len(r) : /\ r[i].kind = s[g[i]].kind
                          /\ r[i].results = s[g[i]].results \cap stays
                          /\ r[i].uses = s[g[i]].uses \cap stays
  /\ \A i \in 1..Len(s) : (\E x \in stays : x \in s[i].results \/ x \in s[i].uses)
                            => \E k \in 1..Len(r) : g[k] = i

LEMMA DerivedComplete ==
  ASSUME NEW f, NEW n \in Nat, NEW s \in Seq(CMessages(f, n)), NEW r \in Seq(CMessages(f, n)), NEW g, NEW stays,
         Derives(r, s, g, stays), Apart(s), Complete(f, s)
  PROVE  Apart(r) /\ Complete(f, r)
<1>1. /\ Len(r) \in Nat /\ Len(s) \in Nat
      /\ \A i \in 1..Len(r) : r[i] \in CMessages(f, n) /\ g[i] \in 1..Len(s)
      /\ \A i \in 1..Len(s) : s[i] \in CMessages(f, n)
      /\ \A i, j \in 1..Len(r) : i < j => g[i] < g[j]
      /\ \A i \in 1..Len(r) : /\ r[i].kind = s[g[i]].kind
                              /\ r[i].results = s[g[i]].results \cap stays
                              /\ r[i].uses = s[g[i]].uses \cap stays
      /\ \A i \in 1..Len(s) : (\E x \in stays : x \in s[i].results \/ x \in s[i].uses)
                                => \E k \in 1..Len(r) : g[k] = i
  BY SMTT(30) DEF Derives
<1>2. \A i, j \in 1..Len(r) : g[i] = g[j] => i = j
  <2> SUFFICES ASSUME NEW i \in 1..Len(r), NEW j \in 1..Len(r), g[i] = g[j] PROVE i = j
    OBVIOUS
  <2>1. ~(i < j) /\ ~(j < i)
    BY <1>1
  <2> QED BY <2>1
<1>3. Apart(r)
  <2> SUFFICES ASSUME NEW i \in 1..Len(r), NEW j \in 1..Len(r), NEW x, x \in r[i].results, x \in r[j].results
               PROVE  i = j
    BY DEF Apart
  <2>1. x \in s[g[i]].results /\ x \in s[g[j]].results /\ g[i] \in 1..Len(s) /\ g[j] \in 1..Len(s)
    BY <1>1
  <2>2. g[i] = g[j]
    BY <2>1, Zenon DEF Apart
  <2> QED BY <1>2, <2>2
<1>4. UsesApart(r)
  <2> SUFFICES ASSUME NEW i \in 1..Len(r), NEW j \in 1..Len(r), NEW x, x \in r[i].uses, x \in r[j].uses
               PROVE  i = j
    BY DEF UsesApart
  <2>1. x \in s[g[i]].uses /\ x \in s[g[j]].uses /\ g[i] \in 1..Len(s) /\ g[j] \in 1..Len(s)
    BY <1>1
  <2>2. g[i] = g[j]
    BY <2>1, Zenon DEF UsesApart, Complete
  <2> QED BY <1>2, <2>2
<1>5. Linked(f, r)
  <2> SUFFICES ASSUME NEW i \in 1..Len(r), r[i].results # {} PROVE \E j \in 1..(i - 1) : Answers(f, r, i, j)
    BY DEF Linked
  <2>1. PICK x : x \in r[i].results
    OBVIOUS
  <2>2. g[i] \in 1..Len(s) /\ x \in s[g[i]].results /\ x \in stays
    BY <1>1, <2>1
  <2>3. PICK b \in 1..(g[i] - 1) : Answers(f, s, g[i], b)
    BY <2>2, Zenon DEF Complete, Linked
  <2>4. b \in 1..Len(s) /\ b < g[i] /\ x \in s[b].uses
    BY <2>2, <2>3, <1>1 DEF Answers
  <2>5. PICK j \in 1..Len(r) : g[j] = b
    BY <1>1, <2>2, <2>4
  <2>6. j \in 1..(i - 1)
    <3>1. ~(i < j) /\ i # j
      BY <1>1, <2>4, <2>5
    <3> QED BY <3>1
  <2>7. ASSUME NEW k \in (j + 1)..i PROVE r[k].results # {}
    <3>1. k \in 1..Len(r) /\ j < k /\ (k < i \/ k = i)
      BY <2>6, <2>7, <1>1
    <3>2. b < g[k] /\ g[k] <= g[i] /\ g[k] \in 1..Len(s)
      BY <3>1, <1>1, <2>5
    <3>3. g[k] \in (b + 1)..g[i]
      BY <3>2, <2>4, <2>2
    <3>4. s[g[k]].results # {}
      BY <3>3, <2>3 DEF Answers
    <3>5. s[g[k]].kind = "result"
      BY <3>2, <3>4, <1>1, CFields
    <3>6. r[k] \in CMessages(f, n) /\ r[k].kind = "result"
      BY <3>1, <3>5, <1>1
    <3> QED BY <3>6, CFields
  <2>8. r[i].results \subseteq r[j].uses /\ (f = "merged" => r[i].results = r[j].uses)
    BY <1>1, <2>3, <2>5, ZenonT(40) DEF Answers
  <2> QED BY <2>6, <2>7, <2>8 DEF Answers
<1>6. Answered(r)
  <2> SUFFICES ASSUME NEW i \in 1..Len(r), NEW x \in r[i].uses PROVE \E j \in 1..Len(r) : x \in r[j].results
    BY DEF Answered
  <2>1. x \in stays /\ x \in s[g[i]].uses /\ g[i] \in 1..Len(s)
    BY <1>1
  <2>2. PICK b \in 1..Len(s) : x \in s[b].results
    BY <2>1, Zenon DEF Complete, Answered
  <2>3. PICK j \in 1..Len(r) : g[j] = b
    BY <1>1, <2>1, <2>2
  <2>4. x \in r[j].results
    BY <1>1, <2>1, <2>2, <2>3
  <2> QED BY <2>4
<1> QED BY <1>3, <1>4, <1>5, <1>6 DEF Complete

(* without the links, for a format whose calls are beside the content *)
LEMMA DerivedApart ==
  ASSUME NEW s, NEW r, NEW g, Len(r) \in Nat, Len(s) \in Nat, Apart(s),
         g \in [1..Len(r) -> 1..Len(s)],
         \A i, j \in 1..Len(r) : i < j => g[i] < g[j],
         \A i \in 1..Len(r) : r[i].results \subseteq s[g[i]].results
  PROVE  Apart(r)
<1> SUFFICES ASSUME NEW i \in 1..Len(r), NEW j \in 1..Len(r), NEW x, x \in r[i].results, x \in r[j].results
             PROVE  i = j
  BY DEF Apart
<1>1. x \in s[g[i]].results /\ x \in s[g[j]].results /\ g[i] \in 1..Len(s) /\ g[j] \in 1..Len(s)
  OBVIOUS
<1>2. g[i] = g[j]
  BY <1>1, Zenon DEF Apart
<1>3. ~(i < j) /\ ~(j < i)
  BY <1>2
<1> QED BY <1>3

(* where the others stand when one message comes in *)
InsertPlace(i, k) == IF i <= k THEN i ELSE i + 1

LEMMA InsertPlaces ==
  ASSUME NEW D, NEW ms \in Seq(D), NEW m \in D, NEW k \in 0..Len(ms)
  PROVE  /\ C!InsertedAt(ms, k, m) \in Seq(D) /\ Len(C!InsertedAt(ms, k, m)) = Len(ms) + 1
         /\ C!InsertedAt(ms, k, m)[k + 1] = m /\ k + 1 \in 1..(Len(ms) + 1)
         /\ \A i \in 1..Len(ms) : /\ InsertPlace(i, k) \in 1..(Len(ms) + 1)
                                  /\ C!InsertedAt(ms, k, m)[InsertPlace(i, k)] = ms[i]
         /\ \A i, j \in 1..Len(ms) : i < j => InsertPlace(i, k) < InsertPlace(j, k)
         /\ \A j \in 1..(Len(ms) + 1) : j = k + 1 \/ \E i \in 1..Len(ms) : InsertPlace(i, k) = j
<1> DEFINE r == E!InsertedAt(ms, k, m)
<1>1. C!InsertedAt(ms, k, m) = r
  BY DEF C!InsertedAt, E!InsertedAt
<1>2. /\ r \in Seq(D) /\ Len(r) = Len(ms) + 1
      /\ \A i \in 1..k : r[i] = ms[i]
      /\ r[k + 1] = m
      /\ \A i \in (k + 1)..Len(ms) : r[i + 1] = ms[i]
  <2>1. r \in Seq(D) /\ Len(r) = Len(ms) + 1
    BY InsertFacts
  <2>2. \A i \in 1..k : r[i] = ms[i]
    BY InsertFacts
  <2>3. r[k + 1] = m
    BY InsertFacts
  <2>4. \A i \in (k + 1)..Len(ms) : r[i + 1] = ms[i]
    BY InsertFacts
  <2> HIDE DEF r
  <2> QED BY <2>1, <2>2, <2>3, <2>4
<1>3. Len(ms) \in Nat /\ k \in Nat /\ k <= Len(ms)
  OBVIOUS
<1> HIDE DEF r
<1>4. \A i \in 1..Len(ms) : InsertPlace(i, k) \in 1..(Len(ms) + 1) /\ r[InsertPlace(i, k)] = ms[i]
  BY <1>2, <1>3 DEF InsertPlace
<1>5. \A i, j \in 1..Len(ms) : i < j => InsertPlace(i, k) < InsertPlace(j, k)
  BY <1>3 DEF InsertPlace
<1>6. ASSUME NEW j \in 1..(Len(ms) + 1), j # k + 1 PROVE \E i \in 1..Len(ms) : InsertPlace(i, k) = j
  <2>1. CASE j <= k
    <3>1. j \in 1..Len(ms) /\ InsertPlace(j, k) = j
      BY <2>1, <1>3 DEF InsertPlace
    <3> QED BY <3>1
  <2>2. CASE ~(j <= k)
    <3>1. j - 1 \in 1..Len(ms) /\ ~(j - 1 <= k) /\ (j - 1) + 1 = j
      BY <2>2, <1>3, <1>6
    <3>2. InsertPlace(j - 1, k) = j
      BY <3>1 DEF InsertPlace
    <3> QED BY <3>1, <3>2
  <2> QED BY <2>1, <2>2
<1>7. k + 1 \in 1..(Len(ms) + 1)
  BY <1>3
<1> QED BY <1>1, <1>2, <1>4, <1>5, <1>6, <1>7

(* a map comes in, and not before a result *)
LEMMA InsertTalks ==
  ASSUME NEW f, NEW n \in Nat, NEW ms, Talks(f, n, ms), NEW m \in CMessages(f, n),
         m.uses = {}, m.results = {}, NEW k \in 0..Len(ms)
  PROVE  /\ Talks(f, n, C!InsertedAt(ms, k, m))
         /\ Complete(f, ms) /\ (k < Len(ms) => ms[k + 1].results = {})
              => Complete(f, C!InsertedAt(ms, k, m))
         /\ \A i \in 1..Len(C!InsertedAt(ms, k, m)) :
              \/ C!InsertedAt(ms, k, m)[i] = m
              \/ \E j \in 1..Len(ms) : C!InsertedAt(ms, k, m)[i] = ms[j]
<1> DEFINE r == C!InsertedAt(ms, k, m)
           h(i) == InsertPlace(i, k)
<1>1. ms \in Seq(CMessages(f, n)) /\ Len(ms) \in Nat /\ k \in Nat /\ k <= Len(ms)
  BY SeqDomain DEF Talks
<1>2. /\ r \in Seq(CMessages(f, n)) /\ Len(r) = Len(ms) + 1
      /\ r[k + 1] = m /\ k + 1 \in 1..Len(r)
      /\ \A i \in 1..Len(ms) : h(i) \in 1..Len(r) /\ r[h(i)] = ms[i]
      /\ \A i, j \in 1..Len(ms) : i < j => h(i) < h(j)
      /\ \A j \in 1..Len(r) : j = k + 1 \/ \E i \in 1..Len(ms) : h(i) = j
  <2> DEFINE D == CMessages(f, n)
  <2>1. ms \in Seq(D) /\ m \in D /\ k \in 0..Len(ms)
    BY <1>1
  <2> HIDE DEF D
  <2>2. r \in Seq(D) /\ Len(r) = Len(ms) + 1
    BY <2>1, InsertPlaces
  <2>3. r[k + 1] = m /\ k + 1 \in 1..(Len(ms) + 1)
    BY <2>1, InsertPlaces
  <2>4. \A i \in 1..Len(ms) : h(i) \in 1..(Len(ms) + 1) /\ r[h(i)] = ms[i]
    BY <2>1, InsertPlaces
  <2>5. \A i, j \in 1..Len(ms) : i < j => h(i) < h(j)
    BY <2>1, InsertPlaces
  <2>6. \A j \in 1..(Len(ms) + 1) : j = k + 1 \/ \E i \in 1..Len(ms) : h(i) = j
    BY <2>1, InsertPlaces
  <2> HIDE DEF r, h
  <2> QED BY <2>2, <2>3, <2>4, <2>5, <2>6 DEF D
<1>3. \A i \in 1..Len(ms) : (i <= k => h(i) = i) /\ (~(i <= k) => h(i) = i + 1)
  BY DEF InsertPlace
<1> HIDE DEF r, h
<1>4. \A i \in 1..Len(r) : r[i] = m \/ \E j \in 1..Len(ms) : r[i] = ms[j]
  <2> TAKE i \in 1..Len(r)
  <2>1. CASE i = k + 1
    BY <2>1, <1>2
  <2>2. CASE i # k + 1
    <3>1. PICK j \in 1..Len(ms) : h(j) = i
      BY <2>2, <1>2
    <3> QED BY <3>1, <1>2
  <2> QED BY <2>1, <2>2
<1>5. \A i \in 1..Len(r) : r[i].results # {} \/ r[i].uses # {} => i # k + 1
  BY <1>2
<1>6. Apart(r)
  <2> SUFFICES ASSUME NEW i \in 1..Len(r), NEW j \in 1..Len(r), NEW x, x \in r[i].results, x \in r[j].results
               PROVE  i = j
    BY DEF Apart
  <2>1. PICK a \in 1..Len(ms) : h(a) = i
    BY <1>2, <1>5
  <2>2. PICK b \in 1..Len(ms) : h(b) = j
    BY <1>2, <1>5
  <2>3. x \in ms[a].results /\ x \in ms[b].results
    BY <1>2, <2>1, <2>2
  <2>4. a = b
    BY <2>3, Zenon DEF Talks, Apart
  <2> QED BY <2>1, <2>2, <2>4
<1>7. ASSUME Complete(f, ms), k < Len(ms) => ms[k + 1].results = {} PROVE Complete(f, r)
  <2>1. UsesApart(r)
    <3> SUFFICES ASSUME NEW i \in 1..Len(r), NEW j \in 1..Len(r), NEW x, x \in r[i].uses, x \in r[j].uses
                 PROVE  i = j
      BY DEF UsesApart
    <3>1. PICK a \in 1..Len(ms) : h(a) = i
      BY <1>2, <1>5
    <3>2. PICK b \in 1..Len(ms) : h(b) = j
      BY <1>2, <1>5
    <3>3. x \in ms[a].uses /\ x \in ms[b].uses
      BY <1>2, <3>1, <3>2
    <3>4. a = b
      BY <3>3, <1>7, Zenon DEF Complete, UsesApart
    <3> QED BY <3>1, <3>2, <3>4
  <2>2. Linked(f, r)
    <3> SUFFICES ASSUME NEW i \in 1..Len(r), r[i].results # {} PROVE \E j \in 1..(i - 1) : Answers(f, r, i, j)
      BY DEF Linked
    <3>1. PICK a \in 1..Len(ms) : h(a) = i
      BY <1>2, <1>5
    <3>2. ms[a].results # {}
      BY <1>2, <3>1
    <3>3. PICK b \in 1..(a - 1) : Answers(f, ms, a, b)
      BY <3>2, <1>7, Zenon DEF Complete, Linked
    <3>4. b \in 1..Len(ms) /\ b < a
      BY <3>3, <1>1
    <3>5. h(b) \in 1..Len(r) /\ h(b) < i
      BY <3>1, <3>4, <1>2
    <3>6. ASSUME NEW p \in (h(b) + 1)..i PROVE r[p].results # {}
      <4>1. p \in 1..Len(r) /\ h(b) < p /\ (p < i \/ p = i) /\ i \in Nat /\ p \in Nat
        BY <3>5, <3>6, <1>2, <1>1
      <4>2. p # k + 1
        <5>1. SUFFICES ASSUME p = k + 1 PROVE FALSE
          OBVIOUS
        <5>2. p # i
          BY <5>1, <1>5
        <5>3. b <= k /\ ~(a <= k)
          BY <5>1, <5>2, <4>1, <3>1, <3>4, <1>1, <1>3
        <5>4. k + 1 \in (b + 1)..a /\ k < Len(ms)
          BY <5>3, <3>4, <1>1
        <5> QED BY <5>4, <3>3, <1>7 DEF Answers
      <4>3. PICK q \in 1..Len(ms) : h(q) = p
        BY <4>1, <4>2, <1>2
      <4>4. ~(q < b) /\ q # b /\ ~(a < q)
        <5>1. q < b => h(q) < h(b)
          BY <1>2, <3>4
        <5>2. a < q => h(a) < h(q)
          BY <1>2
        <5> QED BY <5>1, <5>2, <4>1, <4>3, <3>1, <3>5, <1>2
      <4>5. q \in (b + 1)..a
        BY <4>4, <3>4
      <4>6. ms[q].results # {}
        BY <4>5, <3>3 DEF Answers
      <4> QED BY <4>3, <4>6, <1>2
    <3>7. r[i].results \subseteq r[h(b)].uses /\ (f = "merged" => r[i].results = r[h(b)].uses)
      <4>1. r[i] = ms[a] /\ r[h(b)] = ms[b]
        BY <3>1, <3>4, <1>2
      <4> QED BY <4>1, <3>3 DEF Answers
    <3>8. Answers(f, r, i, h(b))
      BY <3>6, <3>7 DEF Answers
    <3>9. h(b) \in 1..(i - 1)
      BY <3>5, <1>1, <1>2
    <3> QED BY <3>8, <3>9
  <2>3. Answered(r)
    <3> SUFFICES ASSUME NEW i \in 1..Len(r), NEW x \in r[i].uses PROVE \E j \in 1..Len(r) : x \in r[j].results
      BY DEF Answered
    <3>1. PICK a \in 1..Len(ms) : h(a) = i
      BY <1>2, <1>5
    <3>2. x \in ms[a].uses
      BY <1>2, <3>1
    <3>3. PICK b \in 1..Len(ms) : x \in ms[b].results
      BY <3>2, <1>7, Zenon DEF Complete, Answered
    <3> QED BY <3>3, <1>2
  <2> QED BY <2>1, <2>2, <2>3 DEF Complete
<1> QED BY <1>2, <1>4, <1>6, <1>7 DEF r, Talks

(* one part of a conversation after another *)
LEMMA ConcatTalks ==
  ASSUME NEW f, NEW n \in Nat, NEW a, NEW b, Talks(f, n, a), Talks(f, n, b),
         \A i \in 1..Len(a), j \in 1..Len(b) :
           /\ ~\E x : x \in a[i].results /\ x \in b[j].results
           /\ ~\E x : x \in a[i].uses /\ x \in b[j].uses
  PROVE  /\ Talks(f, n, a \o b)
         /\ Complete(f, a) /\ Complete(f, b) => Complete(f, a \o b)
<1> DEFINE r == a \o b
           p == Len(a)
           q == Len(b)
<1>1. /\ a \in Seq(CMessages(f, n)) /\ b \in Seq(CMessages(f, n)) /\ p \in Nat /\ q \in Nat
  BY SeqDomain DEF Talks
<1>2. r \in Seq(CMessages(f, n)) /\ Len(r) = p + q
  BY <1>1, ConcatFacts
<1>3. \A i \in 1..p : r[i] = a[i]
  BY <1>1, ConcatFacts
<1>4. \A j \in 1..q : r[p + j] = b[j]
  BY <1>1, ConcatFacts
<1> HIDE DEF r
<1>5. \A i \in 1..Len(r) : i \in 1..p \/ \E j \in 1..q : i = p + j
  <2> SUFFICES ASSUME NEW i \in 1..Len(r), i \notin 1..p PROVE \E j \in 1..q : i = p + j
    OBVIOUS
  <2> HIDE DEF p, q
  <2>1. i - p \in 1..q /\ i = p + (i - p)
    BY <1>1, <1>2
  <2> QED BY <2>1
<1>6. \A i \in 1..p : i \in 1..Len(r)
  BY <1>1, <1>2
<1>7. \A j \in 1..q : p + j \in 1..Len(r)
  BY <1>1, <1>2
<1> HIDE DEF p, q
<1>8. \A i \in 1..p, j \in 1..q : /\ ~\E x : x \in a[i].results /\ x \in b[j].results
                                  /\ ~\E x : x \in a[i].uses /\ x \in b[j].uses
  BY Zenon DEF p, q
<1>9. Apart(r)
  <2> SUFFICES ASSUME NEW i \in 1..Len(r), NEW j \in 1..Len(r), NEW x, x \in r[i].results, x \in r[j].results
               PROVE  i = j
    BY DEF Apart
  <2>1. CASE i \in 1..p /\ j \in 1..p
    <3>1. x \in a[i].results /\ x \in a[j].results
      BY <2>1, <1>3
    <3> QED BY <2>1, <3>1, Zenon DEF Talks, Apart, p
  <2>2. CASE i \in 1..p /\ j \notin 1..p
    <3>1. PICK d \in 1..q : j = p + d
      BY <2>2, <1>5
    <3>2. x \in a[i].results /\ x \in b[d].results
      BY <2>2, <3>1, <1>3, <1>4
    <3> QED BY <2>2, <3>2, <1>8
  <2>3. CASE i \notin 1..p /\ j \in 1..p
    <3>1. PICK d \in 1..q : i = p + d
      BY <2>3, <1>5
    <3>2. x \in a[j].results /\ x \in b[d].results
      BY <2>3, <3>1, <1>3, <1>4
    <3> QED BY <2>3, <3>2, <1>8
  <2>4. CASE i \notin 1..p /\ j \notin 1..p
    <3>1. PICK c \in 1..q : i = p + c
      BY <2>4, <1>5
    <3>2. PICK d \in 1..q : j = p + d
      BY <2>4, <1>5
    <3>3. x \in b[c].results /\ x \in b[d].results
      BY <3>1, <3>2, <1>4
    <3>4. c = d
      BY <3>3, Zenon DEF Talks, Apart, q
    <3> QED BY <3>1, <3>2, <3>4
  <2> QED BY <2>1, <2>2, <2>3, <2>4
<1>10. ASSUME Complete(f, a), Complete(f, b) PROVE Complete(f, r)
  <2>1. UsesApart(r)
    <3> SUFFICES ASSUME NEW i \in 1..Len(r), NEW j \in 1..Len(r), NEW x, x \in r[i].uses, x \in r[j].uses
                 PROVE  i = j
      BY DEF UsesApart
    <3>1. CASE i \in 1..p /\ j \in 1..p
      <4>1. x \in a[i].uses /\ x \in a[j].uses
        BY <3>1, <1>3
      <4> QED BY <3>1, <4>1, <1>10, Zenon DEF Complete, UsesApart, p
    <3>2. CASE i \in 1..p /\ j \notin 1..p
      <4>1. PICK d \in 1..q : j = p + d
        BY <3>2, <1>5
      <4>2. x \in a[i].uses /\ x \in b[d].uses
        BY <3>2, <4>1, <1>3, <1>4
      <4> QED BY <3>2, <4>2, <1>8
    <3>3. CASE i \notin 1..p /\ j \in 1..p
      <4>1. PICK d \in 1..q : i = p + d
        BY <3>3, <1>5
      <4>2. x \in a[j].uses /\ x \in b[d].uses
        BY <3>3, <4>1, <1>3, <1>4
      <4> QED BY <3>3, <4>2, <1>8
    <3>4. CASE i \notin 1..p /\ j \notin 1..p
      <4>1. PICK c \in 1..q : i = p + c
        BY <3>4, <1>5
      <4>2. PICK d \in 1..q : j = p + d
        BY <3>4, <1>5
      <4>3. x \in b[c].uses /\ x \in b[d].uses
        BY <4>1, <4>2, <1>4
      <4>4. c = d
        BY <4>3, <1>10, Zenon DEF Complete, UsesApart, q
      <4> QED BY <4>1, <4>2, <4>4
    <3> QED BY <3>1, <3>2, <3>3, <3>4
  <2>2. Linked(f, r)
    <3> SUFFICES ASSUME NEW i \in 1..Len(r), r[i].results # {} PROVE \E j \in 1..(i - 1) : Answers(f, r, i, j)
      BY DEF Linked
    <3>1. CASE i \in 1..p
      <4>1. a[i].results # {}
        BY <3>1, <1>3
      <4>2. PICK j \in 1..(i - 1) : Answers(f, a, i, j)
        BY <4>1, <3>1, <1>10, Zenon DEF Complete, Linked, p
      <4>3. j \in 1..p /\ \A k \in (j + 1)..i : k \in 1..p
        BY <3>1, <4>2, <1>1
      <4>4. Answers(f, r, i, j)
        BY <3>1, <4>2, <4>3, <1>3 DEF Answers
      <4> QED BY <4>2, <4>4
    <3>2. CASE i \notin 1..p
      <4>1. PICK c \in 1..q : i = p + c
        BY <3>2, <1>5
      <4>2. b[c].results # {}
        BY <4>1, <1>4
      <4>3. PICK d \in 1..(c - 1) : Answers(f, b, c, d)
        BY <4>2, <1>10, Zenon DEF Complete, Linked, q
      <4>4. d \in 1..q /\ p + d \in 1..(i - 1) /\ \A k \in (p + d + 1)..i : k - p \in (d + 1)..c /\ k - p \in 1..q /\ k = p + (k - p)
        BY <4>1, <4>3, <1>1
      <4>5. \A k \in (p + d + 1)..i : r[k].results # {}
        <5> TAKE k \in (p + d + 1)..i
        <5>1. r[p + (k - p)] = b[k - p] /\ b[k - p].results # {}
          BY <4>3, <4>4, <1>4 DEF Answers
        <5> QED BY <4>4, <5>1
      <4>6. r[i] = b[c] /\ r[p + d] = b[d]
        BY <4>1, <4>4, <1>4
      <4>7. Answers(f, r, i, p + d)
        BY <4>3, <4>5, <4>6 DEF Answers
      <4> QED BY <4>4, <4>7
    <3> QED BY <3>1, <3>2
  <2>3. Answered(r)
    <3> SUFFICES ASSUME NEW i \in 1..Len(r), NEW x \in r[i].uses PROVE \E j \in 1..Len(r) : x \in r[j].results
      BY DEF Answered
    <3>1. CASE i \in 1..p
      <4>1. x \in a[i].uses
        BY <3>1, <1>3
      <4>2. PICK j \in 1..p : x \in a[j].results
        BY <3>1, <4>1, <1>10, Zenon DEF Complete, Answered, p
      <4> QED BY <4>2, <1>3, <1>6
    <3>2. CASE i \notin 1..p
      <4>1. PICK c \in 1..q : i = p + c
        BY <3>2, <1>5
      <4>2. x \in b[c].uses
        BY <4>1, <1>4
      <4>3. PICK d \in 1..q : x \in b[d].results
        BY <4>2, <1>10, Zenon DEF Complete, Answered, q
      <4>4. x \in r[p + d].results /\ p + d \in 1..Len(r)
        BY <4>3, <1>4, <1>7
      <4> QED BY <4>4
    <3> QED BY <3>1, <3>2
  <2> QED BY <2>1, <2>2, <2>3 DEF Complete
<1> QED BY <1>2, <1>9, <1>10 DEF r, Talks

(* where the server puts a map *)
LEMMA CMinOfIs ==
  ASSUME NEW V, V \subseteq Nat, V # {}
  PROVE  C!MinOf(V) \in V
<1>1. C!MinOf(V) = E!MinOf(V)
  BY Zenon DEF C!MinOf, E!MinOf
<1> QED BY <1>1, MinOfIs

LEMMA CLastUserIs ==
  ASSUME NEW D, NEW ms \in Seq(D)
  PROVE  C!Users(ms) # {} => C!LastUser(ms) \in 1..Len(ms) /\ C!LastUser(ms) \in C!Users(ms)
<1> SUFFICES ASSUME C!Users(ms) # {} PROVE C!LastUser(ms) \in 1..Len(ms) /\ C!LastUser(ms) \in C!Users(ms)
  OBVIOUS
<1>1. C!Users(ms) \subseteq 1..Len(ms) /\ C!Users(ms) \subseteq 0..Len(ms) /\ Len(ms) \in Nat
  BY SeqDomain DEF C!Users
<1>2. \E i \in C!Users(ms) : \A j \in C!Users(ms) : j <= i
  BY <1>1, MaxOfIs
<1>3. C!LastUser(ms) \in C!Users(ms)
  BY <1>2, Zenon DEF C!LastUser
<1> QED BY <1>1, <1>3

LEMMA AssistantIs ==
  ASSUME NEW ms, NEW i \in Nat
  PROVE  /\ C!AssistantOf(ms, i) \in 0..i
         /\ C!AssistantOf(ms, i) # 0 =>
              /\ ms[C!AssistantOf(ms, i)].kind = "assistant"
              /\ \A k \in (C!AssistantOf(ms, i) + 1)..i : C!IsResult(ms[k])
         /\ C!AssistantOf(ms, i) = 0 =>
              ~\E j \in 1..i : ms[j].kind = "assistant" /\ \A k \in (j + 1)..i : C!IsResult(ms[k])
<1> DEFINE before == {j \in 1..i : ms[j].kind = "assistant" /\ \A k \in (j + 1)..i : C!IsResult(ms[k])}
<1>1. C!AssistantOf(ms, i) = IF before = {} THEN 0 ELSE CHOOSE j \in before : TRUE
  BY Zenon DEF C!AssistantOf
<1>2. before # {} => C!AssistantOf(ms, i) \in before
  <2> HIDE DEF before
  <2> QED BY <1>1, Zenon
<1>3. CASE before = {}
  BY <1>1, <1>3
<1>4. CASE before # {}
  BY <1>2, <1>4
<1> QED BY <1>3, <1>4

NotBeforeResult(ms, k) == k < Len(ms) => ms[k + 1].results = {}

LEMMA CAdjustedPoint ==
  ASSUME NEW f, NEW n \in Nat, NEW ms \in Seq(CMessages(f, n)), NEW k \in 0..Len(ms)
  PROVE  /\ C!Adjusted(ms, k) \in 0..Len(ms)
         /\ Complete(f, ms) => NotBeforeResult(ms, C!Adjusted(ms, k))
<1> DEFINE a == C!AssistantOf(ms, k)
           x == C!Adjusted(ms, k)
<1>1. Len(ms) \in Nat /\ k \in Nat /\ k <= Len(ms)
  BY SeqDomain
<1>2. \A i \in 1..Len(ms) : /\ (C!IsResult(ms[i]) <=> ms[i].results # {})
                            /\ (ms[i].kind = "assistant" => ms[i].results = {})
                            /\ (ms[i].uses # {} => ms[i].kind = "assistant" /\ ms[i].results = {})
  <2> TAKE i \in 1..Len(ms)
  <2>1. ms[i] \in CMessages(f, n)
    BY SeqDomain
  <2> QED BY <2>1, CFields DEF C!IsResult
<1>3. x = IF k = 0 \/ k >= Len(ms) THEN k
          ELSE IF C!IsResult(ms[k + 1]) /\ a # 0 THEN a - 1
          ELSE IF C!InBlocks /\ ms[k].uses # {} THEN k - 1
          ELSE k
  BY Zenon DEF C!Adjusted
<1>4. /\ a \in 0..k
      /\ a # 0 => ms[a].kind = "assistant"
      /\ a = 0 => ~\E j \in 1..k : ms[j].kind = "assistant" /\ \A b \in (j + 1)..k : C!IsResult(ms[b])
  BY <1>1, AssistantIs
<1> HIDE DEF a, x
<1>5. CASE k = 0 \/ k >= Len(ms)
  <2>1. x = k
    BY <1>3, <1>5
  <2>2. Complete(f, ms) /\ k = 0 /\ 0 < Len(ms) => ms[1].results = {}
    <3> SUFFICES ASSUME Linked(f, ms), 0 < Len(ms), ms[1].results # {} PROVE FALSE
      BY DEF Complete
    <3>1. 1 \in 1..Len(ms)
      BY <1>1
    <3>2. \E j \in 1..(1 - 1) : Answers(f, ms, 1, j)
      BY <3>1, Zenon DEF Linked
    <3> QED BY <3>2
  <2> QED BY <2>1, <2>2, <1>1, <1>5 DEF x, NotBeforeResult
<1>6. CASE ~(k = 0 \/ k >= Len(ms)) /\ C!IsResult(ms[k + 1]) /\ a # 0
  <2>1. x = a - 1 /\ a \in 1..Len(ms) /\ a - 1 \in 0..Len(ms) /\ (a - 1) + 1 = a
    BY <1>1, <1>3, <1>4, <1>6
  <2>2. ms[a].results = {}
    BY <1>2, <1>4, <1>6, <2>1
  <2> QED BY <2>1, <2>2 DEF x, NotBeforeResult
<1>7. CASE ~(k = 0 \/ k >= Len(ms)) /\ ~(C!IsResult(ms[k + 1]) /\ a # 0) /\ C!InBlocks /\ ms[k].uses # {}
  <2>1. x = k - 1 /\ k \in 1..Len(ms) /\ k - 1 \in 0..Len(ms) /\ (k - 1) + 1 = k
    BY <1>1, <1>3, <1>7
  <2>2. ms[k].results = {}
    BY <1>2, <1>7, <2>1
  <2> QED BY <2>1, <2>2 DEF x, NotBeforeResult
<1>8. CASE ~(k = 0 \/ k >= Len(ms)) /\ ~(C!IsResult(ms[k + 1]) /\ a # 0) /\ ~(C!InBlocks /\ ms[k].uses # {})
  <2>1. x = k /\ k + 1 \in 1..Len(ms) /\ k \in 1..Len(ms)
    BY <1>1, <1>3, <1>8
  <2>2. ASSUME Complete(f, ms), ms[k + 1].results # {} PROVE FALSE
    <3>1. PICK j \in 1..((k + 1) - 1) : Answers(f, ms, k + 1, j)
      BY <2>1, <2>2, Zenon DEF Complete, Linked
    <3>2. j \in 1..k /\ j \in 1..Len(ms)
      BY <2>1, <3>1, <1>1
    <3>3. ms[j].kind = "assistant"
      <4>1. ms[j].uses # {}
        BY <2>2, <3>1 DEF Answers
      <4> QED BY <3>2, <4>1, <1>2
    <3>4. \A b \in (j + 1)..k : b \in (j + 1)..(k + 1) /\ b \in 1..Len(ms)
      BY <3>2, <1>1
    <3>5. \A b \in (j + 1)..k : C!IsResult(ms[b])
      BY <3>1, <3>4, <1>2 DEF Answers
    <3>6. a # 0
      BY <3>2, <3>3, <3>5, <1>4
    <3> QED BY <3>6, <2>1, <2>2, <1>2, <1>8
  <2> QED BY <2>1, <2>2, <1>1 DEF x, NotBeforeResult
<1> QED BY <1>5, <1>6, <1>7, <1>8

LEMMA CActivePoint ==
  ASSUME NEW f, NEW n \in Nat, NEW ms \in Seq(CMessages(f, n))
  PROVE  /\ C!ActivePoint(ms) \in 0..Len(ms)
         /\ Complete(f, ms) => NotBeforeResult(ms, C!ActivePoint(ms))
<1> DEFINE tail == {i \in DOMAIN ms : ~C!IsMmd(ms[i]) /\ \A j \in i..Len(ms) : ms[j].kind \in {"assistant", "result"} \/ C!IsMmd(ms[j])}
           loop == IF tail = {} THEN Len(ms) ELSE C!MinOf(tail) - 1
           at == IF C!Users(ms) = {} THEN (IF loop = 0 THEN 1 ELSE loop)
                 ELSE IF C!LastUser(ms) = Len(ms) THEN Len(ms) - 1 ELSE C!LastUser(ms)
           x == C!Adjusted(ms, at)
<1>1. Len(ms) \in Nat /\ DOMAIN ms = 1..Len(ms) /\ \A i \in 1..Len(ms) : ms[i] \in CMessages(f, n)
  BY SeqDomain
<1>2. C!ActivePoint(ms) = IF Len(ms) <= 2 THEN C!Adjusted(ms, C!Least(1, Len(ms)))
                          ELSE IF x = 0 /\ ms[1].kind = "system" THEN 1 ELSE x
  BY Zenon DEF C!ActivePoint
<1>3. CASE Len(ms) <= 2
  <2>1. C!Least(1, Len(ms)) \in 0..Len(ms)
    BY <1>1 DEF C!Least
  <2>2. C!ActivePoint(ms) = C!Adjusted(ms, C!Least(1, Len(ms)))
    BY <1>2, <1>3
  <2> QED BY <2>1, <2>2, CAdjustedPoint
<1>4. CASE ~(Len(ms) <= 2)
  <2>1. tail \subseteq 1..Len(ms)
    BY <1>1
  <2> HIDE DEF tail
  <2>2. loop \in 0..Len(ms)
    <3>1. CASE tail = {}
      BY <3>1, <1>1
    <3>2. CASE tail # {}
      <4>1. tail \subseteq Nat
        BY <2>1
      <4>2. C!MinOf(tail) \in 1..Len(ms)
        BY <2>1, <3>2, <4>1, CMinOfIs
      <4>3. loop = C!MinOf(tail) - 1
        BY <3>2, Zenon
      <4> QED BY <4>2, <4>3, <1>1
    <3> QED BY <3>1, <3>2
  <2> HIDE DEF loop
  <2>3. C!Users(ms) # {} => C!LastUser(ms) \in 1..Len(ms)
    BY CLastUserIs
  <2>4. at \in 0..Len(ms)
    BY <2>2, <2>3, <1>1, <1>4
  <2> HIDE DEF at
  <2>5. x \in 0..Len(ms) /\ (Complete(f, ms) => NotBeforeResult(ms, x))
    BY <2>4, CAdjustedPoint
  <2> HIDE DEF x
  <2>6. CASE x = 0 /\ ms[1].kind = "system"
    <3>1. C!ActivePoint(ms) = 1 /\ 1 \in 1..Len(ms) /\ 1 + 1 \in 1..Len(ms) /\ 1 \in 0..Len(ms)
      BY <2>6, <1>1, <1>2, <1>4
    <3>2. ASSUME Complete(f, ms), ms[1 + 1].results # {} PROVE FALSE
      <4>1. PICK j \in 1..((1 + 1) - 1) : Answers(f, ms, 1 + 1, j)
        BY <3>1, <3>2, Zenon DEF Complete, Linked
      <4>2. j = 1
        BY <4>1
      <4>3. ms[1].uses # {}
        BY <3>2, <4>1, <4>2 DEF Answers
      <4>4. ms[1] \in CMessages(f, n)
        BY <1>1, <3>1
      <4>5. ms[1].kind = "assistant"
        BY <4>3, <4>4, CFields
      <4> QED BY <2>6, <4>5
    <3> QED BY <3>1, <3>2 DEF NotBeforeResult
  <2>7. CASE ~(x = 0 /\ ms[1].kind = "system")
    <3>1. C!ActivePoint(ms) = x
      BY <2>7, <1>2, <1>4
    <3> QED BY <2>5, <3>1
  <2> QED BY <2>6, <2>7
<1> QED BY <1>3, <1>4

LEMMA MmdIs ==
  ASSUME NEW f, NEW n \in Nat, NEW kind \in {"mmd", "history mmd"}
  PROVE  /\ C!MmdMessage(kind) \in CMessages(f, n)
         /\ C!MmdMessage(kind).uses = {} /\ C!MmdMessage(kind).results = {}
BY DEF C!MmdMessage, C!Message, CMessages, CRecords, CKinds

(* r is ms with a map *)
MapInserted(f, n, ms, r) ==
  /\ Talks(f, n, r)
  /\ Complete(f, ms) => Complete(f, r)
  /\ \A i \in 1..Len(r) : r[i].results = {} \/ \E j \in 1..Len(ms) : r[i] = ms[j]

LEMMA InsertTalksAt ==
  ASSUME NEW f, NEW n \in Nat, NEW ms, Talks(f, n, ms), NEW k, NEW m, NEW r, k \in 0..Len(ms),
         Complete(f, ms) => NotBeforeResult(ms, k),
         m \in CMessages(f, n), m.uses = {}, m.results = {}, r = C!InsertedAt(ms, k, m)
  PROVE  MapInserted(f, n, ms, r)
<1>1. Talks(f, n, r)
  BY InsertTalks
<1>2. ASSUME Complete(f, ms) PROVE Complete(f, r)
  <2>1. k < Len(ms) => ms[k + 1].results = {}
    BY <1>2 DEF NotBeforeResult
  <2> QED BY <1>2, <2>1, InsertTalks
<1>3. \A i \in 1..Len(r) : r[i] = m \/ \E j \in 1..Len(ms) : r[i] = ms[j]
  BY InsertTalks
<1> QED BY <1>1, <1>2, <1>3 DEF MapInserted

LEMMA WithMmdTalks ==
  ASSUME NEW f, NEW n \in Nat, NEW ms, Talks(f, n, ms)
  PROVE  MapInserted(f, n, ms, C!WithHistoryMmd(ms)) /\ MapInserted(f, n, ms, C!WithActiveMmd(ms))
<1>1. ms \in Seq(CMessages(f, n))
  BY DEF Talks
<1>2. C!ActivePoint(ms) \in 0..Len(ms) /\ (Complete(f, ms) => NotBeforeResult(ms, C!ActivePoint(ms)))
  BY <1>1, CActivePoint
<1>3. ASSUME NEW kind \in {"mmd", "history mmd"}
      PROVE  MapInserted(f, n, ms, C!InsertedAt(ms, C!ActivePoint(ms), C!MmdMessage(kind)))
  <2> DEFINE m == C!MmdMessage(kind)
             k == C!ActivePoint(ms)
  <2>1. m \in CMessages(f, n) /\ m.uses = {} /\ m.results = {}
    BY MmdIs
  <2>2. k \in 0..Len(ms) /\ (Complete(f, ms) => NotBeforeResult(ms, k))
    BY <1>2
  <2> HIDE DEF m, k
  <2>3. MapInserted(f, n, ms, C!InsertedAt(ms, k, m))
    BY <2>1, <2>2, InsertTalksAt
  <2> QED BY <2>3 DEF m, k
<1> QED BY <1>3, Zenon DEF C!WithHistoryMmd, C!WithActiveMmd

(* edits of the server's messages *)
AsSummary(m) == [m EXCEPT !.offloaded = TRUE]
Using(m, v) == [m EXCEPT !.uses = v]
Answering(m, v) == [m EXCEPT !.results = v]
Repairs(m, v, w) == [m EXCEPT !.uses = v, !.results = w]

LEMMA EditsAre ==
  ASSUME NEW n \in Nat, NEW m \in CRecords(n), NEW v \in SUBSET (1..n), NEW w \in SUBSET (1..n)
  PROVE  /\ AsSummary(m) \in CRecords(n) /\ AsSummary(m).kind = m.kind /\ AsSummary(m).offloaded
         /\ AsSummary(m).uses = m.uses /\ AsSummary(m).results = m.results
         /\ Using(m, v) \in CRecords(n) /\ Using(m, v).kind = m.kind /\ Using(m, v).offloaded = m.offloaded
         /\ Using(m, v).uses = v /\ Using(m, v).results = m.results
         /\ Answering(m, v) \in CRecords(n) /\ Answering(m, v).kind = m.kind
         /\ Answering(m, v).offloaded = m.offloaded
         /\ Answering(m, v).uses = m.uses /\ Answering(m, v).results = v
         /\ Repairs(m, v, w) \in CRecords(n) /\ Repairs(m, v, w).kind = m.kind
         /\ Repairs(m, v, w).offloaded = m.offloaded
         /\ Repairs(m, v, w).uses = v /\ Repairs(m, v, w).results = w
<1> DEFINE A == SUBSET (1..n)
<1>1. m \in [kind : CKinds, text : BOOLEAN, uses : A, results : A, offloaded : BOOLEAN] /\ v \in A /\ w \in A
  BY DEF CRecords
<1>2. CRecords(n) = [kind : CKinds, text : BOOLEAN, uses : A, results : A, offloaded : BOOLEAN]
  BY DEF CRecords
<1> HIDE DEF A
<1>3. /\ AsSummary(m) \in CRecords(n) /\ AsSummary(m).kind = m.kind /\ AsSummary(m).offloaded
      /\ AsSummary(m).uses = m.uses /\ AsSummary(m).results = m.results
  BY <1>1, <1>2 DEF AsSummary
<1>4. /\ Using(m, v) \in CRecords(n) /\ Using(m, v).kind = m.kind /\ Using(m, v).offloaded = m.offloaded
      /\ Using(m, v).uses = v /\ Using(m, v).results = m.results
  BY <1>1, <1>2 DEF Using
<1>5. /\ Answering(m, v) \in CRecords(n) /\ Answering(m, v).kind = m.kind
      /\ Answering(m, v).offloaded = m.offloaded
      /\ Answering(m, v).uses = m.uses /\ Answering(m, v).results = v
  BY <1>1, <1>2 DEF Answering
<1>6. /\ Repairs(m, v, w) \in CRecords(n) /\ Repairs(m, v, w).kind = m.kind
      /\ Repairs(m, v, w).offloaded = m.offloaded
      /\ Repairs(m, v, w).uses = v /\ Repairs(m, v, w).results = w
  BY <1>1, <1>2 DEF Repairs
<1> QED BY <1>3, <1>4, <1>5, <1>6

LEMMA RepairsIs ==
  ASSUME NEW n \in Nat, NEW m \in CRecords(n), NEW v \in SUBSET (1..n), NEW w \in SUBSET (1..n)
  PROVE  /\ Repairs(m, v, w) \in CRecords(n) /\ Repairs(m, v, w).kind = m.kind
         /\ Repairs(m, v, w).uses = v /\ Repairs(m, v, w).results = w
         /\ Repairs(m, v, w).offloaded = m.offloaded
<1> DEFINE A == SUBSET (1..n)
<1>1. m \in [kind : CKinds, text : BOOLEAN, uses : A, results : A, offloaded : BOOLEAN] /\ v \in A /\ w \in A
  BY DEF CRecords
<1>2. CRecords(n) = [kind : CKinds, text : BOOLEAN, uses : A, results : A, offloaded : BOOLEAN]
  BY DEF CRecords
<1> HIDE DEF A
<1> QED BY <1>1, <1>2 DEF Repairs

(* an edit leaves a message one *)
LEMMA EditedMessage ==
  ASSUME NEW f, NEW n \in Nat, NEW m \in CMessages(f, n), NEW e \in CRecords(n),
         e.kind = m.kind, e.uses \subseteq m.uses, e.results \subseteq m.results,
         m.results # {} => e.results # {}
  PROVE  e \in CMessages(f, n)
BY CFields DEF CMessages

LEMMA ResultIdIs ==
  ASSUME NEW f, NEW n \in Nat, NEW m \in CMessages(f, n)
  PROVE  /\ m.results = {} => C!ResultId(m) = {}
         /\ m.results # {} => /\ C!ResultId(m) = {C!MinOf(m.results)} /\ C!MinOf(m.results) \in m.results
                              /\ C!ResultId(m) \subseteq m.results /\ C!ResultId(m) # {}
         /\ f # "merged" => C!ResultId(m) = m.results
<1>1. m.results # {} => C!MinOf(m.results) \in m.results
  <2>1. m.results \subseteq Nat
    BY CFields
  <2> QED BY <2>1, CMinOfIs
<1>2. f # "merged" => \A x, y \in m.results : x = y
  BY CFields
<1> QED BY <1>1, <1>2 DEF C!ResultId

(* what the fast path makes of a message *)
LEMMA FastEdits ==
  ASSUME NEW n \in Nat, NEW m \in CMessages(format, n)
  PROVE  /\ C!FastEdited(m) \in CRecords(n) /\ C!FastEdited(m).kind = m.kind
         /\ C!FastEdited(m).results \subseteq m.results /\ C!FastEdited(m).uses \subseteq m.uses
         /\ m.uses \ deleted \subseteq C!FastEdited(m).uses
         /\ C!FastDeleted(m) => m.uses \subseteq deleted
         /\ ~C!FastDeleted(m) =>
              /\ C!FastEdited(m) \in CMessages(format, n)
              /\ m.results # {} =>
                   \/ C!FastEdited(m).results \cap deleted = {}
                   \/ C!FastEdited(m).results = m.results /\ C!MinOf(m.results) \notin deleted
              /\ m.results # {} /\ C!ResultId(m) \cap deleted = {}
                   /\ C!ResultId(m) \subseteq confirmed \cap offloaded => C!FastEdited(m).offloaded
<1> DEFINE e == C!FastEdited(m)
           x == C!MinOf(m.results)
<1>1. /\ m \in CRecords(n) /\ m.uses \in SUBSET (1..n) /\ m.results \in SUBSET (1..n)
      /\ m.kind = "result" <=> m.results # {}
      /\ m.uses # {} => m.kind = "assistant"
      /\ m.uses = {} \/ m.results = {}
  BY CFields
<1>2. /\ m.results = {} => C!ResultId(m) = {}
      /\ m.results # {} => C!ResultId(m) = {x} /\ x \in m.results
  BY ResultIdIs
<1>3. e = IF C!ResultId(m) # {} /\ C!ResultId(m) \subseteq deleted THEN Answering(m, m.results \ deleted)
          ELSE IF C!IsResult(m) /\ C!ResultId(m) \subseteq confirmed \cap offloaded THEN AsSummary(m)
          ELSE IF C!InBlocks /\ m.kind = "assistant" /\ ~C!OnlyUses(m) THEN Using(m, m.uses \ deleted)
          ELSE m
  BY Zenon DEF C!FastEdited, Answering, AsSummary, Using
<1>4. m.results \ deleted \in SUBSET (1..n) /\ m.uses \ deleted \in SUBSET (1..n)
  BY <1>1
<1>5. C!FastDeleted(m) => m.uses \subseteq deleted
  BY <1>1, <1>2 DEF C!FastDeleted
<1>6. ~C!FastDeleted(m) /\ m.results # {} /\ x \in deleted => ~(m.results \subseteq deleted)
  BY <1>2 DEF C!FastDeleted
<1> HIDE DEF e, x
<1>7. CASE C!ResultId(m) # {} /\ C!ResultId(m) \subseteq deleted
  <2>1. e = Answering(m, m.results \ deleted) /\ m.results # {} /\ x \in deleted
    BY <1>2, <1>3, <1>7
  <2>2. e \in CRecords(n) /\ e.kind = m.kind /\ e.uses = m.uses /\ e.results = m.results \ deleted
    <3> DEFINE v == m.results \ deleted
    <3>1. v \in SUBSET (1..n) /\ e = Answering(m, v)
      BY <2>1, <1>4
    <3> HIDE DEF v
    <3>2. e \in CRecords(n) /\ e.kind = m.kind /\ e.uses = m.uses /\ e.results = v
      BY <3>1, <1>1, EditsAre
    <3> QED BY <3>2 DEF v
  <2>3. ~C!FastDeleted(m) => e \in CMessages(format, n)
    <3> SUFFICES ASSUME ~C!FastDeleted(m) PROVE e \in CMessages(format, n)
      OBVIOUS
    <3>1. e.results # {}
      BY <1>6, <2>1, <2>2
    <3>2. e.results \subseteq m.results /\ e.uses \subseteq m.uses
      BY <2>2
    <3> QED BY <2>2, <3>1, <3>2, EditedMessage
  <2>4. ~(C!ResultId(m) \cap deleted = {})
    BY <1>7
  <2> QED BY <1>5, <2>2, <2>3, <2>4 DEF e
<1>8. CASE ~(C!ResultId(m) # {} /\ C!ResultId(m) \subseteq deleted)
  <2>1. m.results # {} => x \notin deleted
    BY <1>2, <1>8
  <2>2. \/ e = AsSummary(m)
        \/ e = Using(m, m.uses \ deleted) /\ m.kind = "assistant"
        \/ e = m
    BY <1>3, <1>8
  <2>3. e \in CRecords(n) /\ e.kind = m.kind /\ e.results = m.results
        /\ e.uses \subseteq m.uses /\ m.uses \ deleted \subseteq e.uses
    BY <2>2, <1>1, <1>4, EditsAre
  <2>4. e \in CMessages(format, n)
    BY <2>3, EditedMessage
  <2>5. m.results # {} /\ C!ResultId(m) \subseteq confirmed \cap offloaded => e.offloaded
    <3> SUFFICES ASSUME m.results # {}, C!ResultId(m) \subseteq confirmed \cap offloaded PROVE e.offloaded
      OBVIOUS
    <3>1. C!IsResult(m)
      BY <1>1 DEF C!IsResult
    <3>2. e = AsSummary(m)
      BY <3>1, <1>3, <1>8
    <3> QED BY <3>2, <1>1, EditsAre
  <2> QED BY <1>5, <2>1, <2>3, <2>4, <2>5 DEF e, x
<1> QED BY <1>7, <1>8

(* r is of the messages of s at the places g, those of keep *)
Selects(r, s, g, keep) ==
  /\ g \in [1..Len(r) -> 1..Len(s)]
  /\ \A i, j \in 1..Len(r) : i < j => g[i] < g[j]
  /\ \A i \in 1..Len(r) : r[i] = s[g[i]] /\ g[i] \in keep
  /\ \A k \in 1..Len(s) : k \in keep => \E i \in 1..Len(r) : g[i] = k

LEMMA KeptSelects ==
  ASSUME NEW D, NEW s \in Seq(D), NEW keep
  PROVE  /\ C!Kept(s, keep) \in Seq(D) /\ C!Kept(s, keep) = Kept(s, keep)
         /\ \E g : Selects(C!Kept(s, keep), s, g, keep)
<1>1. C!Kept(s, keep) = Kept(s, keep)
  BY Zenon DEF C!Kept, Kept
<1> DEFINE r == Kept(s, keep)
<1>2. r \in Seq(D)
  BY KeptFollows
<1>3. PICK g : /\ Follows(r, s, g)
               /\ \A i \in 1..Len(r) : r[i] = s[g[i]] /\ g[i] \in keep
               /\ \A k \in (1..Len(s)) \cap keep : \E i \in 1..Len(r) : g[i] = k
  BY KeptFollows
<1> HIDE DEF r
<1>4. Selects(r, s, g, keep)
  BY <1>3 DEF Selects, Follows
<1> QED BY <1>1, <1>2, <1>4 DEF r

(* p is what the first pass of the fast path leaves of ms, at the places g *)
AfterFirst(ms, p, g) ==
  /\ Len(p) \in Nat /\ g \in [1..Len(p) -> 1..Len(ms)]
  /\ \A i, j \in 1..Len(p) : i < j => g[i] < g[j]
  /\ \A i \in 1..Len(p) : p[i] = C!FastEdited(ms[g[i]]) /\ ~C!FastDeleted(ms[g[i]])
  /\ \A k \in 1..Len(ms) : ~C!FastDeleted(ms[k]) => \E i \in 1..Len(p) : g[i] = k

LEMMA FirstPass ==
  ASSUME NEW n \in Nat, NEW ms, Talks(format, n, ms)
  PROVE  \E p, g : /\ C!FastPath(ms) = IF confirmed = {} /\ deleted = {} THEN ms ELSE C!Repaired(p)
                   /\ Talks(format, n, p) /\ AfterFirst(ms, p, g)
<1> DEFINE ed == [i \in 1..Len(ms) |-> C!FastEdited(ms[i])]
           keep == DOMAIN ed \ {i \in DOMAIN ms : C!FastDeleted(ms[i])}
           p == C!Kept(ed, keep)
<1>1. /\ ms \in Seq(CMessages(format, n)) /\ DOMAIN ms = 1..Len(ms) /\ Len(ms) \in Nat
      /\ \A i \in 1..Len(ms) : ms[i] \in CMessages(format, n)
  BY SeqDomain DEF Talks
<1>2. C!FastPath(ms) = IF confirmed = {} /\ deleted = {} THEN ms ELSE C!Repaired(p)
  BY <1>1, Zenon DEF C!FastPath, C!Without
<1>3. /\ ed \in Seq(CRecords(n)) /\ Len(ed) = Len(ms) /\ DOMAIN ed = 1..Len(ms)
      /\ \A i \in 1..Len(ms) : ed[i] = C!FastEdited(ms[i])
  <2>1. \A i \in 1..Len(ms) : C!FastEdited(ms[i]) \in CRecords(n)
    BY <1>1, FastEdits
  <2> QED BY <2>1, <1>1
<1>4. \A i \in 1..Len(ms) : i \in keep <=> ~C!FastDeleted(ms[i])
  BY <1>1, <1>3
<1> HIDE DEF ed, keep
<1>5. p \in Seq(CRecords(n)) /\ \E g : Selects(p, ed, g, keep)
  BY <1>3, KeptSelects
<1> HIDE DEF p
<1>6. PICK g : Selects(p, ed, g, keep)
  BY <1>5
<1>7. /\ Len(p) \in Nat /\ g \in [1..Len(p) -> 1..Len(ms)]
      /\ \A i, j \in 1..Len(p) : i < j => g[i] < g[j]
      /\ \A i \in 1..Len(p) : p[i] = C!FastEdited(ms[g[i]]) /\ ~C!FastDeleted(ms[g[i]])
      /\ \A k \in 1..Len(ms) : ~C!FastDeleted(ms[k]) => \E i \in 1..Len(p) : g[i] = k
  <2>1. Len(p) \in Nat /\ g \in [1..Len(p) -> 1..Len(ms)]
    BY <1>3, <1>5, <1>6 DEF Selects
  <2>2. \A i, j \in 1..Len(p) : i < j => g[i] < g[j]
    BY <1>6, Zenon DEF Selects
  <2>3. \A i \in 1..Len(p) : p[i] = C!FastEdited(ms[g[i]]) /\ ~C!FastDeleted(ms[g[i]])
    <3> TAKE i \in 1..Len(p)
    <3>1. g[i] \in 1..Len(ms) /\ p[i] = ed[g[i]] /\ g[i] \in keep
      BY <2>1, <1>6 DEF Selects
    <3> QED BY <3>1, <1>3, <1>4, Zenon
  <2>4. \A k \in 1..Len(ms) : ~C!FastDeleted(ms[k]) => \E i \in 1..Len(p) : g[i] = k
    BY <1>3, <1>4, <1>6, Zenon DEF Selects
  <2> QED BY <2>1, <2>2, <2>3, <2>4
<1>8. \A i \in 1..Len(p) : p[i] \in CMessages(format, n) /\ p[i].results \subseteq ms[g[i]].results
  BY <1>1, <1>7, FastEdits
<1>9. p \in Seq(CMessages(format, n))
  <2> DEFINE D == CMessages(format, n)
  <2>1. \A i \in 1..Len(p) : p[i] \in D
    BY <1>8
  <2> HIDE DEF D
  <2>2. p \in Seq(D)
    BY <1>5, <2>1
  <2> QED BY <2>2 DEF D
<1>10. Apart(p)
  <2>1. Apart(ms)
    BY DEF Talks
  <2> QED BY <2>1, <1>1, <1>7, <1>8, DerivedApart
<1>11. Talks(format, n, p)
  BY <1>9, <1>10 DEF Talks
<1>12. AfterFirst(ms, p, g)
  BY <1>7, Zenon DEF AfterFirst
<1> QED BY <1>2, <1>11, <1>12, Zenon

(* what the second pass makes of the message at i *)
Fixed(ms, i) ==
  IF C!InBlocks THEN Repairs(ms[i], ms[i].uses \cap C!ResultsOf(ms), ms[i].results \cap C!UsesOf(ms))
                ELSE ms[i]
Emptied(ms, i) ==
  \/ C!IsResult(ms[i]) /\ ms[i].results \cap C!UsesOf(ms) = {}
  \/ C!InBlocks /\ ms[i].kind = "assistant" /\ ~ms[i].text /\ ms[i].uses \cap C!ResultsOf(ms) = {}

(* r is what it leaves of ms, at the places g *)
AfterSecond(ms, r, g) ==
  /\ Len(r) \in Nat /\ g \in [1..Len(r) -> 1..Len(ms)]
  /\ \A i, j \in 1..Len(r) : i < j => g[i] < g[j]
  /\ \A i \in 1..Len(r) : r[i] = Fixed(ms, g[i]) /\ ~Emptied(ms, g[i])
  /\ \A k \in 1..Len(ms) : ~Emptied(ms, k) => \E i \in 1..Len(r) : g[i] = k

LEMMA FixedIs ==
  ASSUME NEW n \in Nat, NEW ms \in Seq(CMessages(format, n)), NEW i \in 1..Len(ms)
  PROVE  /\ Fixed(ms, i) \in CRecords(n) /\ Fixed(ms, i).kind = ms[i].kind
         /\ Fixed(ms, i).offloaded = ms[i].offloaded
         /\ C!InBlocks => /\ Fixed(ms, i).uses = ms[i].uses \cap C!ResultsOf(ms)
                          /\ Fixed(ms, i).results = ms[i].results \cap C!UsesOf(ms)
         /\ ~C!InBlocks => Fixed(ms, i) = ms[i]
<1> DEFINE v == ms[i].uses \cap C!ResultsOf(ms)
           w == ms[i].results \cap C!UsesOf(ms)
           m == ms[i]
<1>1. m \in CRecords(n) /\ v \in SUBSET (1..n) /\ w \in SUBSET (1..n)
  <2>1. ms[i] \in CMessages(format, n)
    OBVIOUS
  <2>2. ms[i] \in CRecords(n) /\ ms[i].uses \subseteq 1..n /\ ms[i].results \subseteq 1..n
    BY <2>1, CFields
  <2> QED BY <2>2
<1>2. Fixed(ms, i) = IF C!InBlocks THEN Repairs(m, v, w) ELSE m
  BY DEF Fixed
<1> HIDE DEF m, v, w
<1>3. /\ Repairs(m, v, w) \in CRecords(n) /\ Repairs(m, v, w).kind = m.kind
      /\ Repairs(m, v, w).uses = v /\ Repairs(m, v, w).results = w
  BY <1>1, RepairsIs
<1>4. Repairs(m, v, w).offloaded = m.offloaded
  BY <1>1, RepairsIs
<1>5. /\ Fixed(ms, i) \in CRecords(n) /\ Fixed(ms, i).kind = m.kind
      /\ Fixed(ms, i).offloaded = m.offloaded
      /\ C!InBlocks => Fixed(ms, i).uses = v /\ Fixed(ms, i).results = w
      /\ ~C!InBlocks => Fixed(ms, i) = m
  BY <1>1, <1>2, <1>3, <1>4
<1> QED BY <1>5 DEF m, v, w

LEMMA SecondPass ==
  ASSUME NEW n \in Nat, NEW ms, Talks(format, n, ms)
  PROVE  /\ C!Repaired(ms) \in Seq(CMessages(format, n))
         /\ \E g : AfterSecond(ms, C!Repaired(ms), g)
<1> DEFINE rep == [i \in DOMAIN ms |->
                     IF C!InBlocks THEN [ms[i] EXCEPT !.uses = @ \cap C!ResultsOf(ms), !.results = @ \cap C!UsesOf(ms)]
                                   ELSE ms[i]]
           fix == [i \in 1..Len(ms) |-> Fixed(ms, i)]
           keep == DOMAIN rep \ {i \in DOMAIN ms : Emptied(ms, i)}
           r == C!Kept(fix, keep)
<1>1. /\ ms \in Seq(CMessages(format, n)) /\ DOMAIN ms = 1..Len(ms) /\ Len(ms) \in Nat
      /\ \A i \in 1..Len(ms) : ms[i] \in CMessages(format, n)
  BY SeqDomain DEF Talks
<1>2. \A i \in 1..Len(ms) : /\ Fixed(ms, i) \in CRecords(n) /\ Fixed(ms, i).kind = ms[i].kind
                            /\ C!InBlocks => /\ Fixed(ms, i).uses = ms[i].uses \cap C!ResultsOf(ms)
                                             /\ Fixed(ms, i).results = ms[i].results \cap C!UsesOf(ms)
                            /\ ~C!InBlocks => Fixed(ms, i) = ms[i]
  BY <1>1, FixedIs
<1>3. rep = fix
  BY <1>1, Zenon DEF Fixed, Repairs
<1>4. C!Repaired(ms) = r
  <2> DEFINE empty(i) == \/ C!IsResult(ms[i]) /\ ms[i].results \cap C!UsesOf(ms) = {}
                         \/ C!InBlocks /\ ms[i].kind = "assistant" /\ ~ms[i].text /\ rep[i].uses = {}
  <2>1. C!Repaired(ms) = C!Without(rep, {i \in DOMAIN ms : empty(i)})
    BY Zenon DEF C!Repaired
  <2>2. \A i \in DOMAIN ms : empty(i) <=> Emptied(ms, i)
    <3> TAKE i \in DOMAIN ms
    <3>1. rep[i] = Fixed(ms, i)
      <4>1. i \in 1..Len(ms)
        BY <1>1
      <4>2. fix[i] = Fixed(ms, i)
        BY <4>1
      <4> QED BY <4>2, <1>3, Zenon
    <3> HIDE DEF rep
    <3>2. C!InBlocks => rep[i].uses = ms[i].uses \cap C!ResultsOf(ms)
      BY <3>1, <1>1, <1>2
    <3> QED BY <3>2 DEF Emptied
  <2> HIDE DEF empty
  <2>3. {i \in DOMAIN ms : empty(i)} = {i \in DOMAIN ms : Emptied(ms, i)}
    BY <2>2
  <2> QED BY <2>1, <2>3, <1>3, Zenon DEF C!Without
<1>5. fix \in Seq(CRecords(n)) /\ Len(fix) = Len(ms) /\ \A i \in 1..Len(ms) : fix[i] = Fixed(ms, i)
  BY <1>1, <1>2
<1>6. \A i \in 1..Len(ms) : i \in keep <=> ~Emptied(ms, i)
  BY <1>1
<1> HIDE DEF fix, keep, rep
<1>7. r \in Seq(CRecords(n)) /\ \E g : Selects(r, fix, g, keep)
  BY <1>5, KeptSelects
<1> HIDE DEF r
<1>8. PICK g : Selects(r, fix, g, keep)
  BY <1>7
<1>9. /\ Len(r) \in Nat /\ g \in [1..Len(r) -> 1..Len(ms)]
      /\ \A i, j \in 1..Len(r) : i < j => g[i] < g[j]
      /\ \A i \in 1..Len(r) : r[i] = Fixed(ms, g[i]) /\ ~Emptied(ms, g[i])
      /\ \A k \in 1..Len(ms) : ~Emptied(ms, k) => \E i \in 1..Len(r) : g[i] = k
  <2>1. Len(r) \in Nat /\ g \in [1..Len(r) -> 1..Len(ms)]
    BY <1>5, <1>7, <1>8 DEF Selects
  <2>2. \A i, j \in 1..Len(r) : i < j => g[i] < g[j]
    BY <1>8, Zenon DEF Selects
  <2>3. \A i \in 1..Len(r) : r[i] = Fixed(ms, g[i]) /\ ~Emptied(ms, g[i])
    <3> TAKE i \in 1..Len(r)
    <3>1. g[i] \in 1..Len(ms) /\ r[i] = fix[g[i]] /\ g[i] \in keep
      BY <2>1, <1>8 DEF Selects
    <3> QED BY <3>1, <1>5, <1>6, Zenon
  <2>4. \A k \in 1..Len(ms) : ~Emptied(ms, k) => \E i \in 1..Len(r) : g[i] = k
    BY <1>5, <1>6, <1>8, Zenon DEF Selects
  <2> QED BY <2>1, <2>2, <2>3, <2>4
<1>10. ASSUME NEW i \in 1..Len(r) PROVE r[i] \in CMessages(format, n)
  <2> DEFINE k == g[i]
  <2>1. k \in 1..Len(ms) /\ r[i] = Fixed(ms, k) /\ ~Emptied(ms, k) /\ ms[k] \in CMessages(format, n)
    BY <1>1, <1>9
  <2> HIDE DEF k
  <2>2. Fixed(ms, k).uses \subseteq ms[k].uses /\ Fixed(ms, k).results \subseteq ms[k].results
    BY <1>2, <2>1
  <2>3. ms[k].results # {} => Fixed(ms, k).results # {}
    BY <1>2, <2>1, CFields DEF Emptied, C!IsResult
  <2> QED BY <1>2, <2>1, <2>2, <2>3, EditedMessage
<1>11. r \in Seq(CMessages(format, n))
  <2> DEFINE D == CMessages(format, n)
  <2>1. \A i \in 1..Len(r) : r[i] \in D
    BY <1>10
  <2> HIDE DEF D
  <2>2. r \in Seq(D)
    BY <1>7, <2>1
  <2> QED BY <2>2 DEF D
<1>12. AfterSecond(ms, r, g)
  BY <1>9, Zenon DEF AfterSecond
<1> QED BY <1>4, <1>11, <1>12, Zenon

(* what earlier requests decided of the results of a message *)
Decided(f, d, c, m) ==
  C!ResultId(m) \cap d = {} /\ (C!ResultId(m) \subseteq c => m.offloaded \/ f = "merged")
Decides(f, d, c, ms) == \A i \in 1..Len(ms) : ms[i].results # {} => Decided(f, d, c, ms[i])

LEMMA CMinIs ==
  ASSUME NEW V, V \subseteq Nat, V # {}
  PROVE  \A y \in V : C!MinOf(V) <= y
<1>1. C!MinOf(V) = E!MinOf(V)
  BY Zenon DEF C!MinOf, E!MinOf
<1> QED BY <1>1, MinOfIs

(* a message whose results are fewer, but not the first of them *)
LEMMA SameFirst ==
  ASSUME NEW f, NEW n \in Nat, NEW m \in CMessages(f, n), NEW e \in CMessages(f, n), m.results # {},
         e.results \subseteq m.results, C!MinOf(m.results) \in e.results
  PROVE  C!ResultId(e) = C!ResultId(m)
<1> DEFINE x == C!MinOf(m.results)
           y == C!MinOf(e.results)
<1>1. m.results \subseteq Nat /\ e.results \subseteq Nat /\ e.results # {}
  BY CFields
<1>2. x \in e.results /\ \A z \in m.results : x <= z
  BY <1>1, CMinIs
<1>3. y \in e.results /\ \A z \in e.results : y <= z
  BY <1>1, CMinIs, CMinOfIs
<1>4. C!ResultId(m) = {x} /\ C!ResultId(e) = {y}
  BY <1>1 DEF C!ResultId
<1> HIDE DEF x, y
<1>5. x \in Nat /\ y \in Nat /\ x <= y /\ y <= x
  BY <1>1, <1>2, <1>3
<1> QED BY <1>4, <1>5

(* what the fast path leaves of a message, it leaves as earlier requests decided *)
LEMMA FastDecided ==
  ASSUME NEW n \in Nat, NEW m \in CMessages(format, n), ~C!FastDeleted(m), format # "merged",
         C!FastEdited(m).results # {}
  PROVE  Decided(format, deleted, confirmed \cap offloaded, C!FastEdited(m))
<1> DEFINE e == C!FastEdited(m)
<1>1. /\ e \in CMessages(format, n) /\ e.results \subseteq m.results /\ m.results # {}
      /\ \/ e.results \cap deleted = {}
         \/ e.results = m.results /\ C!MinOf(m.results) \notin deleted
      /\ C!ResultId(m) \cap deleted = {} /\ C!ResultId(m) \subseteq confirmed \cap offloaded => e.offloaded
  BY FastEdits
<1> HIDE DEF e
<1>2. C!ResultId(e) = e.results /\ C!ResultId(m) = m.results
  BY <1>1, ResultIdIs
<1>3. \A x, y \in m.results : x = y
  BY CFields
<1>4. e.results = m.results
  BY <1>1, <1>3 DEF e
<1>5. C!MinOf(m.results) \in m.results
  BY <1>1, ResultIdIs
<1>6. e.results \cap deleted = {}
  BY <1>1, <1>3, <1>5
<1> QED BY <1>1, <1>2, <1>4, <1>6 DEF e, Decided

(* a call that is not deleted stays in the first pass, and so does a result of blocks *)
LEMMA FirstKeeps ==
  ASSUME NEW n \in Nat, NEW ms, NEW p, NEW g, Talks(format, n, ms), AfterFirst(ms, p, g)
  PROVE  /\ \A i \in 1..Len(p) : /\ g[i] \in 1..Len(ms) /\ p[i].kind = ms[g[i]].kind
                                 /\ p[i].results \subseteq ms[g[i]].results /\ p[i].uses \subseteq ms[g[i]].uses
         /\ \A k \in 1..Len(ms) : \A x \in ms[k].uses :
              x \notin deleted => \E i \in 1..Len(p) : g[i] = k /\ x \in p[i].uses
<1>1. /\ Len(p) \in Nat /\ g \in [1..Len(p) -> 1..Len(ms)]
      /\ \A i \in 1..Len(p) : p[i] = C!FastEdited(ms[g[i]]) /\ ~C!FastDeleted(ms[g[i]])
      /\ \A k \in 1..Len(ms) : ~C!FastDeleted(ms[k]) => \E i \in 1..Len(p) : g[i] = k
  BY DEF AfterFirst
<1>2. \A k \in 1..Len(ms) : ms[k] \in CMessages(format, n)
  BY SeqDomain DEF Talks
<1>3. ASSUME NEW i \in 1..Len(p)
      PROVE  /\ g[i] \in 1..Len(ms) /\ p[i].kind = ms[g[i]].kind
             /\ p[i].results \subseteq ms[g[i]].results /\ p[i].uses \subseteq ms[g[i]].uses
  <2> DEFINE m == ms[g[i]]
  <2>1. g[i] \in 1..Len(ms) /\ m \in CMessages(format, n) /\ p[i] = C!FastEdited(m)
    BY <1>1, <1>2
  <2> HIDE DEF m
  <2>2. C!FastEdited(m).kind = m.kind /\ C!FastEdited(m).results \subseteq m.results
        /\ C!FastEdited(m).uses \subseteq m.uses
    BY <2>1, FastEdits
  <2> QED BY <2>1, <2>2 DEF m
<1>4. ASSUME NEW k \in 1..Len(ms), NEW x \in ms[k].uses, x \notin deleted
      PROVE  \E i \in 1..Len(p) : g[i] = k /\ x \in p[i].uses
  <2> DEFINE m == ms[k]
  <2>1. m \in CMessages(format, n) /\ x \in m.uses
    BY <1>2
  <2>2. (C!FastDeleted(m) => m.uses \subseteq deleted) /\ m.uses \ deleted \subseteq C!FastEdited(m).uses
    <3> HIDE DEF m
    <3> QED BY <2>1, FastEdits
  <2>3. PICK i \in 1..Len(p) : g[i] = k
    BY <1>1, <1>4, <2>1, <2>2
  <2>4. p[i] = C!FastEdited(m)
    BY <1>1, <2>3
  <2>5. x \in p[i].uses
    BY <1>4, <2>1, <2>2, <2>4
  <2> QED BY <2>3, <2>5
<1> QED BY <1>3, <1>4

(* both passes together *)
LEMMA PassesDerive ==
  ASSUME NEW n \in Nat, NEW ms, NEW p, NEW r, NEW g, NEW h, C!InBlocks,
         Talks(format, n, ms), UsesApart(ms), Talks(format, n, p), AfterFirst(ms, p, g), AfterSecond(p, r, h)
  PROVE  Derives(r, ms, [i \in 1..Len(r) |-> g[h[i]]], C!UsesOf(p) \cap C!ResultsOf(p))
<1> DEFINE both == [i \in 1..Len(r) |-> g[h[i]]]
           stays == C!UsesOf(p) \cap C!ResultsOf(p)
<1>1. /\ Len(p) \in Nat /\ g \in [1..Len(p) -> 1..Len(ms)]
      /\ \A i, j \in 1..Len(p) : i < j => g[i] < g[j]
      /\ Len(r) \in Nat /\ h \in [1..Len(r) -> 1..Len(p)]
      /\ \A i, j \in 1..Len(r) : i < j => h[i] < h[j]
      /\ \A i \in 1..Len(r) : r[i] = Fixed(p, h[i]) /\ ~Emptied(p, h[i])
      /\ \A k \in 1..Len(p) : ~Emptied(p, k) => \E i \in 1..Len(r) : h[i] = k
  BY DEF AfterFirst, AfterSecond
<1>2. /\ p \in Seq(CMessages(format, n)) /\ DOMAIN p = 1..Len(p)
      /\ Apart(ms) /\ Len(ms) \in Nat
  BY SeqDomain DEF Talks
<1>3. \A i \in 1..Len(p) : /\ g[i] \in 1..Len(ms) /\ p[i].kind = ms[g[i]].kind
                           /\ p[i].results \subseteq ms[g[i]].results /\ p[i].uses \subseteq ms[g[i]].uses
  BY FirstKeeps
<1>4. \A i \in 1..Len(p) : /\ Fixed(p, i).kind = p[i].kind
                           /\ Fixed(p, i).uses = p[i].uses \cap C!ResultsOf(p)
                           /\ Fixed(p, i).results = p[i].results \cap C!UsesOf(p)
  BY <1>2, FixedIs
<1>5. ASSUME NEW i \in 1..Len(p), NEW k \in 1..Len(ms), NEW x \in stays, x \in p[i].results, x \in ms[k].results
      PROVE  g[i] = k
  <2>1. x \in ms[g[i]].results /\ g[i] \in 1..Len(ms)
    BY <1>3, <1>5
  <2> QED BY <1>2, <1>5, <2>1, Zenon DEF Apart
<1>6. ASSUME NEW i \in 1..Len(p), NEW k \in 1..Len(ms), NEW x \in stays, x \in p[i].uses, x \in ms[k].uses
      PROVE  g[i] = k
  <2>1. x \in ms[g[i]].uses /\ g[i] \in 1..Len(ms)
    BY <1>3, <1>6
  <2> QED BY <1>6, <2>1, Zenon DEF UsesApart
<1>7. \A x \in stays : /\ \E i \in 1..Len(p) : x \in p[i].results
                      /\ \E i \in 1..Len(p) : x \in p[i].uses
                      /\ x \in C!UsesOf(p) /\ x \in C!ResultsOf(p)
  BY <1>2 DEF C!UsesOf, C!ResultsOf
<1>8. \A i \in 1..Len(p) : p[i].results \subseteq C!ResultsOf(p) /\ p[i].uses \subseteq C!UsesOf(p)
  BY <1>2 DEF C!UsesOf, C!ResultsOf
<1>9. \A i, j \in 1..Len(p) : g[i] = g[j] => i = j
  <2> SUFFICES ASSUME NEW i \in 1..Len(p), NEW j \in 1..Len(p), g[i] = g[j] PROVE i = j
    OBVIOUS
  <2>1. ~(i < j) /\ ~(j < i)
    BY <1>1
  <2> QED BY <2>1
<1>10. both \in [1..Len(r) -> 1..Len(ms)] /\ \A i \in 1..Len(r) : both[i] = g[h[i]] /\ h[i] \in 1..Len(p)
  BY <1>1, <1>3
<1> HIDE DEF both, stays
<1>11. \A i, j \in 1..Len(r) : i < j => both[i] < both[j]
  BY <1>1, <1>10
<1>12. ASSUME NEW i \in 1..Len(r)
       PROVE  /\ r[i].kind = ms[both[i]].kind
              /\ r[i].results = ms[both[i]].results \cap stays
              /\ r[i].uses = ms[both[i]].uses \cap stays
  <2> DEFINE a == h[i]
             b == both[i]
  <2>1. a \in 1..Len(p) /\ b = g[a] /\ b \in 1..Len(ms) /\ r[i] = Fixed(p, a)
    BY <1>1, <1>10
  <2> HIDE DEF a, b
  <2>2. r[i].kind = ms[b].kind
    BY <2>1, <1>3, <1>4
  <2>3. r[i].results = p[a].results \cap C!UsesOf(p) /\ r[i].uses = p[a].uses \cap C!ResultsOf(p)
    BY <2>1, <1>4
  <2>4. r[i].results = ms[b].results \cap stays
    <3>1. ASSUME NEW x \in ms[b].results, x \in stays PROVE x \in p[a].results
      <4>1. PICK j \in 1..Len(p) : x \in p[j].results
        BY <1>7, <3>1
      <4>2. g[j] = b
        BY <1>5, <2>1, <3>1, <4>1
      <4> QED BY <1>9, <2>1, <4>1, <4>2
    <3>2. p[a].results \subseteq ms[b].results /\ p[a].results \subseteq C!ResultsOf(p)
      BY <1>3, <1>8, <2>1
    <3> QED BY <2>3, <3>1, <3>2 DEF stays
  <2>5. r[i].uses = ms[b].uses \cap stays
    <3>1. ASSUME NEW x \in ms[b].uses, x \in stays PROVE x \in p[a].uses
      <4>1. PICK j \in 1..Len(p) : x \in p[j].uses
        BY <1>7, <3>1
      <4>2. g[j] = b
        BY <1>6, <2>1, <3>1, <4>1
      <4> QED BY <1>9, <2>1, <4>1, <4>2
    <3>2. p[a].uses \subseteq ms[b].uses /\ p[a].uses \subseteq C!UsesOf(p)
      BY <1>3, <1>8, <2>1
    <3> QED BY <2>3, <3>1, <3>2 DEF stays
  <2> QED BY <2>2, <2>4, <2>5 DEF b
<1>13. ASSUME NEW k \in 1..Len(ms), NEW x \in stays, x \in ms[k].results \/ x \in ms[k].uses
       PROVE  \E i \in 1..Len(r) : both[i] = k
  <2>1. \E j \in 1..Len(p) : g[j] = k /\ ~Emptied(p, j)
    <3>1. CASE x \in ms[k].results
      <4>1. PICK j \in 1..Len(p) : x \in p[j].results
        BY <1>7, <1>13
      <4>2. g[j] = k /\ x \in p[j].results \cap C!UsesOf(p)
        BY <1>5, <1>7, <1>13, <3>1, <4>1
      <4>3. p[j] \in CMessages(format, n)
        BY <1>2
      <4>4. p[j].kind = "result"
        BY <4>1, <4>3, CFields
      <4> QED BY <4>2, <4>4 DEF Emptied
    <3>2. CASE x \in ms[k].uses
      <4>1. PICK j \in 1..Len(p) : x \in p[j].uses
        BY <1>7, <1>13
      <4>2. g[j] = k /\ x \in p[j].uses \cap C!ResultsOf(p)
        BY <1>6, <1>7, <1>13, <3>2, <4>1
      <4>3. p[j] \in CMessages(format, n)
        BY <1>2
      <4>4. p[j].kind = "assistant"
        BY <4>1, <4>3, CFields
      <4> QED BY <4>2, <4>4 DEF Emptied, C!IsResult
    <3> QED BY <1>13, <3>1, <3>2
  <2>2. PICK j \in 1..Len(p) : g[j] = k /\ ~Emptied(p, j)
    BY <2>1
  <2>3. PICK i \in 1..Len(r) : h[i] = j
    BY <1>1, <2>2
  <2>4. both[i] = k
    BY <1>10, <2>2, <2>3
  <2> QED BY <2>4
<1>14. Derives(r, ms, both, stays)
  BY <1>10, <1>11, <1>12, <1>13 DEF Derives
<1> QED BY <1>14 DEF both, stays

LEMMA PassesDecide ==
  ASSUME NEW n \in Nat, NEW ms, NEW p, NEW r, NEW g, NEW h, r \in Seq(CMessages(format, n)),
         Talks(format, n, ms), Talks(format, n, p), AfterFirst(ms, p, g), AfterSecond(p, r, h),
         format = "merged" => Linked(format, ms)
  PROVE  Decides(format, deleted, confirmed \cap offloaded, r)
<1> SUFFICES ASSUME NEW i \in 1..Len(r), r[i].results # {}
             PROVE  Decided(format, deleted, confirmed \cap offloaded, r[i])
  BY DEF Decides
<1> DEFINE a == h[i]
           b == g[h[i]]
           e == r[i]
           q == p[a]
           m == ms[b]
<1>1. /\ a \in 1..Len(p) /\ b \in 1..Len(ms) /\ e = Fixed(p, a)
      /\ q = C!FastEdited(m) /\ ~C!FastDeleted(m)
  BY DEF AfterFirst, AfterSecond
<1>2. /\ e \in CMessages(format, n) /\ q \in CMessages(format, n) /\ m \in CMessages(format, n)
      /\ p \in Seq(CMessages(format, n)) /\ DOMAIN p = 1..Len(p) /\ Len(ms) \in Nat
  BY <1>1, SeqDomain DEF Talks
<1>3. /\ e.offloaded = q.offloaded /\ e.results # {}
      /\ C!InBlocks => e.results = q.results \cap C!UsesOf(p)
      /\ ~C!InBlocks => e = q
  BY <1>1, <1>2, FixedIs
<1>4. C!InBlocks <=> format # "calls"
  BY DEF C!InBlocks
<1>5. CASE format # "merged"
  <2> HIDE DEF a, b, e, q, m
  <2>1. q.results # {} /\ e.results \subseteq q.results
    BY <1>3
  <2>2. Decided(format, deleted, confirmed \cap offloaded, q)
    BY <1>1, <1>2, <1>5, <2>1, FastDecided
  <2>3. C!MinOf(q.results) \in q.results /\ \A x, y \in q.results : x = y
    BY <1>2, <1>5, <2>1, CFields, ResultIdIs
  <2>4. C!MinOf(q.results) \in e.results
    BY <1>3, <2>1, <2>3
  <2>5. C!ResultId(e) = C!ResultId(q)
    BY <1>2, <2>1, <2>4, SameFirst
  <2>6. Decided(format, deleted, confirmed \cap offloaded, e)
    BY <1>3, <2>2, <2>5 DEF Decided
  <2> QED BY <2>6 DEF e
<1>6. CASE format = "merged"
  <2> SUFFICES C!ResultId(e) \cap deleted = {}
    BY <1>6 DEF Decided
  <2> HIDE DEF a, e, q, m
  <2>1. /\ e.results \subseteq q.results /\ q.results # {}
        /\ q.results \subseteq m.results /\ m.results # {}
    <3>1. q.results \subseteq m.results
      BY <1>1, <1>2, FastEdits
    <3> QED BY <1>3, <3>1
  <2>2. \/ q.results \cap deleted = {}
        \/ q.results = m.results /\ C!MinOf(m.results) \notin deleted
    BY <1>1, <1>2, <2>1, FastEdits
  <2>3. CASE q.results \cap deleted = {}
    <3>1. C!ResultId(e) \subseteq e.results
      BY <1>2, <1>3, ResultIdIs
    <3> QED BY <2>1, <2>3, <3>1
  <2>4. CASE q.results = m.results /\ C!MinOf(m.results) \notin deleted
    <3> DEFINE x == C!MinOf(m.results)
    <3>1. x \in m.results /\ x \notin deleted /\ C!ResultId(m) = {x}
      BY <1>2, <2>1, <2>4, ResultIdIs
    <3> HIDE DEF x
    <3>2. PICK j \in 1..(b - 1) : Answers(format, ms, b, j)
      BY <1>1, <1>6, <2>1, Zenon DEF Linked, m
    <3>3. j \in 1..Len(ms) /\ x \in ms[j].uses
      BY <1>1, <1>2, <3>1, <3>2 DEF Answers, m
    <3>4. PICK k \in 1..Len(p) : x \in p[k].uses
      BY <3>1, <3>3, FirstKeeps
    <3>5. x \in C!UsesOf(p)
      BY <1>2, <3>4 DEF C!UsesOf
    <3>6. x \in e.results
      BY <1>3, <1>4, <1>6, <2>4, <3>1, <3>5
    <3>7. C!ResultId(e) = C!ResultId(m)
      BY <1>2, <2>1, <3>6, SameFirst DEF x
    <3> QED BY <3>1, <3>7
  <2> QED BY <2>2, <2>3, <2>4
<1> QED BY <1>5, <1>6

(* What the server makes of the conversation that comes back is one that the        *)
(* provider takes, and keeps to what earlier requests decided.                      *)
Served(f, n, d, c, ms) == Talks(f, n, ms) /\ (f # "calls" => Complete(f, ms)) /\ Decides(f, d, c, ms)

LEMMA FastPathServes ==
  ASSUME NEW n \in Nat, NEW ms, Talks(format, n, ms), format # "calls" => Complete(format, ms)
  PROVE  Served(format, n, deleted, confirmed \cap offloaded, C!FastPath(ms))
<1>1. CASE confirmed = {} /\ deleted = {}
  <2>1. C!FastPath(ms) = ms
    BY <1>1 DEF C!FastPath
  <2>2. Decides(format, deleted, confirmed \cap offloaded, ms)
    <3> SUFFICES ASSUME NEW i \in 1..Len(ms), ms[i].results # {}
                 PROVE  Decided(format, deleted, confirmed \cap offloaded, ms[i])
      BY DEF Decides
    <3> DEFINE m == ms[i]
    <3>1. m \in CMessages(format, n) /\ m.results # {}
      BY SeqDomain DEF Talks
    <3> HIDE DEF m
    <3>2. C!ResultId(m) # {}
      BY <3>1, ResultIdIs
    <3>3. Decided(format, deleted, confirmed \cap offloaded, m)
      BY <1>1, <3>2 DEF Decided
    <3> QED BY <3>3 DEF m
  <2> QED BY <2>1, <2>2 DEF Served
<1>2. CASE ~(confirmed = {} /\ deleted = {})
  <2>1. PICK p, g : /\ C!FastPath(ms) = IF confirmed = {} /\ deleted = {} THEN ms ELSE C!Repaired(p)
                    /\ Talks(format, n, p) /\ AfterFirst(ms, p, g)
    BY FirstPass
  <2> DEFINE r == C!Repaired(p)
  <2>2. C!FastPath(ms) = r
    BY <1>2, <2>1
  <2>3. r \in Seq(CMessages(format, n)) /\ \E h : AfterSecond(p, r, h)
    BY <2>1, SecondPass
  <2> HIDE DEF r
  <2>4. PICK h : AfterSecond(p, r, h)
    BY <2>3
  <2>5. Decides(format, deleted, confirmed \cap offloaded, r)
    <3>1. format = "merged" => Linked(format, ms)
      BY DEF Complete
    <3> QED BY <2>1, <2>3, <2>4, <3>1, PassesDecide
  <2>6. Talks(format, n, r) /\ (format # "calls" => Complete(format, r))
    <3>1. CASE format # "calls"
      <4>1. C!InBlocks /\ UsesApart(ms) /\ Apart(ms) /\ ms \in Seq(CMessages(format, n))
        BY <3>1 DEF C!InBlocks, Complete, Talks
      <4>2. \E both, stays : Derives(r, ms, both, stays)
        BY <2>1, <2>4, <4>1, PassesDerive
      <4>3. PICK both, stays : Derives(r, ms, both, stays)
        BY <4>2
      <4>4. Apart(r) /\ Complete(format, r)
        BY <2>3, <3>1, <4>1, <4>3, DerivedComplete
      <4> QED BY <2>3, <4>4 DEF Talks
    <3>2. CASE format = "calls"
      <4>1. /\ p \in Seq(CMessages(format, n)) /\ Len(p) \in Nat /\ Len(r) \in Nat /\ Apart(p)
            /\ h \in [1..Len(r) -> 1..Len(p)]
            /\ \A i, j \in 1..Len(r) : i < j => h[i] < h[j]
            /\ \A i \in 1..Len(r) : r[i] = Fixed(p, h[i])
        BY <2>1, <2>4 DEF AfterFirst, AfterSecond, Talks
      <4>2. \A i \in 1..Len(r) : r[i].results \subseteq p[h[i]].results
        <5> TAKE i \in 1..Len(r)
        <5>1. h[i] \in 1..Len(p)
          BY <4>1
        <5>2. Fixed(p, h[i]) = p[h[i]]
          BY <3>2, <4>1, <5>1, FixedIs DEF C!InBlocks
        <5> QED BY <4>1, <5>2
      <4>3. Apart(r)
        BY <4>1, <4>2, DerivedApart
      <4> QED BY <2>3, <3>2, <4>3 DEF Talks
    <3> QED BY <3>1, <3>2
  <2> QED BY <2>2, <2>5, <2>6 DEF Served
<1> QED BY <1>1, <1>2

(* messages that differ in their summaries only *)
LEMMA EditedServes ==
  ASSUME NEW f, NEW n \in Nat, NEW d, NEW c, NEW ms, NEW r \in Seq(CMessages(f, n)), Talks(f, n, ms),
         f # "calls" => Complete(f, ms), Len(r) = Len(ms), Decides(f, d, c, r),
         \A i \in 1..Len(ms) : r[i].kind = ms[i].kind /\ r[i].results = ms[i].results /\ r[i].uses = ms[i].uses
  PROVE  Served(f, n, d, c, r)
<1> DEFINE g == [i \in 1..Len(r) |-> i]
           stays == 1..n
<1>1. /\ ms \in Seq(CMessages(f, n)) /\ Len(ms) \in Nat /\ Apart(ms)
      /\ \A i \in 1..Len(ms) : ms[i].uses \subseteq stays /\ ms[i].results \subseteq stays
  <2>1. ms \in Seq(CMessages(f, n)) /\ Len(ms) \in Nat /\ Apart(ms)
    BY SeqDomain DEF Talks
  <2>2. \A i \in 1..Len(ms) : ms[i] \in CMessages(f, n)
    BY <2>1
  <2> QED BY <2>1, <2>2, CFields
<1>2. g \in [1..Len(r) -> 1..Len(ms)] /\ \A i \in 1..Len(r) : g[i] = i
  OBVIOUS
<1> HIDE DEF g, stays
<1>3. \A i, j \in 1..Len(r) : i < j => g[i] < g[j]
  BY <1>2
<1>4. Apart(r)
  BY <1>1, <1>2, <1>3, DerivedApart
<1>5. f # "calls" => Complete(f, r)
  <2>1. Derives(r, ms, g, stays)
    BY <1>1, <1>2, <1>3 DEF Derives
  <2> QED BY <1>1, <2>1, DerivedComplete
<1> QED BY <1>4, <1>5 DEF Served, Talks

LEMMA SummarizedServes ==
  ASSUME NEW n \in Nat, NEW d, NEW c, NEW c2, NEW ms, Served(format, n, d, c, ms),
         NEW chosen, chosen \subseteq C!Candidates(ms), c2 \subseteq c \cup C!IdsOf(ms, chosen)
  PROVE  Served(format, n, d, c2, C!Summarized(ms, chosen))
<1> DEFINE r == C!Summarized(ms, chosen)
<1>1. /\ Talks(format, n, ms) /\ (format # "calls" => Complete(format, ms)) /\ Decides(format, d, c, ms)
      /\ ms \in Seq(CMessages(format, n)) /\ Len(ms) \in Nat /\ DOMAIN ms = 1..Len(ms) /\ Apart(ms)
      /\ \A i \in 1..Len(ms) : ms[i] \in CMessages(format, n)
  BY SeqDomain DEF Served, Talks
<1>2. r = [i \in 1..Len(ms) |-> IF i \in chosen THEN AsSummary(ms[i]) ELSE ms[i]]
  BY <1>1, Zenon DEF C!Summarized, AsSummary
<1>3. chosen \subseteq 1..Len(ms)
  BY <1>1 DEF C!Candidates
<1>4. ASSUME NEW i \in 1..Len(ms)
      PROVE  /\ AsSummary(ms[i]) \in CMessages(format, n) /\ AsSummary(ms[i]).kind = ms[i].kind
             /\ AsSummary(ms[i]).results = ms[i].results /\ AsSummary(ms[i]).uses = ms[i].uses
             /\ AsSummary(ms[i]).offloaded
  <2> DEFINE m == ms[i]
  <2>1. m \in CMessages(format, n) /\ m \in CRecords(n) /\ {} \in SUBSET (1..n)
    BY <1>1, CFields
  <2> HIDE DEF m
  <2>2. /\ AsSummary(m) \in CRecords(n) /\ AsSummary(m).kind = m.kind /\ AsSummary(m).offloaded
        /\ AsSummary(m).uses = m.uses /\ AsSummary(m).results = m.results
    BY <2>1, EditsAre, ZenonT(40)
  <2>3. AsSummary(m) \in CMessages(format, n)
    BY <2>1, <2>2, EditedMessage
  <2> QED BY <2>2, <2>3 DEF m
<1> HIDE DEF r
<1>5. /\ Len(r) = Len(ms) /\ r \in Seq(CMessages(format, n))
      /\ \A i \in 1..Len(ms) : r[i] = IF i \in chosen THEN AsSummary(ms[i]) ELSE ms[i]
  <2> DEFINE D == CMessages(format, n)
  <2>1. \A i \in 1..Len(ms) : AsSummary(ms[i]) \in D /\ ms[i] \in D
    BY <1>1, <1>4
  <2> HIDE DEF D
  <2>2. r \in [1..Len(ms) -> D] /\ \A i \in 1..Len(ms) : r[i] = IF i \in chosen THEN AsSummary(ms[i]) ELSE ms[i]
    BY <1>2, <2>1
  <2>3. r \in Seq(D) /\ Len(r) = Len(ms)
    BY <1>1, <2>2
  <2> QED BY <2>2, <2>3 DEF D
<1>6. \A i \in 1..Len(ms) : /\ r[i].kind = ms[i].kind /\ r[i].results = ms[i].results /\ r[i].uses = ms[i].uses
                            /\ i \in chosen => r[i].offloaded
                            /\ i \notin chosen => r[i] = ms[i]
  BY <1>4, <1>5
<1>7. Decides(format, d, c2, r)
  <2> SUFFICES ASSUME NEW i \in 1..Len(ms), ms[i].results # {} PROVE Decided(format, d, c2, r[i])
    BY <1>5, <1>6 DEF Decides
  <2> DEFINE m == ms[i]
             e == r[i]
  <2>1. /\ m \in CMessages(format, n) /\ m.results # {} /\ e.results = m.results
        /\ i \in chosen => e.offloaded
        /\ i \notin chosen => e = m
        /\ Decided(format, d, c, m)
    BY <1>1, <1>6 DEF Decides
  <2>2. i \notin chosen => ~\E x : x \in m.results /\ x \in C!IdsOf(ms, chosen)
    <3> SUFFICES ASSUME i \notin chosen, NEW k \in chosen, NEW x, x \in m.results, x \in C!ResultId(ms[k])
                 PROVE  FALSE
      BY DEF C!IdsOf
    <3>1. k \in 1..Len(ms) /\ ms[k] \in CMessages(format, n)
      BY <1>1, <1>3
    <3>2. x \in ms[k].results
      <4> DEFINE q == ms[k]
      <4>1. q \in CMessages(format, n)
        BY <3>1
      <4> HIDE DEF q
      <4>2. C!ResultId(q) \subseteq q.results
        BY <4>1, ResultIdIs
      <4> QED BY <4>2 DEF q
    <3>3. i = k
      BY <1>1, <3>1, <3>2, Zenon DEF Apart
    <3> QED BY <3>3
  <2> HIDE DEF m, e
  <2>3. C!ResultId(e) = C!ResultId(m) /\ C!ResultId(m) \subseteq m.results /\ C!ResultId(m) # {}
    BY <2>1, ResultIdIs DEF C!ResultId
  <2>4. i \notin chosen /\ C!ResultId(m) \subseteq c2 => C!ResultId(m) \subseteq c
    BY <2>2, <2>3
  <2>5. Decided(format, d, c2, e)
    BY <2>1, <2>3, <2>4 DEF Decided
  <2> QED BY <2>5 DEF e
<1>8. Served(format, n, d, c2, r)
  BY <1>1, <1>5, <1>6, <1>7, EditedServes
<1> QED BY <1>8 DEF r

(* the results of the messages at the places drop *)
ResultsAt(ms, drop) == UNION {ms[i].results : i \in drop}

(* whole steps go: the calls with their results, and in one message all of them *)
WholeSteps(f, ms, drop) ==
  /\ drop \subseteq 1..Len(ms)
  /\ \A k \in drop : ms[k].uses \subseteq ResultsAt(ms, drop)
  /\ f = "merged" => \A k \in 1..Len(ms) : k \in drop \/ ms[k].uses \cap ResultsAt(ms, drop) = {}

LEMMA WithPairsWhole ==
  ASSUME NEW f, NEW n \in Nat, NEW ms, Talks(f, n, ms), Complete(f, ms), NEW first, first \subseteq 1..Len(ms)
  PROVE  WholeSteps(f, ms, C!WithPairs(ms, first))
<1> DEFINE res == first \cup {i \in DOMAIN ms : \E j \in first : ms[j].uses \cap ms[i].results # {}}
           A == UNION {ms[i].results : i \in res}
           drop == res \cup {j \in DOMAIN ms : ms[j].uses # {} /\ ms[j].uses \subseteq A}
<1>1. C!WithPairs(ms, first) = drop
  BY Zenon DEF C!WithPairs
<1>2. /\ DOMAIN ms = 1..Len(ms) /\ Len(ms) \in Nat
      /\ \A i \in 1..Len(ms) : ms[i] \in CMessages(f, n)
  BY SeqDomain DEF Talks
<1>3. \A i \in 1..Len(ms) : ms[i].uses = {} \/ ms[i].results = {}
  BY <1>2, CFields
<1>4. drop \subseteq 1..Len(ms) /\ res \subseteq drop /\ first \subseteq res
  BY <1>2
<1>5. A \subseteq ResultsAt(ms, drop)
  BY <1>4 DEF ResultsAt
<1>6. ASSUME NEW k \in drop, NEW x \in ms[k].uses PROVE x \in ResultsAt(ms, drop)
  <2>1. CASE k \in first
    <3>1. PICK j \in 1..Len(ms) : x \in ms[j].results
      BY <1>4, <1>6, Zenon DEF Complete, Answered
    <3>2. j \in res
      BY <1>2, <1>6, <2>1, <3>1
    <3> QED BY <1>5, <3>1, <3>2
  <2>2. CASE k \notin first /\ k \in res
    <3>1. ms[k].results # {} /\ k \in 1..Len(ms)
      BY <1>2, <2>2
    <3> QED BY <1>3, <1>6, <3>1
  <2>3. CASE k \notin res
    <3>1. ms[k].uses \subseteq A
      BY <1>6, <2>3
    <3> QED BY <1>5, <1>6, <3>1
  <2> QED BY <2>1, <2>2, <2>3
<1>7. ASSUME f = "merged", NEW k \in 1..Len(ms), k \notin drop, NEW x, x \in ms[k].uses, x \in ResultsAt(ms, drop)
      PROVE  FALSE
  <2>1. PICK i \in drop : x \in ms[i].results
    BY <1>7 DEF ResultsAt
  <2>2. i \in 1..Len(ms) /\ i \in res
    BY <1>2, <1>3, <1>4, <2>1
  <2>3. PICK j \in 1..(i - 1) : Answers(f, ms, i, j)
    BY <2>1, <2>2, Zenon DEF Complete, Linked
  <2>4. j \in 1..Len(ms) /\ x \in ms[j].uses /\ ms[i].results = ms[j].uses
    BY <1>2, <1>7, <2>1, <2>2, <2>3 DEF Answers
  <2>5. j = k
    BY <1>7, <2>4, Zenon DEF Complete, UsesApart
  <2>6. ms[k].uses # {} /\ ms[k].uses \subseteq A
    BY <1>7, <2>2, <2>4, <2>5
  <2> QED BY <1>2, <1>7, <2>6
<1> HIDE DEF drop
<1>8. WholeSteps(f, ms, drop)
  BY <1>4, <1>6, <1>7 DEF WholeSteps
<1> QED BY <1>1, <1>8

LEMMA IdsAreResults ==
  ASSUME NEW f, NEW n \in Nat, NEW ms, Talks(f, n, ms), NEW drop, drop \subseteq 1..Len(ms)
  PROVE  /\ C!IdsOf(ms, drop) \subseteq ResultsAt(ms, drop)
         /\ f # "merged" => C!IdsOf(ms, drop) = ResultsAt(ms, drop)
         /\ ResultsAt(ms, drop) \subseteq 1..n
         /\ \A i \in 1..Len(ms) : (\E x : x \in ms[i].results /\ x \in ResultsAt(ms, drop)) => i \in drop
<1>1. \A i \in 1..Len(ms) : ms[i] \in CMessages(f, n)
  BY SeqDomain DEF Talks
<1>2. \A i \in 1..Len(ms) : ms[i].results \subseteq 1..n
  BY <1>1, CFields
<1>3. ASSUME NEW i \in drop
      PROVE  C!ResultId(ms[i]) \subseteq ms[i].results /\ (f # "merged" => C!ResultId(ms[i]) = ms[i].results)
  <2> DEFINE m == ms[i]
  <2>1. m \in CMessages(f, n)
    BY <1>1
  <2> HIDE DEF m
  <2>2. C!ResultId(m) \subseteq m.results /\ (f # "merged" => C!ResultId(m) = m.results)
    BY <2>1, ResultIdIs
  <2> QED BY <2>2 DEF m
<1>4. C!IdsOf(ms, drop) \subseteq ResultsAt(ms, drop)
  BY <1>3 DEF C!IdsOf, ResultsAt
<1>5. f # "merged" => ResultsAt(ms, drop) \subseteq C!IdsOf(ms, drop)
  BY <1>3 DEF C!IdsOf, ResultsAt
<1>6. ResultsAt(ms, drop) \subseteq 1..n
  BY <1>2 DEF ResultsAt
<1>7. ASSUME NEW i \in 1..Len(ms), NEW x, x \in ms[i].results, x \in ResultsAt(ms, drop) PROVE i \in drop
  <2>1. PICK j \in drop : x \in ms[j].results
    BY <1>7 DEF ResultsAt
  <2>2. i = j
    BY <1>7, <2>1, Zenon DEF Talks, Apart
  <2> QED BY <2>1, <2>2
<1> QED BY <1>4, <1>5, <1>6, <1>7

(* what a deletion leaves of a message *)
CallsLeft(m, dangling) == IF C!InBlocks /\ ~(m.uses \subseteq dangling) THEN Using(m, m.uses \ dangling) ELSE m

LEMMA CallsLeftIs ==
  ASSUME NEW n \in Nat, NEW m \in CMessages(format, n), NEW dangling
  PROVE  /\ CallsLeft(m, dangling) \in CMessages(format, n)
         /\ CallsLeft(m, dangling).kind = m.kind /\ CallsLeft(m, dangling).results = m.results
         /\ CallsLeft(m, dangling).offloaded = m.offloaded
         /\ C!InBlocks /\ ~(m.uses # {} /\ m.uses \subseteq dangling)
              => CallsLeft(m, dangling).uses = m.uses \ dangling
<1> DEFINE v == m.uses \ dangling
<1>1. m \in CRecords(n) /\ v \in SUBSET (1..n) /\ v \subseteq m.uses
  BY CFields
<1>2. CallsLeft(m, dangling) = IF C!InBlocks /\ ~(m.uses \subseteq dangling) THEN Using(m, v) ELSE m
  BY DEF CallsLeft
<1>3. m.uses \subseteq dangling /\ ~(m.uses # {} /\ m.uses \subseteq dangling) => m.uses = v
  OBVIOUS
<1> HIDE DEF v
<1>4. /\ Using(m, v) \in CRecords(n) /\ Using(m, v).kind = m.kind /\ Using(m, v).offloaded = m.offloaded
      /\ Using(m, v).uses = v /\ Using(m, v).results = m.results
  BY <1>1, EditsAre, SMTT(30)
<1>5. Using(m, v) \in CMessages(format, n)
  BY <1>1, <1>4, EditedMessage
<1>6. /\ CallsLeft(m, dangling) \in CMessages(format, n)
      /\ CallsLeft(m, dangling).kind = m.kind /\ CallsLeft(m, dangling).results = m.results
      /\ CallsLeft(m, dangling).offloaded = m.offloaded
      /\ C!InBlocks /\ ~(m.uses # {} /\ m.uses \subseteq dangling) => CallsLeft(m, dangling).uses = v
  BY <1>2, <1>3, <1>4, <1>5
<1> QED BY <1>6 DEF v

(* r is what a deletion of the places drop leaves of ms, at the places g *)
Leaves(ms, r, g, drop, dangling) ==
  /\ Len(r) \in Nat /\ g \in [1..Len(r) -> 1..Len(ms)]
  /\ \A i, j \in 1..Len(r) : i < j => g[i] < g[j]
  /\ \A i \in 1..Len(r) : /\ r[i] = CallsLeft(ms[g[i]], dangling) /\ g[i] \notin drop
                          /\ ~(ms[g[i]].uses # {} /\ ms[g[i]].uses \subseteq dangling)
  /\ \A k \in 1..Len(ms) : k \in drop \/ (ms[k].uses # {} /\ ms[k].uses \subseteq dangling)
                             \/ \E i \in 1..Len(r) : g[i] = k

LEMMA StrippedLeaves ==
  ASSUME NEW n \in Nat, NEW ms \in Seq(CMessages(format, n)), NEW drop, drop \subseteq 1..Len(ms)
  PROVE  /\ C!Stripped(ms, drop) \in Seq(CMessages(format, n))
         /\ \E g : Leaves(ms, C!Stripped(ms, drop), g, drop, C!IdsOf(ms, drop))
<1> DEFINE dangling == C!IdsOf(ms, drop)
           cut == [i \in DOMAIN ms |-> IF C!InBlocks /\ ~(ms[i].uses \subseteq dangling)
                                         THEN [ms[i] EXCEPT !.uses = @ \ dangling] ELSE ms[i]]
           ed == [i \in 1..Len(ms) |-> CallsLeft(ms[i], dangling)]
           gone == drop \cup {i \in DOMAIN ms : ms[i].uses # {} /\ ms[i].uses \subseteq dangling}
           keep == DOMAIN ed \ gone
           r == C!Kept(ed, keep)
<1>1. /\ DOMAIN ms = 1..Len(ms) /\ Len(ms) \in Nat
      /\ \A i \in 1..Len(ms) : ms[i] \in CMessages(format, n)
  BY SeqDomain
<1>2. cut = ed
  BY <1>1, Zenon DEF CallsLeft, Using
<1>3. C!Stripped(ms, drop) = r
  <2>1. C!Stripped(ms, drop) = C!Without(cut, gone)
    BY Zenon DEF C!Stripped
  <2> QED BY <1>2, <2>1, Zenon DEF C!Without
<1>4. \A k \in 1..Len(ms) : k \in keep <=> k \notin drop /\ ~(ms[k].uses # {} /\ ms[k].uses \subseteq dangling)
  BY <1>1
<1> HIDE DEF dangling
<1>5. /\ ed \in Seq(CMessages(format, n)) /\ Len(ed) = Len(ms)
      /\ \A i \in 1..Len(ms) : ed[i] = CallsLeft(ms[i], dangling)
  <2> DEFINE D == CMessages(format, n)
  <2>1. \A i \in 1..Len(ms) : CallsLeft(ms[i], dangling) \in D
    BY <1>1, CallsLeftIs
  <2> HIDE DEF D
  <2>2. ed \in [1..Len(ms) -> D] /\ \A i \in 1..Len(ms) : ed[i] = CallsLeft(ms[i], dangling)
    BY <2>1
  <2>3. ed \in Seq(D) /\ Len(ed) = Len(ms)
    BY <1>1, <2>2
  <2> QED BY <2>2, <2>3 DEF D
<1> HIDE DEF ed, keep, gone, cut
<1>6. r \in Seq(CMessages(format, n)) /\ \E g : Selects(r, ed, g, keep)
  BY <1>5, KeptSelects
<1> HIDE DEF r
<1>7. PICK g : Selects(r, ed, g, keep)
  BY <1>6
<1>8. Len(r) \in Nat /\ g \in [1..Len(r) -> 1..Len(ms)]
  BY <1>5, <1>6, <1>7 DEF Selects
<1>9. \A i, j \in 1..Len(r) : i < j => g[i] < g[j]
  BY <1>7, Zenon DEF Selects
<1>10. ASSUME NEW i \in 1..Len(r)
       PROVE  /\ r[i] = CallsLeft(ms[g[i]], dangling) /\ g[i] \notin drop
              /\ ~(ms[g[i]].uses # {} /\ ms[g[i]].uses \subseteq dangling)
  <2>1. g[i] \in 1..Len(ms) /\ r[i] = ed[g[i]] /\ g[i] \in keep
    BY <1>7, <1>8 DEF Selects
  <2> QED BY <2>1, <1>4, <1>5, Zenon
<1>11. \A k \in 1..Len(ms) : k \in drop \/ (ms[k].uses # {} /\ ms[k].uses \subseteq dangling)
                               \/ \E i \in 1..Len(r) : g[i] = k
  BY <1>4, <1>5, <1>7, Zenon DEF Selects
<1>12. Leaves(ms, r, g, drop, dangling)
  BY <1>8, <1>9, <1>10, <1>11, Zenon DEF Leaves
<1> QED BY <1>3, <1>6, <1>12, Zenon DEF dangling

LEMMA LeavesDerive ==
  ASSUME NEW n \in Nat, NEW ms, NEW r, NEW g, NEW drop, drop \subseteq 1..Len(ms), C!InBlocks,
         Talks(format, n, ms), WholeSteps(format, ms, drop), Leaves(ms, r, g, drop, C!IdsOf(ms, drop))
  PROVE  Derives(r, ms, g, (1..n) \ ResultsAt(ms, drop))
<1> DEFINE A == ResultsAt(ms, drop)
           dangling == C!IdsOf(ms, drop)
           stays == (1..n) \ A
<1>1. /\ dangling \subseteq A /\ (format # "merged" => dangling = A) /\ A \subseteq 1..n
      /\ \A i \in 1..Len(ms) : (\E x : x \in ms[i].results /\ x \in A) => i \in drop
  BY IdsAreResults
<1>2. \A i \in 1..Len(ms) : ms[i] \in CMessages(format, n)
  BY SeqDomain DEF Talks
<1>3. \A i \in 1..Len(ms) : /\ ms[i].results \subseteq 1..n /\ ms[i].uses \subseteq 1..n
                            /\ ms[i].uses = {} \/ ms[i].results = {}
  BY <1>2, CFields
<1> HIDE DEF A, dangling
<1>4. /\ Len(r) \in Nat /\ g \in [1..Len(r) -> 1..Len(ms)]
      /\ \A i, j \in 1..Len(r) : i < j => g[i] < g[j]
      /\ \A i \in 1..Len(r) : /\ r[i] = CallsLeft(ms[g[i]], dangling) /\ g[i] \notin drop
                              /\ ~(ms[g[i]].uses # {} /\ ms[g[i]].uses \subseteq dangling)
      /\ \A k \in 1..Len(ms) : k \in drop \/ (ms[k].uses # {} /\ ms[k].uses \subseteq dangling)
                                 \/ \E i \in 1..Len(r) : g[i] = k
  BY DEF Leaves, dangling
<1>5. /\ \A k \in drop : ms[k].uses \subseteq A
      /\ format = "merged" => \A k \in 1..Len(ms) : k \in drop \/ ms[k].uses \cap A = {}
  BY DEF WholeSteps, A
<1>6. ASSUME NEW i \in 1..Len(r)
      PROVE  /\ r[i].kind = ms[g[i]].kind
             /\ r[i].results = ms[g[i]].results \cap stays
             /\ r[i].uses = ms[g[i]].uses \cap stays
  <2> DEFINE k == g[i]
             m == ms[k]
  <2>1. /\ k \in 1..Len(ms) /\ k \notin drop /\ m \in CMessages(format, n)
        /\ ~(m.uses # {} /\ m.uses \subseteq dangling) /\ r[i] = CallsLeft(m, dangling)
    BY <1>2, <1>4
  <2>2. m.results \cap A = {} /\ m.results \subseteq 1..n /\ m.uses \subseteq 1..n
    BY <1>1, <1>3, <2>1
  <2>3. format = "merged" => m.uses \cap A = {}
    BY <1>5, <2>1
  <2> HIDE DEF k, m
  <2>4. r[i].kind = m.kind /\ r[i].results = m.results /\ r[i].uses = m.uses \ dangling
    BY <2>1, CallsLeftIs
  <2>5. m.uses \ dangling = m.uses \cap stays
    BY <1>1, <2>2, <2>3
  <2>6. m.results = m.results \cap stays
    BY <2>2
  <2> QED BY <2>4, <2>5, <2>6 DEF k, m
<1>7. ASSUME NEW k \in 1..Len(ms), NEW x \in stays, x \in ms[k].results \/ x \in ms[k].uses
      PROVE  \E i \in 1..Len(r) : g[i] = k
  <2>1. k \notin drop
    <3>1. k \in drop => ms[k].results \subseteq A
      BY DEF A, ResultsAt
    <3> QED BY <1>5, <1>7, <3>1
  <2>2. ~(ms[k].uses # {} /\ ms[k].uses \subseteq dangling)
    <3> SUFFICES ASSUME ms[k].uses # {}, ms[k].uses \subseteq dangling PROVE FALSE
      OBVIOUS
    <3>1. ms[k].results = {} /\ ms[k].uses \subseteq A
      BY <1>1, <1>3
    <3> QED BY <1>7, <3>1
  <2> QED BY <1>4, <2>1, <2>2
<1> HIDE DEF stays
<1>8. Derives(r, ms, g, stays)
  BY <1>4, <1>6, <1>7 DEF Derives
<1> QED BY <1>8 DEF stays, A

LEMMA StrippedServes ==
  ASSUME NEW n \in Nat, NEW d, NEW c, NEW ms, Served(format, n, d, c, ms), NEW drop, drop \subseteq 1..Len(ms),
         format # "calls" => WholeSteps(format, ms, drop)
  PROVE  Served(format, n, d \cup C!IdsOf(ms, drop), c, C!Stripped(ms, drop))
<1> DEFINE r == C!Stripped(ms, drop)
           dangling == C!IdsOf(ms, drop)
<1>1. /\ Talks(format, n, ms) /\ (format # "calls" => Complete(format, ms)) /\ Decides(format, d, c, ms)
      /\ ms \in Seq(CMessages(format, n)) /\ Len(ms) \in Nat /\ Apart(ms)
      /\ \A i \in 1..Len(ms) : ms[i] \in CMessages(format, n)
  BY SeqDomain DEF Served, Talks
<1>2. r \in Seq(CMessages(format, n)) /\ \E g : Leaves(ms, r, g, drop, dangling)
  BY <1>1, StrippedLeaves
<1>3. /\ dangling \subseteq ResultsAt(ms, drop)
      /\ \A i \in 1..Len(ms) : (\E x : x \in ms[i].results /\ x \in ResultsAt(ms, drop)) => i \in drop
  BY <1>1, IdsAreResults
<1> HIDE DEF r
<1>4. PICK g : Leaves(ms, r, g, drop, dangling)
  BY <1>2
<1>5. /\ Len(r) \in Nat /\ g \in [1..Len(r) -> 1..Len(ms)]
      /\ \A i, j \in 1..Len(r) : i < j => g[i] < g[j]
      /\ \A i \in 1..Len(r) : r[i] = CallsLeft(ms[g[i]], dangling) /\ g[i] \notin drop
  BY <1>4 DEF Leaves
<1>6. ASSUME NEW i \in 1..Len(r)
      PROVE  /\ r[i].results = ms[g[i]].results /\ r[i].offloaded = ms[g[i]].offloaded
             /\ g[i] \in 1..Len(ms) /\ g[i] \notin drop /\ r[i] \in CMessages(format, n)
  <2> DEFINE m == ms[g[i]]
  <2>1. m \in CMessages(format, n) /\ g[i] \in 1..Len(ms)
    BY <1>1, <1>5
  <2>2. r[i] = CallsLeft(m, dangling) /\ g[i] \notin drop
    BY <1>5
  <2> HIDE DEF m, dangling
  <2>3. CallsLeft(m, dangling).results = m.results /\ CallsLeft(m, dangling).offloaded = m.offloaded
    BY <2>1, CallsLeftIs
  <2> QED BY <1>2, <2>1, <2>2, <2>3 DEF m
<1>7. Decides(format, d \cup dangling, c, r)
  <2> SUFFICES ASSUME NEW i \in 1..Len(r), r[i].results # {} PROVE Decided(format, d \cup dangling, c, r[i])
    BY DEF Decides
  <2> DEFINE m == ms[g[i]]
             e == r[i]
  <2>1. /\ e.results = m.results /\ e.offloaded = m.offloaded /\ m \in CMessages(format, n)
        /\ m.results # {} /\ Decided(format, d, c, m)
    BY <1>1, <1>6 DEF Decides
  <2>2. m.results \cap dangling = {}
    BY <1>3, <1>6
  <2> HIDE DEF m, e, dangling
  <2>3. C!ResultId(e) = C!ResultId(m) /\ C!ResultId(m) \subseteq m.results
    BY <2>1, ResultIdIs DEF C!ResultId
  <2>4. Decided(format, d \cup dangling, c, e)
    BY <2>1, <2>2, <2>3 DEF Decided
  <2> QED BY <2>4 DEF e
<1>8. Apart(r)
  BY <1>1, <1>5, <1>6, DerivedApart
<1>9. format # "calls" => Complete(format, r)
  <2> SUFFICES ASSUME format # "calls" PROVE Complete(format, r)
    OBVIOUS
  <2>1. C!InBlocks
    BY DEF C!InBlocks
  <2>2. Derives(r, ms, g, (1..n) \ ResultsAt(ms, drop))
    BY <1>1, <1>4, <2>1, LeavesDerive
  <2> QED BY <1>1, <1>2, <2>2, DerivedComplete
<1>10. Served(format, n, d \cup dangling, c, r)
  BY <1>2, <1>7, <1>8, <1>9 DEF Served, Talks
<1> QED BY <1>10 DEF r

LEMMA InsertServes ==
  ASSUME NEW f, NEW n \in Nat, NEW d, NEW c, NEW ms, NEW r, Served(f, n, d, c, ms), MapInserted(f, n, ms, r)
  PROVE  Served(f, n, d, c, r)
<1>1. Decides(f, d, c, r)
  <2> SUFFICES ASSUME NEW i \in 1..Len(r), r[i].results # {} PROVE Decided(f, d, c, r[i])
    BY DEF Decides
  <2>1. PICK j \in 1..Len(ms) : r[i] = ms[j]
    BY DEF MapInserted
  <2> QED BY <2>1 DEF Served, Decides
<1> QED BY <1>1 DEF Served, MapInserted

LEMMA EmptyServes ==
  ASSUME NEW f, NEW n \in Nat, NEW d, NEW c, NEW r \in Seq(CMessages(f, n)),
         \A i \in 1..Len(r) : r[i].uses = {} /\ r[i].results = {}
  PROVE  Served(f, n, d, c, r)
BY DEF Served, Talks, Complete, Apart, UsesApart, Linked, Answered, Decides

(* messages without calls and results may go *)
LEMMA KeptServes ==
  ASSUME NEW f, NEW n \in Nat, NEW d, NEW c, NEW ms, Served(f, n, d, c, ms), NEW keep,
         \A i \in 1..Len(ms) : i \notin keep => ms[i].uses = {} /\ ms[i].results = {}
  PROVE  Served(f, n, d, c, C!Kept(ms, keep))
<1> DEFINE r == C!Kept(ms, keep)
           stays == 1..n
<1>1. /\ Talks(f, n, ms) /\ (f # "calls" => Complete(f, ms)) /\ Decides(f, d, c, ms)
      /\ ms \in Seq(CMessages(f, n)) /\ Len(ms) \in Nat /\ Apart(ms)
      /\ \A i \in 1..Len(ms) : ms[i] \in CMessages(f, n)
  BY SeqDomain DEF Served, Talks
<1>2. r \in Seq(CMessages(f, n)) /\ \E g : Selects(r, ms, g, keep)
  BY <1>1, KeptSelects
<1>3. \A i \in 1..Len(ms) : ms[i].uses \subseteq stays /\ ms[i].results \subseteq stays
  BY <1>1, CFields
<1> HIDE DEF r, stays
<1>4. PICK g : Selects(r, ms, g, keep)
  BY <1>2
<1>5. Len(r) \in Nat /\ g \in [1..Len(r) -> 1..Len(ms)]
  BY <1>2, <1>4 DEF Selects
<1>6. \A i, j \in 1..Len(r) : i < j => g[i] < g[j]
  BY <1>4, Zenon DEF Selects
<1>7. \A i \in 1..Len(r) : r[i] = ms[g[i]] /\ g[i] \in 1..Len(ms)
  BY <1>4, <1>5 DEF Selects
<1>8. Decides(f, d, c, r)
  BY <1>1, <1>7, Zenon DEF Decides
<1>9. Apart(r)
  <2>1. \A i \in 1..Len(r) : r[i].results \subseteq ms[g[i]].results
    BY <1>7
  <2> QED BY <1>1, <1>5, <1>6, <2>1, DerivedApart
<1>10. \A i \in 1..Len(ms) : (\E x \in stays : x \in ms[i].results \/ x \in ms[i].uses)
                                => \E k \in 1..Len(r) : g[k] = i
  BY <1>4 DEF Selects
<1>11. Derives(r, ms, g, stays)
  BY <1>3, <1>5, <1>6, <1>7, <1>10 DEF Derives
<1>12. f # "calls" => Complete(f, r)
  BY <1>1, <1>2, <1>11, DerivedComplete
<1>13. Served(f, n, d, c, r)
  BY <1>2, <1>8, <1>9, <1>12 DEF Served, Talks
<1> QED BY <1>13 DEF r

LEMMA ConcatServes ==
  ASSUME NEW f, NEW n \in Nat, NEW d, NEW c, NEW a, NEW b, Served(f, n, d, c, a), Served(f, n, d, c, b),
         \A i \in 1..Len(a), j \in 1..Len(b) :
           /\ ~\E x : x \in a[i].results /\ x \in b[j].results
           /\ ~\E x : x \in a[i].uses /\ x \in b[j].uses
  PROVE  Served(f, n, d, c, a \o b)
<1>1. Talks(f, n, a) /\ Talks(f, n, b) /\ Decides(f, d, c, a) /\ Decides(f, d, c, b)
  BY DEF Served
<1>2. Talks(f, n, a \o b) /\ (f # "calls" => Complete(f, a \o b))
  BY <1>1, ConcatTalks DEF Served
<1>3. Decides(f, d, c, a \o b)
  <2> DEFINE r == a \o b
             p == Len(a)
             q == Len(b)
             D == CMessages(f, n)
  <2>1. a \in Seq(D) /\ b \in Seq(D)
    BY <1>1 DEF Talks
  <2> HIDE DEF D
  <2>2. /\ p \in Nat /\ q \in Nat /\ Len(r) = p + q
        /\ \A i \in 1..p : r[i] = a[i]
        /\ \A i \in (p + 1)..(p + q) : r[i] = b[i - p]
    BY <2>1
  <2> HIDE DEF r
  <2>3. ASSUME NEW i \in 1..Len(r), r[i].results # {} PROVE Decided(f, d, c, r[i])
    <3>1. CASE i \in 1..p
      <4>1. r[i] = a[i]
        BY <2>2, <3>1
      <4> QED BY <1>1, <2>3, <3>1, <4>1 DEF Decides
    <3>2. CASE i \notin 1..p
      <4>1. i \in (p + 1)..(p + q) /\ i - p \in 1..q
        BY <2>2, <3>2
      <4>2. r[i] = b[i - p]
        BY <2>2, <4>1
      <4> QED BY <1>1, <2>3, <4>1, <4>2 DEF Decides
    <3> QED BY <3>1, <3>2
  <2> QED BY <2>3 DEF Decides, r
<1> QED BY <1>2, <1>3 DEF Served

LEMMA DroppedIs ==
  ASSUME NEW f, NEW n \in Nat, NEW ms, Talks(f, n, ms), NEW k
  PROVE  /\ C!Dropped(ms, k) \subseteq 1..Len(ms)
         /\ Complete(f, ms) => WholeSteps(f, ms, C!Dropped(ms, k))
<1> DEFINE first == C!FirstDeleted(ms, k)
<1>1. DOMAIN ms = 1..Len(ms) /\ Len(ms) \in Nat /\ ms \in Seq(CMessages(f, n))
  BY SeqDomain DEF Talks
<1>2. C!LastUser(ms) \in 1..(Len(ms) + 1)
  <2>1. CASE C!Users(ms) # {}
    <3>1. C!LastUser(ms) \in 1..Len(ms)
      BY <1>1, <2>1, CLastUserIs
    <3> QED BY <1>1, <3>1
  <2>2. CASE C!Users(ms) = {}
    BY <1>1, <2>2 DEF C!LastUser
  <2> QED BY <2>1, <2>2
<1>3. C!Deletable(ms) \subseteq 1..Len(ms)
  BY <1>1, <1>2 DEF C!Deletable
<1>4. first \subseteq 1..Len(ms)
  BY <1>3 DEF C!FirstDeleted
<1> HIDE DEF first
<1>5. C!WithPairs(ms, first) \subseteq 1..Len(ms)
  BY <1>1, <1>4 DEF C!WithPairs
<1>6. Complete(f, ms) => WholeSteps(f, ms, C!WithPairs(ms, first))
  BY <1>4, WithPairsWhole
<1>7. C!Dropped(ms, k) = C!WithPairs(ms, first)
  BY Zenon DEF C!Dropped, first
<1> QED BY <1>5, <1>6, <1>7

LEMMA MmdsAre ==
  ASSUME NEW f, NEW n \in Nat, NEW ms \in Seq(CMessages(f, n))
  PROVE  /\ \A i \in 1..Len(ms) : i \in C!Mmds(ms) <=> C!IsMmd(ms[i])
         /\ \A i \in 1..Len(ms) : i \in C!Mmds(ms) => ms[i].uses = {} /\ ms[i].results = {}
<1>1. DOMAIN ms = 1..Len(ms) /\ \A i \in 1..Len(ms) : ms[i] \in CMessages(f, n)
  BY SeqDomain
<1>2. \A i \in 1..Len(ms) : C!IsMmd(ms[i]) => ms[i].uses = {} /\ ms[i].results = {}
  BY <1>1, CFields DEF C!IsMmd
<1> QED BY <1>1, <1>2 DEF C!Mmds

LEMMA WithoutMmdsServes ==
  ASSUME NEW f, NEW n \in Nat, NEW d, NEW c, NEW ms, Served(f, n, d, c, ms)
  PROVE  Served(f, n, d, c, C!WithoutMmds(ms))
<1> DEFINE keep == DOMAIN ms \ C!Mmds(ms)
<1>1. C!WithoutMmds(ms) = C!Kept(ms, keep)
  BY Zenon DEF C!WithoutMmds, C!Without
<1>2. ms \in Seq(CMessages(f, n)) /\ DOMAIN ms = 1..Len(ms)
  BY SeqDomain DEF Served, Talks
<1>3. \A i \in 1..Len(ms) : i \notin keep => ms[i].uses = {} /\ ms[i].results = {}
  BY <1>2, MmdsAre
<1> HIDE DEF keep
<1>4. Served(f, n, d, c, C!Kept(ms, keep))
  BY <1>3, KeptServes
<1> QED BY <1>1, <1>4

LEMMA MmdsFirstServes ==
  ASSUME NEW f, NEW n \in Nat, NEW d, NEW c, NEW ms, Talks(f, n, ms), NEW rest, Served(f, n, d, c, rest)
  PROVE  Served(f, n, d, c, C!MmdsFirst(ms, rest))
<1> DEFINE a == C!Kept(ms, C!Mmds(ms))
           b == C!Reversed(a)
           D == CMessages(f, n)
<1>1. C!MmdsFirst(ms, rest) = b \o rest
  BY Zenon DEF C!MmdsFirst
<1>2. ms \in Seq(D) /\ DOMAIN ms = 1..Len(ms)
  BY SeqDomain DEF Talks
<1>3. a \in Seq(D) /\ \E g : Selects(a, ms, g, C!Mmds(ms))
  BY <1>2, KeptSelects
<1> HIDE DEF a, D
<1>4. PICK g : Selects(a, ms, g, C!Mmds(ms))
  BY <1>3
<1>5. \A i \in 1..Len(a) : a[i].uses = {} /\ a[i].results = {} /\ a[i] \in D
  <2> TAKE i \in 1..Len(a)
  <2>1. g[i] \in 1..Len(ms) /\ a[i] = ms[g[i]] /\ g[i] \in C!Mmds(ms)
    BY <1>4 DEF Selects
  <2>2. ms[g[i]].uses = {} /\ ms[g[i]].results = {}
    BY <1>2, <2>1, MmdsAre DEF D
  <2> QED BY <1>3, <2>1, <2>2
<1>6. /\ b \in Seq(D) /\ Len(b) = Len(a)
      /\ \A i \in 1..Len(b) : b[i].uses = {} /\ b[i].results = {}
  <2>1. b = [i \in 1..Len(a) |-> a[Len(a) + 1 - i]] /\ Len(a) \in Nat
    BY <1>3 DEF C!Reversed
  <2>2. \A i \in 1..Len(a) : Len(a) + 1 - i \in 1..Len(a)
    BY <2>1
  <2> HIDE DEF b
  <2>3. b \in [1..Len(a) -> D] /\ \A i \in 1..Len(a) : b[i] = a[Len(a) + 1 - i]
    BY <1>5, <2>1, <2>2
  <2>4. b \in Seq(D) /\ Len(b) = Len(a)
    <3> DEFINE l == Len(a)
    <3>1. l \in Nat /\ b \in [1..l -> D]
      BY <2>1, <2>3
    <3> HIDE DEF l
    <3>2. b \in Seq(D) /\ Len(b) = l
      BY <3>1
    <3> QED BY <3>2 DEF l
  <2> QED BY <1>5, <2>2, <2>3, <2>4
<1> HIDE DEF b
<1>7. Served(f, n, d, c, b)
  BY <1>6, EmptyServes DEF D
<1>8. Served(f, n, d, c, b \o rest)
  BY <1>6, <1>7, ConcatServes
<1> QED BY <1>1, <1>8

(* the messages after a cut, not between a call and its result *)
LEMMA SuffixTalks ==
  ASSUME NEW f, NEW n \in Nat, NEW ms, Talks(f, n, ms), NEW k \in 0..Len(ms), NotBeforeResult(ms, k)
  PROVE  /\ Talks(f, n, E!From(ms, k))
         /\ Complete(f, ms) => Complete(f, E!From(ms, k))
<1> DEFINE r == E!From(ms, k)
           g == [i \in 1..Len(r) |-> i + k]
           stays == ResultsAt(ms, (k + 1)..Len(ms))
<1>1. /\ ms \in Seq(CMessages(f, n)) /\ Len(ms) \in Nat /\ Apart(ms) /\ k \in Nat /\ k <= Len(ms)
      /\ \A i \in 1..Len(ms) : ms[i] \in CMessages(f, n)
  BY SeqDomain DEF Talks
<1>2. /\ r \in Seq(CMessages(f, n)) /\ Len(r) = Len(ms) - k
      /\ \A i \in 1..Len(r) : i + k \in 1..Len(ms) /\ r[i] = ms[i + k]
  BY <1>1, FromFacts
<1> HIDE DEF r
<1>3. /\ Len(r) \in Nat /\ g \in [1..Len(r) -> 1..Len(ms)]
      /\ \A i \in 1..Len(r) : g[i] = i + k
  BY <1>1, <1>2
<1> HIDE DEF g
<1>4. \A i, j \in 1..Len(r) : i < j => g[i] < g[j]
  BY <1>1, <1>3
<1>5. \A i \in 1..Len(r) : g[i] \in 1..Len(ms) /\ g[i] > k /\ r[i] = ms[g[i]]
  BY <1>1, <1>2, <1>3
<1>6. Apart(r)
  BY <1>1, <1>3, <1>4, <1>5, DerivedApart
<1>7. ASSUME Complete(f, ms) PROVE Complete(f, r)
  <2>1. ASSUME NEW i \in 1..Len(ms), NEW j \in 1..Len(ms), NEW x, x \in ms[i].uses, x \in ms[j].results
        PROVE  (i > k <=> j > k)
    <3>1. PICK b \in 1..(j - 1) : Answers(f, ms, j, b)
      BY <1>7, <2>1, Zenon DEF Complete, Linked
    <3>2. b \in 1..Len(ms) /\ b < j /\ x \in ms[b].uses
      BY <1>1, <2>1, <3>1 DEF Answers
    <3>3. b = i
      BY <1>7, <2>1, <3>2, Zenon DEF Complete, UsesApart
    <3>4. ~(i <= k /\ k < j)
      <4> SUFFICES ASSUME i <= k, k < j PROVE FALSE
        OBVIOUS
      <4>1. k + 1 \in (b + 1)..j /\ k < Len(ms)
        BY <1>1, <3>2, <3>3
      <4>2. ms[k + 1].results # {}
        BY <3>1, <4>1 DEF Answers
      <4> QED BY <4>1, <4>2 DEF NotBeforeResult
    <3> QED BY <1>1, <3>2, <3>3, <3>4
  <2>2. \A i \in 1..Len(ms) : i > k => ms[i].results \subseteq stays
    BY <1>1 DEF ResultsAt
  <2>3. ASSUME NEW i \in 1..Len(ms), i > k, NEW x \in ms[i].uses PROVE x \in stays
    <3>1. PICK j \in 1..Len(ms) : x \in ms[j].results
      BY <1>7, <2>3, Zenon DEF Complete, Answered
    <3> QED BY <2>1, <2>2, <2>3, <3>1
  <2>4. ASSUME NEW i \in 1..Len(ms), NEW x \in stays, x \in ms[i].results \/ x \in ms[i].uses PROVE i > k
    <3>1. PICK j \in (k + 1)..Len(ms) : x \in ms[j].results
      BY <2>4 DEF ResultsAt
    <3>2. j \in 1..Len(ms) /\ j > k
      BY <1>1
    <3>3. CASE x \in ms[i].results
      <4>1. i = j
        BY <1>1, <3>1, <3>2, <3>3, Zenon DEF Apart
      <4> QED BY <3>2, <4>1
    <3>4. CASE x \in ms[i].uses
      BY <2>1, <3>1, <3>2, <3>4
    <3> QED BY <2>4, <3>3, <3>4
  <2> HIDE DEF stays
  <2>5. ASSUME NEW i \in 1..Len(ms), NEW x \in stays, x \in ms[i].results \/ x \in ms[i].uses
        PROVE  \E j \in 1..Len(r) : g[j] = i
    <3>1. i > k
      BY <2>4, <2>5
    <3>2. i - k \in 1..Len(r)
      BY <1>1, <1>2, <3>1
    <3>3. g[i - k] = i
      BY <1>1, <1>3, <3>2
    <3> QED BY <3>2, <3>3
  <2>6. \A i \in 1..Len(r) : /\ r[i].kind = ms[g[i]].kind
                             /\ r[i].results = ms[g[i]].results \cap stays
                             /\ r[i].uses = ms[g[i]].uses \cap stays
    <3> TAKE i \in 1..Len(r)
    <3> DEFINE j == g[i]
    <3>1. j \in 1..Len(ms) /\ j > k /\ r[i] = ms[j]
      BY <1>5
    <3> HIDE DEF j
    <3>2. ms[j].results \subseteq stays /\ ms[j].uses \subseteq stays
      BY <2>2, <2>3, <3>1
    <3>3. /\ r[i].kind = ms[j].kind
          /\ r[i].results = ms[j].results \cap stays
          /\ r[i].uses = ms[j].uses \cap stays
      BY <3>1, <3>2
    <3> QED BY <3>3 DEF j
  <2>7. Derives(r, ms, g, stays)
    BY <1>3, <1>4, <2>5, <2>6 DEF Derives
  <2> QED BY <1>1, <1>2, <1>7, <2>7, DerivedComplete
<1>8. Talks(f, n, r) /\ (Complete(f, ms) => Complete(f, r))
  BY <1>2, <1>6, <1>7 DEF Talks
<1> QED BY <1>8 DEF r

LEMMA LocalCutIs ==
  ASSUME NEW n \in Nat, Talks(format, n, history), NEW c \in 0..Len(history)
  PROVE  /\ C!BeforeUses(C!BeyondResults(c)) \in 0..Len(history)
         /\ NotBeforeResult(history, C!BeforeUses(C!BeyondResults(c)))
<1> DEFINE V == {i \in (c + 1)..(Len(history) + 1) : i > Len(history) \/ ~C!IsResult(history[i])}
           b == C!BeyondResults(c)
           x == C!BeforeUses(b)
<1>1. /\ Len(history) \in Nat /\ c \in Nat /\ c <= Len(history)
      /\ \A i \in 1..Len(history) : history[i] \in CMessages(format, n)
  BY SeqDomain DEF Talks
<1>2. \A i \in 1..Len(history) : /\ C!IsResult(history[i]) <=> history[i].results # {}
                                 /\ history[i].uses # {} => history[i].results = {}
  BY <1>1, CFields DEF C!IsResult
<1>3. b = C!MinOf(V) - 1
  BY DEF C!BeyondResults
<1>4. C!MinOf(V) \in V
  <2>1. V \subseteq Nat /\ Len(history) + 1 \in V
    BY <1>1
  <2> HIDE DEF V
  <2> QED BY <2>1, CMinOfIs
<1>5. b \in c..Len(history) /\ (b = Len(history) \/ ~C!IsResult(history[b + 1]))
  <2> DEFINE v == C!MinOf(V)
  <2>1. v \in (c + 1)..(Len(history) + 1) /\ (v > Len(history) \/ ~C!IsResult(history[v]))
    BY <1>4
  <2> HIDE DEF v
  <2>2. b = v - 1
    BY <1>3 DEF v
  <2> HIDE DEF b
  <2>3. b + 1 = v /\ b \in c..Len(history)
    BY <1>1, <2>1, <2>2
  <2> QED BY <1>1, <2>1, <2>3
<1>6. b \in 0..Len(history) /\ NotBeforeResult(history, b)
  BY <1>1, <1>2, <1>5 DEF NotBeforeResult
<1> HIDE DEF b
<1>7. CASE b \in 1..(Len(history) - 1) /\ C!InBlocks
  <2> DEFINE Back(d) == (\A i \in (d + 1)..b : history[i].uses # {}) /\ (d = 0 \/ history[d].uses = {})
             W == {d \in 0..b : \A i \in (d + 1)..b : history[i].uses # {}}
  <2>1. x = CHOOSE d \in 0..b : Back(d)
    BY <1>7, Zenon DEF C!BeforeUses
  <2>2. \E d \in 0..b : Back(d)
    <3>1. W \subseteq Nat /\ b \in W
      BY <1>6
    <3>2. PICK d \in W : \A y \in W : d <= y
      <4> HIDE DEF W
      <4> QED BY <3>1, LeastExists
    <3>3. d \in 0..b /\ \A i \in (d + 1)..b : history[i].uses # {}
      BY <3>2
    <3>4. ASSUME d # 0, history[d].uses # {} PROVE FALSE
      <4>1. d - 1 \in 0..b /\ (d - 1) + 1 = d
        BY <1>6, <3>3, <3>4
      <4>2. \A i \in d..b : history[i].uses # {}
        <5> TAKE i \in d..b
        <5>1. i = d \/ i \in (d + 1)..b
          BY <1>6, <3>3
        <5> QED BY <3>3, <3>4, <5>1
      <4>3. d - 1 \in W
        BY <4>1, <4>2
      <4>4. d <= d - 1
        BY <3>2, <4>3
      <4> QED BY <1>6, <3>3, <4>4
    <3> QED BY <3>3, <3>4
  <2>3. x \in 0..b /\ Back(x)
    <3> HIDE DEF Back
    <3> QED BY <2>1, <2>2
  <2> HIDE DEF x
  <2>4. x \in 0..Len(history) /\ x < Len(history)
    BY <1>6, <1>7, <2>3
  <2>5. history[x + 1].results = {}
    <3>1. CASE x = b
      BY <1>6, <1>7, <3>1 DEF NotBeforeResult
    <3>2. CASE x # b
      <4>1. x + 1 \in (x + 1)..b /\ x + 1 \in 1..Len(history)
        BY <1>6, <2>3, <2>4, <3>2
      <4>2. history[x + 1].uses # {}
        BY <2>3, <4>1
      <4> QED BY <1>2, <4>1, <4>2
    <3> QED BY <3>1, <3>2
  <2> QED BY <2>4, <2>5 DEF NotBeforeResult, x, b
<1>8. CASE ~(b \in 1..(Len(history) - 1) /\ C!InBlocks)
  <2>1. x = b
    BY <1>8, Zenon DEF C!BeforeUses
  <2> QED BY <1>6, <2>1 DEF b
<1> QED BY <1>7, <1>8

(* the client says more *)
LEMMA MoreCalls ==
  ASSUME NEW f, NEW n \in Nat, NEW n2 \in Nat, n <= n2, NEW ms, Talks(f, n, ms)
  PROVE  Talks(f, n2, ms)
<1>1. CMessages(f, n) \subseteq CMessages(f, n2)
  <2> DEFINE A == SUBSET (1..n)
             A2 == SUBSET (1..n2)
  <2>1. A \subseteq A2
    OBVIOUS
  <2>2. /\ CRecords(n) = [kind : CKinds, text : BOOLEAN, uses : A, results : A, offloaded : BOOLEAN]
        /\ CRecords(n2) = [kind : CKinds, text : BOOLEAN, uses : A2, results : A2, offloaded : BOOLEAN]
    BY DEF CRecords
  <2> HIDE DEF A, A2
  <2>3. CRecords(n) \subseteq CRecords(n2)
    BY <2>1, <2>2
  <2> QED BY <2>3 DEF CMessages
<1>2. ms \in Seq(CMessages(f, n2))
  BY <1>1, MoreSeq DEF Talks
<1> QED BY <1>2 DEF Talks

LEMMA CallIs ==
  ASSUME NEW f, NEW n \in Nat, NEW text \in BOOLEAN, NEW V \in SUBSET (1..n),
         NEW m, m = C!Message("assistant", text, V, {})
  PROVE  m \in CMessages(f, n) /\ m.uses = V /\ m.results = {}
<1> DEFINE A == SUBSET (1..n)
           empty == {}
<1>1. /\ CRecords(n) = [kind : CKinds, text : BOOLEAN, uses : A, results : A, offloaded : BOOLEAN]
      /\ V \in A /\ empty \in A /\ "assistant" \in CKinds
  BY DEF CRecords, CKinds
<1>2. m = [kind |-> "assistant", text |-> text, uses |-> V, results |-> empty, offloaded |-> FALSE]
  BY DEF C!Message
<1>3. empty = {}
  OBVIOUS
<1> HIDE DEF A, empty
<1>4. m.uses = V /\ m.results = empty /\ m.kind = "assistant"
  BY <1>2
<1>5. m \in [kind : CKinds, text : BOOLEAN, uses : A, results : A, offloaded : BOOLEAN]
  BY <1>1, <1>2
<1>6. m \in CRecords(n)
  BY <1>1, <1>5, Zenon
<1> QED BY <1>3, <1>4, <1>6 DEF CMessages

LEMMA AnswerIs ==
  ASSUME NEW f, NEW n \in Nat, NEW text \in BOOLEAN, NEW V \in SUBSET (1..n), V # {},
         f # "merged" => \A x, y \in V : x = y,
         NEW m, m = C!Message("result", text, {}, V)
  PROVE  m \in CMessages(f, n) /\ m.uses = {} /\ m.results = V
<1> DEFINE A == SUBSET (1..n)
           empty == {}
<1>1. /\ CRecords(n) = [kind : CKinds, text : BOOLEAN, uses : A, results : A, offloaded : BOOLEAN]
      /\ V \in A /\ empty \in A /\ "result" \in CKinds
  BY DEF CRecords, CKinds
<1>2. m = [kind |-> "result", text |-> text, uses |-> empty, results |-> V, offloaded |-> FALSE]
  BY DEF C!Message
<1>3. empty = {}
  OBVIOUS
<1> HIDE DEF A, empty
<1>4. m.uses = empty /\ m.results = V /\ m.kind = "result"
  BY <1>2
<1>5. m \in [kind : CKinds, text : BOOLEAN, uses : A, results : A, offloaded : BOOLEAN]
  BY <1>1, <1>2
<1>6. m \in CRecords(n)
  BY <1>1, <1>5, Zenon
<1> QED BY <1>3, <1>4, <1>6 DEF CMessages

LEMMA PrependIs ==
  ASSUME NEW D, NEW m \in D, NEW s \in Seq(D), NEW b, b = <<m>> \o s
  PROVE  /\ b \in Seq(D) /\ Len(b) = 1 + Len(s) /\ b[1] = m
         /\ \A i \in 2..Len(b) : b[i] = s[i - 1] /\ i - 1 \in 1..Len(s)
<1> DEFINE a == <<m>>
<1>1. a \in Seq(D) /\ Len(a) = 1 /\ a[1] = m /\ b = a \o s
  OBVIOUS
<1> HIDE DEF a
<1>2. Len(s) \in Nat
  OBVIOUS
<1>3. b \in Seq(D) /\ Len(b) = 1 + Len(s)
  BY <1>1
<1>4. b[1] = m
  BY <1>1, <1>2
<1>5. \A i \in 2..(1 + Len(s)) : b[i] = s[i - 1] /\ i - 1 \in 1..Len(s)
  BY <1>1, <1>2
<1> QED BY <1>3, <1>4, <1>5

(* the calls of one step of the LLM, and their results *)
StepAfter(f, n, k, b) ==
  /\ b \in Seq(CMessages(f, n + k))
  /\ Len(b) = IF f = "merged" THEN 2 ELSE k + 1
  /\ b[1].uses = (n + 1)..(n + k) /\ b[1].results = {}
  /\ \A i \in 2..Len(b) : /\ b[i].uses = {}
                          /\ b[i].results = IF f = "merged" THEN (n + 1)..(n + k) ELSE {n + i - 1}

LEMMA StepTalks ==
  ASSUME NEW f, NEW n \in Nat, NEW k \in 1..2, NEW b, StepAfter(f, n, k, b)
  PROVE  /\ Talks(f, n + k, b) /\ Complete(f, b)
         /\ \A i \in 1..Len(b) : b[i].uses \subseteq (n + 1)..(n + k) /\ b[i].results \subseteq (n + 1)..(n + k)
<1> DEFINE ids == (n + 1)..(n + k)
<1>1. /\ b \in Seq(CMessages(f, n + k)) /\ k \in Nat /\ n + k \in Nat
      /\ Len(b) = IF f = "merged" THEN 2 ELSE k + 1
      /\ b[1].uses = ids /\ b[1].results = {}
      /\ \A i \in 2..Len(b) : b[i].uses = {} /\ b[i].results = IF f = "merged" THEN ids ELSE {n + i - 1}
  <2>1. k \in Nat /\ n + k \in Nat
    OBVIOUS
  <2> QED BY <2>1, Zenon DEF StepAfter
<1>2. Len(b) \in Nat /\ Len(b) >= 2 /\ \A i \in 1..Len(b) : i = 1 \/ i \in 2..Len(b)
  BY <1>1
<1>3. \A i \in 2..Len(b) : b[i].results \subseteq ids /\ b[i].results # {}
  <2> TAKE i \in 2..Len(b)
  <2>1. CASE f = "merged"
    <3>1. n + 1 \in ids
      BY <1>1
    <3> QED BY <1>1, <2>1, <3>1
  <2>2. CASE f # "merged"
    <3>1. i \in 2..(k + 1)
      BY <1>1, <2>2
    <3>2. n + i - 1 \in ids
      BY <1>1, <3>1
    <3>3. b[i].results = {n + i - 1}
      BY <1>1, <2>2
    <3> QED BY <3>2, <3>3
  <2> QED BY <2>1, <2>2
<1>4. \A i, j \in 2..Len(b) : (\E x : x \in b[i].results /\ x \in b[j].results) => i = j
  <2>1. CASE f = "merged"
    BY <1>1, <2>1
  <2>2. CASE f # "merged"
    BY <1>1, <2>2
  <2> QED BY <2>1, <2>2
<1>5. \A i, j \in 1..Len(b) : (\E x : x \in b[i].results /\ x \in b[j].results) => i = j
  BY <1>1, <1>2, <1>4
<1>6. \A i, j \in 1..Len(b) : (\E x : x \in b[i].uses /\ x \in b[j].uses) => i = j
  BY <1>1, <1>2
<1>7. \A i \in 1..Len(b) : b[i].results # {} => \E j \in 1..(i - 1) : Answers(f, b, i, j)
  <2> SUFFICES ASSUME NEW i \in 1..Len(b), b[i].results # {} PROVE \E j \in 1..(i - 1) : Answers(f, b, i, j)
    OBVIOUS
  <2>1. i \in 2..Len(b) /\ 1 \in 1..(i - 1)
    BY <1>1, <1>2
  <2>2. b[i].results \subseteq b[1].uses /\ (f = "merged" => b[i].results = b[1].uses)
    BY <1>1, <1>3, <2>1
  <2>3. \A j \in (1 + 1)..i : b[j].results # {}
    <3> TAKE j \in (1 + 1)..i
    <3>1. j \in 2..Len(b)
      BY <1>2, <2>1
    <3> QED BY <1>3, <3>1
  <2>4. Answers(f, b, i, 1)
    BY <2>2, <2>3 DEF Answers
  <2> QED BY <2>1, <2>4
<1>8. \A i \in 1..Len(b) : \A x \in b[i].uses : \E j \in 1..Len(b) : x \in b[j].results
  <2> SUFFICES ASSUME NEW x \in ids PROVE \E j \in 1..Len(b) : x \in b[j].results
    BY <1>1, <1>2
  <2>1. CASE f = "merged"
    <3>1. 2 \in 2..Len(b) /\ 2 \in 1..Len(b)
      BY <1>2
    <3>2. x \in b[2].results
      BY <1>1, <2>1, <3>1
    <3> QED BY <3>1, <3>2
  <2>2. CASE f # "merged"
    <3> DEFINE j == x - n + 1
    <3>1. j \in 2..Len(b) /\ j \in 1..Len(b) /\ n + j - 1 = x
      BY <1>1, <2>2
    <3>2. b[j].results = {n + j - 1}
      BY <1>1, <2>2, <3>1
    <3> QED BY <3>1, <3>2
  <2> QED BY <2>1, <2>2
<1>9. \A i \in 1..Len(b) : b[i].uses \subseteq ids /\ b[i].results \subseteq ids
  BY <1>1, <1>2, <1>3
<1> HIDE DEF ids
<1>10. Talks(f, n + k, b)
  BY <1>1, <1>5 DEF Talks, Apart
<1>11. Complete(f, b)
  BY <1>6, <1>7, <1>8, Zenon DEF Complete, UsesApart, Linked, Answered
<1> QED BY <1>9, <1>10, <1>11 DEF ids

LEMMA LongerTalks ==
  ASSUME NEW f, NEW n \in Nat, NEW n2 \in Nat, n <= n2, NEW a, NEW b, Talks(f, n, a), Talks(f, n2, b),
         \A i \in 1..Len(b) : b[i].uses \subseteq (n + 1)..n2 /\ b[i].results \subseteq (n + 1)..n2
  PROVE  /\ Talks(f, n2, a \o b)
         /\ Complete(f, a) /\ Complete(f, b) => Complete(f, a \o b)
<1>1. Talks(f, n2, a)
  BY MoreCalls
<1>2. \A i \in 1..Len(a) : a[i].uses \subseteq 1..n /\ a[i].results \subseteq 1..n
  <2>1. \A i \in 1..Len(a) : a[i] \in CMessages(f, n)
    BY SeqDomain DEF Talks
  <2> QED BY <2>1, CFields
<1>3. \A x : ~(x \in 1..n /\ x \in (n + 1)..n2)
  OBVIOUS
<1>4. \A i \in 1..Len(a), j \in 1..Len(b) :
        /\ ~\E x : x \in a[i].results /\ x \in b[j].results
        /\ ~\E x : x \in a[i].uses /\ x \in b[j].uses
  BY <1>2, <1>3
<1> QED BY <1>1, <1>4, ConcatTalks

-----------------------------------------------------------------------------
(* The invariant of the server's compaction *)

CompactCounts ==
  /\ format \in Formats /\ calls \in 0..MaxCalls
  /\ offloaded \cup confirmed \cup deleted \cup erased \subseteq 1..calls
  /\ format # "merged" => erased \subseteq deleted
  /\ level \in {"fastpath", "mild", "aggressive", "emergency", "local"}
  /\ phase \in {"idle", "mild", "aggressive", "emergency", "map"}
CompactHistory ==
  /\ Len(history) \in 1..MaxMessages
  /\ Talks(format, calls, history) /\ (format # "calls" => Complete(format, history))
CompactWork ==
  phase # "idle" => level # "local" /\ sent = <<>> /\ Served(format, calls, deleted, confirmed \cap offloaded, work)
CompactSent ==
  /\ Talks(format, calls, sent) /\ (format # "calls" => Complete(format, sent))
  /\ level # "local" => Decides(format, deleted, confirmed \cap offloaded, sent)
CompactInv == CompactCounts /\ CompactHistory /\ CompactWork /\ CompactSent

LEMMA CompactConstants ==
  /\ Formats \subseteq {"calls", "blocks", "merged"} /\ AGGRESSIVE_MIN_KEEP \in Nat
  /\ MaxCalls \in Nat /\ MaxMessages \in Nat \ {0, 1}
BY OffloadAssumption DEF C!CompactionAssumption

LEMMA NothingServed ==
  ASSUME NEW f, NEW n \in Nat, NEW d, NEW c
  PROVE  Served(f, n, d, c, <<>>)
<1> DEFINE D == CMessages(f, n)
           r == <<>>
<1>1. r \in Seq(D) /\ Len(r) = 0
  OBVIOUS
<1> HIDE DEF r
<1>3. \A i \in 1..Len(r) : r[i].uses = {} /\ r[i].results = {}
  BY <1>1
<1> HIDE DEF D
<1>2. Served(f, n, d, c, r)
  BY <1>1, <1>3, EmptyServes, Zenon DEF D
<1> QED BY <1>2 DEF r

LEMMA CompactNumbers ==
  ASSUME CompactInv
  PROVE  /\ calls \in Nat /\ calls <= MaxCalls /\ MaxCalls \in Nat
         /\ Len(history) \in Nat /\ Len(history) >= 1
         /\ history \in Seq(CMessages(format, calls))
         /\ offloaded \subseteq 1..calls /\ confirmed \subseteq 1..calls /\ deleted \subseteq 1..calls
         /\ erased \subseteq 1..calls /\ (format # "merged" => erased \subseteq deleted)
BY CompactConstants DEF CompactInv, CompactCounts, CompactHistory, Talks

(* between two compactions *)
LEMMA IdleKept ==
  ASSUME CompactInv, phase = "idle", UNCHANGED <<format, confirmed, deleted, erased, level, phase>>, sent' = <<>>,
         calls' \in calls..MaxCalls, offloaded' \subseteq 1..calls', CompactHistory'
  PROVE  CompactInv'
<1>1. /\ calls \in Nat /\ MaxCalls \in Nat /\ confirmed \subseteq 1..calls /\ deleted \subseteq 1..calls
      /\ erased \subseteq 1..calls
  BY CompactNumbers
<1>2. calls' \in Nat /\ calls' \in 0..MaxCalls /\ 1..calls \subseteq 1..calls'
  BY <1>1
<1>3. CompactCounts'
  BY <1>1, <1>2 DEF CompactInv, CompactCounts
<1>4. Served(format', calls', deleted', (confirmed \cap offloaded)', sent')
  BY <1>2, NothingServed
<1>5. CompactSent'
  BY <1>4 DEF CompactSent, Served
<1> QED BY <1>3, <1>5 DEF CompactInv, CompactWork

LEMMA UseToolsServed ==
  ASSUME CompactInv, NEW n \in 1..2, NEW text \in BOOLEAN, NEW worth \in SUBSET (1..MaxCalls),
         C!UseTools(n, text, worth)
  PROVE  CompactInv'
<1> DEFINE ids == (calls + 1)..(calls + n)
           results == IF format = "merged" THEN <<C!Message("result", FALSE, {}, ids)>>
                      ELSE [i \in 1..n |-> C!Message("result", FALSE, {}, {calls + i})]
           asst == C!Message("assistant", text, ids, {})
           b == <<asst>> \o results
           D == CMessages(format, calls + n)
<1>1. /\ calls \in Nat /\ calls + n \in Nat /\ n \in Nat /\ offloaded \subseteq 1..calls
      /\ history \in Seq(CMessages(format, calls)) /\ Len(history) \in Nat /\ Len(history) >= 1
  BY CompactNumbers
<1>2. /\ phase = "idle" /\ calls + n <= MaxCalls /\ calls' = calls + n
      /\ worth \subseteq (calls + 1)..(calls + n) /\ offloaded' = offloaded \cup worth
      /\ sent' = <<>> /\ UNCHANGED <<format, confirmed, deleted, erased, level, phase, work>>
  BY DEF C!UseTools, C!LlmTurn, C!Extend
<1>3. Len(history) + Len(b) <= MaxMessages /\ history' = history \o b
  BY Zenon DEF C!UseTools, C!Extend
<1>4. asst \in D /\ asst.uses = ids /\ asst.results = {}
  <2>1. ids \in SUBSET (1..(calls + n)) /\ {} \in SUBSET (1..(calls + n))
    BY <1>1
  <2> HIDE DEF ids
  <2> DEFINE m == asst
             N == calls + n
  <2>2. m = C!Message("assistant", text, ids, {})
    OBVIOUS
  <2>3. N \in Nat /\ ids \in SUBSET (1..N) /\ D = CMessages(format, N)
    BY <1>1, <2>1
  <2> HIDE DEF m, N, D
  <2>4. m \in CMessages(format, N) /\ m.uses = ids /\ m.results = {}
    BY <2>2, <2>3, CallIs
  <2> QED BY <2>3, <2>4 DEF m
<1>5. /\ results \in Seq(D) /\ Len(results) = IF format = "merged" THEN 1 ELSE n
      /\ \A i \in 1..Len(results) : /\ results[i].uses = {}
                                    /\ results[i].results = IF format = "merged" THEN ids ELSE {calls + i}
  <2>2. ASSUME NEW V \in SUBSET (1..(calls + n)), V # {}, format # "merged" => \A x, y \in V : x = y
        PROVE  /\ C!Message("result", FALSE, {}, V) \in D
               /\ C!Message("result", FALSE, {}, V).uses = {}
               /\ C!Message("result", FALSE, {}, V).results = V
    <3> DEFINE m == C!Message("result", FALSE, {}, V)
               no == FALSE
               N == calls + n
    <3>1. m = C!Message("result", no, {}, V) /\ no \in BOOLEAN
      OBVIOUS
    <3>2. N \in Nat /\ V \in SUBSET (1..N) /\ D = CMessages(format, N)
      BY <1>1
    <3> HIDE DEF m, no, N, D
    <3>3. m \in CMessages(format, N) /\ m.uses = {} /\ m.results = V
      BY <2>2, <3>1, <3>2, AnswerIs
    <3> QED BY <3>2, <3>3 DEF m
  <2>3. CASE format = "merged"
    <3> DEFINE m == C!Message("result", FALSE, {}, ids)
    <3>1. ids \in SUBSET (1..(calls + n)) /\ calls + 1 \in ids
      BY <1>1
    <3> HIDE DEF ids, D
    <3>2. m \in D /\ m.uses = {} /\ m.results = ids
      BY <2>2, <2>3, <3>1
    <3>3. results = <<m>>
      BY <2>3
    <3> HIDE DEF m, results
    <3> QED BY <2>3, <3>2, <3>3
  <2>4. CASE format # "merged"
    <3> DEFINE m(i) == C!Message("result", FALSE, {}, {calls + i})
    <3>1. ASSUME NEW i \in 1..n PROVE m(i) \in D /\ m(i).uses = {} /\ m(i).results = {calls + i}
      <4> DEFINE V == {calls + i}
      <4>1. V \in SUBSET (1..(calls + n)) /\ V # {} /\ \A x, y \in V : x = y
        BY <1>1
      <4> HIDE DEF V, D
      <4>2. /\ C!Message("result", FALSE, {}, V) \in D
            /\ C!Message("result", FALSE, {}, V).uses = {}
            /\ C!Message("result", FALSE, {}, V).results = V
        BY <2>2, <4>1
      <4> QED BY <4>2 DEF V
    <3>2. results = [i \in 1..n |-> m(i)]
      BY <2>4
    <3> HIDE DEF m, results, D
    <3>3. results \in [1..n -> D] /\ \A i \in 1..n : results[i] = m(i)
      BY <3>1, <3>2
    <3>4. results \in Seq(D) /\ Len(results) = n
      BY <1>1, <3>3
    <3> QED BY <2>4, <3>1, <3>3, <3>4
  <2> QED BY <2>3, <2>4
<1> HIDE DEF results, asst
<1>6. StepAfter(format, calls, n, b)
  <2> HIDE DEF D
  <2>1. /\ b \in Seq(D) /\ Len(b) = 1 + Len(results) /\ b[1] = asst
        /\ \A i \in 2..Len(b) : b[i] = results[i - 1] /\ i - 1 \in 1..Len(results)
    <3>1. b = <<asst>> \o results
      OBVIOUS
    <3> HIDE DEF b
    <3> QED BY <1>4, <1>5, <3>1, PrependIs
  <2>2. Len(b) = IF format = "merged" THEN 2 ELSE n + 1
    BY <1>1, <1>5, <2>1
  <2>3. \A i \in 2..Len(b) : /\ b[i].uses = {}
                             /\ b[i].results = IF format = "merged" THEN ids ELSE {calls + i - 1}
    <3> HIDE DEF b, ids
    <3> TAKE i \in 2..Len(b)
    <3>1. b[i] = results[i - 1] /\ i - 1 \in 1..Len(results) /\ calls + (i - 1) = calls + i - 1
      BY <1>1, <2>1
    <3> QED BY <1>5, <3>1
  <2> HIDE DEF b
  <2> QED BY <1>4, <2>1, <2>2, <2>3 DEF StepAfter, D, ids
<1> HIDE DEF b, D
<1>7. /\ Talks(format, calls + n, b) /\ Complete(format, b)
      /\ \A i \in 1..Len(b) : b[i].uses \subseteq ids /\ b[i].results \subseteq ids
  BY <1>1, <1>6, StepTalks
<1>8. /\ Talks(format, calls + n, history')
      /\ format # "calls" => Complete(format, history')
  <2>1. Talks(format, calls, history) /\ (format # "calls" => Complete(format, history))
    BY DEF CompactInv, CompactHistory
  <2>2. calls <= calls + n
    BY <1>1
  <2> QED BY <1>1, <1>3, <1>7, <2>1, <2>2, LongerTalks
<1>9. Len(history') \in 1..MaxMessages
  <2>1. b \in Seq(CMessages(format, calls + n)) /\ Len(b) \in Nat
    BY <1>7 DEF Talks
  <2>2. Len(history') = Len(history) + Len(b)
    BY <1>1, <1>3, <2>1
  <2> QED BY <1>1, <1>3, <2>1, <2>2, CompactConstants
<1>10. CompactHistory'
  BY <1>2, <1>8, <1>9 DEF CompactHistory
<1>11. calls' \in calls..MaxCalls /\ offloaded' \subseteq 1..calls'
  BY <1>1, <1>2, CompactNumbers
<1> QED BY <1>2, <1>10, <1>11, IdleKept

LEMMA TalkServed ==
  ASSUME CompactInv, C!Talk
  PROVE  CompactInv'
<1> DEFINE a == C!Message("assistant", TRUE, {}, {})
           q == C!Question
           b == <<a, q>>
           D == CMessages(format, calls)
<1>1. /\ calls \in Nat /\ offloaded \subseteq 1..calls /\ calls \in calls..MaxCalls
      /\ history \in Seq(D) /\ Len(history) \in Nat /\ Len(history) >= 1
  BY CompactNumbers
<1>2. /\ phase = "idle" /\ UNCHANGED <<calls, offloaded>> /\ history' = history \o b
      /\ Len(history) + Len(b) <= MaxMessages
      /\ sent' = <<>> /\ UNCHANGED <<format, confirmed, deleted, erased, level, phase, work>>
  BY DEF C!Talk, C!LlmTurn, C!Extend
<1>3. a \in D /\ a.uses = {} /\ a.results = {} /\ q \in D /\ q.uses = {} /\ q.results = {}
  <2>1. {} \in SUBSET (1..calls)
    OBVIOUS
  <2>2. a \in D /\ a.uses = {} /\ a.results = {}
    BY <2>1 DEF C!Message, CMessages, CRecords, CKinds
  <2>3. q \in D /\ q.uses = {} /\ q.results = {}
    BY <2>1 DEF C!Message, C!Question, CMessages, CRecords, CKinds
  <2> QED BY <2>2, <2>3
<1> HIDE DEF a, q, D
<1>4. b \in Seq(D) /\ Len(b) = 2 /\ \A i \in 1..Len(b) : b[i].uses = {} /\ b[i].results = {}
  BY <1>3
<1> HIDE DEF b
<1>5. Served(format, calls, {}, {}, b)
  BY <1>1, <1>4, EmptyServes, Zenon DEF D
<1>6. Talks(format, calls, b) /\ Complete(format, b)
  BY <1>4, <1>5 DEF Served, Complete, UsesApart, Linked, Answered
<1>7. /\ Talks(format, calls, history')
      /\ format # "calls" => Complete(format, history')
  <2>1. Talks(format, calls, history) /\ (format # "calls" => Complete(format, history))
    BY DEF CompactInv, CompactHistory
  <2>2. \A i \in 1..Len(b) : b[i].uses \subseteq (calls + 1)..calls /\ b[i].results \subseteq (calls + 1)..calls
    BY <1>4
  <2>3. calls <= calls
    BY <1>1
  <2> QED BY <1>1, <1>2, <1>6, <2>1, <2>2, <2>3, LongerTalks
<1>8. Len(history') \in 1..MaxMessages
  <2>1. history \in Seq(D) /\ b \in Seq(D)
    BY <1>1, <1>4
  <2>2. Len(history \o b) = Len(history) + Len(b)
    BY <2>1
  <2>3. Len(history') = Len(history) + Len(b)
    BY <1>2, <2>2
  <2> QED BY <1>1, <1>2, <1>4, <2>3, CompactConstants
<1>9. CompactHistory'
  BY <1>2, <1>7, <1>8 DEF CompactHistory
<1>10. calls' \in calls..MaxCalls /\ offloaded' \subseteq 1..calls'
  BY <1>1, <1>2
<1> QED BY <1>2, <1>9, <1>10, IdleKept

(* a compaction under way: what it has of the history is served, with its decisions *)
LEMMA WorkKept ==
  ASSUME CompactInv, UNCHANGED <<format, history, calls, offloaded>>, sent' = <<>>,
         confirmed' \cup deleted' \cup erased' \subseteq 1..calls, format # "merged" => erased' \subseteq deleted',
         level' \in {"fastpath", "mild", "aggressive", "emergency"},
         phase' \in {"mild", "aggressive", "emergency", "map"},
         Served(format, calls, deleted', confirmed' \cap offloaded, work')
  PROVE  CompactInv'
<1>1. CompactCounts'
  BY DEF CompactInv, CompactCounts
<1>2. CompactHistory'
  BY Zenon DEF CompactInv, CompactHistory
<1>3. CompactWork'
  BY DEF CompactWork
<1>4. Served(format', calls', deleted', (confirmed \cap offloaded)', sent')
  BY CompactNumbers, NothingServed
<1>5. CompactSent'
  BY <1>4 DEF CompactSent, Served
<1> QED BY <1>1, <1>2, <1>3, <1>5 DEF CompactInv

LEMMA CompactServed ==
  ASSUME CompactInv, NEW lv \in {"fastpath", "mild", "aggressive", "emergency"}, C!Compact(lv)
  PROVE  CompactInv'
<1>1. /\ level' = lv /\ work' = C!FastPath(history) /\ phase' \in {"map", "mild"}
      /\ sent' = <<>> /\ UNCHANGED <<format, history, calls, offloaded, confirmed, deleted, erased>>
  BY DEF C!Compact, C!client
<1>2. Talks(format, calls, history) /\ (format # "calls" => Complete(format, history)) /\ calls \in Nat
  BY CompactNumbers DEF CompactInv, CompactHistory
<1>3. Served(format, calls, deleted, confirmed \cap offloaded, C!FastPath(history))
  BY <1>2, FastPathServes
<1>4. confirmed' \cup deleted' \cup erased' \subseteq 1..calls /\ (format # "merged" => erased' \subseteq deleted')
  BY <1>1, CompactNumbers
<1>5. Served(format, calls, deleted', confirmed' \cap offloaded, work')
  BY <1>1, <1>3
<1> QED BY <1>1, <1>4, <1>5, WorkKept

LEMMA IdsInCalls ==
  ASSUME NEW f, NEW n \in Nat, NEW ms, Talks(f, n, ms), NEW V, V \subseteq 1..Len(ms)
  PROVE  /\ C!IdsOf(ms, V) \subseteq 1..n /\ C!AllIds(ms, V) \subseteq 1..n
         /\ f # "merged" => C!AllIds(ms, V) = C!IdsOf(ms, V)
<1>1. C!AllIds(ms, V) = ResultsAt(ms, V)
  BY DEF C!AllIds, ResultsAt
<1> DEFINE ids == C!IdsOf(ms, V)
           all == C!AllIds(ms, V)
           at == ResultsAt(ms, V)
<1>2. ids \subseteq at /\ (f # "merged" => ids = at) /\ at \subseteq 1..n
  BY IdsAreResults
<1>3. all = at
  BY <1>1
<1> HIDE DEF ids, all, at
<1>4. ids \subseteq 1..n /\ all \subseteq 1..n /\ (f # "merged" => all = ids)
  BY <1>2, <1>3
<1> QED BY <1>4 DEF ids, all

LEMMA MildServed ==
  ASSUME CompactInv, level # "local", NEW chosen, C!Mild(chosen)
  PROVE  CompactInv'
<1>1. /\ phase = "mild" /\ chosen \subseteq C!Candidates(work)
      /\ work' = C!Summarized(work, chosen) /\ confirmed' = confirmed \cup C!IdsOf(work, chosen)
      /\ phase' \in {"map", "aggressive"}
      /\ UNCHANGED <<format, history, calls, offloaded, deleted, erased, level, sent>>
  BY DEF C!Mild, C!client
<1>2. Served(format, calls, deleted, confirmed \cap offloaded, work) /\ sent = <<>>
  BY <1>1 DEF CompactInv, CompactWork
<1>3. calls \in Nat /\ confirmed \subseteq 1..calls /\ deleted \subseteq 1..calls
  BY CompactNumbers
<1>4. confirmed' \cap offloaded \subseteq (confirmed \cap offloaded) \cup C!IdsOf(work, chosen)
  BY <1>1
<1>5. Served(format, calls, deleted, confirmed' \cap offloaded, C!Summarized(work, chosen))
  BY <1>1, <1>2, <1>3, <1>4, SummarizedServes
<1>6. C!IdsOf(work, chosen) \subseteq 1..calls
  <2>1. Talks(format, calls, work) /\ Len(work) \in Nat
    BY <1>2, SeqDomain DEF Served, Talks
  <2>2. chosen \subseteq 1..Len(work)
    BY <1>1, <2>1 DEF C!Candidates
  <2> QED BY <1>3, <2>1, <2>2, IdsInCalls
<1>7. confirmed' \cup deleted' \cup erased' \subseteq 1..calls /\ (format # "merged" => erased' \subseteq deleted')
  BY <1>1, <1>3, <1>6, CompactNumbers
<1>8. level' \in {"fastpath", "mild", "aggressive", "emergency"}
  BY <1>1 DEF CompactInv, CompactCounts
<1>9. Served(format, calls, deleted', confirmed' \cap offloaded, work')
  BY <1>1, <1>5
<1> QED BY <1>1, <1>2, <1>7, <1>8, <1>9, WorkKept

LEMMA AggressiveServed ==
  ASSUME CompactInv, level # "local", NEW k, NEW known, C!Aggressive(k, known)
  PROVE  CompactInv'
<1> DEFINE drop == C!Dropped(work, k)
           after == C!Stripped(work, drop)
<1>1. /\ phase = "aggressive" /\ work' \in {C!WithHistoryMmd(after), after}
      /\ deleted' = deleted \cup C!IdsOf(work, drop) /\ erased' = erased \cup C!AllIds(work, drop)
      /\ phase' \in {"map", "emergency"}
      /\ UNCHANGED <<format, history, calls, offloaded, confirmed, level, sent>>
  BY DEF C!Aggressive, C!client
<1> HIDE DEF after
<1>2. Served(format, calls, deleted, confirmed \cap offloaded, work) /\ sent = <<>>
  BY <1>1 DEF CompactInv, CompactWork
<1>3. calls \in Nat /\ confirmed \subseteq 1..calls /\ deleted \subseteq 1..calls
  BY CompactNumbers
<1>4. Talks(format, calls, work) /\ (format # "calls" => Complete(format, work))
  BY <1>2 DEF Served
<1>5. drop \subseteq 1..Len(work) /\ (format # "calls" => WholeSteps(format, work, drop))
  BY <1>3, <1>4, DroppedIs
<1> HIDE DEF drop
<1>6. Served(format, calls, deleted', confirmed \cap offloaded, after)
  BY <1>1, <1>2, <1>3, <1>5, StrippedServes DEF after
<1>7. Served(format, calls, deleted', confirmed \cap offloaded, C!WithHistoryMmd(after))
  <2>1. MapInserted(format, calls, after, C!WithHistoryMmd(after))
    BY <1>3, <1>6, WithMmdTalks DEF Served
  <2> QED BY <1>3, <1>6, <2>1, InsertServes
<1>8. confirmed' \cup deleted' \cup erased' \subseteq 1..calls /\ (format # "merged" => erased' \subseteq deleted')
  <2> DEFINE ids == C!IdsOf(work, drop)
             all == C!AllIds(work, drop)
  <2>1. ids \subseteq 1..calls /\ all \subseteq 1..calls /\ (format # "merged" => all = ids)
    BY <1>3, <1>4, <1>5, IdsInCalls
  <2>2. deleted' = deleted \cup ids /\ erased' = erased \cup all /\ confirmed' = confirmed
    BY <1>1
  <2> HIDE DEF ids, all
  <2> QED BY <2>1, <2>2, CompactNumbers
<1>9. level' \in {"fastpath", "mild", "aggressive", "emergency"}
  BY <1>1 DEF CompactInv, CompactCounts
<1>10. Served(format, calls, deleted', confirmed' \cap offloaded, work')
  BY <1>1, <1>6, <1>7
<1> QED BY <1>1, <1>2, <1>8, <1>9, <1>10, WorkKept

LEMMA EmergencyServed ==
  ASSUME CompactInv, level # "local", NEW k, C!Emergency(k)
  PROVE  CompactInv'
<1> DEFINE rest == C!WithoutMmds(work)
           drop == IF Len(rest) <= 2 THEN {} ELSE C!Dropped(rest, k)
           after == C!Stripped(rest, drop)
<1>1. /\ phase = "emergency" /\ work' = C!MmdsFirst(work, after)
      /\ deleted' = deleted \cup C!IdsOf(rest, drop) /\ erased' = erased \cup C!AllIds(rest, drop)
      /\ phase' = "map"
      /\ UNCHANGED <<format, history, calls, offloaded, confirmed, level, sent>>
  BY DEF C!Emergency, C!client
<1> HIDE DEF after
<1>2. Served(format, calls, deleted, confirmed \cap offloaded, work) /\ sent = <<>>
  BY <1>1 DEF CompactInv, CompactWork
<1>3. calls \in Nat /\ confirmed \subseteq 1..calls /\ deleted \subseteq 1..calls
  BY CompactNumbers
<1>4. Served(format, calls, deleted, confirmed \cap offloaded, rest)
  BY <1>2, <1>3, WithoutMmdsServes
<1> HIDE DEF rest
<1>5. Talks(format, calls, rest) /\ (format # "calls" => Complete(format, rest))
  BY <1>4 DEF Served
<1>6. drop \subseteq 1..Len(rest) /\ (format # "calls" => WholeSteps(format, rest, drop))
  <2>1. CASE Len(rest) <= 2
    <3>1. drop = {}
      BY <2>1
    <3> QED BY <3>1 DEF WholeSteps, ResultsAt
  <2>2. CASE ~(Len(rest) <= 2)
    <3>1. drop = C!Dropped(rest, k)
      BY <2>2
    <3> HIDE DEF drop
    <3> QED BY <1>3, <1>5, <3>1, DroppedIs
  <2> QED BY <2>1, <2>2
<1> HIDE DEF drop
<1>7. Served(format, calls, deleted', confirmed \cap offloaded, after)
  BY <1>1, <1>3, <1>4, <1>6, StrippedServes DEF after
<1>8. Served(format, calls, deleted', confirmed \cap offloaded, C!MmdsFirst(work, after))
  BY <1>2, <1>3, <1>7, MmdsFirstServes DEF Served
<1>9. confirmed' \cup deleted' \cup erased' \subseteq 1..calls /\ (format # "merged" => erased' \subseteq deleted')
  <2> DEFINE ids == C!IdsOf(rest, drop)
             all == C!AllIds(rest, drop)
  <2>1. ids \subseteq 1..calls /\ all \subseteq 1..calls /\ (format # "merged" => all = ids)
    BY <1>3, <1>5, <1>6, IdsInCalls
  <2>2. deleted' = deleted \cup ids /\ erased' = erased \cup all /\ confirmed' = confirmed
    BY <1>1
  <2> HIDE DEF ids, all
  <2> QED BY <2>1, <2>2, CompactNumbers
<1>10. level' \in {"fastpath", "mild", "aggressive", "emergency"}
  BY <1>1 DEF CompactInv, CompactCounts
<1>11. Served(format, calls, deleted', confirmed' \cap offloaded, work')
  BY <1>1, <1>8
<1> QED BY <1>1, <1>2, <1>9, <1>10, <1>11, WorkKept

LEMMA RespondServed ==
  ASSUME CompactInv, NEW mmd \in BOOLEAN, C!Respond(mmd)
  PROVE  CompactInv'
<1>1. /\ phase = "map" /\ phase' = "idle" /\ work' = <<>>
      /\ sent' \in {C!WithActiveMmd(work), work}
      /\ UNCHANGED <<format, history, calls, offloaded, confirmed, deleted, erased, level>>
  BY DEF C!Respond, C!client
<1>2. Served(format, calls, deleted, confirmed \cap offloaded, work) /\ calls \in Nat
  BY <1>1, CompactNumbers DEF CompactInv, CompactWork
<1>3. Served(format, calls, deleted, confirmed \cap offloaded, C!WithActiveMmd(work))
  <2>1. MapInserted(format, calls, work, C!WithActiveMmd(work))
    BY <1>2, WithMmdTalks DEF Served
  <2> QED BY <1>2, <2>1, InsertServes
<1>4. Served(format, calls, deleted, confirmed \cap offloaded, sent')
  BY <1>1, <1>2, <1>3
<1>5. CompactCounts'
  BY <1>1 DEF CompactInv, CompactCounts
<1>6. CompactHistory'
  BY <1>1, Zenon DEF CompactInv, CompactHistory
<1>7. CompactSent'
  BY <1>1, <1>4 DEF CompactSent, Served
<1> QED BY <1>1, <1>5, <1>6, <1>7 DEF CompactInv, CompactWork

LEMMA LocalServed ==
  ASSUME CompactInv, NEW c \in 0..MaxMessages, C!LocalCompact(c)
  PROVE  CompactInv'
<1> DEFINE cut == C!BeforeUses(C!BeyondResults(c))
<1>1. /\ phase = "idle" /\ c <= Len(history) /\ level' = "local"
      /\ sent' = IF cut = Len(history) THEN history ELSE E!From(history, cut)
      /\ UNCHANGED <<format, history, calls, offloaded, confirmed, deleted, erased, phase>>
  BY Zenon DEF C!LocalCompact, C!LlmTurn, C!client, E!From
<1>2. /\ Talks(format, calls, history) /\ (format # "calls" => Complete(format, history)) /\ calls \in Nat
      /\ Len(history) \in Nat
  BY CompactNumbers DEF CompactInv, CompactHistory
<1>3. c \in 0..Len(history)
  BY <1>1, <1>2
<1>4. cut \in 0..Len(history) /\ NotBeforeResult(history, cut)
  BY <1>2, <1>3, LocalCutIs
<1> HIDE DEF cut
<1>5. /\ Talks(format, calls, E!From(history, cut))
      /\ format # "calls" => Complete(format, E!From(history, cut))
  BY <1>2, <1>4, SuffixTalks
<1>6. Talks(format, calls, sent') /\ (format # "calls" => Complete(format, sent'))
  BY <1>1, <1>2, <1>5
<1>7. CompactCounts'
  BY <1>1 DEF CompactInv, CompactCounts
<1>8. CompactHistory'
  BY <1>1, Zenon DEF CompactInv, CompactHistory
<1>9. CompactSent'
  BY <1>1, <1>6 DEF CompactSent
<1> QED BY <1>1, <1>7, <1>8, <1>9 DEF CompactInv, CompactWork

LEMMA CompactStep ==
  ASSUME CompactInv, C!Next
  PROVE  CompactInv'
<1>1. phase # "idle" => level # "local"
  BY DEF CompactInv, CompactWork
<1>2. CASE \E n \in 1..2, text \in BOOLEAN, worth \in SUBSET (1..MaxCalls) : C!UseTools(n, text, worth)
  BY <1>2, UseToolsServed
<1>3. CASE C!Talk
  BY <1>3, TalkServed
<1>4. CASE \E lv \in {"fastpath", "mild", "aggressive", "emergency"} : C!Compact(lv)
  BY <1>4, CompactServed
<1>5. CASE \E chosen \in SUBSET (1..MaxMessages) : C!Mild(chosen)
  <2>1. PICK chosen \in SUBSET (1..MaxMessages) : C!Mild(chosen)
    BY <1>5
  <2>2. level # "local"
    BY <1>1, <2>1 DEF C!Mild
  <2> QED BY <2>1, <2>2, MildServed
<1>6. CASE \E k \in 0..MaxMessages, known \in BOOLEAN : C!Aggressive(k, known)
  <2>1. PICK k \in 0..MaxMessages, known \in BOOLEAN : C!Aggressive(k, known)
    BY <1>6
  <2>2. level # "local"
    BY <1>1, <2>1 DEF C!Aggressive
  <2> QED BY <2>1, <2>2, AggressiveServed
<1>7. CASE \E k \in 0..MaxMessages : C!Emergency(k)
  <2>1. PICK k \in 0..MaxMessages : C!Emergency(k)
    BY <1>7
  <2>2. level # "local"
    BY <1>1, <2>1 DEF C!Emergency
  <2> QED BY <2>1, <2>2, EmergencyServed
<1>8. CASE \E mmd \in BOOLEAN : C!Respond(mmd)
  BY <1>8, RespondServed
<1>9. CASE \E c \in 0..MaxMessages : C!LocalCompact(c)
  BY <1>9, LocalServed
<1> QED BY <1>2, <1>3, <1>4, <1>5, <1>6, <1>7, <1>8, <1>9 DEF C!Next

LEMMA CompactInit ==
  ASSUME C!Init
  PROVE  CompactInv
<1>1. /\ format \in Formats /\ history \in {<<C!Question>>, <<C!System, C!Question>>}
      /\ calls = 0 /\ offloaded = {} /\ confirmed = {} /\ deleted = {} /\ erased = {}
      /\ level = "fastpath" /\ phase = "idle" /\ sent = <<>>
  BY DEF C!Init
<1> DEFINE D == CMessages(format, 0)
           q == C!Question
           s == C!System
           one == <<q>>
           two == <<s, q>>
<1>2. q \in D /\ q.uses = {} /\ q.results = {} /\ s \in D /\ s.uses = {} /\ s.results = {}
  BY DEF C!Message, C!Question, C!System, CMessages, CRecords, CKinds
<1> HIDE DEF D, q, s
<1>3. one \in Seq(D) /\ Len(one) = 1 /\ \A i \in 1..Len(one) : one[i].uses = {} /\ one[i].results = {}
  BY <1>2
<1>4. two \in Seq(D) /\ Len(two) = 2 /\ \A i \in 1..Len(two) : two[i].uses = {} /\ two[i].results = {}
  BY <1>2
<1>5. history \in {one, two}
  BY <1>1 DEF q, s
<1> HIDE DEF one, two
<1>6. history \in Seq(D) /\ Len(history) \in 1..2
      /\ \A i \in 1..Len(history) : history[i].uses = {} /\ history[i].results = {}
  BY <1>3, <1>4, <1>5
<1>7. Served(format, 0, {}, {}, history)
  BY <1>6, EmptyServes DEF D
<1>8. CompactHistory
  <2>1. Len(history) \in 1..MaxMessages
    <3> DEFINE l == Len(history)
    <3>1. l \in 1..2
      BY <1>6
    <3> HIDE DEF l
    <3>2. l \in 1..MaxMessages
      BY <3>1, CompactConstants
    <3> QED BY <3>2 DEF l
  <2> QED BY <1>1, <1>7, <2>1, Zenon DEF CompactHistory, Served
<1>9. Served(format, calls, deleted, confirmed \cap offloaded, sent)
  BY <1>1, NothingServed
<1>10. CompactSent
  BY <1>9 DEF CompactSent, Served
<1>11. CompactCounts
  BY <1>1, CompactConstants DEF CompactCounts
<1> QED BY <1>1, <1>8, <1>10, <1>11 DEF CompactInv, CompactWork

CompactHolds == focus = "compaction" => CompactInv

LEMMA CompactEverywhere == Spec => []CompactHolds
<1>1. Init => CompactHolds
  BY CompactInit DEF Init, CompactHolds
<1>2. CompactHolds /\ [Next]_vars => CompactHolds'
  <2> SUFFICES ASSUME CompactHolds, [Next]_vars, focus' = "compaction" PROVE CompactInv'
    BY DEF CompactHolds
  <2>1. CASE focus = "compaction" /\ C!Next /\ UNCHANGED focus
    BY <2>1, CompactStep DEF CompactHolds
  <2>2. CASE UNCHANGED <<focus, compactVars>>
    <3>1. UNCHANGED <<focus, format, history, calls, offloaded, confirmed, deleted, erased, level, phase, work, sent>>
      BY <2>2, Zenon DEF compactVars, messages, serverSide
    <3>2. CompactInv
      BY <3>1 DEF CompactHolds
    <3> QED BY <3>1, <3>2, Zenon DEF CompactInv, CompactCounts, CompactHistory, CompactWork, CompactSent
  <2>3. CASE UNCHANGED vars
    BY <2>2, <2>3, Zenon DEF vars
  <2>4. CASE Next
    <3>1. focus = "compaction" /\ C!Next /\ UNCHANGED focus
      BY <2>4 DEF Next
    <3> QED BY <2>1, <3>1
  <2> QED BY <2>3, <2>4
<1> QED BY <1>1, <1>2, PTL DEF Spec

(* A tool result that a request of the server deleted or replaced is so in every    *)
(* later answer of the server, for conversations of any length with any number of   *)
(* calls, through the fast path, the deletions, and the task maps that come in:     *)
(* Decides says so of the work under way and of every answer.  In the format that   *)
(* merges results only the first result of a message that comes is known to stay    *)
(* away; what a client cuts itself is not under it.                                 *)
THEOREM DecisionsKept == Spec => []DecisionsStay
<1>1. CompactHolds => DecisionsStay
  <2> SUFFICES ASSUME CompactInv, level # "local", NEW i \in DOMAIN sent, C!IsResult(sent[i])
               PROVE  /\ IF format = "merged" THEN C!ResultId(sent[i]) \cap deleted = {}
                                              ELSE sent[i].results \cap erased = {}
                      /\ C!ResultId(sent[i]) \subseteq confirmed \cap offloaded
                           => sent[i].offloaded \/ format = "merged"
    BY DEF CompactHolds, DecisionsStay, C!DecisionsStay
  <2>1. /\ i \in 1..Len(sent) /\ sent[i] \in CMessages(format, calls)
    BY SeqDomain DEF CompactInv, CompactSent, Talks
  <2>2. sent[i].results # {}
    BY <2>1, CompactNumbers, CFields DEF C!IsResult
  <2>3. Decided(format, deleted, confirmed \cap offloaded, sent[i])
    BY <2>1, <2>2 DEF CompactInv, CompactSent, Decides
  <2>4. format # "merged" => C!ResultId(sent[i]) = sent[i].results /\ erased \subseteq deleted
    BY <2>1, CompactNumbers, ResultIdIs
  <2> QED BY <2>3, <2>4 DEF Decided
<1> QED BY <1>1, CompactEverywhere, PTL

(* An answer of the server in Anthropic's format is one that the provider takes:    *)
(* every call has its result after it, with nothing but results between, whatever   *)
(* was deleted, replaced, put in or cut.                                            *)
THEOREM AnswersPaired == Spec => []PairsIntact
<1>1. CompactHolds => PairsIntact
  <2> SUFFICES ASSUME CompactInv, C!InBlocks PROVE C!Paired(sent)
    BY DEF CompactHolds, PairsIntact, C!PairsIntact
  <2>1. /\ Complete(format, sent) /\ DOMAIN sent = 1..Len(sent) /\ Len(sent) \in Nat
        /\ \A i \in 1..Len(sent) : sent[i] \in CMessages(format, calls)
    BY SeqDomain DEF CompactInv, CompactSent, Talks, C!InBlocks
  <2>2. \A i \in 1..Len(sent) : /\ C!IsResult(sent[i]) <=> sent[i].results # {}
                                /\ sent[i].uses # {} => sent[i].kind = "assistant" /\ sent[i].results = {}
    BY <2>1, CompactNumbers, CFields DEF C!IsResult
  <2>3. ASSUME NEW i \in 1..Len(sent), sent[i].results # {}
        PROVE  \E j \in 1..(i - 1) : Answers(format, sent, i, j)
    BY <2>1, <2>3, Zenon DEF Complete, Linked
  <2>4. C!UsesOf(sent) = C!ResultsOf(sent)
    <3>1. ASSUME NEW i \in 1..Len(sent), NEW x \in sent[i].uses PROVE x \in C!ResultsOf(sent)
      <4>1. PICK j \in 1..Len(sent) : x \in sent[j].results
        BY <2>1, Zenon DEF Complete, Answered
      <4> QED BY <2>1, <4>1 DEF C!ResultsOf
    <3>2. ASSUME NEW i \in 1..Len(sent), NEW x \in sent[i].results PROVE x \in C!UsesOf(sent)
      <4>1. PICK j \in 1..(i - 1) : Answers(format, sent, i, j)
        BY <2>3, <3>2
      <4>2. j \in 1..Len(sent) /\ x \in sent[j].uses
        BY <2>1, <4>1 DEF Answers
      <4> QED BY <2>1, <4>2 DEF C!UsesOf
    <3> QED BY <2>1, <3>1, <3>2 DEF C!UsesOf, C!ResultsOf
  <2>5. ASSUME NEW i \in 1..Len(sent), C!IsResult(sent[i])
        PROVE  C!AssistantOf(sent, i) # 0 /\ sent[i].results \subseteq sent[C!AssistantOf(sent, i)].uses
    <3> DEFINE a == C!AssistantOf(sent, i)
    <3>1. PICK j \in 1..(i - 1) : Answers(format, sent, i, j)
      BY <2>2, <2>3, <2>5
    <3>2. j \in 1..Len(sent) /\ j \in 1..i /\ sent[i].results \subseteq sent[j].uses /\ sent[j].uses # {}
      BY <2>1, <2>2, <2>5, <3>1 DEF Answers
    <3>3. sent[j].kind = "assistant"
      BY <2>2, <3>2
    <3>4. \A k \in (j + 1)..i : C!IsResult(sent[k])
      <4> TAKE k \in (j + 1)..i
      <4>1. k \in 1..Len(sent) /\ sent[k].results # {}
        BY <2>1, <3>1 DEF Answers
      <4> QED BY <2>2, <4>1
    <3>5. i \in Nat
      BY <2>1
    <3>6. /\ a \in 0..i
          /\ a # 0 => sent[a].kind = "assistant" /\ \A k \in (a + 1)..i : C!IsResult(sent[k])
          /\ a = 0 => ~\E b \in 1..i : sent[b].kind = "assistant" /\ \A k \in (b + 1)..i : C!IsResult(sent[k])
      BY <3>5, AssistantIs
    <3> HIDE DEF a
    <3>7. a # 0
      BY <3>2, <3>3, <3>4, <3>6
    <3>8. \A k \in 1..Len(sent) : sent[k].kind = "assistant" => ~C!IsResult(sent[k])
      BY DEF C!IsResult
    <3>9. ~(a < j)
      <4> SUFFICES ASSUME a < j PROVE FALSE
        OBVIOUS
      <4>1. j \in (a + 1)..i
        BY <2>1, <3>2, <3>6
      <4> QED BY <3>2, <3>3, <3>6, <3>7, <3>8, <4>1
    <3>10. ~(j < a)
      <4> SUFFICES ASSUME j < a PROVE FALSE
        OBVIOUS
      <4>1. a \in (j + 1)..i /\ a \in 1..Len(sent)
        BY <2>1, <3>2, <3>6
      <4> QED BY <3>4, <3>6, <3>7, <3>8, <4>1
    <3>11. a = j
      BY <2>1, <3>6, <3>9, <3>10
    <3> QED BY <3>2, <3>7, <3>11 DEF a
  <2> QED BY <2>1, <2>4, <2>5 DEF C!Paired
<1> QED BY <1>1, CompactEverywhere, PTL

LEMMA CompactTyped ==
  ASSUME CompactInv
  PROVE  C!TypeOK
<1> DEFINE D == CMessages(format, calls)
           A == SUBSET (1..calls)
           B == SUBSET (1..MaxCalls)
<1>1. /\ calls \in Nat /\ calls <= MaxCalls /\ MaxCalls \in Nat
      /\ history \in Seq(D) /\ sent \in Seq(D)
  BY CompactNumbers DEF CompactInv, CompactSent, Talks
<1>2. A \subseteq B
  BY <1>1
<1>3. D \subseteq [kind : CKinds, text : BOOLEAN, uses : A, results : A, offloaded : BOOLEAN]
  BY DEF CMessages, CRecords
<1> HIDE DEF A, B, D
<1>4. D \subseteq [kind : CKinds, text : BOOLEAN, uses : B, results : B, offloaded : BOOLEAN]
  BY <1>2, <1>3
<1>5. \A m \in {history[i] : i \in DOMAIN history} \cup {sent[i] : i \in DOMAIN sent} : m \in D
  BY <1>1
<1>6. \A m \in {history[i] : i \in DOMAIN history} \cup {sent[i] : i \in DOMAIN sent} :
        m \in [kind : {"system", "user", "assistant", "result", "mmd", "history mmd"}, text : BOOLEAN,
               uses : SUBSET (1..MaxCalls), results : SUBSET (1..MaxCalls), offloaded : BOOLEAN]
  BY <1>4, <1>5, Zenon DEF CKinds, B
<1>7. Len(history) <= MaxMessages
  <2> DEFINE l == Len(history)
  <2>1. l \in 1..MaxMessages
    BY DEF CompactInv, CompactHistory
  <2> HIDE DEF l
  <2>2. l <= MaxMessages
    BY <2>1
  <2> QED BY <2>2 DEF l
<1> QED BY <1>6, <1>7, Zenon DEF C!TypeOK, CompactInv, CompactCounts

=============================================================================
