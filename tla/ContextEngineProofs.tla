------------------------- MODULE ContextEngineProofs -------------------------
(* What the plugin's compaction keeps for conversations of any length, with   *)
(* any number of tool calls: the user's last message, and calls with their    *)
(* results; with OffloadProofs, the types of all that MCOffload runs.         *)
EXTENDS OffloadProofs

-----------------------------------------------------------------------------
(* The plugin's conversations *)

EKinds == {"user", "assistant", "result", "active", "history"}
MapKinds == {"active", "history"}

(* messages of a conversation of n calls whose transcript has l messages *)
EMessages(n, l) ==
  {m \in [kind : EKinds, text : BOOLEAN, uses : SUBSET (1..n), id : 0..n,
          form : {"whole", "summary", "cut"}, at : 0..l] :
     /\ m.kind = "user" => m.uses = {} /\ m.text
     /\ m.kind = "result" => m.uses = {} /\ m.id # 0
     /\ m.kind \in MapKinds => m.uses = {} /\ m.at = 0}

(* messages come in the order of the transcript, and there is one map of a kind *)
InOrder(ms) ==
  \A i, j \in 1..Len(ms) : i < j /\ ms[i].at # 0 /\ ms[j].at # 0 => ms[i].at < ms[j].at
OneOfEach(ms) ==
  \A i, j \in 1..Len(ms) : ms[i].kind \in MapKinds /\ ms[i].kind = ms[j].kind => i = j
Conversation(ms, n, l) == ms \in Seq(EMessages(n, l)) /\ InOrder(ms) /\ OneOfEach(ms)

(* the user's last message is at i, and stands at u in the transcript *)
TurnAt(ms, i, u) ==
  /\ i \in 1..Len(ms) /\ ms[i].kind = "user" /\ ms[i].at = u
  /\ \A j \in 1..Len(ms) : ms[j].kind = "user" => j <= i
HasTurn(ms, u) == \E i \in 1..Len(ms) : TurnAt(ms, i, u)

KindsOf(ms) == {ms[i].kind : i \in 1..Len(ms)}

LEMMA MessageFields ==
  ASSUME NEW n \in Nat, NEW l \in Nat, NEW m \in EMessages(n, l)
  PROVE  /\ m.kind \in EKinds /\ m.text \in BOOLEAN /\ m.uses \subseteq 1..n /\ m.id \in 0..n
         /\ m.form \in {"whole", "summary", "cut"} /\ m.at \in 0..l /\ m.at \in Nat
         /\ m.kind = "user" => m.uses = {} /\ m.text
         /\ m.kind = "result" => m.uses = {} /\ m.id # 0
         /\ m.kind \in MapKinds => m.uses = {} /\ m.at = 0
BY DEF EMessages

LEMMA FollowsConversation ==
  ASSUME NEW n \in Nat, NEW l \in Nat, NEW r \in Seq(EMessages(n, l)), NEW s, NEW g,
         Conversation(s, n, l), Follows(r, s, g)
  PROVE  Conversation(r, n, l)
<1>1. \A i \in 1..Len(r) : g[i] \in 1..Len(s) /\ r[i].kind = s[g[i]].kind /\ r[i].at = s[g[i]].at
  BY DEF Follows
<1>2. InOrder(r)
  BY <1>1 DEF Follows, InOrder, Conversation
<1>3. OneOfEach(r)
  <2> SUFFICES ASSUME NEW i \in 1..Len(r), NEW j \in 1..Len(r), r[i].kind \in MapKinds,
                      r[i].kind = r[j].kind
               PROVE  i = j
    BY DEF OneOfEach
  <2>1. g[i] = g[j]
    <3>1. OneOfEach(s)
      BY DEF Conversation
    <3>2. s[g[i]].kind \in MapKinds /\ s[g[i]].kind = s[g[j]].kind
      BY <1>1
    <3> QED BY <3>1, <3>2, <1>1, Zenon DEF OneOfEach
  <2>2. ~(i < j) /\ ~(j < i)
    BY <1>1, <2>1 DEF Follows
  <2> QED BY <2>2
<1> QED BY <1>2, <1>3 DEF Conversation

LEMMA FollowsTurn ==
  ASSUME NEW n \in Nat, NEW l \in Nat, NEW r \in Seq(EMessages(n, l)), NEW s, NEW g, NEW u,
         Follows(r, s, g), NEW k \in 1..Len(r), TurnAt(s, g[k], u)
  PROVE  TurnAt(r, k, u)
<1>1. \A i \in 1..Len(r) : g[i] \in 1..Len(s) /\ r[i].kind = s[g[i]].kind /\ r[i].at = s[g[i]].at
  BY DEF Follows
<1>2. ASSUME NEW j \in 1..Len(r), r[j].kind = "user" PROVE j <= k
  <2>1. g[j] <= g[k]
    BY <1>1, <1>2 DEF TurnAt
  <2>2. ~(k < j)
    BY <1>1, <2>1 DEF Follows
  <2> QED BY <2>2
<1> QED BY <1>1, <1>2 DEF TurnAt

LEMMA KeptConversation ==
  ASSUME NEW n \in Nat, NEW l \in Nat, NEW ms, Conversation(ms, n, l), NEW keep
  PROVE  /\ Conversation(Kept(ms, keep), n, l)
         /\ \A u : HasTurn(ms, u) /\ (\A i \in 1..Len(ms) : ms[i].kind = "user" => i \in keep)
              => HasTurn(Kept(ms, keep), u)
<1> DEFINE r == Kept(ms, keep)
<1>1. ms \in Seq(EMessages(n, l))
  BY DEF Conversation
<1>2. r \in Seq(EMessages(n, l))
  BY <1>1, KeptFollows
<1>3. PICK g : /\ Follows(r, ms, g)
               /\ \A i \in 1..Len(r) : r[i] = ms[g[i]] /\ g[i] \in keep
               /\ \A k \in (1..Len(ms)) \cap keep : \E i \in 1..Len(r) : g[i] = k
  BY <1>1, KeptFollows
<1> HIDE DEF r
<1>4. Conversation(r, n, l)
  BY <1>2, <1>3, FollowsConversation
<1>5. ASSUME NEW u, HasTurn(ms, u), \A i \in 1..Len(ms) : ms[i].kind = "user" => i \in keep
      PROVE  HasTurn(r, u)
  <2>1. PICK i \in 1..Len(ms) : TurnAt(ms, i, u)
    BY <1>5 DEF HasTurn
  <2>2. i \in keep
    BY <1>5, <2>1 DEF TurnAt
  <2>3. PICK k \in 1..Len(r) : g[k] = i
    BY <1>3, <2>2
  <2>4. TurnAt(r, k, u)
    BY <1>2, <1>3, <2>1, <2>3, FollowsTurn
  <2> QED BY <2>4 DEF HasTurn
<1> QED BY <1>4, <1>5 DEF r

LEMMA FromConversation ==
  ASSUME NEW n \in Nat, NEW l \in Nat, NEW ms, Conversation(ms, n, l), NEW k \in 0..Len(ms)
  PROVE  /\ Conversation(E!From(ms, k), n, l)
         /\ \A u, i : TurnAt(ms, i, u) /\ k < i => HasTurn(E!From(ms, k), u)
<1> DEFINE r == E!From(ms, k)
           g == [i \in 1..Len(r) |-> i + k]
<1>1. ms \in Seq(EMessages(n, l))
  BY DEF Conversation
<1>2. /\ r \in Seq(EMessages(n, l)) /\ Len(r) = Len(ms) - k /\ Len(ms) \in Nat /\ k \in Nat
      /\ \A i \in 1..Len(r) : i + k \in 1..Len(ms) /\ r[i] = ms[i + k]
  BY <1>1, FromFacts
<1> HIDE DEF r
<1>3. \A i \in 1..Len(r) : g[i] = i + k
  OBVIOUS
<1>4. g \in [1..Len(r) -> 1..Len(ms)]
  BY <1>2
<1> HIDE DEF g
<1>5. Follows(r, ms, g)
  <2>1. \A i, j \in 1..Len(r) : i < j => g[i] < g[j]
    BY <1>2, <1>3
  <2>2. \A i \in 1..Len(r) : r[i].kind = ms[g[i]].kind /\ r[i].at = ms[g[i]].at
    BY <1>2, <1>3
  <2> QED BY <1>4, <2>1, <2>2, Zenon DEF Follows
<1>6. Conversation(r, n, l)
  BY <1>2, <1>5, FollowsConversation
<1>7. ASSUME NEW u, NEW i, TurnAt(ms, i, u), k < i PROVE HasTurn(r, u)
  <2>1. i - k \in 1..Len(r) /\ g[i - k] = i
    BY <1>2, <1>3, <1>7 DEF TurnAt
  <2>2. PICK j \in 1..Len(r) : g[j] = i
    BY <2>1
  <2>3. TurnAt(r, j, u)
    BY <1>2, <1>5, <1>7, <2>2, FollowsTurn
  <2> QED BY <2>3 DEF HasTurn
<1> QED BY <1>6, <1>7 DEF r

(* the place of the user's last message *)
LEMMA LastUserIs ==
  ASSUME NEW ms, Len(ms) \in Nat, DOMAIN ms = 1..Len(ms)
  PROVE  /\ E!LastUser(ms) \in 0..Len(ms)
         /\ E!LastUser(ms) # 0 => TurnAt(ms, E!LastUser(ms), ms[E!LastUser(ms)].at)
         /\ \A i, u : TurnAt(ms, i, u) => E!LastUser(ms) = i
<1>1. E!Users(ms) = {i \in 1..Len(ms) : ms[i].kind = "user"}
  BY DEF E!Users
<1>2. CASE E!Users(ms) = {}
  <2>1. E!LastUser(ms) = 0
    BY <1>2 DEF E!LastUser
  <2>2. \A i, u : ~TurnAt(ms, i, u)
    BY <1>1, <1>2 DEF TurnAt
  <2> QED BY <2>1, <2>2
<1>3. CASE E!Users(ms) # {}
  <2> DEFINE x == E!LastUser(ms)
  <2>1. x = E!MaxOf(E!Users(ms))
    BY <1>3 DEF E!LastUser
  <2>2. E!Users(ms) \subseteq 0..Len(ms)
    BY <1>1
  <2>3. x \in E!Users(ms) /\ \A j \in E!Users(ms) : j <= x
    BY <2>1, <2>2, <1>3, MaxOfIs
  <2> HIDE DEF x
  <2>4. x \in 1..Len(ms) /\ ms[x].kind = "user"
    BY <1>1, <2>3
  <2>5. \A j \in 1..Len(ms) : ms[j].kind = "user" => j <= x
    BY <1>1, <2>3
  <2>6. TurnAt(ms, x, ms[x].at)
    BY <2>4, <2>5 DEF TurnAt
  <2>7. ASSUME NEW i, NEW u, TurnAt(ms, i, u) PROVE x = i
    <3>1. i \in 1..Len(ms) /\ ms[i].kind = "user" /\ x <= i
      BY <2>7, <2>4 DEF TurnAt
    <3>2. i <= x
      BY <3>1, <2>5
    <3> QED BY <3>1, <3>2, <2>4
  <2>8. /\ x \in 0..Len(ms) /\ (x # 0 => TurnAt(ms, x, ms[x].at))
        /\ \A i, u : TurnAt(ms, i, u) => x = i
    BY <2>4, <2>6, <2>7
  <2> QED BY <2>8 DEF x
<1> QED BY <1>2, <1>3

(* a map comes in where there is none of its kind *)
LEMMA InsertConversation ==
  ASSUME NEW n \in Nat, NEW l \in Nat, NEW ms, Conversation(ms, n, l), NEW m \in EMessages(n, l),
         m.kind \in MapKinds, m.kind \notin KindsOf(ms), NEW k \in 0..Len(ms)
  PROVE  /\ Conversation(E!InsertedAt(ms, k, m), n, l)
         /\ \A u : HasTurn(ms, u) => HasTurn(E!InsertedAt(ms, k, m), u)
         /\ KindsOf(E!InsertedAt(ms, k, m)) = KindsOf(ms) \cup {m.kind}
<1> DEFINE r == E!InsertedAt(ms, k, m)
<1>1. ms \in Seq(EMessages(n, l)) /\ InOrder(ms) /\ OneOfEach(ms)
  BY DEF Conversation
<1>2. /\ r \in Seq(EMessages(n, l)) /\ Len(r) = Len(ms) + 1 /\ Len(ms) \in Nat /\ k \in Nat /\ k <= Len(ms)
      /\ \A i \in 1..k : r[i] = ms[i]
      /\ r[k + 1] = m
      /\ \A i \in (k + 1)..Len(ms) : r[i + 1] = ms[i]
  <2>1. Len(ms) \in Nat /\ k \in Nat /\ k <= Len(ms)
    BY <1>1, SeqDomain
  <2> DEFINE D == EMessages(n, l)
  <2>2. ms \in Seq(D) /\ m \in D
    BY <1>1
  <2> HIDE DEF D
  <2>3. r \in Seq(D) /\ Len(r) = Len(ms) + 1
    BY <2>2, InsertFacts
  <2>4. \A i \in 1..k : r[i] = ms[i]
    BY <2>2, InsertFacts
  <2>5. r[k + 1] = m
    BY <2>2, InsertFacts
  <2>6. \A i \in (k + 1)..Len(ms) : r[i + 1] = ms[i]
    BY <2>2, InsertFacts
  <2> QED BY <2>1, <2>3, <2>4, <2>5, <2>6 DEF D
<1> HIDE DEF r
<1> DEFINE g == [i \in 1..Len(r) |-> IF i <= k THEN i ELSE i - 1]
           h == [i \in 1..Len(ms) |-> IF i <= k THEN i ELSE i + 1]
<1>3. \A i \in 1..Len(r) : i # k + 1 => g[i] \in 1..Len(ms) /\ r[i] = ms[g[i]]
  <2> TAKE i \in 1..Len(r)
  <2>1. CASE i <= k
    BY <2>1, <1>2
  <2>2. CASE i > k + 1
    <3>1. i - 1 \in (k + 1)..Len(ms) /\ g[i] = i - 1 /\ (i - 1) + 1 = i
      BY <2>2, <1>2
    <3>2. r[(i - 1) + 1] = ms[i - 1]
      BY <3>1, <1>2
    <3> QED BY <3>1, <3>2, <1>2
  <2> QED BY <2>1, <2>2, <1>2
<1>4. \A i, j \in 1..Len(r) : i < j /\ i # k + 1 /\ j # k + 1 => g[i] < g[j]
  BY <1>2
<1>5. \A i \in 1..Len(ms) : h[i] \in 1..Len(r) /\ r[h[i]] = ms[i] /\ h[i] # k + 1
  BY <1>2
<1>6. \A i, j \in 1..Len(ms) : i <= j => h[i] <= h[j]
  BY <1>2
<1>7. k + 1 \in 1..Len(r) /\ r[k + 1] = m /\ m.at = 0 /\ m.kind # "user"
  <2>1. m.at = 0 /\ m.kind # "user"
    BY MessageFields DEF MapKinds
  <2> QED BY <1>2, <2>1
<1>8. \A i \in 1..Len(r) : g[i] \in 1..Len(ms) /\ i # k + 1 => h[g[i]] = i
  BY <1>2
<1> HIDE DEF g, h
<1>9. InOrder(r)
  <2> SUFFICES ASSUME NEW i \in 1..Len(r), NEW j \in 1..Len(r), i < j, r[i].at # 0, r[j].at # 0
               PROVE  r[i].at < r[j].at
    BY DEF InOrder
  <2>1. i # k + 1 /\ j # k + 1
    BY <1>7
  <2>2. g[i] < g[j]
    BY <2>1, <1>4
  <2>3. g[i] \in 1..Len(ms) /\ g[j] \in 1..Len(ms) /\ r[i] = ms[g[i]] /\ r[j] = ms[g[j]]
    BY <2>1, <1>3
  <2>4. ms[g[i]].at # 0 /\ ms[g[j]].at # 0
    BY <2>3
  <2>5. ms[g[i]].at < ms[g[j]].at
    BY <2>2, <2>3, <2>4, <1>1, Zenon DEF InOrder
  <2> QED BY <2>3, <2>5
<1>10. OneOfEach(r)
  <2> SUFFICES ASSUME NEW i \in 1..Len(r), NEW j \in 1..Len(r), r[i].kind \in MapKinds, r[i].kind = r[j].kind
               PROVE  i = j
    BY DEF OneOfEach
  <2>1. CASE i = k + 1
    <3>1. ASSUME j # k + 1 PROVE FALSE
      BY <3>1, <2>1, <1>3, <1>7 DEF KindsOf
    <3> QED BY <3>1, <2>1
  <2>2. CASE i # k + 1
    <3>1. j # k + 1
      BY <2>2, <1>3, <1>7 DEF KindsOf
    <3>2. g[i] = g[j]
      <4>1. /\ g[i] \in 1..Len(ms) /\ g[j] \in 1..Len(ms)
            /\ ms[g[i]].kind \in MapKinds /\ ms[g[i]].kind = ms[g[j]].kind
        BY <2>2, <3>1, <1>3
      <4> QED BY <4>1, <1>1, Zenon DEF OneOfEach
    <3>3. ~(i < j) /\ ~(j < i)
      BY <2>2, <3>1, <3>2, <1>3, <1>4
    <3> QED BY <3>3
  <2> QED BY <2>1, <2>2
<1>11. ASSUME NEW u, HasTurn(ms, u) PROVE HasTurn(r, u)
  <2>1. PICK i \in 1..Len(ms) : TurnAt(ms, i, u)
    BY <1>11 DEF HasTurn
  <2>2. h[i] \in 1..Len(r) /\ r[h[i]].kind = "user" /\ r[h[i]].at = u
    BY <2>1, <1>5 DEF TurnAt
  <2>3. ASSUME NEW j \in 1..Len(r), r[j].kind = "user" PROVE j <= h[i]
    <3>1. j # k + 1
      BY <2>3, <1>7
    <3>2. g[j] \in 1..Len(ms) /\ ms[g[j]].kind = "user" /\ h[g[j]] = j
      BY <2>3, <3>1, <1>3, <1>8
    <3>3. g[j] <= i
      BY <3>2, <2>1 DEF TurnAt
    <3>4. h[g[j]] <= h[i]
      BY <3>2, <3>3, <1>6
    <3> QED BY <3>2, <3>4
  <2> QED BY <2>2, <2>3 DEF HasTurn, TurnAt
<1>12. KindsOf(r) = KindsOf(ms) \cup {m.kind}
  <2>1. ASSUME NEW x \in KindsOf(r) PROVE x \in KindsOf(ms) \cup {m.kind}
    BY <2>1, <1>3, <1>7, SMTT(30) DEF KindsOf
  <2>2. ASSUME NEW x \in KindsOf(ms) PROVE x \in KindsOf(r)
    BY <2>2, <1>5 DEF KindsOf
  <2>3. m.kind \in KindsOf(r)
    BY <1>7 DEF KindsOf
  <2> QED BY <2>1, <2>2, <2>3
<1>13. Conversation(r, n, l)
  BY <1>2, <1>9, <1>10 DEF Conversation
<1> QED BY <1>11, <1>12, <1>13 DEF r

LEMMA EngineConstants ==
  /\ AGGRESSIVE_MIN_KEEP \in Nat \ {0} /\ MIN_KEEP \in Nat \ {0} /\ maxDistFromTail \in Nat
  /\ EngineCalls \in Nat /\ MaxMessages \in Nat \ {0}
BY OffloadAssumption DEF E!EngineAssumption

(* where the maps go *)
LEMMA AdjustedPoint ==
  ASSUME NEW D, NEW ms \in Seq(D), NEW k \in 0..Len(ms)
  PROVE  E!Adjusted(ms, k) \in 0..Len(ms)
<1>1. Len(ms) \in Nat /\ k \in Nat
  OBVIOUS
<1>2. CASE k >= Len(ms)
  BY <1>2 DEF E!Adjusted
<1>3. CASE ~(k >= Len(ms))
  <2> DEFINE V == {c \in 0..k : c = 0 \/ ~(E!IsMap(ms[c + 1]) \/ E!IsResult(ms[c + 1]))}
  <2>1. E!Adjusted(ms, k) = E!MaxOf(V)
    BY <1>3 DEF E!Adjusted
  <2>2. V \subseteq 0..k /\ 0 \in V
    BY <1>1
  <2> HIDE DEF V
  <2>3. E!MaxOf(V) \in 0..k
    BY <2>2, <1>1, MaxOfIs
  <2>4. E!Adjusted(ms, k) \in 0..k
    BY <2>1, <2>3, Zenon
  <2> QED BY <1>1, <2>4
<1> QED BY <1>2, <1>3

LEMMA ActivePointIs ==
  ASSUME NEW D, NEW ms \in Seq(D)
  PROVE  E!ActivePoint(ms) \in 0..Len(ms)
<1> DEFINE loop == {i \in DOMAIN ms : /\ ms[i].kind \in {"assistant", "result"}
                                      /\ \A j \in i..Len(ms) : ms[j].kind # "user"}
           loopStart == IF loop = {} THEN Len(ms) ELSE E!MinOf(loop) - 1
           d == E!Less(Len(ms), maxDistFromTail)
           x == E!Most(loopStart, d)
           k == IF E!LastUser(ms) > Len(ms) \div 2 THEN E!LastUser(ms) ELSE E!Least(x, Len(ms) - 1)
<1>1. Len(ms) \in Nat /\ DOMAIN ms = 1..Len(ms)
  BY SeqDomain
<1>2. E!ActivePoint(ms) = IF Len(ms) <= 2 THEN 0 ELSE E!Adjusted(ms, k)
  BY Zenon DEF E!ActivePoint
<1>3. E!LastUser(ms) \in 0..Len(ms)
  BY <1>1, LastUserIs
<1>4. loop \subseteq 1..Len(ms)
  BY <1>1
<1> HIDE DEF loop
<1>5. loopStart \in Nat
  <2>1. CASE loop = {}
    BY <1>1, <2>1
  <2>2. CASE loop # {}
    <3>1. E!MinOf(loop) \in loop
      <4>1. loop \subseteq Nat
        BY <1>4
      <4> QED BY <4>1, <2>2, MinOfIs
    <3>2. loopStart = E!MinOf(loop) - 1
      BY <2>2, Zenon
    <3>3. E!MinOf(loop) \in 1..Len(ms)
      BY <3>1, <1>4, Zenon
    <3> HIDE DEF loopStart
    <3> QED BY <3>2, <3>3, <1>1
  <2> QED BY <2>1, <2>2
<1> HIDE DEF loopStart
<1>6. d \in Nat
  BY <1>1, EngineConstants DEF E!Less
<1> HIDE DEF d
<1>7. x \in Nat
  BY <1>5, <1>6 DEF E!Most
<1> HIDE DEF x
<1>8. Len(ms) > 2 => k \in 0..Len(ms)
  <2>1. Len(ms) > 2 => E!Least(x, Len(ms) - 1) \in 0..Len(ms)
    BY <1>1, <1>7 DEF E!Least
  <2> QED BY <1>3, <2>1
<1> HIDE DEF k
<1> QED BY <1>1, <1>2, <1>8, AdjustedPoint

LEMMA HistoryPointIs ==
  ASSUME NEW D, NEW ms \in Seq(D)
  PROVE  E!HistoryPoint(ms) \in 0..Len(ms)
<1> DEFINE actives == {i \in DOMAIN ms : ms[i].kind = "active"}
<1>1. Len(ms) \in Nat /\ DOMAIN ms = 1..Len(ms)
  BY SeqDomain
<1>2. E!HistoryPoint(ms) = IF actives = {} THEN E!ActivePoint(ms) ELSE E!MinOf(actives) - 1
  BY Zenon DEF E!HistoryPoint
<1>3. actives \subseteq 1..Len(ms)
  BY <1>1
<1> HIDE DEF actives
<1>4. CASE actives = {}
  BY <1>2, <1>4, ActivePointIs
<1>5. CASE actives # {}
  <2>1. E!MinOf(actives) \in actives
    <3>1. actives \subseteq Nat
      BY <1>3
    <3> QED BY <3>1, <1>5, MinOfIs
  <2>2. E!MinOf(actives) \in 1..Len(ms)
    BY <2>1, <1>3, Zenon
  <2>3. E!HistoryPoint(ms) = E!MinOf(actives) - 1
    BY <1>2, <1>5, Zenon
  <2> QED BY <2>2, <2>3, <1>1
<1> QED BY <1>4, <1>5

LEMMA WithMapKept ==
  ASSUME NEW n \in Nat, NEW l \in Nat, NEW ms, Conversation(ms, n, l), NEW m \in EMessages(n, l),
         m.kind \in MapKinds, m.kind \notin KindsOf(ms)
  PROVE  /\ Conversation(E!WithMap(ms, m), n, l)
         /\ \A u : HasTurn(ms, u) => HasTurn(E!WithMap(ms, m), u)
         /\ KindsOf(E!WithMap(ms, m)) = KindsOf(ms) \cup {m.kind}
<1> DEFINE k == IF m.kind = "history" THEN E!HistoryPoint(ms) ELSE E!ActivePoint(ms)
<1>1. ms \in Seq(EMessages(n, l))
  BY DEF Conversation
<1>2. k \in 0..Len(ms)
  BY <1>1, HistoryPointIs, ActivePointIs
<1>3. E!WithMap(ms, m) = E!InsertedAt(ms, k, m)
  BY Zenon DEF E!WithMap
<1> HIDE DEF k
<1> QED BY <1>2, <1>3, InsertConversation

LEMMA MapIs ==
  ASSUME NEW n \in Nat, NEW l \in Nat, NEW kind \in MapKinds
  PROVE  E!Map(kind) \in EMessages(n, l) /\ E!Map(kind).kind = kind
BY DEF E!Map, E!Message, EMessages, MapKinds, EKinds

(* the maps go back in one by one *)
LEMMA WithMapsIs ==
  ASSUME NEW ms, NEW maps, Len(maps) \in 0..2
  PROVE  /\ Len(maps) = 0 => E!WithMaps(ms, maps) = ms
         /\ Len(maps) = 1 => E!WithMaps(ms, maps) = E!WithMap(ms, maps[1])
         /\ Len(maps) = 2 => E!WithMaps(ms, maps) = E!WithMap(E!WithMap(ms, maps[1]), maps[2])
<1> DEFINE N == Len(maps)
           Step(f, k) == IF k = 0 THEN ms ELSE E!WithMap(f[k - 1], maps[k])
           Def(f) == f = [k \in 0..N |-> Step(f, k)]
           one == E!WithMap(ms, maps[1])
           two == E!WithMap(one, maps[2])
           g == [k \in 0..N |-> IF k = 0 THEN ms ELSE IF k = 1 THEN one ELSE two]
<1>1. N \in 0..2
  OBVIOUS
<1>2. ASSUME NEW k \in 0..N PROVE g[k] = Step(g, k)
  <2>1. CASE k = 0
    BY <2>1
  <2>2. CASE k = 1
    <3>1. 0 \in 0..N /\ g[0] = ms /\ g[1] = one /\ 1 - 1 = 0
      BY <2>2, <1>1
    <3> HIDE DEF g
    <3> QED BY <2>2, <3>1
  <2>3. CASE k = 2
    <3>1. 1 \in 0..N /\ g[1] = one /\ g[2] = two /\ 2 - 1 = 1
      BY <2>3, <1>1
    <3> HIDE DEF g, one
    <3> QED BY <2>3, <3>1
  <2> QED BY <2>1, <2>2, <2>3, <1>1
<1>3. Def(g)
  <2>1. g = [k \in 0..N |-> g[k]]
    OBVIOUS
  <2> HIDE DEF g, Step
  <2> QED BY <1>2, <2>1
<1> DEFINE with == CHOOSE f : Def(f)
<1>4. Def(with)
  <2> HIDE DEF Def, g
  <2> QED BY <1>3
<1>5. E!WithMaps(ms, maps) = with[N]
  BY DEF E!WithMaps
<1> HIDE DEF with
<1>6. \A k \in 0..N : with[k] = Step(with, k)
  <2> HIDE DEF Step
  <2> QED BY <1>4
<1>7. N = 0 => with[N] = ms
  BY <1>6, <1>1
<1>8. N >= 1 => with[1] = one
  <2>1. with[0] = ms
    BY <1>6, <1>1
  <2>2. N >= 1 => with[1] = E!WithMap(with[1 - 1], maps[1]) /\ 1 - 1 = 0
    BY <1>6, <1>1
  <2> QED BY <2>1, <2>2
<1>9. N = 2 => with[2] = two
  <2>1. N = 2 => with[2] = E!WithMap(with[2 - 1], maps[2]) /\ 2 - 1 = 1
    BY <1>6, <1>1
  <2> QED BY <2>1, <1>8
<1> HIDE DEF one, two
<1>10. N = 1 => with[N] = one
  BY <1>8
<1>11. N = 2 => with[N] = two
  BY <1>9
<1> QED BY <1>5, <1>7, <1>10, <1>11, Zenon DEF one, two

LEMMA FewMaps ==
  ASSUME NEW D, NEW ms \in Seq(D), OneOfEach(ms), KindsOf(ms) \subseteq MapKinds
  PROVE  Len(ms) \in 0..2
<1>1. Len(ms) \in Nat
  OBVIOUS
<1>2. ASSUME Len(ms) > 2 PROVE FALSE
  <2>1. 1 \in 1..Len(ms) /\ 2 \in 1..Len(ms) /\ 3 \in 1..Len(ms)
    BY <1>1, <1>2
  <2>2. ms[1].kind \in MapKinds /\ ms[2].kind \in MapKinds /\ ms[3].kind \in MapKinds
    BY <2>1 DEF KindsOf
  <2>3. ms[1].kind # ms[2].kind /\ ms[1].kind # ms[3].kind /\ ms[2].kind # ms[3].kind
    BY <2>1, <2>2 DEF OneOfEach
  <2> QED BY <2>2, <2>3 DEF MapKinds
<1> DEFINE k == Len(ms)
<1>3. k \in Nat /\ ~(k > 2)
  BY <1>1, <1>2
<1> HIDE DEF k
<1>4. k \in 0..2
  BY <1>3
<1> QED BY <1>4 DEF k

LEMMA WithMapsKept ==
  ASSUME NEW n \in Nat, NEW l \in Nat, NEW ms, Conversation(ms, n, l), KindsOf(ms) \cap MapKinds = {},
         NEW maps, Conversation(maps, n, l), KindsOf(maps) \subseteq MapKinds
  PROVE  /\ Conversation(E!WithMaps(ms, maps), n, l)
         /\ \A u : HasTurn(ms, u) => HasTurn(E!WithMaps(ms, maps), u)
<1>1. maps \in Seq(EMessages(n, l)) /\ OneOfEach(maps)
  BY DEF Conversation
<1>2. Len(maps) \in 0..2
  BY <1>1, FewMaps
<1>3. \A i \in 1..Len(maps) : maps[i] \in EMessages(n, l) /\ maps[i].kind \in MapKinds
  BY <1>1 DEF KindsOf
<1> DEFINE one == E!WithMap(ms, maps[1])
<1>4. Len(maps) >= 1 =>
        /\ Conversation(one, n, l)
        /\ \A u : HasTurn(ms, u) => HasTurn(one, u)
        /\ KindsOf(one) = KindsOf(ms) \cup {maps[1].kind}
  <2>1. SUFFICES ASSUME Len(maps) >= 1
                 PROVE  /\ Conversation(one, n, l)
                        /\ \A u : HasTurn(ms, u) => HasTurn(one, u)
                        /\ KindsOf(one) = KindsOf(ms) \cup {maps[1].kind}
    OBVIOUS
  <2>2. 1 \in 1..Len(maps)
    BY <2>1, <1>2
  <2>3. maps[1] \in EMessages(n, l) /\ maps[1].kind \in MapKinds /\ maps[1].kind \notin KindsOf(ms)
    BY <2>2, <1>3
  <2> QED BY <2>3, WithMapKept
<1> HIDE DEF one
<1> DEFINE two == E!WithMap(one, maps[2])
<1>5. Len(maps) = 2 => Conversation(two, n, l) /\ \A u : HasTurn(one, u) => HasTurn(two, u)
  <2>1. SUFFICES ASSUME Len(maps) = 2
                 PROVE  Conversation(two, n, l) /\ \A u : HasTurn(one, u) => HasTurn(two, u)
    OBVIOUS
  <2>2. 1 \in 1..Len(maps) /\ 2 \in 1..Len(maps) /\ Len(maps) >= 1
    BY <2>1
  <2>3. maps[1].kind # maps[2].kind
    BY <2>2, <1>1, <1>3 DEF OneOfEach
  <2>4. maps[2] \in EMessages(n, l) /\ maps[2].kind \in MapKinds /\ maps[2].kind \notin KindsOf(one)
    BY <2>2, <2>3, <1>3, <1>4
  <2> QED BY <2>2, <2>4, <1>4, WithMapKept
<1> HIDE DEF two
<1>6. CASE Len(maps) = 0
  BY <1>2, <1>6, WithMapsIs
<1>7. CASE Len(maps) = 1
  <2>1. E!WithMaps(ms, maps) = one
    BY <1>2, <1>7, WithMapsIs DEF one
  <2> QED BY <1>7, <2>1, <1>4
<1>8. CASE Len(maps) = 2
  <2>1. E!WithMaps(ms, maps) = two
    BY <1>2, <1>8, WithMapsIs DEF one, two
  <2> QED BY <1>8, <2>1, <1>4, <1>5
<1> QED BY <1>2, <1>6, <1>7, <1>8

(* cuts *)
LEMMA BeyondResultsIs ==
  ASSUME NEW D, NEW ms \in Seq(D), NEW k \in 0..Len(ms)
  PROVE  /\ E!BeyondResults(ms, k) \in k..Len(ms)
         /\ \A i, u : TurnAt(ms, i, u) /\ k < i => E!BeyondResults(ms, k) < i
<1> DEFINE V == {c \in k..Len(ms) : c = Len(ms) \/ ~E!IsResult(ms[c + 1])}
<1>1. Len(ms) \in Nat /\ k \in Nat /\ k <= Len(ms)
  OBVIOUS
<1>2. E!BeyondResults(ms, k) = E!MinOf(V)
  BY DEF E!BeyondResults
<1>3. V \subseteq k..Len(ms) /\ Len(ms) \in V
  BY <1>1
<1>4. ASSUME NEW i, NEW u, TurnAt(ms, i, u), k < i PROVE i - 1 \in V
  <2>1. i \in 1..Len(ms) /\ ms[i].kind = "user"
    BY <1>4 DEF TurnAt
  <2>2. ~E!IsResult(ms[i])
    BY <2>1 DEF E!IsResult
  <2>3. (i - 1) + 1 = i /\ i - 1 \in k..Len(ms)
    BY <2>1, <1>1, <1>4
  <2> QED BY <2>2, <2>3
<1> HIDE DEF V
<1>5. E!MinOf(V) \in V /\ \A y \in V : E!MinOf(V) <= y
  <2>1. V \subseteq Nat /\ V # {}
    BY <1>1, <1>3
  <2> QED BY <2>1, MinOfIs
<1> DEFINE c == E!MinOf(V)
<1>6. c \in k..Len(ms) /\ \A i, u : TurnAt(ms, i, u) /\ k < i => c <= i - 1
  BY <1>3, <1>4, <1>5
<1> HIDE DEF c
<1>7. \A i, u : TurnAt(ms, i, u) => i \in 1..Len(ms)
  BY DEF TurnAt
<1>8. \A i, u : TurnAt(ms, i, u) /\ k < i => c < i
  BY <1>1, <1>6, <1>7
<1> QED BY <1>2, <1>6, <1>8 DEF c

LEMMA CappedIs ==
  ASSUME NEW D, NEW ms \in Seq(D), NEW k \in Nat
  PROVE  /\ E!CappedForUser(ms, k) \in 0..k
         /\ \A i, u : TurnAt(ms, i, u) => E!CappedForUser(ms, k) < i
<1> DEFINE x == E!LastUser(ms)
<1>1. /\ x \in 0..Len(ms) /\ Len(ms) \in Nat
      /\ \A i, u : TurnAt(ms, i, u) => x = i
  BY SeqDomain, LastUserIs
<1>2. E!CappedForUser(ms, k) = IF x = 0 THEN k ELSE IF k < x - 1 THEN k ELSE x - 1
  BY DEF E!CappedForUser, E!Least
<1> HIDE DEF x
<1> DEFINE c == E!CappedForUser(ms, k)
<1>3. c = IF x = 0 THEN k ELSE IF k < x - 1 THEN k ELSE x - 1
  BY <1>2
<1> HIDE DEF c
<1>4. c \in 0..k
  BY <1>1, <1>3
<1>5. ASSUME NEW i, NEW u, TurnAt(ms, i, u) PROVE c < i
  <2>1. i \in 1..Len(ms) /\ x = i
    BY <1>1, <1>5 DEF TurnAt
  <2> QED BY <2>1, <1>1, <1>3
<1> QED BY <1>4, <1>5 DEF c

LEMMA DeleteCountIs ==
  ASSUME NEW D, NEW ms \in Seq(D), NEW k \in 0..Len(ms)
  PROVE  /\ E!DeleteCount(ms, k) \in 0..Len(ms)
         /\ \A i, u : TurnAt(ms, i, u) => E!DeleteCount(ms, k) < i
<1> DEFINE b == E!BeyondResults(ms, k)
<1>1. b \in k..Len(ms) /\ Len(ms) \in Nat /\ k \in Nat
  BY BeyondResultsIs, SeqDomain
<1>2. E!DeleteCount(ms, k) = E!CappedForUser(ms, b)
  BY DEF E!DeleteCount
<1> HIDE DEF b
<1>3. b \in Nat
  BY <1>1
<1>4. /\ E!CappedForUser(ms, b) \in 0..b
      /\ \A i, u : TurnAt(ms, i, u) => E!CappedForUser(ms, b) < i
  BY <1>3, CappedIs
<1>5. \A c \in 0..b : c \in 0..Len(ms)
  BY <1>1
<1> QED BY <1>2, <1>4, <1>5

LEMMA HeadCountIs ==
  ASSUME NEW D, NEW ms \in Seq(D), NEW k \in 0..Len(ms), Len(ms) > AGGRESSIVE_MIN_KEEP
  PROVE  /\ E!HeadCount(ms, k) \in 0..(Len(ms) - AGGRESSIVE_MIN_KEEP)
         /\ E!HeadCount(ms, k) \in 0..Len(ms)
         /\ \A i, u : TurnAt(ms, i, u) => E!HeadCount(ms, k) < i
<1> DEFINE b == E!Least(E!BeyondResults(ms, k), Len(ms) - AGGRESSIVE_MIN_KEEP)
<1>1. Len(ms) \in Nat /\ k \in Nat /\ E!BeyondResults(ms, k) \in Nat /\ AGGRESSIVE_MIN_KEEP \in Nat
  BY BeyondResultsIs, SeqDomain, EngineConstants
<1>2. E!HeadCount(ms, k) = E!CappedForUser(ms, b)
  BY DEF E!HeadCount
<1>3. b \in 0..(Len(ms) - AGGRESSIVE_MIN_KEEP)
  BY <1>1 DEF E!Least
<1> HIDE DEF b
<1>4. b \in Nat
  BY <1>3
<1>5. /\ E!CappedForUser(ms, b) \in 0..b
      /\ \A i, u : TurnAt(ms, i, u) => E!CappedForUser(ms, b) < i
  BY <1>4, CappedIs
<1>6. \A c \in 0..b : c \in 0..(Len(ms) - AGGRESSIVE_MIN_KEEP) /\ c \in 0..Len(ms)
  BY <1>1, <1>3
<1> QED BY <1>2, <1>5, <1>6

(* edits of messages in place *)
InForm(m, f) == [m EXCEPT !.form = f]
LessUses(m, drop) == [m EXCEPT !.uses = @ \ drop, !.form = "cut"]

LEMMA FormEdited ==
  ASSUME NEW n \in Nat, NEW l \in Nat, NEW m \in EMessages(n, l), NEW f \in {"whole", "summary", "cut"}
  PROVE  /\ InForm(m, f) \in EMessages(n, l) /\ InForm(m, f).kind = m.kind /\ InForm(m, f).at = m.at
         /\ InForm(m, f).uses = m.uses /\ InForm(m, f).id = m.id
<1> DEFINE A == SUBSET (1..n)
           B == 0..n
           L == 0..l
           F == {"whole", "summary", "cut"}
           e == [m EXCEPT !.form = f]
<1>1. m \in [kind : EKinds, text : BOOLEAN, uses : A, id : B, form : F, at : L]
  BY DEF EMessages
<1>2. f \in F
  OBVIOUS
<1> HIDE DEF A, B, L, F
<1>3. /\ e \in [kind : EKinds, text : BOOLEAN, uses : A, id : B, form : F, at : L]
      /\ e.kind = m.kind /\ e.text = m.text /\ e.uses = m.uses /\ e.id = m.id /\ e.at = m.at
  BY <1>1, <1>2
<1> HIDE DEF e
<1>4. e \in EMessages(n, l)
  BY <1>3, MessageFields DEF EMessages, A, B, L, F
<1> QED BY <1>3, <1>4 DEF e, InForm

LEMMA UsesEdited ==
  ASSUME NEW n \in Nat, NEW l \in Nat, NEW m \in EMessages(n, l), NEW drop
  PROVE  LessUses(m, drop) \in EMessages(n, l) /\ LessUses(m, drop).kind = m.kind /\ LessUses(m, drop).at = m.at
<1> DEFINE A == SUBSET (1..n)
           B == 0..n
           L == 0..l
           F == {"whole", "summary", "cut"}
           v == m.uses \ drop
           e == [m EXCEPT !.uses = v, !.form = "cut"]
<1>1. m \in [kind : EKinds, text : BOOLEAN, uses : A, id : B, form : F, at : L]
  BY DEF EMessages
<1>2. v \in A /\ "cut" \in F
  BY <1>1
<1>3. /\ m.kind = "user" => v = {}
      /\ m.kind = "result" => v = {}
      /\ m.kind \in MapKinds => v = {}
  BY MessageFields
<1> HIDE DEF A, B, L, F, v
<1>4. /\ e \in [kind : EKinds, text : BOOLEAN, uses : A, id : B, form : F, at : L]
      /\ e.kind = m.kind /\ e.text = m.text /\ e.id = m.id /\ e.at = m.at
  BY <1>1, <1>2
<1>5. e.uses = v
  BY <1>1, <1>2
<1> HIDE DEF e
<1>6. e \in EMessages(n, l)
  BY <1>3, <1>4, <1>5, MessageFields DEF EMessages, A, B, L, F
<1> QED BY <1>4, <1>6 DEF e, v, LessUses

LEMMA FastEditedIs ==
  ASSUME NEW n \in Nat, NEW l \in Nat, NEW m \in EMessages(n, l)
  PROVE  /\ E!FastEdited(m) \in EMessages(n, l)
         /\ E!FastEdited(m).kind = m.kind /\ E!FastEdited(m).at = m.at
<1>1. \/ E!FastEdited(m) = m
      \/ E!FastEdited(m) = InForm(m, "summary")
      \/ E!FastEdited(m) = LessUses(m, deleted)
  BY Zenon DEF E!FastEdited, InForm, LessUses
<1>2. CASE E!FastEdited(m) = m
  BY <1>2
<1>3. CASE E!FastEdited(m) = InForm(m, "summary")
  BY <1>3, FormEdited
<1>4. CASE E!FastEdited(m) = LessUses(m, deleted)
  BY <1>4, UsesEdited
<1> QED BY <1>1, <1>2, <1>3, <1>4

LEMMA UsersStay ==
  ASSUME NEW n \in Nat, NEW l \in Nat, NEW m \in EMessages(n, l), m.kind = "user"
  PROVE  ~E!FastDeleted(m) /\ ~E!IsResult(m) /\ ~E!OnlyUses(m) /\ m.uses = {}
BY MessageFields DEF E!FastDeleted, E!IsResult, E!OnlyUses

(* messages edited in place; those of s with their kinds and places *)
LEMMA EditedConversation ==
  ASSUME NEW n \in Nat, NEW l \in Nat, NEW ms, Conversation(ms, n, l), NEW r \in Seq(EMessages(n, l)),
         Len(r) = Len(ms), \A i \in 1..Len(ms) : r[i].kind = ms[i].kind /\ r[i].at = ms[i].at
  PROVE  /\ Conversation(r, n, l)
         /\ \A i, u : TurnAt(ms, i, u) => TurnAt(r, i, u)
         /\ KindsOf(r) = KindsOf(ms)
<1> DEFINE g == [i \in 1..Len(r) |-> i]
<1>1. \A i \in 1..Len(r) : g[i] = i
  OBVIOUS
<1>2. Len(r) \in Nat
  OBVIOUS
<1>3. g \in [1..Len(r) -> 1..Len(ms)]
  OBVIOUS
<1> HIDE DEF g
<1>4. Follows(r, ms, g)
  BY <1>1, <1>2, <1>3 DEF Follows
<1>5. Conversation(r, n, l)
  BY <1>4, FollowsConversation
<1>6. ASSUME NEW i, NEW u, TurnAt(ms, i, u) PROVE TurnAt(r, i, u)
  BY <1>6 DEF TurnAt
<1>7. KindsOf(r) = KindsOf(ms)
  BY DEF KindsOf
<1> QED BY <1>5, <1>6, <1>7

LEMMA FastPathKept ==
  ASSUME NEW n \in Nat, NEW l \in Nat, NEW ms, Conversation(ms, n, l)
  PROVE  /\ Conversation(E!FastPath(ms), n, l)
         /\ \A u : HasTurn(ms, u) => HasTurn(E!FastPath(ms), u)
<1> DEFINE keep == DOMAIN ms \ {i \in DOMAIN ms : E!FastDeleted(ms[i])}
           kept == Kept(ms, keep)
           r == [i \in 1..Len(kept) |-> E!FastEdited(kept[i])]
<1>1. ms \in Seq(EMessages(n, l)) /\ DOMAIN ms = 1..Len(ms) /\ \A i \in 1..Len(ms) : ms[i] \in EMessages(n, l)
  BY SeqDomain DEF Conversation
<1>2. \A i \in 1..Len(ms) : ms[i].kind = "user" => i \in keep
  BY <1>1, UsersStay
<1> HIDE DEF keep
<1>3. Conversation(kept, n, l) /\ \A u : HasTurn(ms, u) => HasTurn(kept, u)
  BY <1>2, KeptConversation
<1>4. kept \in Seq(EMessages(n, l)) /\ DOMAIN kept = 1..Len(kept)
  BY <1>3, SeqDomain DEF Conversation
<1>5. E!FastPath(ms) = r
  <2>1. E!FastPath(ms) = LET k == E!Without(ms, {i \in DOMAIN ms : E!FastDeleted(ms[i])})
                         IN [i \in DOMAIN k |-> E!FastEdited(k[i])]
    BY Zenon DEF E!FastPath
  <2>2. E!Without(ms, {i \in DOMAIN ms : E!FastDeleted(ms[i])}) = kept
    BY Zenon DEF E!Without, E!Kept, Kept, keep
  <2> HIDE DEF kept
  <2> QED BY <2>1, <2>2, <1>4
<1> HIDE DEF kept
<1>6. \A i \in 1..Len(kept) : /\ E!FastEdited(kept[i]) \in EMessages(n, l)
                              /\ E!FastEdited(kept[i]).kind = kept[i].kind
                              /\ E!FastEdited(kept[i]).at = kept[i].at
  BY <1>4, SeqDomain, FastEditedIs
<1>7. /\ r \in Seq(EMessages(n, l)) /\ Len(r) = Len(kept)
      /\ \A i \in 1..Len(kept) : r[i].kind = kept[i].kind /\ r[i].at = kept[i].at
  BY <1>4, <1>6
<1> HIDE DEF r
<1>8. Conversation(r, n, l) /\ \A i, u : TurnAt(kept, i, u) => TurnAt(r, i, u)
  BY <1>3, <1>7, EditedConversation
<1>9. ASSUME NEW u, HasTurn(ms, u) PROVE HasTurn(r, u)
  BY <1>3, <1>7, <1>8, <1>9 DEF HasTurn
<1> QED BY <1>5, <1>8, <1>9

LEMMA SummarizedKept ==
  ASSUME NEW n \in Nat, NEW l \in Nat, NEW ms, Conversation(ms, n, l), NEW ids
  PROVE  /\ Conversation(E!Summarized(ms, ids), n, l)
         /\ \A u : HasTurn(ms, u) => HasTurn(E!Summarized(ms, ids), u)
<1> DEFINE Edited(m) == IF \/ E!IsResult(m) /\ m.id \in ids
                           \/ E!OnlyUses(m) /\ m.uses \subseteq ids
                        THEN InForm(m, "summary")
                        ELSE IF m.uses \cap ids # {} /\ m.form = "whole" THEN InForm(m, "cut") ELSE m
           r == [i \in 1..Len(ms) |-> Edited(ms[i])]
<1>1. ms \in Seq(EMessages(n, l)) /\ DOMAIN ms = 1..Len(ms) /\ \A i \in 1..Len(ms) : ms[i] \in EMessages(n, l)
  BY SeqDomain DEF Conversation
<1>2. E!Summarized(ms, ids) = r
  BY <1>1, Zenon DEF E!Summarized, InForm
<1>3. \A m \in EMessages(n, l) : /\ Edited(m) \in EMessages(n, l)
                                 /\ Edited(m).kind = m.kind /\ Edited(m).at = m.at
  BY FormEdited
<1> HIDE DEF Edited
<1>4. /\ r \in Seq(EMessages(n, l)) /\ Len(r) = Len(ms)
      /\ \A i \in 1..Len(ms) : r[i].kind = ms[i].kind /\ r[i].at = ms[i].at
  BY <1>1, <1>3
<1> HIDE DEF r
<1>5. Conversation(r, n, l) /\ \A i, u : TurnAt(ms, i, u) => TurnAt(r, i, u)
  BY <1>4, EditedConversation
<1>6. ASSUME NEW u, HasTurn(ms, u) PROVE HasTurn(r, u)
  BY <1>4, <1>5, <1>6 DEF HasTurn
<1> QED BY <1>2, <1>5, <1>6

LEMMA MoreMessages ==
  ASSUME NEW n \in Nat, NEW l \in Nat, NEW nb \in Nat, NEW lb \in Nat, n <= nb, l <= lb
  PROVE  EMessages(n, l) \subseteq EMessages(nb, lb)
<1> SUFFICES ASSUME NEW m \in EMessages(n, l) PROVE m \in EMessages(nb, lb)
  OBVIOUS
<1>1. 1..n \subseteq 1..nb /\ 0..n \subseteq 0..nb /\ 0..l \subseteq 0..lb
  OBVIOUS
<1> DEFINE A == SUBSET (1..n)
           B == 0..n
           L == 0..l
           A2 == SUBSET (1..nb)
           B2 == 0..nb
           L2 == 0..lb
<1>2. A \subseteq A2 /\ B \subseteq B2 /\ L \subseteq L2
  BY <1>1
<1>3. m \in [kind : EKinds, text : BOOLEAN, uses : A, id : B, form : {"whole", "summary", "cut"}, at : L]
  BY DEF EMessages
<1> HIDE DEF A, B, L, A2, B2, L2
<1>4. m \in [kind : EKinds, text : BOOLEAN, uses : A2, id : B2, form : {"whole", "summary", "cut"}, at : L2]
  BY <1>2, <1>3
<1> QED BY <1>4, MessageFields DEF EMessages, A2, B2, L2

LEMMA LongerConversation ==
  ASSUME NEW n \in Nat, NEW l \in Nat, NEW nb \in Nat, NEW lb \in Nat, n <= nb, l <= lb,
         NEW ms, Conversation(ms, n, l)
  PROVE  Conversation(ms, nb, lb)
<1>1. EMessages(n, l) \subseteq EMessages(nb, lb)
  BY MoreMessages
<1>2. ms \in Seq(EMessages(nb, lb))
  BY <1>1, MoreSeq DEF Conversation
<1> QED BY <1>2 DEF Conversation

(* the host says one more *)
LEMMA AppendConversation ==
  ASSUME NEW n \in Nat, NEW l \in Nat, NEW n2 \in Nat, n <= n2,
         NEW ms, Conversation(ms, n, l),
         NEW m \in EMessages(n2, l + 1), m.kind \notin MapKinds, m.at = l + 1
  PROVE  /\ Conversation(Append(ms, m), n2, l + 1)
         /\ m.kind # "user" => \A u : HasTurn(ms, u) => HasTurn(Append(ms, m), u)
         /\ m.kind = "user" => HasTurn(Append(ms, m), l + 1)
<1> DEFINE r == Append(ms, m)
<1>1. /\ ms \in Seq(EMessages(n, l)) /\ InOrder(ms) /\ OneOfEach(ms) /\ l + 1 \in Nat /\ l <= l + 1
      /\ Len(ms) \in Nat /\ \A i \in 1..Len(ms) : ms[i] \in EMessages(n, l)
  BY SeqDomain DEF Conversation
<1>2. ms \in Seq(EMessages(n2, l + 1))
  BY <1>1, MoreMessages, MoreSeq
<1>3. r \in Seq(EMessages(n2, l + 1)) /\ Len(r) = Len(ms) + 1 /\ r[Len(ms) + 1] = m
      /\ \A i \in 1..Len(ms) : r[i] = ms[i]
  <2> DEFINE D == EMessages(n2, l + 1)
  <2>1. ms \in Seq(D) /\ m \in D
    BY <1>2
  <2> HIDE DEF D
  <2>2. r \in Seq(D) /\ Len(r) = Len(ms) + 1 /\ r[Len(ms) + 1] = m /\ \A i \in 1..Len(ms) : r[i] = ms[i]
    BY <2>1
  <2> HIDE DEF r
  <2> QED BY <2>2 DEF D
<1> HIDE DEF r
<1>4. \A i \in 1..Len(r) : i \in 1..Len(ms) \/ i = Len(ms) + 1
  BY <1>1, <1>3
<1>5. \A i \in 1..Len(ms) : r[i].at = ms[i].at /\ r[i].kind = ms[i].kind /\ ms[i].at \in 0..l
  BY <1>1, <1>3, MessageFields
<1>6. InOrder(r)
  <2> SUFFICES ASSUME NEW i \in 1..Len(r), NEW j \in 1..Len(r), i < j, r[i].at # 0, r[j].at # 0
               PROVE  r[i].at < r[j].at
    BY DEF InOrder
  <2>1. i \in 1..Len(ms)
    BY <1>1, <1>3, <1>4
  <2>2. CASE j \in 1..Len(ms)
    BY <2>1, <2>2, <1>1, <1>5 DEF InOrder
  <2>3. CASE j = Len(ms) + 1
    BY <2>1, <2>3, <1>3, <1>5
  <2> QED BY <2>2, <2>3, <1>4
<1>7. OneOfEach(r)
  <2> SUFFICES ASSUME NEW i \in 1..Len(r), NEW j \in 1..Len(r), r[i].kind \in MapKinds, r[i].kind = r[j].kind
               PROVE  i = j
    BY DEF OneOfEach
  <2>1. i \in 1..Len(ms) /\ j \in 1..Len(ms)
    BY <1>3, <1>4
  <2>2. ms[i].kind \in MapKinds /\ ms[i].kind = ms[j].kind
    BY <2>1, <1>5
  <2> QED BY <2>1, <2>2, <1>1, Zenon DEF OneOfEach
<1>8. Conversation(r, n2, l + 1)
  BY <1>3, <1>6, <1>7 DEF Conversation
<1>9. ASSUME m.kind # "user", NEW u, HasTurn(ms, u) PROVE HasTurn(r, u)
  <2>1. PICK i \in 1..Len(ms) : TurnAt(ms, i, u)
    BY <1>9 DEF HasTurn
  <2>2. i \in 1..Len(r) /\ r[i].kind = "user" /\ r[i].at = u
    BY <2>1, <1>1, <1>3, <1>5 DEF TurnAt
  <2>3. ASSUME NEW j \in 1..Len(r), r[j].kind = "user" PROVE j <= i
    <3>1. j \in 1..Len(ms)
      BY <2>3, <1>3, <1>4, <1>9
    <3> QED BY <3>1, <2>1, <2>3, <1>5 DEF TurnAt
  <2> QED BY <2>2, <2>3 DEF HasTurn, TurnAt
<1>10. ASSUME m.kind = "user" PROVE HasTurn(r, l + 1)
  <2>1. Len(r) \in 1..Len(r) /\ r[Len(r)].kind = "user" /\ r[Len(r)].at = l + 1
    BY <1>1, <1>3, <1>10
  <2> QED BY <2>1 DEF HasTurn, TurnAt
<1> QED BY <1>8, <1>9, <1>10 DEF r

(* the calls a message is known by *)
LEMMA IdsAre ==
  ASSUME NEW n \in Nat, NEW l \in Nat
  PROVE  /\ \A m \in EMessages(n, l) : E!IdOf(m) \subseteq 1..n
         /\ \A ms \in Seq(EMessages(n, l)) : E!IdsOf(ms) \subseteq 1..n /\ E!TailIds(ms) \subseteq 1..n
<1>1. ASSUME NEW m \in EMessages(n, l) PROVE E!IdOf(m) \subseteq 1..n
  <2>1. m.uses \subseteq 1..n /\ m.id \in 0..n /\ (m.kind = "result" => m.id # 0)
    BY MessageFields
  <2>2. CASE E!IsResult(m)
    <3>1. m.id \in 1..n
      BY <2>1, <2>2 DEF E!IsResult
    <3> QED BY <2>2, <3>1 DEF E!IdOf
  <2>3. CASE ~E!IsResult(m) /\ m.uses = {}
    BY <2>3 DEF E!IdOf
  <2>4. CASE ~E!IsResult(m) /\ m.uses # {}
    <3>1. E!MinOf(m.uses) \in m.uses
      <4>1. m.uses \subseteq Nat
        BY <2>1
      <4> QED BY <2>4, <4>1, MinOfIs
    <3> QED BY <2>1, <2>4, <3>1 DEF E!IdOf
  <2> QED BY <2>2, <2>3, <2>4
<1>2. ASSUME NEW ms \in Seq(EMessages(n, l))
      PROVE  E!IdsOf(ms) \subseteq 1..n /\ E!TailIds(ms) \subseteq 1..n
  <2>1. \A i \in DOMAIN ms : E!IdOf(ms[i]) \subseteq 1..n
    BY <1>1
  <2> QED BY <2>1 DEF E!IdsOf, E!TailIds
<1> QED BY <1>1, <1>2

(* the transcript: numbered messages, the first of the user *)
Transcript(h, n) ==
  /\ h \in Seq(EMessages(n, Len(h))) /\ Len(h) \in 1..MaxMessages /\ h[1].kind = "user"
  /\ \A i \in 1..Len(h) : h[i].at = i /\ h[i].kind \notin MapKinds

LEMMA TranscriptIs ==
  ASSUME NEW n \in Nat, NEW h, Transcript(h, n)
  PROVE  /\ Len(h) \in Nat /\ Conversation(h, n, Len(h)) /\ KindsOf(h) \cap MapKinds = {}
         /\ E!LastUser(h) \in 1..Len(h) /\ TurnAt(h, E!LastUser(h), E!LastUser(h))
<1>1. Len(h) \in Nat /\ DOMAIN h = 1..Len(h) /\ 1 \in 1..Len(h)
  BY EngineConstants, SeqDomain DEF Transcript
<1>2. InOrder(h) /\ OneOfEach(h)
  BY DEF Transcript, InOrder, OneOfEach
<1>3. Conversation(h, n, Len(h))
  BY <1>2 DEF Transcript, Conversation
<1>4. E!LastUser(h) # 0
  <2>1. h[1].kind = "user"
    BY DEF Transcript
  <2>2. 1 \in E!Users(h)
    BY <2>1, <1>1 DEF E!Users
  <2>3. E!Users(h) \subseteq 0..Len(h)
    BY <1>1 DEF E!Users
  <2>4. E!MaxOf(E!Users(h)) \in E!Users(h)
    BY <2>2, <2>3, <1>1, MaxOfIs
  <2>5. E!LastUser(h) = E!MaxOf(E!Users(h))
    BY <2>2 DEF E!LastUser
  <2>6. 0 \notin E!Users(h)
    BY <1>1 DEF E!Users
  <2> QED BY <2>4, <2>5, <2>6
<1>5. TurnAt(h, E!LastUser(h), h[E!LastUser(h)].at) /\ E!LastUser(h) \in 0..Len(h)
  BY <1>1, <1>4, LastUserIs
<1>6. E!LastUser(h) \in 1..Len(h)
  BY <1>1, <1>4, <1>5
<1>7. h[E!LastUser(h)].at = E!LastUser(h)
  BY <1>6 DEF Transcript
<1>8. KindsOf(h) \cap MapKinds = {}
  BY DEF KindsOf, Transcript
<1> QED BY <1>1, <1>3, <1>5, <1>6, <1>7, <1>8

LEMMA LongerTranscript ==
  ASSUME NEW n \in Nat, NEW n2 \in Nat, n <= n2, NEW h, Transcript(h, n), Len(h) < MaxMessages,
         NEW m \in EMessages(n2, Len(h) + 1), m.kind \notin MapKinds, m.at = Len(h) + 1
  PROVE  /\ Transcript(Append(h, m), n2) /\ Len(Append(h, m)) = Len(h) + 1
         /\ m.kind # "user" => E!LastUser(Append(h, m)) = E!LastUser(h)
         /\ m.kind = "user" => E!LastUser(Append(h, m)) = Len(h) + 1
<1> DEFINE r == Append(h, m)
           l == Len(h)
<1>1. Len(h) \in Nat /\ Conversation(h, n, Len(h)) /\ TurnAt(h, E!LastUser(h), E!LastUser(h))
  BY TranscriptIs
<1>2. /\ Conversation(r, n2, l + 1)
      /\ m.kind # "user" => \A u : HasTurn(h, u) => HasTurn(r, u)
      /\ m.kind = "user" => HasTurn(r, l + 1)
  BY <1>1, AppendConversation
<1>3. Len(r) = l + 1 /\ r[l + 1] = m /\ \A i \in 1..l : r[i] = h[i]
  BY <1>1 DEF Conversation
<1> HIDE DEF r
<1>4. r \in Seq(EMessages(n2, Len(r)))
  BY <1>2, <1>3 DEF Conversation
<1>5. \A i \in 1..Len(r) : r[i].at = i /\ r[i].kind \notin MapKinds
  <2> TAKE i \in 1..Len(r)
  <2>1. CASE i \in 1..l
    BY <2>1, <1>3 DEF Transcript
  <2>2. CASE i = l + 1
    BY <2>2, <1>3
  <2> QED BY <2>1, <2>2, <1>1, <1>3
<1>6. Len(r) \in 1..MaxMessages /\ r[1].kind = "user"
  BY <1>1, <1>3, EngineConstants DEF Transcript
<1>7. Transcript(r, n2)
  BY <1>4, <1>5, <1>6 DEF Transcript
<1>8. Len(r) \in Nat /\ DOMAIN r = 1..Len(r)
  BY <1>4, SeqDomain
<1>9. \A u : HasTurn(r, u) => E!LastUser(r) = u
  <2> SUFFICES ASSUME NEW u, HasTurn(r, u) PROVE E!LastUser(r) = u
    OBVIOUS
  <2>1. PICK i \in 1..Len(r) : TurnAt(r, i, u)
    BY DEF HasTurn
  <2>2. E!LastUser(r) = i
    BY <2>1, <1>8, LastUserIs
  <2>3. u = i
    BY <2>1, <1>5 DEF TurnAt
  <2> QED BY <2>2, <2>3
<1>10. HasTurn(h, E!LastUser(h))
  BY <1>1 DEF HasTurn, TurnAt
<1>11. m.kind # "user" => E!LastUser(r) = E!LastUser(h)
  BY <1>2, <1>9, <1>10
<1>12. m.kind = "user" => E!LastUser(r) = Len(h) + 1
  BY <1>2, <1>9
<1> QED BY <1>3, <1>7, <1>11, <1>12 DEF r

(* where the next replay is cut *)
LEMMA BoundaryIs ==
  ASSUME NEW n \in Nat, NEW l \in Nat, NEW ms, Conversation(ms, n, l)
  PROVE  /\ E!BoundaryOf(ms) \in [at : 0..l, whole : BOOLEAN]
         /\ \A u \in Nat \ {0} : HasTurn(ms, u) => E!BoundaryOf(ms).at <= u
<1>1. ms \in Seq(EMessages(n, l)) /\ InOrder(ms) /\ Len(ms) \in Nat
  BY SeqDomain DEF Conversation
<1> DEFINE whole == ms[1].form = "whole"
           b == [at |-> ms[1].at, whole |-> whole]
<1>2. \/ E!BoundaryOf(ms) = [at |-> 0, whole |-> FALSE]
      \/ ms # <<>> /\ ms[1].at # 0 /\ E!BoundaryOf(ms) = b
  BY Zenon DEF E!BoundaryOf, E!NoBoundary
<1>3. CASE E!BoundaryOf(ms) = [at |-> 0, whole |-> FALSE]
  BY <1>3
<1>4. CASE ms # <<>> /\ ms[1].at # 0 /\ E!BoundaryOf(ms) = b
  <2>1. 1 \in 1..Len(ms) /\ ms[1].at \in 0..l
    <3>1. 1 \in 1..Len(ms)
      BY <1>1, <1>4
    <3>2. ms[1] \in EMessages(n, l)
      BY <1>1, <3>1
    <3> QED BY <3>1, <3>2, MessageFields
  <2>2. b.at = ms[1].at /\ b \in [at : 0..l, whole : BOOLEAN]
    <3>1. whole \in BOOLEAN
      BY Zenon
    <3> HIDE DEF whole
    <3> QED BY <2>1, <3>1
  <2> HIDE DEF b
  <2>3. ASSUME NEW u \in Nat \ {0}, HasTurn(ms, u) PROVE b.at <= u
    <3>1. PICK i \in 1..Len(ms) : TurnAt(ms, i, u)
      BY <2>3 DEF HasTurn
    <3>2. ms[i].at = u /\ ms[i].kind = "user"
      BY <3>1 DEF TurnAt
    <3>3. CASE i = 1
      BY <2>1, <2>2, <2>3, <3>2, <3>3
    <3>4. CASE i # 1
      <4>1. 1 < i
        BY <3>4
      <4> QED BY <4>1, <3>2, <2>3, <2>1, <2>2, <1>1, <1>4 DEF InOrder
    <3> QED BY <3>3, <3>4
  <2> QED BY <2>2, <2>3, <1>4
<1> QED BY <1>2, <1>3, <1>4

(* the state of the plugin's compaction *)
CutPlaces(l) == [at : 0..l, whole : BOOLEAN]
EngineCounts ==
  /\ calls \in 0..EngineCalls /\ offloaded \subseteq 1..calls
  /\ deleted \subseteq confirmed /\ confirmed \subseteq 1..calls
EngineFlags ==
  /\ force \in BOOLEAN /\ removed \in BOOLEAN /\ harm \subseteq {"pair", "user"}
  /\ hook \in {"none", "assemble", "prompted", "prompt", "call", "compact"}
  /\ phase \in {"idle", "aggressive", "mild", "emergency", "deleting", "map"}
EngineMessages ==
  /\ Transcript(history, calls)
  /\ Conversation(work, calls, Len(history))
  /\ Conversation(aside, calls, Len(history)) /\ KindsOf(aside) \subseteq MapKinds
  /\ phase = "deleting" => KindsOf(work) \cap MapKinds = {}
  /\ boundary \in CutPlaces(Len(history))
(* The cuts stay before the user's last message, and so does the next replay's. *)
TurnHeld ==
  "user" \notin harm =>
    HasTurn(work, E!LastUser(history)) /\ boundary.at <= E!LastUser(history)
EngineInv == EngineCounts /\ EngineFlags /\ EngineMessages /\ TurnHeld

LEMMA EngineNumbers ==
  ASSUME EngineInv
  PROVE  /\ calls \in Nat /\ Len(history) \in Nat /\ E!LastUser(history) \in Nat \ {0}
         /\ E!LastUser(history) \in 1..Len(history)
         /\ work \in Seq(EMessages(calls, Len(history))) /\ Len(work) \in Nat /\ DOMAIN work = 1..Len(work)
         /\ boundary.at \in 0..Len(history)
<1>1. calls \in Nat
  BY EngineConstants DEF EngineInv, EngineCounts
<1>2. Len(history) \in Nat /\ E!LastUser(history) \in 1..Len(history)
  BY <1>1, TranscriptIs DEF EngineInv, EngineMessages
<1>3. work \in Seq(EMessages(calls, Len(history)))
  BY DEF EngineInv, EngineMessages, Conversation
<1>4. boundary.at \in 0..Len(history)
  BY DEF EngineInv, EngineMessages, CutPlaces
<1> QED BY <1>1, <1>2, <1>3, <1>4, SeqDomain

(* the host says one more *)
LEMMA SaidKept ==
  ASSUME EngineInv, NEW m \in EMessages(calls', Len(history) + 1), m.kind \notin MapKinds,
         m.at = Len(history) + 1, E!Said(m), calls' \in calls..EngineCalls, offloaded' \subseteq 1..calls'
  PROVE  EngineInv'
<1> DEFINE l == Len(history)
<1>1. /\ phase = "idle" /\ Len(history) < MaxMessages
      /\ history' = Append(history, m) /\ work' = Append(work, m)
      /\ UNCHANGED <<confirmed, deleted, boundary, force, hook, phase, aside, removed, harm>>
  BY DEF E!Said
<1>2. calls \in Nat /\ calls' \in Nat /\ calls <= calls' /\ l \in Nat /\ l + 1 \in Nat /\ l <= l + 1
  BY EngineNumbers, EngineConstants
<1>3. /\ Transcript(history', calls') /\ Len(history') = l + 1
      /\ m.kind # "user" => E!LastUser(history') = E!LastUser(history)
      /\ m.kind = "user" => E!LastUser(history') = l + 1
  <2>1. Transcript(history, calls)
    BY DEF EngineInv, EngineMessages
  <2> QED BY <2>1, <1>1, <1>2, LongerTranscript
<1>4. /\ Conversation(work', calls', l + 1)
      /\ m.kind # "user" => \A u : HasTurn(work, u) => HasTurn(work', u)
      /\ m.kind = "user" => HasTurn(work', l + 1)
  <2>1. Conversation(work, calls, l)
    BY DEF EngineInv, EngineMessages
  <2> QED BY <2>1, <1>1, <1>2, AppendConversation
<1>5. Conversation(aside', calls', l + 1) /\ KindsOf(aside') \subseteq MapKinds
  <2>1. Conversation(aside, calls, l) /\ KindsOf(aside) \subseteq MapKinds
    BY DEF EngineInv, EngineMessages
  <2>2. Conversation(aside, calls', l + 1)
    BY <2>1, <1>2, LongerConversation
  <2> QED BY <2>1, <2>2, <1>1
<1>6. boundary' \in CutPlaces(l + 1)
  <2>1. boundary \in CutPlaces(l)
    BY DEF EngineInv, EngineMessages
  <2> QED BY <2>1, <1>1, <1>2 DEF CutPlaces
<1>7. EngineMessages'
  BY <1>1, <1>3, <1>4, <1>5, <1>6 DEF EngineMessages
<1>8. TurnHeld'
  <2> SUFFICES ASSUME "user" \notin harm'
               PROVE  HasTurn(work', E!LastUser(history')) /\ boundary'.at <= E!LastUser(history')
    BY DEF TurnHeld
  <2>1. HasTurn(work, E!LastUser(history)) /\ boundary'.at <= E!LastUser(history)
    BY <1>1 DEF EngineInv, TurnHeld
  <2>2. boundary'.at \in 0..l
    BY <1>1, EngineNumbers
  <2>3. CASE m.kind = "user"
    BY <2>2, <2>3, <1>2, <1>3, <1>4
  <2>4. CASE m.kind # "user"
    BY <2>1, <2>4, <1>3, <1>4
  <2> QED BY <2>3, <2>4
<1>9. EngineCounts'
  <2>1. 1..calls \subseteq 1..calls' /\ calls' \in 0..EngineCalls
    BY <1>2, EngineConstants
  <2> QED BY <2>1, <1>1 DEF EngineInv, EngineCounts
<1>10. EngineFlags'
  BY <1>1 DEF EngineInv, EngineFlags
<1> QED BY <1>7, <1>8, <1>9, <1>10 DEF EngineInv

LEMMA HostKept ==
  ASSUME EngineInv
  PROVE  /\ E!Ask => EngineInv'
         /\ E!Answer => EngineInv'
         /\ \A n \in 1..2, text \in BOOLEAN : E!UseTools(n, text) => EngineInv'
         /\ \A c \in 1..EngineCalls, worth \in BOOLEAN : E!ResultArrives(c, worth) => EngineInv'
<1> DEFINE l == Len(history) + 1
<1>1. calls \in 0..EngineCalls /\ calls \in Nat /\ l \in Nat /\ l \in 0..l /\ offloaded \subseteq 1..calls
      /\ calls \in calls..EngineCalls
  BY EngineNumbers, EngineConstants DEF EngineInv, EngineCounts
<1>2. ASSUME E!Ask PROVE EngineInv'
  <2> DEFINE m == E!Question(l)
  <2>1. E!Said(m) /\ calls' = calls /\ offloaded' = offloaded
    BY <1>2 DEF E!Ask, E!Place
  <2>2. m \in EMessages(calls, l) /\ m.kind \notin MapKinds /\ m.at = l
    BY <1>1 DEF E!Question, E!Message, EMessages, EKinds, MapKinds
  <2> HIDE DEF m
  <2> QED BY <2>1, <2>2, <1>1, SaidKept
<1>3. ASSUME E!Answer PROVE EngineInv'
  <2> DEFINE m == E!Message("assistant", TRUE, {}, 0, l)
  <2>1. E!Said(m) /\ calls' = calls /\ offloaded' = offloaded
    BY <1>3 DEF E!Answer, E!Place
  <2>2. m \in EMessages(calls, l) /\ m.kind \notin MapKinds /\ m.at = l
    BY <1>1 DEF E!Message, EMessages, EKinds, MapKinds
  <2> HIDE DEF m
  <2> QED BY <2>1, <2>2, <1>1, SaidKept
<1>4. ASSUME NEW n \in 1..2, NEW text \in BOOLEAN, E!UseTools(n, text) PROVE EngineInv'
  <2> DEFINE m == E!Message("assistant", text, (calls + 1)..(calls + n), 0, l)
  <2>1. E!Said(m) /\ calls' = calls + n /\ calls + n <= EngineCalls /\ offloaded' = offloaded
    BY <1>4 DEF E!UseTools, E!Place
  <2>2. calls' \in calls..EngineCalls /\ calls' \in Nat /\ 1..calls \subseteq 1..calls'
        /\ (calls + 1)..(calls + n) \subseteq 1..calls'
    BY <2>1, <1>1, EngineConstants
  <2>3. m \in EMessages(calls', l) /\ m.kind \notin MapKinds /\ m.at = l
    BY <2>2, <1>1 DEF E!Message, EMessages, EKinds, MapKinds
  <2>4. offloaded' \subseteq 1..calls'
    BY <2>1, <2>2, <1>1
  <2> HIDE DEF m
  <2> QED BY <2>1, <2>2, <2>3, <2>4, SaidKept
<1>5. ASSUME NEW c \in 1..EngineCalls, NEW worth \in BOOLEAN, E!ResultArrives(c, worth) PROVE EngineInv'
  <2> DEFINE m == E!Message("result", FALSE, {}, c, l)
  <2>1. E!Said(m) /\ calls' = calls /\ offloaded' \subseteq offloaded \cup {c} /\ c \in E!Outstanding
    BY <1>5 DEF E!ResultArrives, E!Place
  <2>2. c \in 1..calls
    <3>1. E!Outstanding \subseteq E!UsesOf(history)
      BY DEF E!Outstanding
    <3>2. \A i \in DOMAIN history : history[i].uses \subseteq 1..calls
      <4>1. history \in Seq(EMessages(calls, Len(history))) /\ Len(history) \in Nat
        BY EngineNumbers DEF EngineInv, EngineMessages, Transcript
      <4>2. \A i \in DOMAIN history : history[i] \in EMessages(calls, Len(history))
        BY <4>1
      <4> QED BY <4>1, <4>2, <1>1, MessageFields
    <3>3. E!UsesOf(history) \subseteq 1..calls
      BY <3>2 DEF E!UsesOf
    <3> QED BY <2>1, <3>1, <3>3
  <2>3. m \in EMessages(calls, l) /\ m.kind \notin MapKinds /\ m.at = l
    BY <2>2, <1>1 DEF E!Message, EMessages, EKinds, MapKinds
  <2>4. offloaded' \subseteq 1..calls'
    BY <2>1, <2>2, <1>1
  <2> HIDE DEF m
  <2> QED BY <2>1, <2>3, <2>4, <1>1, SaidKept
<1> QED BY <1>2, <1>3, <1>4, <1>5

(* maps taken out, and put back in *)
LEMMA MapsApart ==
  ASSUME NEW n \in Nat, NEW l \in Nat, NEW ms, Conversation(ms, n, l)
  PROVE  /\ Conversation(E!Maps(ms), n, l) /\ KindsOf(E!Maps(ms)) \subseteq MapKinds
         /\ Conversation(E!WithoutMaps(ms), n, l) /\ KindsOf(E!WithoutMaps(ms)) \cap MapKinds = {}
         /\ \A u : HasTurn(ms, u) => HasTurn(E!WithoutMaps(ms), u)
<1> DEFINE maps == {i \in DOMAIN ms : E!IsMap(ms[i])}
           rest == {i \in DOMAIN ms : ~E!IsMap(ms[i])}
<1>1. ms \in Seq(EMessages(n, l)) /\ DOMAIN ms = 1..Len(ms)
  BY SeqDomain DEF Conversation
<1>2. E!Maps(ms) = Kept(ms, maps) /\ E!WithoutMaps(ms) = Kept(ms, rest)
  BY Zenon DEF E!Maps, E!WithoutMaps, E!Kept, Kept
<1>3. \A i \in maps : ms[i].kind \in MapKinds
  BY DEF E!IsMap, MapKinds
<1>4. \A i \in rest : ms[i].kind \notin MapKinds
  BY DEF E!IsMap, MapKinds
<1>5. \A i \in 1..Len(ms) : ms[i].kind = "user" => i \in rest
  BY <1>1 DEF E!IsMap
<1> HIDE DEF maps, rest
<1>6. Conversation(Kept(ms, maps), n, l) /\ Conversation(Kept(ms, rest), n, l)
      /\ \A u : HasTurn(ms, u) => HasTurn(Kept(ms, rest), u)
  BY <1>5, KeptConversation
<1>7. \A i \in 1..Len(Kept(ms, maps)) : \E j \in maps : Kept(ms, maps)[i] = ms[j]
  <2>1. PICK g : \A i \in 1..Len(Kept(ms, maps)) : Kept(ms, maps)[i] = ms[g[i]] /\ g[i] \in maps
    BY <1>1, KeptFollows
  <2> QED BY <2>1
<1>8. \A i \in 1..Len(Kept(ms, rest)) : \E j \in rest : Kept(ms, rest)[i] = ms[j]
  <2>1. PICK g : \A i \in 1..Len(Kept(ms, rest)) : Kept(ms, rest)[i] = ms[g[i]] /\ g[i] \in rest
    BY <1>1, KeptFollows
  <2> QED BY <2>1
<1>9. KindsOf(Kept(ms, maps)) \subseteq MapKinds
  BY <1>3, <1>7 DEF KindsOf
<1>10. KindsOf(Kept(ms, rest)) \cap MapKinds = {}
  BY <1>4, <1>8 DEF KindsOf
<1> QED BY <1>2, <1>6, <1>9, <1>10

LEMMA WithoutKindIs ==
  ASSUME NEW n \in Nat, NEW l \in Nat, NEW ms, Conversation(ms, n, l), NEW kind \in MapKinds
  PROVE  /\ Conversation(E!WithoutKind(ms, kind), n, l) /\ kind \notin KindsOf(E!WithoutKind(ms, kind))
         /\ \A u : HasTurn(ms, u) => HasTurn(E!WithoutKind(ms, kind), u)
<1> DEFINE rest == {i \in DOMAIN ms : ms[i].kind # kind}
<1>1. ms \in Seq(EMessages(n, l)) /\ DOMAIN ms = 1..Len(ms)
  BY SeqDomain DEF Conversation
<1>2. E!WithoutKind(ms, kind) = Kept(ms, rest)
  BY Zenon DEF E!WithoutKind, E!Kept, Kept
<1>3. \A i \in rest : ms[i].kind # kind
  OBVIOUS
<1>4. \A i \in 1..Len(ms) : ms[i].kind = "user" => i \in rest
  BY <1>1 DEF MapKinds
<1> HIDE DEF rest
<1>5. Conversation(Kept(ms, rest), n, l) /\ \A u : HasTurn(ms, u) => HasTurn(Kept(ms, rest), u)
  BY <1>4, KeptConversation
<1>6. PICK g : \A i \in 1..Len(Kept(ms, rest)) : Kept(ms, rest)[i] = ms[g[i]] /\ g[i] \in rest
  BY <1>1, KeptFollows
<1>7. kind \notin KindsOf(Kept(ms, rest))
  BY <1>3, <1>6 DEF KindsOf
<1> QED BY <1>2, <1>5, <1>7

LEMMA MapReplaced ==
  ASSUME NEW n \in Nat, NEW l \in Nat, NEW ms, Conversation(ms, n, l)
  PROVE  /\ Conversation(E!WithHistoryMap(ms), n, l) /\ Conversation(E!WithActiveMap(ms), n, l)
         /\ \A u : HasTurn(ms, u) => HasTurn(E!WithHistoryMap(ms), u) /\ HasTurn(E!WithActiveMap(ms), u)
<1>1. ASSUME NEW kind \in MapKinds
      PROVE  /\ Conversation(E!WithMap(E!WithoutKind(ms, kind), E!Map(kind)), n, l)
             /\ \A u : HasTurn(ms, u) => HasTurn(E!WithMap(E!WithoutKind(ms, kind), E!Map(kind)), u)
  <2> DEFINE rest == E!WithoutKind(ms, kind)
  <2>1. /\ Conversation(rest, n, l) /\ kind \notin KindsOf(rest)
        /\ \A u : HasTurn(ms, u) => HasTurn(rest, u)
    BY WithoutKindIs
  <2> HIDE DEF rest
  <2>2. E!Map(kind) \in EMessages(n, l) /\ E!Map(kind).kind = kind
    BY MapIs
  <2>3. /\ Conversation(E!WithMap(rest, E!Map(kind)), n, l)
        /\ \A u : HasTurn(rest, u) => HasTurn(E!WithMap(rest, E!Map(kind)), u)
    BY <2>1, <2>2, WithMapKept
  <2> QED BY <2>1, <2>3 DEF rest
<1>2. "history" \in MapKinds /\ "active" \in MapKinds
  BY DEF MapKinds
<1> QED BY <1>1, <1>2, Zenon DEF E!WithHistoryMap, E!WithActiveMap

(* a step of a pass *)
LEMMA PassKept ==
  ASSUME EngineInv, UNCHANGED <<history, calls, offloaded>>,
         deleted' \subseteq confirmed', confirmed' \subseteq 1..calls, EngineFlags',
         Conversation(work', calls, Len(history)),
         phase' = "deleting" => KindsOf(work') \cap MapKinds = {},
         Conversation(aside', calls, Len(history)), KindsOf(aside') \subseteq MapKinds,
         boundary' \in CutPlaces(Len(history)),
         "user" \notin harm' =>
           HasTurn(work', E!LastUser(history)) /\ boundary'.at <= E!LastUser(history)
  PROVE  EngineInv'
<1>1. EngineCounts'
  BY DEF EngineInv, EngineCounts
<1>2. EngineMessages'
  BY DEF EngineInv, EngineMessages
<1>3. TurnHeld'
  BY DEF TurnHeld
<1> QED BY <1>1, <1>2, <1>3 DEF EngineInv

LEMMA DecideKept ==
  ASSUME EngineInv, NEW ids \in SUBSET (1..calls), E!Decide(ids)
  PROVE  deleted' \subseteq confirmed' /\ confirmed' \subseteq 1..calls
BY DEF EngineInv, EngineCounts, E!Decide

LEMMA SameDecisions ==
  ASSUME EngineInv, UNCHANGED <<confirmed, deleted>>
  PROVE  deleted' \subseteq confirmed' /\ confirmed' \subseteq 1..calls
BY DEF EngineInv, EngineCounts

LEMMA WorkIs ==
  ASSUME EngineInv
  PROVE  /\ Conversation(work, calls, Len(history))
         /\ Conversation(aside, calls, Len(history)) /\ KindsOf(aside) \subseteq MapKinds
         /\ boundary \in CutPlaces(Len(history))
         /\ "user" \notin harm =>
              HasTurn(work, E!LastUser(history)) /\ boundary.at <= E!LastUser(history)
BY DEF EngineInv, EngineMessages, TurnHeld

(* what the host replays *)
LEMMA ReplayedIs ==
  ASSUME EngineInv
  PROVE  /\ Conversation(history, calls, Len(history)) /\ HasTurn(history, E!LastUser(history))
         /\ Conversation(E!Replayed, calls, Len(history))
         /\ "user" \notin harm => HasTurn(E!Replayed, E!LastUser(history))
<1> DEFINE u == E!LastUser(history)
           k == boundary.at - 1
           c == E!BeyondResults(history, k)
<1>1. calls \in Nat /\ Len(history) \in Nat /\ u \in 1..Len(history)
  BY EngineNumbers
<1>2. Conversation(history, calls, Len(history)) /\ TurnAt(history, u, u)
  BY <1>1, TranscriptIs DEF EngineInv, EngineMessages
<1>3. HasTurn(history, u)
  BY <1>1, <1>2 DEF HasTurn
<1>4. \/ E!Replayed = history
      \/ E!BoundaryApplies /\ E!Replayed = E!From(history, c)
  BY Zenon DEF E!Replayed
<1>5. ASSUME E!BoundaryApplies, E!Replayed = E!From(history, c)
      PROVE  /\ Conversation(E!Replayed, calls, Len(history))
             /\ "user" \notin harm => HasTurn(E!Replayed, u)
  <2>1. k \in 0..Len(history) /\ (boundary.at <= u => k < u)
    BY <1>1, <1>5 DEF E!BoundaryApplies
  <2> HIDE DEF k, u
  <2>2. history \in Seq(EMessages(calls, Len(history)))
    BY <1>2 DEF Conversation
  <2>3. c \in k..Len(history) /\ (TurnAt(history, u, u) /\ k < u => c < u)
    BY <2>1, <2>2, BeyondResultsIs
  <2>4. c \in 0..Len(history)
    BY <2>1, <2>3, <1>1
  <2> HIDE DEF c
  <2>5. /\ Conversation(E!From(history, c), calls, Len(history))
        /\ TurnAt(history, u, u) /\ c < u => HasTurn(E!From(history, c), u)
    BY <1>1, <1>2, <2>4, FromConversation
  <2>6. "user" \notin harm => boundary.at <= u
    BY WorkIs DEF u
  <2> QED BY <1>2, <1>5, <2>1, <2>3, <2>5, <2>6
<1> QED BY <1>2, <1>3, <1>4, <1>5

LEMMA AssembleKept ==
  ASSUME EngineInv, NEW prompted \in BOOLEAN, E!Assemble(prompted)
  PROVE  EngineInv'
<1> DEFINE replay == IF prompted THEN E!Replayed ELSE history
<1>1. /\ UNCHANGED <<history, calls, offloaded, confirmed, deleted, force, aside, removed, harm>>
      /\ hook' \in {"prompted", "assemble"} /\ phase' = "aggressive"
      /\ work' = E!FastPath(replay)
      /\ boundary' = boundary \/ boundary' = [at |-> 0, whole |-> FALSE]
  BY DEF E!Assemble, E!Begin, E!host, E!NoBoundary
<1>2. calls \in Nat /\ Len(history) \in Nat /\ E!LastUser(history) \in Nat
  BY EngineNumbers
<1>3. /\ Conversation(replay, calls, Len(history))
      /\ "user" \notin harm => HasTurn(replay, E!LastUser(history))
  BY ReplayedIs
<1> HIDE DEF replay
<1>4. /\ Conversation(work', calls, Len(history))
      /\ "user" \notin harm => HasTurn(work', E!LastUser(history))
  BY <1>1, <1>2, <1>3, FastPathKept
<1>5. boundary' \in CutPlaces(Len(history)) /\ ("user" \notin harm => boundary'.at <= E!LastUser(history))
  <2>1. CASE boundary' = boundary
    BY <2>1, WorkIs
  <2>2. CASE boundary' = [at |-> 0, whole |-> FALSE]
    <3>1. boundary' \in CutPlaces(Len(history)) /\ boundary'.at = 0
      BY <1>2, <2>2 DEF CutPlaces
    <3> QED BY <1>2, <3>1
  <2> QED BY <1>1, <2>1, <2>2
<1>6. EngineFlags'
  BY <1>1 DEF EngineInv, EngineFlags
<1>7. deleted' \subseteq confirmed' /\ confirmed' \subseteq 1..calls
  BY <1>1, SameDecisions
<1> QED BY <1>1, <1>4, <1>5, <1>6, <1>7, WorkIs, PassKept

LEMMA BeforePromptBuildKept ==
  ASSUME EngineInv, E!BeforePromptBuild
  PROVE  EngineInv'
<1>1. /\ UNCHANGED <<history, calls, offloaded, confirmed, deleted, force, aside, removed, harm, boundary>>
      /\ hook' = "prompt" /\ phase' \in {"map", "aggressive"}
      /\ work' = E!FastPath(work)
  BY DEF E!BeforePromptBuild, E!Begin, E!host
<1>2. calls \in Nat /\ Len(history) \in Nat
  BY EngineNumbers
<1>3. /\ Conversation(work', calls, Len(history))
      /\ \A u : HasTurn(work, u) => HasTurn(work', u)
  BY <1>1, <1>2, WorkIs, FastPathKept
<1>4. EngineFlags'
  BY <1>1 DEF EngineInv, EngineFlags
<1>5. deleted' \subseteq confirmed' /\ confirmed' \subseteq 1..calls
  BY <1>1, SameDecisions
<1> QED BY <1>1, <1>3, <1>4, <1>5, WorkIs, PassKept

LEMMA AfterToolCallKept ==
  ASSUME EngineInv, NEW map \in BOOLEAN, E!AfterToolCall(map)
  PROVE  EngineInv'
<1>1. /\ UNCHANGED <<history, calls, offloaded, confirmed, deleted, force, aside, removed, harm, boundary>>
      /\ hook' = "call" /\ phase' = "aggressive"
      /\ \/ work' = work
         \/ (\A i \in DOMAIN work : work[i].kind # "active") /\ work' = E!WithMap(work, E!Map("active"))
  BY DEF E!AfterToolCall, E!Begin, E!host
<1>2. calls \in Nat /\ Len(history) \in Nat /\ DOMAIN work = 1..Len(work)
  BY EngineNumbers
<1>3. /\ Conversation(work', calls, Len(history))
      /\ \A u : HasTurn(work, u) => HasTurn(work', u)
  <2>1. CASE work' = work
    BY <2>1, WorkIs
  <2>2. CASE (\A i \in DOMAIN work : work[i].kind # "active") /\ work' = E!WithMap(work, E!Map("active"))
    <3>1. "active" \notin KindsOf(work) /\ "active" \in MapKinds
      BY <1>2, <2>2 DEF KindsOf, MapKinds
    <3>2. E!Map("active") \in EMessages(calls, Len(history)) /\ E!Map("active").kind = "active"
      BY <1>2, <3>1, MapIs
    <3> QED BY <1>2, <2>2, <3>1, <3>2, WorkIs, WithMapKept
  <2> QED BY <1>1, <2>1, <2>2
<1>4. EngineFlags'
  BY <1>1 DEF EngineInv, EngineFlags
<1>5. deleted' \subseteq confirmed' /\ confirmed' \subseteq 1..calls
  BY <1>1, SameDecisions
<1> QED BY <1>1, <1>3, <1>4, <1>5, WorkIs, PassKept

(* the ids of the messages a cut takes *)
LEMMA CutIds ==
  ASSUME NEW n \in Nat, NEW l \in Nat, NEW ms, Conversation(ms, n, l), NEW k \in 0..Len(ms)
  PROVE  E!IdsOf(SubSeq(ms, 1, k)) \subseteq 1..n /\ E!TailIds(SubSeq(ms, 1, k)) \subseteq 1..n
<1>1. SubSeq(ms, 1, k) \in Seq(EMessages(n, l))
  <2> DEFINE D == EMessages(n, l)
  <2>1. ms \in Seq(D)
    BY DEF Conversation
  <2> HIDE DEF D
  <2>2. SubSeq(ms, 1, k) \in Seq(D)
    BY <2>1
  <2> QED BY <2>2 DEF D
<1> QED BY <1>1, IdsAre

LEMMA AggressiveKept ==
  ASSUME EngineInv, NEW k \in 1..MaxMessages, NEW known \in BOOLEAN, E!Aggressive(k, known)
  PROVE  EngineInv'
<1> DEFINE rest == E!WithoutMaps(work)
           maps == E!Maps(work)
           c == E!DeleteCount(rest, k)
           gone == SubSeq(rest, 1, c)
           after == E!WithMaps(E!From(rest, c), maps)
           u == E!LastUser(history)
           l == Len(history)
<1>1. /\ UNCHANGED <<history, calls, offloaded, force, hook, aside, removed>>
      /\ phase' = "mild"
      /\ k \in 1..E!Less(Len(rest), AGGRESSIVE_MIN_KEEP)
      /\ boundary' = boundary \/ boundary' = E!BoundaryOf(after)
      /\ work' = after \/ work' = E!WithHistoryMap(after)
      /\ E!Decide(E!IdsOf(gone))
      /\ harm' \in {harm, harm \cup {"pair"}}
  BY DEF E!Aggressive, E!host
<1>2. calls \in Nat /\ l \in Nat /\ u \in Nat \ {0}
  BY EngineNumbers
<1>3. /\ Conversation(work, calls, l)
      /\ "user" \notin harm => HasTurn(work, u) /\ boundary.at <= u
      /\ boundary \in CutPlaces(l)
  BY WorkIs
<1>4. /\ Conversation(maps, calls, l) /\ KindsOf(maps) \subseteq MapKinds
      /\ Conversation(rest, calls, l) /\ KindsOf(rest) \cap MapKinds = {}
      /\ HasTurn(work, u) => HasTurn(rest, u)
  BY <1>2, <1>3, MapsApart
<1>5. "user" \notin harm' => "user" \notin harm
  BY <1>1
<1> HIDE DEF rest, maps, u, l
<1>6. rest \in Seq(EMessages(calls, l)) /\ Len(rest) \in Nat
  BY <1>4, SeqDomain DEF Conversation
<1>7. k \in 0..Len(rest)
  BY <1>1, <1>6, EngineConstants DEF E!Less
<1>8. c \in 0..Len(rest) /\ \A i : TurnAt(rest, i, u) => c < i
  BY <1>6, <1>7, DeleteCountIs
<1> HIDE DEF c
<1>9. /\ Conversation(E!From(rest, c), calls, l)
      /\ \A i : TurnAt(rest, i, u) => HasTurn(E!From(rest, c), u)
  BY <1>2, <1>4, <1>8, FromConversation
<1>10. KindsOf(E!From(rest, c)) \cap MapKinds = {}
  <2>1. \A i \in 1..Len(E!From(rest, c)) : i + c \in 1..Len(rest) /\ E!From(rest, c)[i] = rest[i + c]
    BY <1>6, <1>8, FromFacts
  <2> QED BY <2>1, <1>4 DEF KindsOf
<1>11. /\ Conversation(after, calls, l)
       /\ HasTurn(rest, u) => HasTurn(after, u)
  <2>1. HasTurn(rest, u) => HasTurn(E!From(rest, c), u)
    BY <1>9, Zenon DEF HasTurn
  <2> QED BY <1>2, <1>4, <1>9, <1>10, <2>1, WithMapsKept
<1> HIDE DEF after
<1>12. /\ Conversation(work', calls, l)
       /\ HasTurn(after, u) => HasTurn(work', u)
  BY <1>1, <1>2, <1>11, MapReplaced
<1>13. boundary' \in CutPlaces(l) /\ (HasTurn(after, u) /\ boundary.at <= u => boundary'.at <= u)
  BY <1>1, <1>2, <1>3, <1>11, BoundaryIs DEF CutPlaces
<1>14. E!IdsOf(gone) \subseteq 1..calls
  BY <1>2, <1>4, <1>8, CutIds
<1> HIDE DEF gone
<1>15. deleted' \subseteq confirmed' /\ confirmed' \subseteq 1..calls
  BY <1>1, <1>14, DecideKept
<1>16. EngineFlags'
  BY <1>1 DEF EngineInv, EngineFlags
<1>17. Conversation(aside', calls, Len(history)) /\ KindsOf(aside') \subseteq MapKinds
  BY <1>1, WorkIs
<1>18. "user" \notin harm' => HasTurn(work', u) /\ boundary'.at <= u
  BY <1>3, <1>4, <1>5, <1>11, <1>12, <1>13
<1> QED BY <1>1, <1>12, <1>13, <1>15, <1>16, <1>17, <1>18, PassKept DEF u, l

LEMMA StalledKept ==
  ASSUME EngineInv, NEW forced \in BOOLEAN, E!Stalled(forced)
  PROVE  EngineInv'
<1> DEFINE rest == E!WithoutMaps(work)
           maps == E!Maps(work)
<1>1. /\ UNCHANGED <<history, calls, offloaded, confirmed, deleted, boundary, hook, aside, removed, harm>>
      /\ force' \in BOOLEAN /\ phase' = "mild" /\ work' = E!WithMaps(rest, maps)
  BY DEF E!Stalled, E!host, EngineInv, EngineFlags
<1>2. calls \in Nat /\ Len(history) \in Nat
  BY EngineNumbers
<1>3. /\ Conversation(maps, calls, Len(history)) /\ KindsOf(maps) \subseteq MapKinds
      /\ Conversation(rest, calls, Len(history)) /\ KindsOf(rest) \cap MapKinds = {}
      /\ \A u : HasTurn(work, u) => HasTurn(rest, u)
  BY <1>2, WorkIs, MapsApart
<1> HIDE DEF rest, maps
<1>4. /\ Conversation(work', calls, Len(history))
      /\ \A u : HasTurn(work, u) => HasTurn(work', u)
  BY <1>1, <1>2, <1>3, WithMapsKept
<1>5. EngineFlags'
  BY <1>1 DEF EngineInv, EngineFlags
<1>6. deleted' \subseteq confirmed' /\ confirmed' \subseteq 1..calls
  BY <1>1, SameDecisions
<1> QED BY <1>1, <1>4, <1>5, <1>6, WorkIs, PassKept

LEMMA TailAccumulateKept ==
  ASSUME EngineInv, NEW n \in 0..MaxMessages, E!TailAccumulate(n)
  PROVE  EngineInv'
<1> DEFINE c == E!KeptFrom(work, n)
           u == E!LastUser(history)
           l == Len(history)
           after == E!From(work, c)
           gone == SubSeq(work, 1, c)
<1>1. /\ UNCHANGED <<history, calls, offloaded, force, hook, aside, removed>>
      /\ phase' = "mild" /\ c \in 1..(Len(work) - 1)
      /\ work' = after /\ boundary' = E!BoundaryOf(after)
      /\ E!Decide(E!TailIds(gone))
      /\ "user" \notin harm' => "user" \notin harm /\ E!LastUser(work) \notin 1..c
      /\ harm' \subseteq harm \cup {"pair", "user"}
  BY DEF E!TailAccumulate, E!host
<1> HIDE DEF c
<1>2. calls \in Nat /\ l \in Nat /\ u \in Nat \ {0} /\ Len(work) \in Nat /\ DOMAIN work = 1..Len(work)
  BY EngineNumbers
<1>3. /\ Conversation(work, calls, l)
      /\ "user" \notin harm => HasTurn(work, u) /\ boundary.at <= u
  BY WorkIs
<1> HIDE DEF u, l
<1>4. c \in 0..Len(work)
  BY <1>1, <1>2
<1>5. Conversation(after, calls, l)
  BY <1>2, <1>3, <1>4, FromConversation
<1>6. ASSUME "user" \notin harm' PROVE HasTurn(after, u)
  <2>1. PICK i \in 1..Len(work) : TurnAt(work, i, u)
    BY <1>1, <1>3, <1>6 DEF HasTurn
  <2>2. E!LastUser(work) = i
    BY <1>2, <2>1, LastUserIs
  <2>3. c < i
    BY <1>1, <1>2, <1>6, <2>2
  <2> QED BY <1>2, <1>3, <1>4, <2>1, <2>3, FromConversation
<1>7. E!TailIds(gone) \subseteq 1..calls
  BY <1>2, <1>3, <1>4, CutIds
<1> HIDE DEF after, gone
<1>8. deleted' \subseteq confirmed' /\ confirmed' \subseteq 1..calls
  BY <1>1, <1>7, DecideKept
<1>9. boundary' \in CutPlaces(l) /\ ("user" \notin harm' => boundary'.at <= u)
  BY <1>1, <1>2, <1>5, <1>6, BoundaryIs DEF CutPlaces
<1>10. EngineFlags'
  BY <1>1 DEF EngineInv, EngineFlags
<1>11. Conversation(aside', calls, Len(history)) /\ KindsOf(aside') \subseteq MapKinds
  BY <1>1, WorkIs
<1> QED BY <1>1, <1>5, <1>6, <1>8, <1>9, <1>10, <1>11, PassKept DEF u, l

LEMMA MildKept ==
  ASSUME EngineInv, NEW ids \in SUBSET (1..EngineCalls), E!Mild(ids)
  PROVE  EngineInv'
<1>1. /\ UNCHANGED <<history, calls, offloaded, deleted, boundary, force, hook, aside, removed, harm>>
      /\ E!Replaceable(work, ids) /\ phase' = "emergency"
      /\ work' = E!Summarized(work, ids) /\ confirmed' = confirmed \cup ids
  BY DEF E!Mild, E!host
<1>2. calls \in Nat /\ Len(history) \in Nat
  BY EngineNumbers
<1>3. ids \subseteq 1..calls
  <2>1. offloaded \subseteq 1..calls
    BY DEF EngineInv, EngineCounts
  <2>2. ids \subseteq offloaded
    <3> DEFINE alone == {m.id : m \in {r \in E!Scanned(work) : E!IsResult(r)}} \cap offloaded
               together == {m.uses : m \in {a \in E!Scanned(work) : E!OnlyUses(a) /\ a.uses \subseteq offloaded}}
    <3>1. ids \subseteq alone \cup UNION {uses \in together : uses \subseteq ids}
      BY <1>1, Zenon DEF E!Replaceable
    <3>2. alone \subseteq offloaded /\ \A uses \in together : uses \subseteq offloaded
      OBVIOUS
    <3> HIDE DEF alone, together
    <3> QED BY <3>1, <3>2
  <2> QED BY <2>1, <2>2
<1>4. deleted' \subseteq confirmed' /\ confirmed' \subseteq 1..calls
  BY <1>1, <1>3 DEF EngineInv, EngineCounts
<1>5. /\ Conversation(work', calls, Len(history))
      /\ \A u : HasTurn(work, u) => HasTurn(work', u)
  BY <1>1, <1>2, WorkIs, SummarizedKept
<1>6. EngineFlags'
  BY <1>1 DEF EngineInv, EngineFlags
<1> QED BY <1>1, <1>4, <1>5, <1>6, WorkIs, PassKept

LEMMA BelowThresholdKept ==
  ASSUME EngineInv, NEW next \in {"mild", "idle"}, E!BelowThreshold(next)
  PROVE  EngineInv'
<1>1. /\ UNCHANGED <<history, calls, offloaded, confirmed, deleted, boundary, force, work, aside, removed, harm>>
      /\ phase' \in {"mild", "idle"} /\ hook' \in {hook, "none"}
  BY DEF E!BelowThreshold, E!Done, E!host
<1>2. EngineFlags'
  BY <1>1 DEF EngineInv, EngineFlags
<1>3. deleted' \subseteq confirmed' /\ confirmed' \subseteq 1..calls
  BY <1>1, SameDecisions
<1> QED BY <1>1, <1>2, <1>3, WorkIs, PassKept

LEMMA NoEmergencyKept ==
  ASSUME EngineInv, E!NoEmergency
  PROVE  EngineInv'
<1>1. /\ UNCHANGED <<history, calls, offloaded, confirmed, deleted, boundary, work, aside, removed, harm>>
      /\ phase' \in {"map", "idle"} /\ hook' \in {hook, "none"} /\ force' = FALSE
  BY DEF E!NoEmergency, E!AfterEmergency, E!Done, E!host
<1>2. EngineFlags'
  BY <1>1 DEF EngineInv, EngineFlags
<1>3. deleted' \subseteq confirmed' /\ confirmed' \subseteq 1..calls
  BY <1>1, SameDecisions
<1> QED BY <1>1, <1>2, <1>3, WorkIs, PassKept

LEMMA TakesAsideKept ==
  ASSUME EngineInv, E!Emergency \/ E!CompactItself
  PROVE  EngineInv'
<1>1. /\ UNCHANGED <<history, calls, offloaded, confirmed, deleted, boundary, harm>>
      /\ phase' = "deleting" /\ hook' \in {hook, "compact"} /\ force' \in {force, FALSE} /\ removed' = FALSE
      /\ aside' = E!Maps(work) /\ work' = E!WithoutMaps(work)
  BY DEF E!Emergency, E!CompactItself, E!TakesAside, E!host
<1>2. calls \in Nat /\ Len(history) \in Nat
  BY EngineNumbers
<1>3. /\ Conversation(aside', calls, Len(history)) /\ KindsOf(aside') \subseteq MapKinds
      /\ Conversation(work', calls, Len(history)) /\ KindsOf(work') \cap MapKinds = {}
      /\ \A u : HasTurn(work, u) => HasTurn(work', u)
  BY <1>1, <1>2, WorkIs, MapsApart
<1>4. EngineFlags'
  BY <1>1 DEF EngineInv, EngineFlags
<1>5. deleted' \subseteq confirmed' /\ confirmed' \subseteq 1..calls
  BY <1>1, SameDecisions
<1> QED BY <1>1, <1>3, <1>4, <1>5, WorkIs, PassKept

LEMMA HeadDeleteKept ==
  ASSUME EngineInv, NEW k \in 1..MaxMessages, E!HeadDelete(k)
  PROVE  EngineInv'
<1> DEFINE c == E!HeadCount(work, k)
           u == E!LastUser(history)
           l == Len(history)
           gone == SubSeq(work, 1, c)
<1>1. /\ UNCHANGED <<history, calls, offloaded, boundary, force, hook, phase, aside>>
      /\ phase = "deleting" /\ Len(work) > AGGRESSIVE_MIN_KEEP /\ k <= Len(work) - AGGRESSIVE_MIN_KEEP
      /\ work' = E!From(work, c) /\ E!Decide(E!IdsOf(gone))
      /\ removed' = TRUE /\ harm' \in {harm, harm \cup {"pair"}}
  BY DEF E!HeadDelete, E!CanDelete, E!host
<1>2. calls \in Nat /\ l \in Nat /\ Len(work) \in Nat /\ k \in 0..Len(work)
      /\ work \in Seq(EMessages(calls, l))
  BY <1>1, EngineNumbers, EngineConstants
<1>3. /\ Conversation(work, calls, l) /\ KindsOf(work) \cap MapKinds = {}
      /\ "user" \notin harm => HasTurn(work, u) /\ boundary.at <= u
  BY <1>1, WorkIs DEF EngineInv, EngineMessages
<1> HIDE DEF u, l
<1>4. c \in 0..Len(work) /\ \A i : TurnAt(work, i, u) => c < i
  BY <1>1, <1>2, HeadCountIs
<1> HIDE DEF c
<1>5. /\ Conversation(work', calls, l)
      /\ HasTurn(work, u) => HasTurn(work', u)
  <2>1. /\ Conversation(work', calls, l)
        /\ \A i : TurnAt(work, i, u) => HasTurn(work', u)
    BY <1>1, <1>2, <1>3, <1>4, FromConversation
  <2> QED BY <2>1, Zenon DEF HasTurn
<1>6. KindsOf(work') \cap MapKinds = {}
  <2>1. \A i \in 1..Len(work') : i + c \in 1..Len(work) /\ work'[i] = work[i + c]
    BY <1>1, <1>2, <1>4, FromFacts
  <2> QED BY <2>1, <1>3 DEF KindsOf
<1>7. E!IdsOf(gone) \subseteq 1..calls
  BY <1>2, <1>3, <1>4, CutIds
<1> HIDE DEF gone
<1>8. deleted' \subseteq confirmed' /\ confirmed' \subseteq 1..calls
  BY <1>1, <1>7, DecideKept
<1>9. EngineFlags'
  BY <1>1 DEF EngineInv, EngineFlags
<1>10. Conversation(aside', calls, Len(history)) /\ KindsOf(aside') \subseteq MapKinds
       /\ boundary' \in CutPlaces(Len(history))
  BY <1>1, WorkIs
<1>11. "user" \notin harm' => HasTurn(work', u) /\ boundary'.at <= u
  BY <1>1, <1>3, <1>5
<1> QED BY <1>1, <1>5, <1>6, <1>8, <1>9, <1>10, <1>11, PassKept DEF u, l

(* a group of the tail is of messages that are not the user's *)
LEMMA GroupIs ==
  ASSUME NEW n \in Nat, NEW l \in Nat, NEW ms, Conversation(ms, n, l), NEW group \in E!Groups(ms)
  PROVE  /\ group \subseteq 1..Len(ms)
         /\ \A i \in group : ms[i].kind # "user"
<1>1. ms \in Seq(EMessages(n, l)) /\ Len(ms) \in Nat /\ \A i \in 1..Len(ms) : ms[i] \in EMessages(n, l)
  BY SeqDomain DEF Conversation
<1> DEFINE paired == {E!GroupOf(ms, i) : i \in {j \in 2..Len(ms) : ms[j].uses # {}}}
           single == {i \in 2..(Len(ms) - 1) : ms[i].kind # "user"} \ UNION paired
<1>2. E!Groups(ms) = paired \cup {{i} : i \in single}
  BY Zenon DEF E!Groups
<1>3. CASE group \in paired
  <2>1. PICK i \in 2..Len(ms) : ms[i].uses # {} /\ group = E!GroupOf(ms, i)
    BY <1>3
  <2>2. i \in 1..Len(ms) /\ ms[i].kind # "user"
    BY <1>1, <2>1, MessageFields
  <2>3. \A j \in group : j = i \/ (j \in (i + 1)..Len(ms) /\ ms[j].kind = "result")
    BY <2>1 DEF E!GroupOf, E!IsResult
  <2> QED BY <2>2, <2>3, <1>1
<1>4. CASE \E i \in single : group = {i}
  <2>1. PICK i \in single : group = {i}
    BY <1>4
  <2>2. i \in 2..(Len(ms) - 1) /\ ms[i].kind # "user"
    BY <2>1
  <2> QED BY <2>1, <2>2, <1>1
<1>5. group \in paired \/ \E i \in single : group = {i}
  <2> HIDE DEF paired, single
  <2> QED BY <1>2
<1> QED BY <1>3, <1>4, <1>5

LEMMA TailDeleteKept ==
  ASSUME EngineInv, NEW group \in E!Groups(work), E!TailDelete(group)
  PROVE  EngineInv'
<1> DEFINE ids == UNION {work[i].uses \cup (IF E!IsResult(work[i]) THEN {work[i].id} ELSE {}) : i \in group}
           keep == DOMAIN work \ group
           l == Len(history)
<1>1. /\ UNCHANGED <<history, calls, offloaded, boundary, force, hook, phase, aside>>
      /\ phase = "deleting" /\ work' = Kept(work, keep) /\ E!Decide(ids)
      /\ removed' = TRUE /\ harm' \in {harm, harm \cup {"pair"}}
  BY Zenon DEF E!TailDelete, E!Blocked, E!CanDelete, E!Without, E!Kept, Kept, E!host
<1>2. calls \in Nat /\ l \in Nat /\ Len(work) \in Nat /\ DOMAIN work = 1..Len(work)
      /\ work \in Seq(EMessages(calls, l))
  BY EngineNumbers
<1>3. Conversation(work, calls, l) /\ KindsOf(work) \cap MapKinds = {}
  BY <1>1, WorkIs DEF EngineInv, EngineMessages
<1>4. group \subseteq 1..Len(work) /\ \A i \in group : work[i].kind # "user"
  BY <1>2, <1>3, GroupIs
<1>5. \A i \in 1..Len(work) : work[i].kind = "user" => i \in keep
  BY <1>2, <1>4
<1>6. ids \subseteq 1..calls
  <2>1. \A i \in group : work[i] \in EMessages(calls, l)
    BY <1>2, <1>4
  <2>2. \A i \in group : work[i].uses \subseteq 1..calls /\ (E!IsResult(work[i]) => work[i].id \in 1..calls)
    BY <2>1, <1>2, MessageFields DEF E!IsResult
  <2> QED BY <2>2
<1> HIDE DEF keep, ids, l
<1>7. Conversation(work', calls, l) /\ \A u : HasTurn(work, u) => HasTurn(work', u)
  BY <1>1, <1>2, <1>3, <1>5, KeptConversation
<1>8. KindsOf(work') \cap MapKinds = {}
  <2>1. PICK g : Follows(work', work, g)
    BY <1>1, <1>2, KeptFollows
  <2>2. \A i \in 1..Len(work') : g[i] \in 1..Len(work) /\ work'[i].kind = work[g[i]].kind
    BY <2>1 DEF Follows
  <2> QED BY <2>2, <1>3 DEF KindsOf
<1>9. deleted' \subseteq confirmed' /\ confirmed' \subseteq 1..calls
  BY <1>1, <1>6, DecideKept
<1>10. EngineFlags'
  BY <1>1 DEF EngineInv, EngineFlags
<1> QED BY <1>1, <1>7, <1>8, <1>9, <1>10, WorkIs, PassKept DEF l

LEMMA TruncateKept ==
  ASSUME EngineInv, NEW i \in 1..MaxMessages, E!Truncate(i)
  PROVE  EngineInv'
<1> DEFINE f == IF work[i].form = "summary" THEN work[i].form ELSE "cut"
           m == InForm(work[i], f)
           l == Len(history)
<1>1. /\ UNCHANGED <<history, calls, offloaded, boundary, force, hook, phase, aside, removed>>
      /\ phase = "deleting" /\ i \in 2..Len(work)
      /\ work' = [work EXCEPT ![i].form = IF @ = "summary" THEN @ ELSE "cut"]
      /\ E!Decide(E!IdOf(work[i])) /\ harm' \in {harm, harm \cup {"pair"}}
  BY DEF E!Truncate, E!Blocked, E!CanDelete, E!host
<1>2. calls \in Nat /\ l \in Nat /\ Len(work) \in Nat /\ DOMAIN work = 1..Len(work)
      /\ work \in Seq(EMessages(calls, l))
  BY EngineNumbers
<1>3. Conversation(work, calls, l) /\ KindsOf(work) \cap MapKinds = {}
  BY <1>1, WorkIs DEF EngineInv, EngineMessages
<1>4. i \in 1..Len(work) /\ work[i] \in EMessages(calls, l)
  BY <1>1, <1>2
<1>5. f \in {"whole", "summary", "cut"}
  OBVIOUS
<1>6. work' = [work EXCEPT ![i] = m]
  BY <1>1, Zenon DEF InForm
<1>7. m \in EMessages(calls, l) /\ m.kind = work[i].kind /\ m.at = work[i].at
  <2> HIDE DEF f
  <2> QED BY <1>2, <1>4, <1>5, FormEdited
<1> HIDE DEF m
<1>8. /\ work' \in Seq(EMessages(calls, l)) /\ Len(work') = Len(work)
      /\ \A j \in 1..Len(work) : work'[j].kind = work[j].kind /\ work'[j].at = work[j].at
  <2> DEFINE D == EMessages(calls, l)
             r == [work EXCEPT ![i] = m]
  <2>1. work \in Seq(D) /\ m \in D
    BY <1>2, <1>7
  <2> HIDE DEF D
  <2>2. r \in Seq(D) /\ Len(r) = Len(work) /\ \A j \in 1..Len(work) : r[j] = IF j = i THEN m ELSE work[j]
    BY <2>1, <1>4
  <2> QED BY <2>2, <1>6, <1>7 DEF D
<1>9. /\ Conversation(work', calls, l) /\ KindsOf(work') = KindsOf(work)
      /\ \A j, u : TurnAt(work, j, u) => TurnAt(work', j, u)
  BY <1>2, <1>3, <1>8, EditedConversation
<1>10. \A u : HasTurn(work, u) => HasTurn(work', u)
  BY <1>8, <1>9 DEF HasTurn
<1>11. E!IdOf(work[i]) \subseteq 1..calls
  BY <1>2, <1>4, IdsAre
<1>12. deleted' \subseteq confirmed' /\ confirmed' \subseteq 1..calls
  BY <1>1, <1>11, DecideKept
<1>13. EngineFlags'
  BY <1>1 DEF EngineInv, EngineFlags
<1>14. KindsOf(work') \cap MapKinds = {}
  BY <1>3, <1>9
<1> HIDE DEF l
<1> QED BY <1>1, <1>9, <1>10, <1>12, <1>13, <1>14, WorkIs, PassKept DEF l

LEMMA EmergencyEndsKept ==
  ASSUME EngineInv, E!EmergencyEnds
  PROVE  EngineInv'
<1> DEFINE after == E!WithMaps(work, aside)
           u == E!LastUser(history)
           l == Len(history)
<1>1. /\ UNCHANGED <<history, calls, offloaded, confirmed, deleted, force, harm>>
      /\ phase = "deleting" /\ phase' \in {"map", "idle"} /\ hook' \in {hook, "none"}
      /\ work' = after /\ aside' = <<>> /\ removed' = FALSE
      /\ boundary' \in {boundary, E!BoundaryOf(after), [at |-> 0, whole |-> FALSE]}
  BY DEF E!EmergencyEnds, E!AfterEmergency, E!Done, E!host, E!NoBoundary
<1>2. calls \in Nat /\ l \in Nat /\ u \in Nat \ {0}
  BY EngineNumbers
<1>3. /\ Conversation(work, calls, l) /\ KindsOf(work) \cap MapKinds = {}
      /\ Conversation(aside, calls, l) /\ KindsOf(aside) \subseteq MapKinds
      /\ boundary \in CutPlaces(l)
      /\ "user" \notin harm => HasTurn(work, u) /\ boundary.at <= u
  BY <1>1, WorkIs DEF EngineInv, EngineMessages
<1> HIDE DEF u, l
<1>4. Conversation(after, calls, l) /\ (HasTurn(work, u) => HasTurn(after, u))
  BY <1>2, <1>3, WithMapsKept
<1> HIDE DEF after
<1>5. E!BoundaryOf(after) \in CutPlaces(l) /\ (HasTurn(after, u) => E!BoundaryOf(after).at <= u)
  BY <1>2, <1>4, BoundaryIs DEF CutPlaces
<1>6. boundary' \in CutPlaces(l) /\ ("user" \notin harm => boundary'.at <= u)
  <2>1. CASE boundary' = boundary
    BY <2>1, <1>3
  <2>2. CASE boundary' = E!BoundaryOf(after)
    BY <2>2, <1>3, <1>4, <1>5
  <2>3. CASE boundary' = [at |-> 0, whole |-> FALSE]
    <3>1. boundary' \in CutPlaces(l) /\ boundary'.at = 0
      BY <1>2, <2>3 DEF CutPlaces
    <3> QED BY <1>2, <3>1
  <2> QED BY <1>1, <2>1, <2>2, <2>3
<1>7. Conversation(aside', calls, l) /\ KindsOf(aside') \subseteq MapKinds
  BY <1>1 DEF Conversation, InOrder, OneOfEach, KindsOf
<1>8. EngineFlags'
  BY <1>1 DEF EngineInv, EngineFlags
<1>9. deleted' \subseteq confirmed' /\ confirmed' \subseteq 1..calls
  BY <1>1, SameDecisions
<1> QED BY <1>1, <1>3, <1>4, <1>6, <1>7, <1>8, <1>9, PassKept DEF u, l

LEMMA InjectMapKept ==
  ASSUME EngineInv, NEW map \in {"active", "none", "wait"}, E!InjectMap(map)
  PROVE  EngineInv'
<1>1. /\ UNCHANGED <<history, calls, offloaded, confirmed, deleted, boundary, force, aside, removed, harm>>
      /\ phase' = "idle" /\ hook' = "none"
      /\ work' \in {work, E!WithActiveMap(work), E!WithoutKind(work, "active")}
  BY DEF E!InjectMap, E!Done, E!host
<1>2. calls \in Nat /\ Len(history) \in Nat /\ "active" \in MapKinds
  BY EngineNumbers DEF MapKinds
<1>3. /\ Conversation(work', calls, Len(history))
      /\ \A u : HasTurn(work, u) => HasTurn(work', u)
  <2>1. CASE work' = work
    BY <2>1, WorkIs
  <2>2. CASE work' = E!WithActiveMap(work)
    BY <2>2, <1>2, WorkIs, MapReplaced
  <2>3. CASE work' = E!WithoutKind(work, "active")
    BY <2>3, <1>2, WorkIs, WithoutKindIs
  <2> QED BY <1>1, <2>1, <2>2, <2>3
<1>4. EngineFlags'
  BY <1>1 DEF EngineInv, EngineFlags
<1>5. deleted' \subseteq confirmed' /\ confirmed' \subseteq 1..calls
  BY <1>1, SameDecisions
<1> QED BY <1>1, <1>3, <1>4, <1>5, WorkIs, PassKept

LEMMA EngineStep ==
  ASSUME EngineInv, E!Next
  PROVE  EngineInv'
<1>1. CASE E!Ask \/ E!Answer \/ (\E n \in 1..2, text \in BOOLEAN : E!UseTools(n, text))
           \/ (\E c \in 1..EngineCalls, worth \in BOOLEAN : E!ResultArrives(c, worth))
  BY <1>1, HostKept
<1>2. CASE \/ \E prompted \in BOOLEAN : E!Assemble(prompted)
           \/ E!BeforePromptBuild
           \/ \E map \in BOOLEAN : E!AfterToolCall(map)
  BY <1>2, AssembleKept, BeforePromptBuildKept, AfterToolCallKept
<1>3. CASE \/ \E k \in 1..MaxMessages, known \in BOOLEAN : E!Aggressive(k, known)
           \/ \E forced \in BOOLEAN : E!Stalled(forced)
           \/ \E n \in 0..MaxMessages : E!TailAccumulate(n)
           \/ \E next \in {"mild", "idle"} : E!BelowThreshold(next)
  BY <1>3, AggressiveKept, StalledKept, TailAccumulateKept, BelowThresholdKept
<1>4. CASE \/ \E ids \in SUBSET (1..EngineCalls) : E!Mild(ids)
           \/ E!Emergency \/ E!NoEmergency \/ E!CompactItself
  BY <1>4, MildKept, TakesAsideKept, NoEmergencyKept
<1>5. CASE \/ \E k \in 1..MaxMessages : E!HeadDelete(k)
           \/ \E group \in E!Groups(work) : E!TailDelete(group)
           \/ \E i \in 1..MaxMessages : E!Truncate(i)
           \/ E!EmergencyEnds
           \/ \E map \in {"active", "none", "wait"} : E!InjectMap(map)
  BY <1>5, HeadDeleteKept, TailDeleteKept, TruncateKept, EmergencyEndsKept, InjectMapKept
<1> QED BY <1>1, <1>2, <1>3, <1>4, <1>5 DEF E!Next

LEMMA EngineInit ==
  ASSUME E!Init
  PROVE  EngineInv
<1> DEFINE q == E!Question(1)
           D == EMessages(0, 1)
<1>1. /\ history = <<q>> /\ calls = 0 /\ offloaded = {} /\ confirmed = {} /\ deleted = {}
      /\ boundary = [at |-> 0, whole |-> FALSE] /\ force = FALSE /\ hook = "none" /\ phase = "idle"
      /\ work = history /\ aside = <<>> /\ removed = FALSE /\ harm = {}
  BY DEF E!Init, E!NoBoundary
<1>2. q \in D /\ q.kind = "user" /\ q.at = 1
  BY DEF E!Question, E!Message, EMessages, EKinds, MapKinds
<1> HIDE DEF q, D
<1>3. history \in Seq(D) /\ Len(history) = 1 /\ history[1] = q
  BY <1>1, <1>2
<1>4. Transcript(history, calls)
  BY <1>1, <1>2, <1>3, EngineConstants DEF Transcript, D, MapKinds
<1>5. /\ Conversation(history, 0, 1)
      /\ TurnAt(history, E!LastUser(history), E!LastUser(history)) /\ E!LastUser(history) \in 1..1
  BY <1>1, <1>3, <1>4, TranscriptIs
<1>6. Conversation(aside, 0, 1) /\ KindsOf(aside) \subseteq MapKinds
  BY <1>1 DEF Conversation, InOrder, OneOfEach, KindsOf
<1>7. EngineMessages
  BY <1>1, <1>3, <1>4, <1>5, <1>6 DEF EngineMessages, CutPlaces
<1>8. TurnHeld
  BY <1>1, <1>3, <1>5 DEF TurnHeld, HasTurn
<1>9. EngineCounts
  <2>1. 0 \in 0..EngineCalls
    BY EngineConstants
  <2> QED BY <1>1, <2>1 DEF EngineCounts
<1>10. EngineFlags
  BY <1>1 DEF EngineFlags
<1> QED BY <1>7, <1>8, <1>9, <1>10 DEF EngineInv

EngineHolds == focus = "engine" => EngineInv

LEMMA EngineEverywhere == Spec => []EngineHolds
<1>1. Init => EngineHolds
  BY EngineInit DEF Init, EngineHolds
<1>2. EngineHolds /\ [Next]_vars => EngineHolds'
  <2> SUFFICES ASSUME EngineHolds, [Next]_vars, focus' = "engine" PROVE EngineInv'
    BY DEF EngineHolds
  <2>1. CASE focus = "engine" /\ E!Next /\ UNCHANGED focus
    BY <2>1, EngineStep DEF EngineHolds
  <2>2. CASE UNCHANGED <<focus, compactVars>>
    <3>1. UNCHANGED <<focus, history, calls, offloaded, confirmed, deleted, phase, work,
                      boundary, force, hook, aside, removed, harm>>
      BY <2>2, Zenon DEF compactVars, messages, pluginSide
    <3>2. EngineInv
      BY <3>1 DEF EngineHolds
    <3> QED BY <3>1, <3>2, Zenon DEF EngineInv, EngineCounts, EngineFlags, EngineMessages, TurnHeld
  <2>3. CASE UNCHANGED vars
    BY <2>2, <2>3, Zenon DEF vars
  <2>4. CASE Next
    <3>1. focus = "engine" /\ E!Next /\ UNCHANGED focus
      BY <2>4 DEF Next
    <3> QED BY <2>1, <3>1
  <2> QED BY <2>3, <2>4
<1> QED BY <1>1, <1>2, PTL DEF Spec

(* The user's last message is in every request that the plugin sends, for every     *)
(* length of the conversation and all the maps put in: HasTurn names its place.     *)
THEOREM LastQuestionKept == Spec => []UserTurnKept
<1>1. EngineHolds => UserTurnKept
  <2> SUFFICES ASSUME EngineInv, "user" \notin harm
               PROVE  \E i \in DOMAIN work : work[i].kind = "user" /\ work[i].at = E!LastUser(history)
    BY DEF EngineHolds, UserTurnKept, E!UserTurnKept
  <2>1. PICK i \in 1..Len(work) : TurnAt(work, i, E!LastUser(history))
    BY DEF EngineInv, TurnHeld, HasTurn
  <2>2. DOMAIN work = 1..Len(work)
    BY EngineNumbers
  <2> QED BY <2>1, <2>2 DEF TurnAt
<1> QED BY <1>1, EngineEverywhere, PTL

LEMMA EngineTyped ==
  ASSUME EngineInv
  PROVE  E!TypeOK
<1> DEFINE D == EMessages(calls, Len(history))
           D2 == EMessages(EngineCalls, MaxMessages)
<1>1. calls \in 0..EngineCalls /\ Len(history) \in 1..MaxMessages /\ Len(history) \in Nat /\ calls \in Nat
      /\ calls <= EngineCalls /\ Len(history) <= MaxMessages
  BY EngineNumbers, EngineConstants DEF EngineInv, EngineCounts, EngineMessages, Transcript
<1>2. D \subseteq D2
  BY <1>1, EngineConstants, MoreMessages
<1>3. history \in Seq(D) /\ work \in Seq(D)
  BY EngineNumbers DEF EngineInv, EngineMessages, Transcript
<1>4. D2 \subseteq [kind : {"user", "assistant", "result", "active", "history"}, text : BOOLEAN,
                    uses : SUBSET (1..EngineCalls), id : 0..EngineCalls,
                    form : {"whole", "summary", "cut"}, at : 0..MaxMessages]
  BY DEF EMessages, EKinds
<1> HIDE DEF D, D2
<1>5. \A m \in {history[i] : i \in DOMAIN history} \cup {work[i] : i \in DOMAIN work} : m \in D2
  BY <1>2, <1>3
<1>6. boundary \in [at : 0..MaxMessages, whole : BOOLEAN]
  <2>1. 0..Len(history) \subseteq 0..MaxMessages
    BY <1>1, EngineConstants
  <2>2. boundary \in [at : 0..Len(history), whole : BOOLEAN]
    BY DEF EngineInv, EngineMessages, CutPlaces
  <2> QED BY <2>1, <2>2
<1>7. Len(aside) <= 2
  <2>1. Len(aside) \in 0..2
    BY FewMaps DEF EngineInv, EngineMessages, Conversation
  <2>2. \A x \in 0..2 : x <= 2
    OBVIOUS
  <2> QED BY <2>1, <2>2, Zenon
<1>8. EngineCounts /\ EngineFlags
  BY DEF EngineInv
<1>9. \A m \in {history[i] : i \in DOMAIN history} \cup {work[i] : i \in DOMAIN work} :
        m \in [kind : {"user", "assistant", "result", "active", "history"}, text : BOOLEAN,
               uses : SUBSET (1..EngineCalls), id : 0..EngineCalls,
               form : {"whole", "summary", "cut"}, at : 0..MaxMessages]
  BY <1>4, <1>5, Zenon
<1> QED BY <1>1, <1>6, <1>7, <1>8, <1>9, Zenon DEF E!TypeOK, EngineCounts, EngineFlags

-----------------------------------------------------------------------------
(* The plugin keeps calls and results together.  h is the transcript.        *)

Made(ms, c) == \E i \in 1..Len(ms) : c \in ms[i].uses
GivenAt(ms, j, c) == ms[j].kind = "result" /\ ms[j].id = c
Given(ms, c) == \E j \in 1..Len(ms) : GivenAt(ms, j, c)

(* a message is one of the transcript, perhaps edited, or a map *)
Mirrors(h, m) ==
  IF m.at = 0 THEN m.kind \in MapKinds
  ELSE LET t == h[m.at] IN
       /\ m.kind = t.kind /\ m.text = t.text /\ m.id = t.id /\ (m.uses = t.uses \/ m.uses = {})
       /\ m.form = "summary" => ~m.text

(* at k a call made at i waits for its result, which is to come or stands at k or later *)
Waits(h, ms, i, k) ==
  \E c \in ms[i].uses : ~Given(h, c) \/ \E j \in k..Len(ms) : GivenAt(ms, j, c)
Joined(h, ms) == \A i, k \in 1..Len(ms) : i < k /\ Waits(h, ms, i, k) => ms[k].kind = "result"
Ordered(ms) == \A i, j \in 1..Len(ms) : \A c \in ms[i].uses : GivenAt(ms, j, c) => i < j
Whole(h, ms) ==
  \A c : /\ Given(ms, c) => Made(ms, c)
         /\ Made(ms, c) /\ Given(h, c) => Given(ms, c)
         /\ Made(h, c) /\ ~Given(h, c) => Made(ms, c)
Paired(h, ms) ==
  /\ \A i \in 1..Len(ms) : Mirrors(h, ms[i])
  /\ Joined(h, ms) /\ Ordered(ms) /\ Whole(h, ms)

(* a call is deleted with all the calls of its message, and has its result *)
DeletedWhole(h, d) ==
  /\ \A c \in d : Given(h, c)
  /\ \A i \in 1..Len(h) : h[i].uses \cap d = {} \/ h[i].uses \subseteq d

(* the transcript itself: no call comes twice, and a result has no text of its own *)
Spoken(h) ==
  /\ Paired(h, h)
  /\ \A i, j \in 1..Len(h) : h[i].uses \cap h[j].uses # {} => i = j
  /\ \A i \in 1..Len(h) : h[i].kind = "result" => ~h[i].text
(* The invariant: what the plugin has in hand stays paired, and so will the next replay. *)
PairHeld ==
  /\ Spoken(history)
  /\ "pair" \notin harm => Paired(history, work) /\ DeletedWhole(history, deleted)

LEMMA MadeAndGiven ==
  ASSUME NEW D, NEW ms \in Seq(D)
  PROVE  /\ \A c : c \in E!UsesOf(ms) <=> Made(ms, c)
         /\ \A c : c \in E!ResultsOf(ms) <=> Given(ms, c)
<1>1. DOMAIN ms = 1..Len(ms)
  BY SeqDomain
<1>2. ASSUME NEW c PROVE c \in E!UsesOf(ms) <=> Made(ms, c)
  BY <1>1 DEF E!UsesOf, Made
<1>3. ASSUME NEW c PROVE c \in E!ResultsOf(ms) <=> Given(ms, c)
  <2> DEFINE R == {j \in DOMAIN ms : E!IsResult(ms[j])}
  <2>1. E!ResultsOf(ms) = {ms[i].id : i \in R}
    BY DEF E!ResultsOf
  <2>2. \A j : j \in R <=> j \in 1..Len(ms) /\ ms[j].kind = "result"
    BY <1>1 DEF E!IsResult
  <2> HIDE DEF R
  <2> QED BY <2>1, <2>2 DEF Given, GivenAt
<1> QED BY <1>2, <1>3

(* messages of ms in their order, with no more calls: what is to show is that no call *)
(* lost its result and no result its call                                             *)
LEMMA PairedPart ==
  ASSUME NEW h, NEW ms, NEW r, NEW g, Paired(h, ms), Len(r) \in Nat, Len(ms) \in Nat,
         g \in [1..Len(r) -> 1..Len(ms)],
         \A i, j \in 1..Len(r) : i < j => g[i] < g[j],
         \A i \in 1..Len(r) : r[i].kind = ms[g[i]].kind /\ r[i].id = ms[g[i]].id,
         \A i \in 1..Len(r) : r[i].uses \subseteq ms[g[i]].uses /\ Mirrors(h, r[i]),
         Whole(h, r)
  PROVE  Paired(h, r)
<1>1. \A i \in 1..Len(r) : g[i] \in 1..Len(ms)
  OBVIOUS
<1>2. \A i, j \in 1..Len(r) : i <= j => g[i] <= g[j]
  <2> TAKE i, j \in 1..Len(r)
  <2> HAVE i <= j
  <2>1. CASE i = j
    BY <2>1, <1>1
  <2>2. CASE i < j
    BY <2>2, <1>1
  <2> QED BY <2>1, <2>2
<1>3. Ordered(r)
  <2> SUFFICES ASSUME NEW i \in 1..Len(r), NEW j \in 1..Len(r), NEW c \in r[i].uses, GivenAt(r, j, c)
               PROVE  i < j
    BY DEF Ordered
  <2>1. c \in ms[g[i]].uses /\ GivenAt(ms, g[j], c)
    BY DEF GivenAt
  <2>2. g[i] < g[j]
    BY <1>1, <2>1 DEF Paired, Ordered
  <2>3. ~(j <= i)
    BY <1>1, <1>2, <2>2
  <2> QED BY <2>3
<1>4. Joined(h, r)
  <2> SUFFICES ASSUME NEW i \in 1..Len(r), NEW k \in 1..Len(r), i < k, Waits(h, r, i, k)
               PROVE  r[k].kind = "result"
    BY DEF Joined
  <2>1. PICK c \in r[i].uses : ~Given(h, c) \/ \E j \in k..Len(r) : GivenAt(r, j, c)
    BY DEF Waits
  <2>2. c \in ms[g[i]].uses
    BY <2>1
  <2>3. CASE ~Given(h, c)
    <3>1. Waits(h, ms, g[i], g[k])
      BY <2>2, <2>3 DEF Waits
    <3> QED BY <3>1, <1>1 DEF Paired, Joined
  <2>4. CASE \E j \in k..Len(r) : GivenAt(r, j, c)
    <3>1. PICK j \in k..Len(r) : GivenAt(r, j, c)
      BY <2>4
    <3>2. j \in 1..Len(r) /\ k <= j
      OBVIOUS
    <3>3. g[j] \in g[k]..Len(ms)
      BY <3>2, <1>1, <1>2
    <3>4. GivenAt(ms, g[j], c)
      BY <3>1, <3>2 DEF GivenAt
    <3>5. Waits(h, ms, g[i], g[k])
      BY <2>2, <3>3, <3>4 DEF Waits
    <3> QED BY <3>5, <1>1 DEF Paired, Joined
  <2> QED BY <2>1, <2>3, <2>4
<1> QED BY <1>3, <1>4 DEF Paired

(* what is kept of messages none of whose calls or results goes alone *)
LEMMA PairedKept ==
  ASSUME NEW n \in Nat, NEW l \in Nat, NEW h, NEW ms, Conversation(ms, n, l), Paired(h, ms), NEW keep,
         \A i \in 1..Len(ms) : i \notin keep => ms[i].uses = {} /\ ms[i].kind # "result"
  PROVE  Paired(h, Kept(ms, keep))
<1> DEFINE r == Kept(ms, keep)
           D == EMessages(n, l)
<1>1. ms \in Seq(D) /\ Len(ms) \in Nat
  BY SeqDomain DEF Conversation
<1> HIDE DEF D
<1>2. r \in Seq(D) /\ \E g : Selects(r, ms, g, keep)
  BY <1>1, KeptSelects
<1> HIDE DEF r
<1>3. PICK g : Selects(r, ms, g, keep)
  BY <1>2
<1>4. Len(r) \in Nat /\ g \in [1..Len(r) -> 1..Len(ms)]
  BY <1>2, <1>3, SeqDomain DEF Selects
<1>5. \A i, j \in 1..Len(r) : i < j => g[i] < g[j]
  BY <1>3, Zenon DEF Selects
<1>6. \A i \in 1..Len(r) : r[i] = ms[g[i]] /\ Mirrors(h, r[i])
  BY <1>3, <1>4 DEF Paired, Selects
<1>7. /\ \A i \in 1..Len(r) : g[i] \in 1..Len(ms) /\ r[i] = ms[g[i]]
      /\ \A k \in 1..Len(ms) : k \in keep => \E i \in 1..Len(r) : r[i] = ms[k]
  <2>1. \A i \in 1..Len(r) : g[i] \in 1..Len(ms)
    BY <1>4
  <2>2. ASSUME NEW k \in 1..Len(ms), k \in keep PROVE \E i \in 1..Len(r) : r[i] = ms[k]
    <3>1. PICK i \in 1..Len(r) : g[i] = k
      BY <1>3, <2>2 DEF Selects
    <3> QED BY <1>6, <3>1
  <2> QED BY <1>6, <2>1, <2>2
<1>8. ASSUME NEW c PROVE Made(r, c) <=> Made(ms, c)
  <2>1. ASSUME NEW k \in 1..Len(ms), c \in ms[k].uses PROVE \E i \in 1..Len(r) : c \in r[i].uses
    <3>1. k \in keep
      BY <2>1
    <3> QED BY <3>1, <2>1, <1>7
  <2> QED BY <1>7, <2>1 DEF Made
<1>9. ASSUME NEW c PROVE Given(r, c) <=> Given(ms, c)
  <2>1. ASSUME NEW k \in 1..Len(ms), GivenAt(ms, k, c) PROVE \E i \in 1..Len(r) : GivenAt(r, i, c)
    <3>1. k \in keep
      BY <2>1 DEF GivenAt
    <3> QED BY <3>1, <2>1, <1>7 DEF GivenAt
  <2> QED BY <1>7, <2>1 DEF Given, GivenAt
<1>10. Whole(h, r)
  BY <1>8, <1>9 DEF Paired, Whole
<1>11. /\ \A i \in 1..Len(r) : r[i].kind = ms[g[i]].kind /\ r[i].id = ms[g[i]].id
       /\ \A i \in 1..Len(r) : r[i].uses \subseteq ms[g[i]].uses
  BY <1>6
<1>12. Paired(h, r)
  BY <1>1, <1>4, <1>5, <1>6, <1>10, <1>11, PairedPart
<1> QED BY <1>12 DEF r

(* no call of the first k messages waits for a result behind them *)
Closed(h, ms, k) ==
  \A i \in 1..k : \A c \in ms[i].uses :
    Given(h, c) /\ \A j \in 1..Len(ms) : GivenAt(ms, j, c) => j <= k
NoneOpen(h) == \A c : Made(h, c) => Given(h, c)

LEMMA MadeBefore ==
  ASSUME NEW n \in Nat, NEW h, Len(h) \in Nat, NEW ms, Conversation(ms, n, Len(h)), Paired(h, ms)
  PROVE  /\ \A i \in 1..Len(ms) : ms[i].uses # {} =>
              /\ ms[i].at \in 1..Len(h) /\ ms[i].uses = h[ms[i].at].uses /\ ms[i].kind # "result"
              /\ ms[i].kind \notin MapKinds
         /\ \A c : Made(ms, c) => Made(h, c)
<1>1. \A i \in 1..Len(ms) : ms[i] \in EMessages(n, Len(h))
  BY SeqDomain DEF Conversation
<1>2. ASSUME NEW i \in 1..Len(ms), ms[i].uses # {}
      PROVE  /\ ms[i].at \in 1..Len(h) /\ ms[i].uses = h[ms[i].at].uses
             /\ ms[i].kind # "result" /\ ms[i].kind \notin MapKinds
  <2> DEFINE m == ms[i]
  <2>1. m.kind # "result" /\ m.kind \notin MapKinds /\ m.at \in 0..Len(h)
    BY <1>1, <1>2, MessageFields
  <2>2. Mirrors(h, m)
    BY DEF Paired
  <2>3. m.at # 0 /\ m.uses = h[m.at].uses
    BY <2>1, <2>2, <1>2 DEF Mirrors
  <2> QED BY <2>1, <2>3
<1>3. \A c : Made(ms, c) => Made(h, c)
  BY <1>2 DEF Made
<1> QED BY <1>2, <1>3

LEMMA SeamCloses ==
  ASSUME NEW n \in Nat, NEW h, Len(h) \in Nat, NEW ms, Conversation(ms, n, Len(h)), Paired(h, ms),
         NEW k \in 0..Len(ms),
         \/ k = 0
         \/ k < Len(ms) /\ ms[k + 1].kind # "result"
         \/ k = Len(ms) /\ (NoneOpen(h) \/ ms[k].kind = "user")
  PROVE  Closed(h, ms, k)
<1>1. Len(ms) \in Nat /\ k \in Nat /\ k <= Len(ms) /\ \A i \in 1..Len(ms) : ms[i] \in EMessages(n, Len(h))
  BY SeqDomain DEF Conversation
<1>2. SUFFICES ASSUME NEW i \in 1..k, NEW c \in ms[i].uses,
                      ~Given(h, c) \/ \E j \in (k + 1)..Len(ms) : GivenAt(ms, j, c)
               PROVE  FALSE
  <2>1. \A i \in 1..k : \A c \in ms[i].uses : Given(h, c) /\ ~\E j \in (k + 1)..Len(ms) : GivenAt(ms, j, c)
    BY <1>2
  <2>2. \A j \in 1..Len(ms) : j \notin (k + 1)..Len(ms) => j <= k
    BY <1>1
  <2> QED BY <2>1, <2>2 DEF Closed
<1>3. i \in 1..Len(ms) /\ i \in Nat /\ i <= k
  BY <1>1
<1>4. CASE k < Len(ms) /\ ms[k + 1].kind # "result"
  <2>1. k + 1 \in 1..Len(ms) /\ i < k + 1
    BY <1>1, <1>3, <1>4
  <2>2. Waits(h, ms, i, k + 1)
    BY <1>2 DEF Waits
  <2> QED BY <2>1, <2>2, <1>3, <1>4 DEF Paired, Joined
<1>5. CASE k = Len(ms) /\ NoneOpen(h)
  <2>1. ~Given(h, c) /\ Made(ms, c)
    BY <1>1, <1>2, <1>3, <1>5 DEF Made
  <2> QED BY <2>1, <1>5, MadeBefore DEF NoneOpen
<1>6. CASE k = Len(ms) /\ ms[k].kind = "user"
  <2>1. ~Given(h, c)
    BY <1>1, <1>2, <1>6
  <2>2. CASE i = k
    <3>1. ms[k].kind # "user"
      BY <1>1, <1>3, <2>2, MessageFields
    <3> QED BY <3>1, <1>6
  <2>3. CASE i # k
    <3>1. Waits(h, ms, i, k) /\ i < k /\ k \in 1..Len(ms)
      BY <2>1, <2>3, <1>1, <1>3 DEF Waits
    <3>2. ms[k].kind = "result"
      BY <3>1, <1>3 DEF Paired, Joined
    <3> QED BY <3>2, <1>6
  <2> QED BY <2>2, <2>3
<1> QED BY <1>1, <1>3, <1>4, <1>5, <1>6

LEMMA PairedFrom ==
  ASSUME NEW n \in Nat, NEW h, Len(h) \in Nat, NEW ms, Conversation(ms, n, Len(h)), Paired(h, ms),
         NEW k \in 0..Len(ms), Closed(h, ms, k)
  PROVE  Paired(h, E!From(ms, k))
<1> DEFINE r == E!From(ms, k)
           g == [i \in 1..Len(r) |-> i + k]
           D == EMessages(n, Len(h))
<1>1. ms \in Seq(D) /\ Len(ms) \in Nat /\ k \in Nat /\ k <= Len(ms)
  BY SeqDomain DEF Conversation
<1> HIDE DEF D
<1>2. /\ r \in Seq(D) /\ Len(r) = Len(ms) - k /\ Len(r) \in Nat
      /\ \A i \in 1..Len(r) : i + k \in 1..Len(ms) /\ r[i] = ms[i + k]
  BY <1>1, FromFacts
<1> HIDE DEF r
<1>3. \A i \in 1..Len(r) : g[i] = i + k
  OBVIOUS
<1>4. g \in [1..Len(r) -> 1..Len(ms)]
  BY <1>2
<1> HIDE DEF g
<1>5. \A i, j \in 1..Len(r) : i < j => g[i] < g[j]
  BY <1>1, <1>3
<1>6. \A i \in 1..Len(r) : r[i] = ms[g[i]] /\ g[i] \in 1..Len(ms)
  BY <1>2, <1>3
<1>7. \A i \in 1..Len(r) : r[i].uses \subseteq ms[g[i]].uses /\ Mirrors(h, r[i])
  BY <1>6 DEF Paired
<1>8. \A i \in 1..Len(ms) : i <= k \/ (i - k \in 1..Len(r) /\ r[i - k] = ms[i])
  <2> TAKE i \in 1..Len(ms)
  <2>1. i <= k \/ i - k \in 1..Len(r)
    BY <1>1, <1>2
  <2>2. i - k \in 1..Len(r) => r[i - k] = ms[(i - k) + k]
    BY <1>2
  <2>3. (i - k) + k = i
    BY <1>1
  <2> QED BY <2>1, <2>2, <2>3
<1>9. ASSUME NEW c PROVE Given(r, c) => Made(r, c)
  <2> SUFFICES ASSUME NEW j \in 1..Len(r), GivenAt(r, j, c) PROVE Made(r, c)
    BY DEF Given
  <2>1. j + k \in 1..Len(ms) /\ GivenAt(ms, j + k, c) /\ ~(j + k <= k)
    BY <1>1, <1>2 DEF GivenAt
  <2>2. PICK i \in 1..Len(ms) : c \in ms[i].uses
    BY <2>1 DEF Paired, Whole, Given, Made
  <2>3. ~(i <= k)
    <3>1. i <= k => i \in 1..k
      BY <1>1
    <3> QED BY <3>1, <2>1, <2>2 DEF Closed
  <2> QED BY <2>2, <2>3, <1>8 DEF Made
<1>10. ASSUME NEW c PROVE Made(r, c) /\ Given(h, c) => Given(r, c)
  <2> SUFFICES ASSUME NEW i \in 1..Len(r), c \in r[i].uses, Given(h, c) PROVE Given(r, c)
    BY DEF Made
  <2>1. i + k \in 1..Len(ms) /\ c \in ms[i + k].uses
    BY <1>2
  <2>2. PICK j \in 1..Len(ms) : GivenAt(ms, j, c)
    BY <2>1 DEF Paired, Whole, Given, Made
  <2>3. i + k < j
    BY <2>1, <2>2 DEF Paired, Ordered
  <2>4. ~(j <= k)
    BY <2>3, <1>1
  <2> QED BY <2>2, <2>4, <1>8 DEF Given, GivenAt
<1>11. ASSUME NEW c PROVE Made(h, c) /\ ~Given(h, c) => Made(r, c)
  <2> SUFFICES ASSUME Made(h, c), ~Given(h, c) PROVE Made(r, c)
    OBVIOUS
  <2>1. PICK i \in 1..Len(ms) : c \in ms[i].uses
    BY DEF Paired, Whole, Made
  <2>2. ~(i <= k)
    <3>1. i <= k => i \in 1..k
      BY <1>1
    <3> QED BY <3>1, <2>1 DEF Closed
  <2> QED BY <2>1, <2>2, <1>8 DEF Made
<1>12. Whole(h, r)
  BY <1>9, <1>10, <1>11 DEF Whole
<1>13. \A i \in 1..Len(r) : r[i].kind = ms[g[i]].kind /\ r[i].id = ms[g[i]].id
  BY <1>6
<1>14. Paired(h, r)
  BY <1>1, <1>2, <1>4, <1>5, <1>7, <1>12, <1>13, PairedPart
<1> QED BY <1>14 DEF r

(* what a cut deletes: its results and the calls it is known by *)
LEMMA GoneWhole ==
  ASSUME NEW n \in Nat, NEW h, Len(h) \in Nat, NEW ms, Conversation(ms, n, Len(h)), Paired(h, ms), Spoken(h),
         NEW k \in 0..Len(ms), Closed(h, ms, k), NEW d, DeletedWhole(h, d), NEW ids,
         \A j \in 1..k : ms[j].kind = "result" => ms[j].id \in ids,
         \A c \in ids : \E i \in 1..k : GivenAt(ms, i, c) \/ c \in ms[i].uses
  PROVE  DeletedWhole(h, d \cup ids)
<1>1. Len(ms) \in Nat /\ k \in Nat /\ k <= Len(ms) /\ \A i \in 1..k : i \in 1..Len(ms)
  BY SeqDomain DEF Conversation
<1>2. ASSUME NEW c \in ids PROVE \E i \in 1..k : c \in ms[i].uses
  <2>1. PICK i \in 1..k : GivenAt(ms, i, c) \/ c \in ms[i].uses
    OBVIOUS
  <2>2. CASE GivenAt(ms, i, c)
    <3>1. PICK j \in 1..Len(ms) : c \in ms[j].uses
      BY <1>1, <2>2 DEF Paired, Whole, Given, Made
    <3>2. j < i
      BY <1>1, <3>1, <2>2 DEF Paired, Ordered
    <3>3. j \in 1..k
      BY <1>1, <3>2
    <3> QED BY <3>1, <3>3
  <2> QED BY <2>1, <2>2
<1>3. ASSUME NEW i \in 1..k, NEW c \in ms[i].uses PROVE Given(h, c) /\ c \in ids
  <2>1. Given(h, c)
    BY DEF Closed
  <2>2. PICK j \in 1..Len(ms) : GivenAt(ms, j, c)
    BY <1>1, <2>1 DEF Paired, Whole, Made, Given
  <2>3. j \in 1..k
    BY <1>1, <2>2 DEF Closed
  <2> QED BY <2>1, <2>2, <2>3 DEF GivenAt
<1>4. \A c \in d \cup ids : Given(h, c)
  BY <1>2, <1>3 DEF DeletedWhole
<1>5. ASSUME NEW a \in 1..Len(h), h[a].uses \cap (d \cup ids) # {} PROVE h[a].uses \subseteq d \cup ids
  <2>1. CASE h[a].uses \cap d # {}
    BY <2>1 DEF DeletedWhole
  <2>2. CASE h[a].uses \cap ids # {}
    <3>1. PICK c \in ids : c \in h[a].uses
      BY <2>2
    <3>2. PICK i \in 1..k : c \in ms[i].uses
      BY <1>2
    <3>3. ms[i].at \in 1..Len(h) /\ ms[i].uses = h[ms[i].at].uses
      BY <1>1, <3>2, MadeBefore
    <3>4. a = ms[i].at
      BY <3>1, <3>2, <3>3 DEF Spoken
    <3> QED BY <1>3, <3>3, <3>4
  <2> QED BY <1>5, <2>1, <2>2
<1> QED BY <1>4, <1>5 DEF DeletedWhole

(* a map comes in where no call waits *)
LEMMA PairedInserted ==
  ASSUME NEW n \in Nat, NEW h, Len(h) \in Nat, NEW ms, Conversation(ms, n, Len(h)), Paired(h, ms),
         NEW k \in 0..Len(ms), Closed(h, ms, k), NEW m \in EMessages(n, Len(h)), m.kind \in MapKinds
  PROVE  Paired(h, E!InsertedAt(ms, k, m))
<1> DEFINE r == E!InsertedAt(ms, k, m)
           D == EMessages(n, Len(h))
           g == [i \in 1..Len(r) |-> IF i <= k THEN i ELSE i - 1]
<1>1. m.uses = {} /\ m.at = 0 /\ m.kind # "result"
  BY MessageFields DEF MapKinds
<1>2. ms \in Seq(D) /\ m \in D /\ Len(ms) \in Nat /\ k \in Nat /\ k <= Len(ms)
  BY SeqDomain DEF Conversation
<1> HIDE DEF D
<1>3. r \in Seq(D) /\ Len(r) = Len(ms) + 1
  BY <1>2, InsertFacts
<1>4. \A i \in 1..k : r[i] = ms[i]
  BY <1>2, InsertFacts
<1>5. r[k + 1] = m
  BY <1>2, InsertFacts
<1>6. \A i \in (k + 1)..Len(ms) : r[i + 1] = ms[i]
  BY <1>2, InsertFacts
<1> HIDE DEF r
<1>7. \A i \in 1..Len(r) : i # k + 1 => g[i] \in 1..Len(ms) /\ r[i] = ms[g[i]]
  <2> TAKE i \in 1..Len(r)
  <2>1. CASE i <= k
    BY <2>1, <1>2, <1>4
  <2>2. CASE i > k + 1
    <3>1. i - 1 \in (k + 1)..Len(ms) /\ g[i] = i - 1 /\ (i - 1) + 1 = i
      BY <2>2, <1>2, <1>3
    <3>2. r[(i - 1) + 1] = ms[i - 1]
      BY <3>1, <1>6
    <3> QED BY <3>1, <3>2, <1>2
  <2> QED BY <2>1, <2>2, <1>2, <1>3
<1>8. \A i, j \in 1..Len(r) : i # k + 1 /\ j # k + 1 => (i < j <=> g[i] < g[j]) /\ (i <= j <=> g[i] <= g[j])
  BY <1>2, <1>3
<1>9. \A i \in 1..Len(r) : (i < k + 1 => g[i] \in 1..k) /\ (i > k + 1 => ~(g[i] <= k))
  BY <1>2, <1>3
<1>10. \A i \in 1..Len(ms) : \E j \in 1..Len(r) : j # k + 1 /\ r[j] = ms[i]
  <2> TAKE i \in 1..Len(ms)
  <2>1. CASE i <= k
    <3>1. i \in 1..k /\ i \in 1..Len(r) /\ i # k + 1
      BY <1>2, <1>3, <2>1
    <3> QED BY <3>1, <1>4
  <2>2. CASE ~(i <= k)
    <3>1. i \in (k + 1)..Len(ms) /\ i + 1 \in 1..Len(r) /\ i + 1 # k + 1
      BY <1>2, <1>3, <2>2
    <3> QED BY <3>1, <1>6
  <2> QED BY <2>1, <2>2
<1> HIDE DEF g
<1>11. ASSUME NEW c PROVE (Made(r, c) <=> Made(ms, c)) /\ (Given(r, c) <=> Given(ms, c))
  <2>1. \A i \in 1..Len(r) : c \in r[i].uses \/ GivenAt(r, i, c) => i # k + 1
    BY <1>1, <1>5 DEF GivenAt
  <2>2. Made(r, c) <=> Made(ms, c)
    BY <2>1, <1>7, <1>10 DEF Made
  <2>3. ASSUME NEW i \in 1..Len(r), GivenAt(r, i, c) PROVE Given(ms, c)
    <3>1. g[i] \in 1..Len(ms) /\ r[i] = ms[g[i]]
      BY <2>1, <2>3, <1>7
    <3>2. GivenAt(ms, g[i], c)
      BY <2>3, <3>1 DEF GivenAt
    <3> QED BY <3>1, <3>2 DEF Given
  <2>4. ASSUME NEW i \in 1..Len(ms), GivenAt(ms, i, c) PROVE Given(r, c)
    <3>1. PICK j \in 1..Len(r) : r[j] = ms[i]
      BY <1>10
    <3>2. GivenAt(r, j, c)
      BY <2>4, <3>1 DEF GivenAt
    <3> QED BY <3>2 DEF Given
  <2> QED BY <2>2, <2>3, <2>4 DEF Given
<1>12. Whole(h, r)
  BY <1>11 DEF Paired, Whole
<1>13. \A i \in 1..Len(r) : Mirrors(h, r[i])
  <2> TAKE i \in 1..Len(r)
  <2>1. CASE i = k + 1
    BY <2>1, <1>1, <1>5 DEF Mirrors
  <2>2. CASE i # k + 1
    BY <2>2, <1>7 DEF Paired
  <2> QED BY <2>1, <2>2
<1>14. Ordered(r)
  <2> SUFFICES ASSUME NEW i \in 1..Len(r), NEW j \in 1..Len(r), NEW c \in r[i].uses, GivenAt(r, j, c)
               PROVE  i < j
    BY DEF Ordered
  <2>1. i # k + 1 /\ j # k + 1
    BY <1>1, <1>5 DEF GivenAt
  <2>2. g[i] \in 1..Len(ms) /\ g[j] \in 1..Len(ms) /\ c \in ms[g[i]].uses /\ GivenAt(ms, g[j], c)
    BY <2>1, <1>7 DEF GivenAt
  <2>3. g[i] < g[j]
    BY <2>2 DEF Paired, Ordered
  <2> QED BY <2>1, <2>3, <1>8
<1>15. Joined(h, r)
  <2> SUFFICES ASSUME NEW i \in 1..Len(r), NEW q \in 1..Len(r), i < q, NEW c \in r[i].uses,
                      ~Given(h, c) \/ \E j \in q..Len(r) : GivenAt(r, j, c)
               PROVE  r[q].kind = "result"
    BY DEF Joined, Waits
  <2>1. i # k + 1 /\ i \in Nat /\ q \in Nat
    BY <1>1, <1>5
  <2>2. g[i] \in 1..Len(ms) /\ c \in ms[g[i]].uses
    BY <2>1, <1>7
  <2>3. \A j \in q..Len(r) : GivenAt(r, j, c) =>
          j # k + 1 /\ j \in 1..Len(r) /\ q <= j /\ g[j] \in 1..Len(ms) /\ GivenAt(ms, g[j], c)
    BY <1>1, <1>5, <1>7 DEF GivenAt
  <2>4. CASE q = k + 1
    <3>1. g[i] \in 1..k
      BY <2>4, <1>9
    <3>2. Given(h, c) /\ \A j \in 1..Len(ms) : GivenAt(ms, j, c) => j <= k
      BY <3>1, <2>2 DEF Closed
    <3>3. PICK j \in q..Len(r) : GivenAt(r, j, c)
      BY <3>2
    <3>4. j # k + 1 /\ j \in 1..Len(r) /\ q <= j /\ g[j] <= k
      BY <2>3, <3>2, <3>3
    <3>5. j > k + 1
      BY <3>4, <2>4, <1>2
    <3> QED BY <3>4, <3>5, <1>9
  <2>5. CASE q # k + 1
    <3>1. g[q] \in 1..Len(ms) /\ r[q] = ms[g[q]] /\ g[i] < g[q]
      BY <2>1, <2>5, <1>7, <1>8
    <3>2. CASE ~Given(h, c)
      <4>1. Waits(h, ms, g[i], g[q])
        BY <2>2, <3>2 DEF Waits
      <4> QED BY <4>1, <3>1, <2>2 DEF Paired, Joined
    <3>3. CASE \E j \in q..Len(r) : GivenAt(r, j, c)
      <4>1. PICK j \in q..Len(r) : GivenAt(r, j, c)
        BY <3>3
      <4>2. j # k + 1 /\ j \in 1..Len(r) /\ q <= j /\ g[j] \in 1..Len(ms) /\ GivenAt(ms, g[j], c)
        BY <2>3, <4>1
      <4>3. g[q] <= g[j]
        BY <4>2, <2>5, <1>8
      <4>4. g[j] \in g[q]..Len(ms)
        BY <4>2, <4>3, <3>1
      <4>5. Waits(h, ms, g[i], g[q])
        BY <4>2, <4>4, <2>2 DEF Waits
      <4> QED BY <4>5, <3>1, <2>2 DEF Paired, Joined
    <3> QED BY <3>2, <3>3
  <2> QED BY <2>4, <2>5
<1>16. Paired(h, r)
  BY <1>12, <1>13, <1>14, <1>15 DEF Paired
<1> QED BY <1>16 DEF r

(* the places where maps go are between calls whose results are all there *)
LEMMA AdjustedSeam ==
  ASSUME NEW D, NEW ms \in Seq(D), NEW k \in 0..Len(ms)
  PROVE  \/ k = Len(ms) /\ E!Adjusted(ms, k) = k
         \/ E!Adjusted(ms, k) = 0
         \/ E!Adjusted(ms, k) < Len(ms) /\ ms[E!Adjusted(ms, k) + 1].kind # "result"
<1>1. Len(ms) \in Nat /\ k \in Nat /\ k <= Len(ms)
  OBVIOUS
<1>2. CASE k >= Len(ms)
  BY <1>1, <1>2 DEF E!Adjusted
<1>3. CASE ~(k >= Len(ms))
  <2> DEFINE V == {c \in 0..k : c = 0 \/ ~(E!IsMap(ms[c + 1]) \/ E!IsResult(ms[c + 1]))}
             p == E!MaxOf(V)
  <2>1. E!Adjusted(ms, k) = p
    BY <1>3 DEF E!Adjusted
  <2>2. V \subseteq 0..k /\ V # {}
    BY <1>1
  <2>3. \A c \in V : c = 0 \/ ms[c + 1].kind # "result"
    BY DEF E!IsResult
  <2> HIDE DEF V
  <2>4. p \in V
    BY <1>1, <2>2, MaxOfIs
  <2> HIDE DEF p
  <2>5. p = 0 \/ ms[p + 1].kind # "result"
    BY <2>3, <2>4
  <2>6. p < Len(ms)
    BY <1>1, <1>3, <2>2, <2>4
  <2> QED BY <2>1, <2>5, <2>6
<1> QED BY <1>2, <1>3

LEMMA ActivePointSeam ==
  ASSUME NEW D, NEW ms \in Seq(D)
  PROVE  \/ E!ActivePoint(ms) = 0
         \/ E!ActivePoint(ms) < Len(ms) /\ ms[E!ActivePoint(ms) + 1].kind # "result"
         \/ E!ActivePoint(ms) = Len(ms) /\ ms[Len(ms)].kind = "user"
<1> DEFINE loop == {i \in DOMAIN ms : /\ ms[i].kind \in {"assistant", "result"}
                                      /\ \A j \in i..Len(ms) : ms[j].kind # "user"}
           loopStart == IF loop = {} THEN Len(ms) ELSE E!MinOf(loop) - 1
           d == E!Less(Len(ms), maxDistFromTail)
           x == E!Most(loopStart, d)
           k == IF E!LastUser(ms) > Len(ms) \div 2 THEN E!LastUser(ms) ELSE E!Least(x, Len(ms) - 1)
<1>1. Len(ms) \in Nat /\ DOMAIN ms = 1..Len(ms)
  BY SeqDomain
<1>2. E!ActivePoint(ms) = IF Len(ms) <= 2 THEN 0 ELSE E!Adjusted(ms, k)
  BY Zenon DEF E!ActivePoint
<1>3. /\ E!LastUser(ms) \in 0..Len(ms)
      /\ E!LastUser(ms) # 0 => TurnAt(ms, E!LastUser(ms), ms[E!LastUser(ms)].at)
  BY <1>1, LastUserIs
<1>4. loop \subseteq 1..Len(ms)
  BY <1>1
<1> HIDE DEF loop
<1>5. loopStart \in Nat
  <2>1. CASE loop = {}
    BY <1>1, <2>1
  <2>2. CASE loop # {}
    <3>1. E!MinOf(loop) \in loop
      <4>1. loop \subseteq Nat
        BY <1>4
      <4> QED BY <4>1, <2>2, MinOfIs
    <3>2. loopStart = E!MinOf(loop) - 1
      BY <2>2, Zenon
    <3>3. E!MinOf(loop) \in 1..Len(ms)
      BY <3>1, <1>4, Zenon
    <3> HIDE DEF loopStart
    <3> QED BY <3>2, <3>3, <1>1
  <2> QED BY <2>1, <2>2
<1> HIDE DEF loopStart
<1>6. x \in Nat
  <2>1. d \in Nat
    BY <1>1, EngineConstants DEF E!Less
  <2> HIDE DEF d
  <2> QED BY <1>5, <2>1 DEF E!Most
<1> HIDE DEF x
<1>7. Len(ms) > 2 => k \in 0..Len(ms) /\ (k = Len(ms) => E!LastUser(ms) = Len(ms))
  <2>1. Len(ms) > 2 => E!Least(x, Len(ms) - 1) \in 0..(Len(ms) - 1)
    BY <1>1, <1>6 DEF E!Least
  <2> QED BY <1>1, <1>3, <2>1
<1> HIDE DEF k
<1>8. CASE Len(ms) <= 2
  BY <1>2, <1>8
<1>9. CASE Len(ms) > 2
  <2>1. E!ActivePoint(ms) = E!Adjusted(ms, k)
    BY <1>1, <1>2, <1>9
  <2>2. k = Len(ms) => ms[Len(ms)].kind = "user"
    BY <1>1, <1>3, <1>7, <1>9 DEF TurnAt
  <2> QED BY <2>1, <2>2, <1>7, <1>9, AdjustedSeam
<1> QED BY <1>1, <1>8, <1>9

LEMMA PointsClose ==
  ASSUME NEW n \in Nat, NEW h, Len(h) \in Nat, NEW ms, Conversation(ms, n, Len(h)), Paired(h, ms)
  PROVE  Closed(h, ms, E!ActivePoint(ms)) /\ Closed(h, ms, E!HistoryPoint(ms))
<1>1. ms \in Seq(EMessages(n, Len(h))) /\ Len(ms) \in Nat /\ DOMAIN ms = 1..Len(ms)
  BY SeqDomain DEF Conversation
<1>2. Closed(h, ms, E!ActivePoint(ms))
  <2> DEFINE p == E!ActivePoint(ms)
  <2>1. p \in 0..Len(ms)
    BY <1>1, ActivePointIs
  <2>2. \/ p = 0
        \/ p < Len(ms) /\ ms[p + 1].kind # "result"
        \/ p = Len(ms) /\ ms[p].kind = "user"
    BY <1>1, ActivePointSeam
  <2> HIDE DEF p
  <2>3. Closed(h, ms, p)
    BY <2>1, <2>2, SeamCloses
  <2> QED BY <2>3 DEF p
<1>3. Closed(h, ms, E!HistoryPoint(ms))
  <2> DEFINE actives == {i \in DOMAIN ms : ms[i].kind = "active"}
             p == E!MinOf(actives) - 1
  <2>1. E!HistoryPoint(ms) = IF actives = {} THEN E!ActivePoint(ms) ELSE p
    BY Zenon DEF E!HistoryPoint
  <2>2. CASE actives = {}
    BY <1>2, <2>1, <2>2
  <2>3. CASE actives # {}
    <3>1. E!MinOf(actives) \in actives
      <4>1. actives \subseteq Nat
        BY <1>1
      <4> HIDE DEF actives
      <4> QED BY <4>1, <2>3, MinOfIs
    <3>2. E!MinOf(actives) \in 1..Len(ms) /\ ms[E!MinOf(actives)].kind = "active"
      BY <3>1, <1>1
    <3>3. p \in 0..Len(ms) /\ p < Len(ms) /\ ms[p + 1].kind # "result"
      BY <3>2, <1>1
    <3> HIDE DEF actives, p
    <3>4. Closed(h, ms, p)
      BY <3>3, SeamCloses
    <3> QED BY <3>4, <2>1, <2>3
  <2> QED BY <2>2, <2>3
<1> QED BY <1>2, <1>3

(* maps go in and out *)
LEMMA WithMapPaired ==
  ASSUME NEW n \in Nat, NEW h, Len(h) \in Nat, NEW ms, Conversation(ms, n, Len(h)), Paired(h, ms),
         NEW m \in EMessages(n, Len(h)), m.kind \in MapKinds
  PROVE  Paired(h, E!WithMap(ms, m))
<1> DEFINE k == IF m.kind = "history" THEN E!HistoryPoint(ms) ELSE E!ActivePoint(ms)
<1>1. ms \in Seq(EMessages(n, Len(h)))
  BY DEF Conversation
<1>2. k \in 0..Len(ms) /\ Closed(h, ms, k)
  BY <1>1, HistoryPointIs, ActivePointIs, PointsClose
<1>3. E!WithMap(ms, m) = E!InsertedAt(ms, k, m)
  BY Zenon DEF E!WithMap
<1> HIDE DEF k
<1> QED BY <1>2, <1>3, PairedInserted

LEMMA WithMapsPaired ==
  ASSUME NEW n \in Nat, NEW h, Len(h) \in Nat, NEW ms, Conversation(ms, n, Len(h)), Paired(h, ms),
         KindsOf(ms) \cap MapKinds = {},
         NEW maps, Conversation(maps, n, Len(h)), KindsOf(maps) \subseteq MapKinds
  PROVE  Paired(h, E!WithMaps(ms, maps))
<1> DEFINE one == E!WithMap(ms, maps[1])
           two == E!WithMap(one, maps[2])
<1>1. maps \in Seq(EMessages(n, Len(h))) /\ OneOfEach(maps)
  BY DEF Conversation
<1>2. Len(maps) \in 0..2
  BY <1>1, FewMaps
<1>3. \A i \in 1..Len(maps) : maps[i] \in EMessages(n, Len(h)) /\ maps[i].kind \in MapKinds
  BY <1>1 DEF KindsOf
<1>4. ASSUME Len(maps) >= 1 PROVE Conversation(one, n, Len(h)) /\ Paired(h, one)
  <2>1. maps[1] \in EMessages(n, Len(h)) /\ maps[1].kind \in MapKinds
    BY <1>2, <1>3, <1>4
  <2>2. maps[1].kind \notin KindsOf(ms)
    BY <2>1
  <2> QED BY <2>1, <2>2, WithMapKept, WithMapPaired
<1>5. ASSUME Len(maps) = 2 PROVE Paired(h, two)
  <2>1. maps[2] \in EMessages(n, Len(h)) /\ maps[2].kind \in MapKinds
    BY <1>2, <1>3, <1>5
  <2>2. Conversation(one, n, Len(h)) /\ Paired(h, one)
    BY <1>4, <1>5
  <2> HIDE DEF one
  <2> QED BY <2>1, <2>2, WithMapPaired
<1>6. CASE Len(maps) = 0
  BY <1>2, <1>6, WithMapsIs
<1>7. CASE Len(maps) = 1
  BY <1>2, <1>4, <1>7, WithMapsIs
<1>8. CASE Len(maps) = 2
  BY <1>2, <1>5, <1>8, WithMapsIs
<1> QED BY <1>2, <1>6, <1>7, <1>8

LEMMA MapsOutPaired ==
  ASSUME NEW n \in Nat, NEW h, Len(h) \in Nat, NEW ms, Conversation(ms, n, Len(h)), Paired(h, ms)
  PROVE  /\ Paired(h, E!WithoutMaps(ms))
         /\ \A kind \in MapKinds : Paired(h, E!WithoutKind(ms, kind))
<1>1. DOMAIN ms = 1..Len(ms) /\ \A i \in 1..Len(ms) : ms[i] \in EMessages(n, Len(h))
  BY SeqDomain DEF Conversation
<1>2. \A i \in 1..Len(ms) : ms[i].kind \in MapKinds => ms[i].uses = {} /\ ms[i].kind # "result"
  BY <1>1, MessageFields DEF MapKinds
<1>3. Paired(h, E!WithoutMaps(ms))
  <2> DEFINE rest == {i \in DOMAIN ms : ~E!IsMap(ms[i])}
  <2>1. E!WithoutMaps(ms) = Kept(ms, rest)
    BY Zenon DEF E!WithoutMaps, E!Kept, Kept
  <2>2. \A i \in 1..Len(ms) : i \notin rest => ms[i].uses = {} /\ ms[i].kind # "result"
    BY <1>1, <1>2 DEF E!IsMap, MapKinds
  <2> HIDE DEF rest
  <2>3. Paired(h, Kept(ms, rest))
    BY <2>2, PairedKept
  <2> QED BY <2>1, <2>3
<1>4. ASSUME NEW kind \in MapKinds PROVE Paired(h, E!WithoutKind(ms, kind))
  <2> DEFINE rest == {i \in DOMAIN ms : ms[i].kind # kind}
  <2>1. E!WithoutKind(ms, kind) = Kept(ms, rest)
    BY Zenon DEF E!WithoutKind, E!Kept, Kept
  <2>2. \A i \in 1..Len(ms) : i \notin rest => ms[i].uses = {} /\ ms[i].kind # "result"
    BY <1>1, <1>2
  <2> HIDE DEF rest
  <2>3. Paired(h, Kept(ms, rest))
    BY <2>2, PairedKept
  <2> QED BY <2>1, <2>3
<1> QED BY <1>3, <1>4

LEMMA MapReplacedPaired ==
  ASSUME NEW n \in Nat, NEW h, Len(h) \in Nat, NEW ms, Conversation(ms, n, Len(h)), Paired(h, ms)
  PROVE  Paired(h, E!WithHistoryMap(ms)) /\ Paired(h, E!WithActiveMap(ms))
<1>1. ASSUME NEW kind \in MapKinds PROVE Paired(h, E!WithMap(E!WithoutKind(ms, kind), E!Map(kind)))
  <2> DEFINE rest == E!WithoutKind(ms, kind)
  <2>1. Conversation(rest, n, Len(h)) /\ Paired(h, rest)
    BY WithoutKindIs, MapsOutPaired
  <2> HIDE DEF rest
  <2>2. E!Map(kind) \in EMessages(n, Len(h)) /\ E!Map(kind).kind = kind
    BY MapIs
  <2>3. Paired(h, E!WithMap(rest, E!Map(kind)))
    BY <2>1, <2>2, WithMapPaired
  <2> QED BY <2>3 DEF rest
<1>2. "history" \in MapKinds /\ "active" \in MapKinds
  BY DEF MapKinds
<1> QED BY <1>1, <1>2, Zenon DEF E!WithHistoryMap, E!WithActiveMap

(* what a pass decided earlier is applied to calls and results together *)
LEMMA TextsEdited ==
  ASSUME NEW n \in Nat, NEW l \in Nat, NEW m \in EMessages(n, l), NEW f \in {"whole", "summary", "cut"}, NEW drop
  PROVE  /\ InForm(m, f).text = m.text /\ InForm(m, f).form = f
         /\ LessUses(m, drop).text = m.text /\ LessUses(m, drop).id = m.id
         /\ LessUses(m, drop).uses = m.uses \ drop /\ LessUses(m, drop).form = "cut"
<1> DEFINE A == SUBSET (1..n)
           B == 0..n
           L == 0..l
           F == {"whole", "summary", "cut"}
           v == m.uses \ drop
<1>1. m \in [kind : EKinds, text : BOOLEAN, uses : A, id : B, form : F, at : L] /\ f \in F
  BY DEF EMessages
<1> HIDE DEF A, B, L, F
<1>2. InForm(m, f).text = m.text /\ InForm(m, f).form = f
  BY <1>1 DEF InForm
<1> DEFINE e == [m EXCEPT !.uses = v, !.form = "cut"]
<1> HIDE DEF v
<1>3. e.text = m.text /\ e.id = m.id /\ e.uses = v /\ e.form = "cut"
  BY <1>1
<1>4. LessUses(m, drop) = e
  BY Zenon DEF LessUses, e, v
<1> HIDE DEF e
<1>5. LessUses(m, drop).uses = m.uses \ drop
  BY <1>3, <1>4 DEF v
<1> QED BY <1>2, <1>3, <1>4, <1>5

LEMMA FastEditedKeeps ==
  ASSUME NEW n \in Nat, NEW l \in Nat, NEW m \in EMessages(n, l)
  PROVE  /\ E!FastEdited(m).kind = m.kind /\ E!FastEdited(m).at = m.at
         /\ E!FastEdited(m).text = m.text /\ E!FastEdited(m).id = m.id
         /\ E!FastEdited(m).uses \in {m.uses, m.uses \ deleted}
         /\ E!FastEdited(m).form = "summary" => m.form = "summary" \/ m.kind = "result" \/ ~m.text
         /\ m.text /\ m.form # "summary" /\ m.kind # "result" /\ m.uses \cap deleted # {} =>
              E!FastEdited(m).uses = m.uses \ deleted
<1> DEFINE e == E!FastEdited(m)
<1>1. \/ e = m /\ (m.form = "summary" \/ ~m.text \/ m.uses \cap deleted = {} \/ m.kind = "result")
      \/ e = InForm(m, "summary") /\ (m.kind = "result" \/ ~m.text)
      \/ e = LessUses(m, deleted)
  BY DEF E!FastEdited, E!IsResult, E!OnlyUses, InForm, LessUses
<1> HIDE DEF e
<1>2. CASE e = m /\ (m.form = "summary" \/ ~m.text \/ m.uses \cap deleted = {} \/ m.kind = "result")
  BY <1>2 DEF e
<1>3. CASE e = InForm(m, "summary") /\ (m.kind = "result" \/ ~m.text)
  <2>1. /\ e.kind = m.kind /\ e.at = m.at /\ e.uses = m.uses /\ e.id = m.id
        /\ e.text = m.text /\ e.form = "summary"
    BY <1>3, FormEdited, TextsEdited
  <2> QED BY <1>3, <2>1 DEF e
<1>4. CASE e = LessUses(m, deleted)
  <2>1. /\ e.kind = m.kind /\ e.at = m.at /\ e.text = m.text /\ e.id = m.id
        /\ e.uses = m.uses \ deleted /\ e.form = "cut"
    BY <1>4, UsesEdited, TextsEdited
  <2> QED BY <2>1 DEF e
<1> QED BY <1>1, <1>2, <1>3, <1>4

LEMMA FastPathIs ==
  ASSUME NEW n \in Nat, NEW l \in Nat, NEW ms, Conversation(ms, n, l)
  PROVE  /\ Len(E!FastPath(ms)) \in Nat
         /\ \E g : /\ g \in [1..Len(E!FastPath(ms)) -> 1..Len(ms)]
                   /\ \A i, j \in 1..Len(E!FastPath(ms)) : i < j => g[i] < g[j]
                   /\ \A i \in 1..Len(E!FastPath(ms)) :
                        E!FastPath(ms)[i] = E!FastEdited(ms[g[i]]) /\ ~E!FastDeleted(ms[g[i]])
                   /\ \A k \in 1..Len(ms) : E!FastDeleted(ms[k]) \/ \E i \in 1..Len(E!FastPath(ms)) : g[i] = k
<1> DEFINE keep == DOMAIN ms \ {i \in DOMAIN ms : E!FastDeleted(ms[i])}
           kept == Kept(ms, keep)
           r == [i \in 1..Len(kept) |-> E!FastEdited(kept[i])]
<1>1. ms \in Seq(EMessages(n, l)) /\ DOMAIN ms = 1..Len(ms)
  BY SeqDomain DEF Conversation
<1>2. \A i \in 1..Len(ms) : i \in keep <=> ~E!FastDeleted(ms[i])
  BY <1>1
<1> HIDE DEF keep
<1>3. /\ kept \in Seq(EMessages(n, l))
      /\ \E g : /\ Follows(kept, ms, g)
                /\ \A i \in 1..Len(kept) : kept[i] = ms[g[i]] /\ g[i] \in keep
                /\ \A k \in (1..Len(ms)) \cap keep : \E i \in 1..Len(kept) : g[i] = k
  <2> DEFINE D == EMessages(n, l)
  <2>0. ms \in Seq(D)
    BY <1>1
  <2> HIDE DEF D
  <2>1. /\ kept \in Seq(D)
        /\ \E g : /\ Follows(kept, ms, g)
                  /\ \A i \in 1..Len(kept) : kept[i] = ms[g[i]] /\ g[i] \in keep
                  /\ \A k \in (1..Len(ms)) \cap keep : \E i \in 1..Len(kept) : g[i] = k
    BY <2>0, KeptFollows
  <2> QED BY <2>1, Zenon DEF D
<1>4. kept \in Seq(EMessages(n, l)) /\ DOMAIN kept = 1..Len(kept) /\ Len(kept) \in Nat
  BY <1>3, SeqDomain
<1>5. E!FastPath(ms) = r
  <2>1. E!FastPath(ms) = LET k == E!Without(ms, {i \in DOMAIN ms : E!FastDeleted(ms[i])})
                         IN [i \in DOMAIN k |-> E!FastEdited(k[i])]
    BY Zenon DEF E!FastPath
  <2>2. E!Without(ms, {i \in DOMAIN ms : E!FastDeleted(ms[i])}) = kept
    BY Zenon DEF E!Without, E!Kept, Kept, keep
  <2> HIDE DEF kept
  <2> QED BY <2>1, <2>2, <1>4
<1>6. PICK g : /\ Follows(kept, ms, g)
               /\ \A i \in 1..Len(kept) : kept[i] = ms[g[i]] /\ g[i] \in keep
               /\ \A k \in (1..Len(ms)) \cap keep : \E i \in 1..Len(kept) : g[i] = k
  BY <1>3, Zenon
<1> HIDE DEF kept
<1>7. Len(r) = Len(kept) /\ \A i \in 1..Len(kept) : r[i] = E!FastEdited(kept[i])
  BY <1>4
<1> HIDE DEF r
<1>8. g \in [1..Len(r) -> 1..Len(ms)]
  BY <1>6, <1>7, Zenon DEF Follows
<1>9. \A i, j \in 1..Len(r) : i < j => g[i] < g[j]
  BY <1>6, <1>7, Zenon DEF Follows
<1>10. \A i \in 1..Len(r) : r[i] = E!FastEdited(ms[g[i]]) /\ ~E!FastDeleted(ms[g[i]])
  BY <1>2, <1>6, <1>7, <1>8
<1>11. \A k \in 1..Len(ms) : E!FastDeleted(ms[k]) \/ \E i \in 1..Len(r) : g[i] = k
  BY <1>2, <1>6, <1>7
<1> QED BY <1>4, <1>5, <1>7, <1>8, <1>9, <1>10, <1>11, Zenon

LEMMA FastPathPaired ==
  ASSUME NEW n \in Nat, NEW h, Len(h) \in Nat, NEW ms, Conversation(ms, n, Len(h)), Paired(h, ms),
         Spoken(h), NoneOpen(h), DeletedWhole(h, deleted)
  PROVE  Paired(h, E!FastPath(ms))
<1> DEFINE r == E!FastPath(ms)
<1>1. Len(ms) \in Nat /\ \A i \in 1..Len(ms) : ms[i] \in EMessages(n, Len(h))
  BY SeqDomain DEF Conversation
<1>2. /\ Len(r) \in Nat
      /\ \E g : /\ g \in [1..Len(r) -> 1..Len(ms)]
                /\ \A i, j \in 1..Len(r) : i < j => g[i] < g[j]
                /\ \A i \in 1..Len(r) : r[i] = E!FastEdited(ms[g[i]]) /\ ~E!FastDeleted(ms[g[i]])
                /\ \A k \in 1..Len(ms) : E!FastDeleted(ms[k]) \/ \E i \in 1..Len(r) : g[i] = k
  BY FastPathIs
<1> HIDE DEF r
<1>3. PICK g : /\ g \in [1..Len(r) -> 1..Len(ms)]
               /\ \A i, j \in 1..Len(r) : i < j => g[i] < g[j]
               /\ \A i \in 1..Len(r) : r[i] = E!FastEdited(ms[g[i]]) /\ ~E!FastDeleted(ms[g[i]])
               /\ \A k \in 1..Len(ms) : E!FastDeleted(ms[k]) \/ \E i \in 1..Len(r) : g[i] = k
  BY <1>2, Zenon
<1>4. \A i \in 1..Len(r) : g[i] \in 1..Len(ms)
  BY <1>3
<1>5. \A i \in 1..Len(r) :
        /\ r[i].kind = ms[g[i]].kind /\ r[i].at = ms[g[i]].at
        /\ r[i].text = ms[g[i]].text /\ r[i].id = ms[g[i]].id
        /\ r[i].uses \in {ms[g[i]].uses, ms[g[i]].uses \ deleted}
        /\ r[i].form = "summary" => ms[g[i]].form = "summary" \/ ms[g[i]].kind = "result" \/ ~ms[g[i]].text
        /\ ms[g[i]].text /\ ms[g[i]].form # "summary" /\ ms[g[i]].kind # "result" /\ ms[g[i]].uses \cap deleted # {} =>
             r[i].uses = ms[g[i]].uses \ deleted
  <2> TAKE i \in 1..Len(r)
  <2>1. ms[g[i]] \in EMessages(n, Len(h)) /\ r[i] = E!FastEdited(ms[g[i]])
    BY <1>1, <1>3, <1>4
  <2> QED BY <2>1, FastEditedKeeps
<1>6. \A i \in 1..Len(ms) : ms[i].uses # {} =>
        /\ ms[i].at \in 1..Len(h) /\ ms[i].uses = h[ms[i].at].uses /\ ms[i].kind # "result"
        /\ ms[i].uses \cap deleted = {} \/ ms[i].uses \subseteq deleted
  <2> TAKE i \in 1..Len(ms)
  <2> HAVE ms[i].uses # {}
  <2>1. ms[i].at \in 1..Len(h) /\ ms[i].uses = h[ms[i].at].uses /\ ms[i].kind # "result"
    BY MadeBefore
  <2>2. h[ms[i].at].uses \cap deleted = {} \/ h[ms[i].at].uses \subseteq deleted
    BY <2>1, Zenon DEF DeletedWhole
  <2> QED BY <2>1, <2>2
<1>7. ASSUME NEW i \in 1..Len(r) PROVE Mirrors(h, r[i])
  <2>1. Mirrors(h, ms[g[i]]) /\ ms[g[i]] \in EMessages(n, Len(h)) /\ g[i] \in 1..Len(ms)
    BY <1>1, <1>4 DEF Paired
  <2>2. CASE r[i].at = 0
    BY <1>5, <2>1, <2>2 DEF Mirrors
  <2>3. CASE r[i].at # 0
    <3> DEFINE m == ms[g[i]]
               t == h[m.at]
    <3>0. m.at \in 0..Len(h)
      BY <2>1, MessageFields
    <3>1. m.at \in 1..Len(h) /\ r[i].at = m.at
      BY <3>0, <1>5, <2>3
    <3>2. m.kind = t.kind /\ m.text = t.text /\ m.id = t.id /\ (m.uses = t.uses \/ m.uses = {})
          /\ (m.form = "summary" => ~m.text)
      BY <2>1, <3>1 DEF Mirrors
    <3>3. m.kind = "result" => ~m.text
      BY <3>1, <3>2 DEF Spoken
    <3>4. r[i].form = "summary" => ~r[i].text
      BY <3>2, <3>3, <1>5
    <3>5. r[i].uses = t.uses \/ r[i].uses = {}
      <4>1. CASE m.uses = {}
        BY <4>1, <1>5
      <4>2. CASE m.uses # {}
        <5>1. m.uses = t.uses /\ (m.uses \cap deleted = {} \/ m.uses \subseteq deleted)
          BY <4>2, <1>6, <2>1
        <5>2. m.uses \ deleted \in {m.uses, {}}
          BY <5>1
        <5> QED BY <5>1, <5>2, <1>5
      <4> QED BY <4>1, <4>2
    <3> QED BY <3>1, <3>2, <3>4, <3>5, <1>5, <2>3 DEF Mirrors
  <2> QED BY <2>2, <2>3
<1>8. ASSUME NEW c PROVE Given(r, c) => Made(r, c)
  <2> SUFFICES ASSUME NEW j \in 1..Len(r), GivenAt(r, j, c) PROVE Made(r, c)
    BY DEF Given
  <2>1. GivenAt(ms, g[j], c) /\ g[j] \in 1..Len(ms)
    BY <1>4, <1>5 DEF GivenAt
  <2>2. c \notin deleted
    BY <2>1, <1>3 DEF E!FastDeleted, E!IsResult, GivenAt
  <2>3. PICK i \in 1..Len(ms) : c \in ms[i].uses
    BY <2>1 DEF Paired, Whole, Given, Made
  <2>4. ms[i].uses \cap deleted = {} /\ ms[i].uses # {} /\ ms[i].kind # "result"
    BY <2>2, <2>3, <1>6
  <2>5. ~E!FastDeleted(ms[i])
    BY <2>4 DEF E!FastDeleted, E!IsResult
  <2>6. PICK k \in 1..Len(r) : g[k] = i
    BY <2>5, <1>3
  <2>7. c \in r[k].uses
    BY <2>2, <2>3, <2>6, <1>5
  <2> QED BY <2>7 DEF Made
<1>9. ASSUME NEW c PROVE Made(r, c) => Given(r, c)
  <2> SUFFICES ASSUME NEW i \in 1..Len(r), c \in r[i].uses PROVE Given(r, c)
    BY DEF Made
  <2> DEFINE m == ms[g[i]]
  <2>1. c \in m.uses /\ g[i] \in 1..Len(ms) /\ m \in EMessages(n, Len(h))
    BY <1>1, <1>4, <1>5
  <2>2. m.kind # "result" /\ m.at \in 1..Len(h) /\ (m.uses \cap deleted = {} \/ m.uses \subseteq deleted)
    BY <2>1, <1>6
  <2>3. c \notin deleted
    <3>1. SUFFICES ASSUME c \in deleted PROVE FALSE
      OBVIOUS
    <3>2. m.uses \subseteq deleted /\ m.uses # {} /\ ~E!FastDeleted(m)
      BY <2>1, <2>2, <3>1, <1>3
    <3>3. m.text
      BY <3>2, <2>2, <2>1, MessageFields DEF E!FastDeleted, E!IsResult, E!OnlyUses
    <3>4. m.form # "summary"
      BY <3>3, <2>1, <2>2 DEF Paired, Mirrors
    <3>5. r[i].uses = m.uses \ deleted
      BY <3>1, <3>3, <3>4, <2>1, <2>2, <1>5
    <3> QED BY <3>1, <3>5
  <2>4. Given(h, c) /\ Made(ms, c)
    <3>1. Made(ms, c)
      BY <2>1 DEF Made
    <3> QED BY <3>1, MadeBefore DEF NoneOpen
  <2>5. PICK j \in 1..Len(ms) : GivenAt(ms, j, c)
    BY <2>4 DEF Paired, Whole, Given
  <2>6. ~E!FastDeleted(ms[j])
    BY <2>3, <2>5 DEF E!FastDeleted, E!IsResult, GivenAt
  <2>7. PICK k \in 1..Len(r) : g[k] = j
    BY <2>6, <1>3
  <2>8. GivenAt(r, k, c)
    BY <2>5, <2>7, <1>5 DEF GivenAt
  <2> QED BY <2>8 DEF Given
<1>10. Whole(h, r)
  BY <1>8, <1>9 DEF Whole, NoneOpen
<1>11. /\ \A i \in 1..Len(r) : r[i].kind = ms[g[i]].kind /\ r[i].id = ms[g[i]].id
       /\ \A i \in 1..Len(r) : r[i].uses \subseteq ms[g[i]].uses
  BY <1>5
<1>12. Paired(h, r)
  BY <1>1, <1>2, <1>3, <1>7, <1>10, <1>11, PairedPart
<1> QED BY <1>12 DEF r

(* forms change, nothing else *)
LEMMA FormsPaired ==
  ASSUME NEW n \in Nat, NEW h, Len(h) \in Nat, NEW ms, Conversation(ms, n, Len(h)), Paired(h, ms),
         NEW r, Len(r) = Len(ms),
         \A i \in 1..Len(ms) : r[i].kind = ms[i].kind /\ r[i].id = ms[i].id /\ r[i].uses = ms[i].uses,
         \A i \in 1..Len(ms) : r[i].text = ms[i].text /\ r[i].at = ms[i].at,
         \A i \in 1..Len(ms) : r[i].form = "summary" => ms[i].form = "summary" \/ ~ms[i].text
  PROVE  Paired(h, r)
<1> DEFINE g == [i \in 1..Len(r) |-> i]
<1>1. Len(ms) \in Nat /\ Len(r) \in Nat
  BY SeqDomain DEF Conversation
<1>2. \A i \in 1..Len(r) : g[i] = i
  OBVIOUS
<1>3. g \in [1..Len(r) -> 1..Len(ms)]
  OBVIOUS
<1> HIDE DEF g
<1>4. \A i, j \in 1..Len(r) : i < j => g[i] < g[j]
  BY <1>2
<1>5. /\ \A i \in 1..Len(r) : r[i].kind = ms[g[i]].kind /\ r[i].id = ms[g[i]].id
      /\ \A i \in 1..Len(r) : r[i].uses \subseteq ms[g[i]].uses
  BY <1>2
<1>6. ASSUME NEW i \in 1..Len(r) PROVE Mirrors(h, r[i])
  <2>1. Mirrors(h, ms[i])
    BY DEF Paired
  <2>2. /\ r[i].kind = ms[i].kind /\ r[i].id = ms[i].id /\ r[i].uses = ms[i].uses
        /\ r[i].text = ms[i].text /\ r[i].at = ms[i].at
        /\ r[i].form = "summary" => ms[i].form = "summary" \/ ~ms[i].text
    OBVIOUS
  <2> QED BY <2>1, <2>2 DEF Mirrors
<1>7. \A i \in 1..Len(r) : r[i].uses \subseteq ms[g[i]].uses /\ Mirrors(h, r[i])
  BY <1>5, <1>6
<1>8. \A c : (Made(r, c) <=> Made(ms, c)) /\ (Given(r, c) <=> Given(ms, c))
  BY DEF Made, Given, GivenAt
<1>9. Whole(h, r)
  BY <1>8 DEF Paired, Whole
<1> QED BY <1>1, <1>3, <1>4, <1>5, <1>7, <1>9, PairedPart

(* a result has no text of its own *)
LEMMA ResultsBare ==
  ASSUME NEW n \in Nat, NEW h, Len(h) \in Nat, NEW ms, Conversation(ms, n, Len(h)), Paired(h, ms), Spoken(h)
  PROVE  \A i \in 1..Len(ms) : ms[i].kind = "result" => ~ms[i].text
<1> SUFFICES ASSUME NEW i \in 1..Len(ms), ms[i].kind = "result" PROVE ~ms[i].text
  OBVIOUS
<1>1. ms[i] \in EMessages(n, Len(h))
  BY SeqDomain DEF Conversation
<1>2. ms[i].at \in 0..Len(h)
  BY <1>1, MessageFields
<1>3. ms[i].at # 0 /\ h[ms[i].at].kind = "result" /\ ms[i].text = h[ms[i].at].text
  BY DEF Paired, Mirrors, MapKinds
<1> QED BY <1>2, <1>3 DEF Spoken

LEMMA SummarizedPaired ==
  ASSUME NEW n \in Nat, NEW h, Len(h) \in Nat, NEW ms, Conversation(ms, n, Len(h)), Paired(h, ms), Spoken(h), NEW ids
  PROVE  Paired(h, E!Summarized(ms, ids))
<1> DEFINE Edited(m) == IF \/ E!IsResult(m) /\ m.id \in ids
                           \/ E!OnlyUses(m) /\ m.uses \subseteq ids
                        THEN InForm(m, "summary")
                        ELSE IF m.uses \cap ids # {} /\ m.form = "whole" THEN InForm(m, "cut") ELSE m
           r == [i \in 1..Len(ms) |-> Edited(ms[i])]
<1>1. Len(ms) \in Nat /\ DOMAIN ms = 1..Len(ms) /\ \A i \in 1..Len(ms) : ms[i] \in EMessages(n, Len(h))
  BY SeqDomain DEF Conversation
<1>2. E!Summarized(ms, ids) = r
  BY <1>1, Zenon DEF E!Summarized, InForm
<1>3. \A m \in EMessages(n, Len(h)) :
        /\ Edited(m).kind = m.kind /\ Edited(m).at = m.at /\ Edited(m).id = m.id
        /\ Edited(m).uses = m.uses /\ Edited(m).text = m.text
        /\ Edited(m).form = "summary" => m.form = "summary" \/ m.kind = "result" \/ ~m.text
  <2> TAKE m \in EMessages(n, Len(h))
  <2>1. \A f \in {"summary", "cut"} :
          /\ InForm(m, f).kind = m.kind /\ InForm(m, f).at = m.at /\ InForm(m, f).id = m.id
          /\ InForm(m, f).uses = m.uses /\ InForm(m, f).text = m.text /\ InForm(m, f).form = f
    BY FormEdited, TextsEdited
  <2> QED BY <2>1 DEF E!IsResult, E!OnlyUses
<1> HIDE DEF Edited
<1>4. Len(r) = Len(ms) /\ \A i \in 1..Len(ms) : r[i] = Edited(ms[i])
  BY <1>1
<1> HIDE DEF r
<1>5. \A i \in 1..Len(ms) :
        /\ r[i].kind = ms[i].kind /\ r[i].at = ms[i].at /\ r[i].id = ms[i].id
        /\ r[i].uses = ms[i].uses /\ r[i].text = ms[i].text
        /\ r[i].form = "summary" => ms[i].form = "summary" \/ ms[i].kind = "result" \/ ~ms[i].text
  BY <1>1, <1>3, <1>4
<1>6. \A i \in 1..Len(ms) : r[i].form = "summary" => ms[i].form = "summary" \/ ~ms[i].text
  BY <1>5, ResultsBare
<1>7. Paired(h, r)
  BY <1>4, <1>5, <1>6, FormsPaired
<1> QED BY <1>2, <1>7

(* a cut from the head *)
LEMMA FirstOnes ==
  ASSUME NEW D, NEW ms \in Seq(D), NEW k \in 0..Len(ms)
  PROVE  DOMAIN SubSeq(ms, 1, k) = 1..k /\ \A i \in 1..k : SubSeq(ms, 1, k)[i] = ms[i]
OBVIOUS

LEMMA IdOfIs ==
  ASSUME NEW n \in Nat, NEW l \in Nat, NEW m \in EMessages(n, l)
  PROVE  /\ m.kind = "result" => E!IdOf(m) = {m.id}
         /\ m.kind # "result" => E!IdOf(m) \subseteq m.uses
<1>1. m.kind = "result" => E!IdOf(m) = {m.id}
  BY DEF E!IdOf, E!IsResult
<1>2. ASSUME m.kind # "result", m.uses # {} PROVE E!IdOf(m) \subseteq m.uses
  <2>1. m.uses \subseteq Nat
    BY MessageFields
  <2>2. E!MinOf(m.uses) \in m.uses
    BY <1>2, <2>1, MinOfIs
  <2> QED BY <1>2, <2>2 DEF E!IdOf, E!IsResult
<1>3. m.kind # "result" /\ m.uses = {} => E!IdOf(m) \subseteq m.uses
  BY DEF E!IdOf, E!IsResult
<1> QED BY <1>1, <1>2, <1>3

LEMMA CutPaired ==
  ASSUME NEW n \in Nat, NEW h, Len(h) \in Nat, NEW ms, Conversation(ms, n, Len(h)), Paired(h, ms), Spoken(h),
         NEW k \in 0..Len(ms), Closed(h, ms, k), NEW d, DeletedWhole(h, d)
  PROVE  /\ Paired(h, E!From(ms, k))
         /\ DeletedWhole(h, d \cup E!IdsOf(SubSeq(ms, 1, k)))
         /\ DeletedWhole(h, d \cup E!TailIds(SubSeq(ms, 1, k)))
<1>1. Len(ms) \in Nat /\ \A i \in 1..k : i \in 1..Len(ms) /\ ms[i] \in EMessages(n, Len(h))
  BY SeqDomain DEF Conversation
<1> DEFINE gone == SubSeq(ms, 1, k)
<1>2. DOMAIN gone = 1..k /\ \A i \in 1..k : gone[i] = ms[i]
  <2> DEFINE D == EMessages(n, Len(h))
  <2>1. ms \in Seq(D)
    BY DEF Conversation
  <2> HIDE DEF D
  <2> QED BY <2>1, FirstOnes
<1> HIDE DEF gone
<1>3. \A i \in 1..k : /\ ms[i].kind = "result" => E!IdOf(ms[i]) = {ms[i].id}
                      /\ ms[i].kind # "result" => E!IdOf(ms[i]) \subseteq ms[i].uses
  BY <1>1, IdOfIs
<1>4. \A i \in 1..k : ms[i].kind = "result" => ~ms[i].text
  BY <1>1, ResultsBare
<1>5. /\ \A c : c \in E!IdsOf(gone) <=> \E i \in 1..k : c \in E!IdOf(ms[i])
      /\ \A c : c \in E!TailIds(gone) <=> \E i \in 1..k : ~ms[i].text /\ c \in E!IdOf(ms[i])
  BY <1>2 DEF E!IdsOf, E!TailIds
<1>6. \A i \in 1..k : \A c \in E!IdOf(ms[i]) : GivenAt(ms, i, c) \/ c \in ms[i].uses
  BY <1>3 DEF GivenAt
<1>7. DeletedWhole(h, d \cup E!IdsOf(gone))
  <2> DEFINE ids == E!IdsOf(gone)
  <2>1. \A j \in 1..k : ms[j].kind = "result" => ms[j].id \in ids
    BY <1>3, <1>5
  <2>2. \A c \in ids : \E i \in 1..k : GivenAt(ms, i, c) \/ c \in ms[i].uses
    BY <1>5, <1>6
  <2> HIDE DEF ids
  <2>3. DeletedWhole(h, d \cup ids)
    BY <2>1, <2>2, GoneWhole
  <2> QED BY <2>3 DEF ids
<1>8. DeletedWhole(h, d \cup E!TailIds(gone))
  <2> DEFINE ids == E!TailIds(gone)
  <2>1. \A j \in 1..k : ms[j].kind = "result" => ms[j].id \in ids
    BY <1>3, <1>4, <1>5
  <2>2. \A c \in ids : \E i \in 1..k : GivenAt(ms, i, c) \/ c \in ms[i].uses
    BY <1>5, <1>6
  <2> HIDE DEF ids
  <2>3. DeletedWhole(h, d \cup ids)
    BY <2>1, <2>2, GoneWhole
  <2> QED BY <2>3 DEF ids
<1> QED BY <1>7, <1>8, PairedFrom DEF gone

(* the cut of the aggressive level ends before a message that is no result, or with the last *)
LEMMA BeyondSeam ==
  ASSUME NEW D, NEW ms \in Seq(D), NEW k \in 0..Len(ms)
  PROVE  E!BeyondResults(ms, k) = Len(ms) \/ ms[E!BeyondResults(ms, k) + 1].kind # "result"
<1> DEFINE V == {c \in k..Len(ms) : c = Len(ms) \/ ~E!IsResult(ms[c + 1])}
<1>1. Len(ms) \in Nat /\ k \in Nat /\ k <= Len(ms)
  OBVIOUS
<1>2. E!BeyondResults(ms, k) = E!MinOf(V)
  BY DEF E!BeyondResults
<1>3. V \subseteq k..Len(ms) /\ Len(ms) \in V
  BY <1>1
<1>4. \A c \in V : c = Len(ms) \/ ms[c + 1].kind # "result"
  BY DEF E!IsResult
<1> HIDE DEF V
<1>5. E!MinOf(V) \in V
  <2>1. V \subseteq Nat /\ V # {}
    BY <1>1, <1>3
  <2> QED BY <2>1, MinOfIs
<1> QED BY <1>2, <1>4, <1>5

LEMMA DeleteSeam ==
  ASSUME NEW D, NEW ms \in Seq(D), NEW k \in 0..Len(ms)
  PROVE  E!DeleteCount(ms, k) = Len(ms) \/ ms[E!DeleteCount(ms, k) + 1].kind # "result"
<1> DEFINE b == E!BeyondResults(ms, k)
           x == E!LastUser(ms)
<1>1. b \in k..Len(ms) /\ Len(ms) \in Nat /\ k \in Nat
  BY BeyondResultsIs, SeqDomain
<1>2. b = Len(ms) \/ ms[b + 1].kind # "result"
  BY BeyondSeam
<1>3. x \in 0..Len(ms) /\ (x # 0 => ms[x].kind = "user")
  BY SeqDomain, LastUserIs DEF TurnAt
<1>4. E!DeleteCount(ms, k) = IF x = 0 THEN b ELSE IF b < x - 1 THEN b ELSE x - 1
  BY DEF E!DeleteCount, E!CappedForUser, E!Least
<1> HIDE DEF b, x
<1>5. CASE E!DeleteCount(ms, k) = b
  BY <1>2, <1>5
<1>6. CASE x # 0 /\ E!DeleteCount(ms, k) = x - 1
  <2>1. (x - 1) + 1 = x
    BY <1>3
  <2> QED BY <1>3, <1>6, <2>1
<1> QED BY <1>4, <1>5, <1>6

(* a group of the tail: a call's message and its results go together *)
LEMMA OneMaker ==
  ASSUME NEW n \in Nat, NEW h, Len(h) \in Nat, NEW ms, Conversation(ms, n, Len(h)), Paired(h, ms), Spoken(h),
         NEW i \in 1..Len(ms), NEW j \in 1..Len(ms), NEW c, c \in ms[i].uses, c \in ms[j].uses
  PROVE  i = j
<1>1. /\ ms[i].at \in 1..Len(h) /\ ms[i].uses = h[ms[i].at].uses
      /\ ms[j].at \in 1..Len(h) /\ ms[j].uses = h[ms[j].at].uses
  BY MadeBefore
<1>2. ms[i].at = ms[j].at
  BY <1>1 DEF Spoken
<1>3. ~(i < j) /\ ~(j < i)
  BY <1>1, <1>2 DEF Conversation, InOrder
<1> QED BY <1>3

LEMMA CallGroupPaired ==
  ASSUME NEW n \in Nat, NEW h, Len(h) \in Nat, NEW ms, Conversation(ms, n, Len(h)), Paired(h, ms), Spoken(h),
         NEW i \in 1..Len(ms), ms[i].uses # {}, \A c \in ms[i].uses : Given(h, c),
         NEW keep, \A k \in 1..Len(ms) : k \notin keep <=>
                     k = i \/ (i < k /\ ms[k].kind = "result" /\ ms[k].id \in ms[i].uses)
  PROVE  Paired(h, Kept(ms, keep))
<1> DEFINE r == Kept(ms, keep)
           D == EMessages(n, Len(h))
<1>1. ms \in Seq(D) /\ Len(ms) \in Nat
  BY SeqDomain DEF Conversation
<1>2. \A k \in 1..Len(ms) : ms[k].uses # {} => ms[k].kind # "result"
  BY MadeBefore
<1> HIDE DEF D
<1>3. r \in Seq(D)
  BY <1>1, KeptFollows
<1>4. PICK g : /\ Follows(r, ms, g)
               /\ \A k \in 1..Len(r) : r[k] = ms[g[k]] /\ g[k] \in keep
               /\ \A k \in (1..Len(ms)) \cap keep : \E q \in 1..Len(r) : g[q] = k
  BY <1>1, KeptFollows
<1> HIDE DEF r
<1>5. Len(r) \in Nat /\ g \in [1..Len(r) -> 1..Len(ms)]
  BY <1>3, <1>4, SeqDomain DEF Follows
<1>6. \A k, q \in 1..Len(r) : k < q => g[k] < g[q]
  BY <1>4, Zenon DEF Follows
<1>7. /\ \A k \in 1..Len(r) : g[k] \in 1..Len(ms) /\ r[k] = ms[g[k]] /\ g[k] \in keep
      /\ \A k \in 1..Len(ms) : k \in keep => \E q \in 1..Len(r) : r[q] = ms[k]
  <2>1. \A k \in 1..Len(r) : g[k] \in 1..Len(ms) /\ r[k] = ms[g[k]] /\ g[k] \in keep
    BY <1>4, <1>5
  <2>2. ASSUME NEW k \in 1..Len(ms), k \in keep PROVE \E q \in 1..Len(r) : r[q] = ms[k]
    <3>1. PICK q \in 1..Len(r) : g[q] = k
      BY <1>4, <2>2
    <3> QED BY <3>1, <2>1
  <2> QED BY <2>1, <2>2
<1>8. ASSUME NEW c PROVE Given(r, c) => Made(r, c)
  <2> SUFFICES ASSUME NEW q \in 1..Len(r), GivenAt(r, q, c) PROVE Made(r, c)
    BY DEF Given
  <2> DEFINE j == g[q]
  <2>1. j \in 1..Len(ms) /\ GivenAt(ms, j, c) /\ j \in keep
    BY <1>7 DEF GivenAt
  <2> HIDE DEF j
  <2>2. PICK k \in 1..Len(ms) : c \in ms[k].uses
    BY <2>1 DEF Paired, Whole, Given, Made
  <2>3. k < j
    BY <2>1, <2>2 DEF Paired, Ordered
  <2>4. k # i
    BY <2>1, <2>2, <2>3 DEF GivenAt
  <2>5. k \in keep
    BY <2>2, <2>4, <1>2
  <2>6. PICK p \in 1..Len(r) : r[p] = ms[k]
    BY <2>5, <1>7
  <2> QED BY <2>2, <2>6 DEF Made
<1>9. ASSUME NEW c PROVE Made(r, c) /\ Given(h, c) => Given(r, c)
  <2> SUFFICES ASSUME NEW q \in 1..Len(r), c \in r[q].uses, Given(h, c) PROVE Given(r, c)
    BY DEF Made
  <2> DEFINE k == g[q]
  <2>1. k \in 1..Len(ms) /\ c \in ms[k].uses /\ k \in keep
    BY <1>7
  <2> HIDE DEF k
  <2>2. PICK j \in 1..Len(ms) : GivenAt(ms, j, c)
    BY <2>1 DEF Paired, Whole, Given, Made
  <2>3. k # i
    BY <2>1
  <2>4. c \notin ms[i].uses
    BY <2>1, <2>3, OneMaker
  <2>5. ms[i].kind # "result"
    BY <1>2
  <2>6. j \in keep
    BY <2>2, <2>4, <2>5 DEF GivenAt
  <2>7. PICK p \in 1..Len(r) : r[p] = ms[j]
    BY <2>6, <1>7
  <2>8. GivenAt(r, p, c)
    BY <2>2, <2>7 DEF GivenAt
  <2> QED BY <2>8 DEF Given
<1>10. ASSUME NEW c PROVE Made(h, c) /\ ~Given(h, c) => Made(r, c)
  <2> SUFFICES ASSUME Made(h, c), ~Given(h, c) PROVE Made(r, c)
    OBVIOUS
  <2>1. PICK k \in 1..Len(ms) : c \in ms[k].uses
    BY DEF Paired, Whole, Made
  <2>2. k # i
    BY <2>1
  <2>3. k \in keep
    BY <2>1, <2>2, <1>2
  <2>4. PICK p \in 1..Len(r) : r[p] = ms[k]
    BY <2>3, <1>7
  <2> QED BY <2>1, <2>4 DEF Made
<1>11. Whole(h, r)
  BY <1>8, <1>9, <1>10 DEF Whole
<1>12. \A k \in 1..Len(r) : r[k].uses \subseteq ms[g[k]].uses /\ Mirrors(h, r[k])
  BY <1>7 DEF Paired
<1>13. \A k \in 1..Len(r) : r[k].kind = ms[g[k]].kind /\ r[k].id = ms[g[k]].id
  BY <1>7
<1>14. Paired(h, r)
  BY <1>1, <1>5, <1>6, <1>11, <1>12, <1>13, PairedPart
<1> QED BY <1>14 DEF r

LEMMA GroupPaired ==
  ASSUME NEW n \in Nat, NEW h, Len(h) \in Nat, NEW ms, Conversation(ms, n, Len(h)), Paired(h, ms), Spoken(h),
         E!LastUser(ms) = 1, NEW group \in E!Groups(ms), NEW ids,
         \A c : c \in ids <=> \E i \in group : c \in ms[i].uses \/ GivenAt(ms, i, c),
         \A c \in ids : Given(h, c), NEW d, DeletedWhole(h, d)
  PROVE  Paired(h, Kept(ms, DOMAIN ms \ group)) /\ DeletedWhole(h, d \cup ids)
<1> DEFINE keep == DOMAIN ms \ group
           paired == {E!GroupOf(ms, i) : i \in {j \in 2..Len(ms) : ms[j].uses # {}}}
           single == {i \in 2..(Len(ms) - 1) : ms[i].kind # "user"} \ UNION paired
<1>1. Len(ms) \in Nat /\ DOMAIN ms = 1..Len(ms) /\ \A i \in 1..Len(ms) : ms[i] \in EMessages(n, Len(h))
  BY SeqDomain DEF Conversation
<1>2. E!Groups(ms) = paired \cup {{i} : i \in single}
  BY Zenon DEF E!Groups
<1>3. CASE group \in paired
  <2>1. PICK i \in 2..Len(ms) : ms[i].uses # {} /\ group = E!GroupOf(ms, i)
    BY <1>3
  <2> HIDE DEF paired, single
  <2>2. i \in 1..Len(ms) /\ \A k \in group : k \in 1..Len(ms)
    BY <2>1, <1>1 DEF E!GroupOf
  <2>3. \A k \in 1..Len(ms) : k \in group <=>
          k = i \/ (i < k /\ ms[k].kind = "result" /\ ms[k].id \in ms[i].uses)
    BY <2>1, <2>2, <1>1 DEF E!GroupOf, E!IsResult
  <2>4. \A k \in 1..Len(ms) : k \notin keep <=>
          k = i \/ (i < k /\ ms[k].kind = "result" /\ ms[k].id \in ms[i].uses)
    BY <2>3, <1>1
  <2>5. \A c : c \in ids => c \in ms[i].uses
    <3> SUFFICES ASSUME NEW k \in group, NEW c, c \in ms[k].uses \/ GivenAt(ms, k, c) PROVE c \in ms[i].uses
      OBVIOUS
    <3>1. k = i \/ (ms[k].kind = "result" /\ ms[k].id \in ms[i].uses)
      BY <2>2, <2>3
    <3>2. ms[i].kind # "result" /\ (ms[k].kind = "result" => ms[k].uses = {})
      BY <2>1, <2>2, <1>1, MessageFields
    <3> QED BY <3>1, <3>2 DEF GivenAt
  <2>6. \A c : c \in ms[i].uses => c \in ids
    BY <2>2, <2>3
  <2>7. Paired(h, Kept(ms, keep))
    <3>1. \A c \in ms[i].uses : Given(h, c)
      BY <2>6
    <3> HIDE DEF keep
    <3> QED BY <3>1, <2>1, <2>2, <2>4, CallGroupPaired
  <2>8. ms[i].at \in 1..Len(h) /\ ms[i].uses = h[ms[i].at].uses
    BY <2>1, <2>2, MadeBefore
  <2>9. \A a \in 1..Len(h) : h[a].uses \cap ids # {} => h[a].uses \subseteq ids
    BY <2>5, <2>6, <2>8 DEF Spoken
  <2>10. DeletedWhole(h, d \cup ids)
    <3>1. \A c \in d \cup ids : Given(h, c)
      BY DEF DeletedWhole
    <3>2. \A a \in 1..Len(h) : h[a].uses \cap d = {} \/ h[a].uses \subseteq d
      BY DEF DeletedWhole
    <3>3. \A a \in 1..Len(h) : h[a].uses \cap (d \cup ids) = {} \/ h[a].uses \subseteq d \cup ids
      BY <3>2, <2>9
    <3> QED BY <3>1, <3>3 DEF DeletedWhole
  <2> QED BY <2>7, <2>10
<1>4. CASE \E i \in single : group = {i}
  <2>1. PICK i \in single : group = {i}
    BY <1>4
  <2>2. i \in 2..(Len(ms) - 1) /\ i \in 1..Len(ms) /\ \A f \in paired : i \notin f
    BY <2>1, <1>1
  <2>3. ms[i].uses = {}
    <3>1. i \in E!GroupOf(ms, i)
      BY DEF E!GroupOf
    <3> QED BY <3>1, <2>2
  <2>4. ms[1].kind = "user"
    BY <1>1, LastUserIs DEF TurnAt
  <2>5. ms[i].kind # "result"
    <3> SUFFICES ASSUME ms[i].kind = "result" PROVE FALSE
      OBVIOUS
    <3> DEFINE c == ms[i].id
    <3>1. GivenAt(ms, i, c)
      BY DEF GivenAt
    <3>2. PICK k \in 1..Len(ms) : c \in ms[k].uses
      BY <2>2, <3>1 DEF Paired, Whole, Given, Made
    <3>3. k < i
      BY <2>2, <3>1, <3>2 DEF Paired, Ordered
    <3>4. k # 1
      BY <2>4, <3>2, <1>1, MessageFields
    <3>5. k \in 2..Len(ms) /\ i \in (k + 1)..Len(ms)
      BY <2>2, <3>3, <3>4, <1>1
    <3>6. i \in E!GroupOf(ms, k)
      BY <3>2, <3>5 DEF E!GroupOf, E!IsResult
    <3>7. E!GroupOf(ms, k) \in paired
      BY <3>2, <3>5
    <3> QED BY <3>6, <3>7, <2>2
  <2>6. \A k \in 1..Len(ms) : k \notin keep => ms[k].uses = {} /\ ms[k].kind # "result"
    BY <2>1, <2>3, <2>5, <1>1
  <2>7. Paired(h, Kept(ms, keep))
    <3> HIDE DEF keep
    <3> QED BY <2>6, PairedKept
  <2>8. ids = {}
    BY <2>1, <2>3, <2>5 DEF GivenAt
  <2>9. d \cup ids = d
    BY <2>8
  <2> QED BY <2>7, <2>9
<1>5. group \in paired \/ \E i \in single : group = {i}
  <2> HIDE DEF paired, single
  <2> QED BY <1>2
<1> QED BY <1>3, <1>4, <1>5

(* the host says one more: a question or an answer when no call is open, calls, or a result *)
Says(n, h, m) ==
  /\ m \in EMessages(n, Len(h) + 1) /\ m.at = Len(h) + 1 /\ m.form = "whole" /\ m.kind \notin MapKinds
  /\ m.kind # "result" => NoneOpen(h)
  /\ m.kind = "result" => Made(h, m.id) /\ ~Given(h, m.id) /\ ~m.text
  /\ \A c \in m.uses : ~Made(h, c)

LEMMA OneMore ==
  ASSUME NEW D, NEW ms \in Seq(D), NEW m
  PROVE  /\ \A c : Made(Append(ms, m), c) <=> Made(ms, c) \/ c \in m.uses
         /\ \A c : Given(Append(ms, m), c) <=> Given(ms, c) \/ (m.kind = "result" /\ m.id = c)
         /\ Len(ms) \in Nat /\ Len(Append(ms, m)) = Len(ms) + 1
         /\ \A i \in 1..Len(ms) : Append(ms, m)[i] = ms[i]
         /\ Append(ms, m)[Len(ms) + 1] = m
<1> DEFINE r == Append(ms, m)
<1>1. Len(ms) \in Nat /\ Len(r) = Len(ms) + 1 /\ r[Len(ms) + 1] = m /\ \A i \in 1..Len(ms) : r[i] = ms[i]
  OBVIOUS
<1> HIDE DEF r
<1>2. /\ \A i \in 1..Len(r) : i \in 1..Len(ms) \/ i = Len(ms) + 1
      /\ \A i \in 1..Len(ms) : i \in 1..Len(r)
      /\ Len(ms) + 1 \in 1..Len(r)
  BY <1>1
<1>3. ASSUME NEW c PROVE Made(r, c) <=> Made(ms, c) \/ c \in m.uses
  BY <1>1, <1>2 DEF Made
<1>4. ASSUME NEW c PROVE Given(r, c) <=> Given(ms, c) \/ (m.kind = "result" /\ m.id = c)
  <2>1. Given(r, c) => Given(ms, c) \/ (m.kind = "result" /\ m.id = c)
    BY <1>1, <1>2 DEF Given, GivenAt
  <2>2. ASSUME NEW i \in 1..Len(ms), GivenAt(ms, i, c) PROVE Given(r, c)
    <3>1. i \in 1..Len(r) /\ GivenAt(r, i, c)
      BY <2>2, <1>1, <1>2 DEF GivenAt
    <3> QED BY <3>1 DEF Given
  <2>3. ASSUME m.kind = "result", m.id = c PROVE Given(r, c)
    <3>1. GivenAt(r, Len(ms) + 1, c)
      BY <2>3, <1>1 DEF GivenAt
    <3> QED BY <3>1, <1>2 DEF Given
  <2> QED BY <2>1, <2>2, <2>3 DEF Given
<1> QED BY <1>1, <1>3, <1>4 DEF r

LEMMA SaidPaired ==
  ASSUME NEW n \in Nat, NEW nb \in Nat, NEW h, Transcript(h, n), Spoken(h),
         NEW ms, Conversation(ms, n, Len(h)), Paired(h, ms), NEW m, Says(nb, h, m)
  PROVE  Paired(Append(h, m), Append(ms, m))
<1> DEFINE a == Append(h, m)
           r == Append(ms, m)
           l == Len(ms) + 1
<1>1. /\ \A c : Made(a, c) <=> Made(h, c) \/ c \in m.uses
      /\ \A c : Given(a, c) <=> Given(h, c) \/ (m.kind = "result" /\ m.id = c)
      /\ Len(h) \in Nat /\ Len(a) = Len(h) + 1
      /\ \A i \in 1..Len(h) : a[i] = h[i]
      /\ a[Len(h) + 1] = m
  <2> DEFINE D == EMessages(n, Len(h))
  <2>1. h \in Seq(D)
    BY DEF Transcript
  <2> HIDE DEF D
  <2> QED BY <2>1, OneMore
<1>2. /\ \A c : Made(r, c) <=> Made(ms, c) \/ c \in m.uses
      /\ \A c : Given(r, c) <=> Given(ms, c) \/ (m.kind = "result" /\ m.id = c)
      /\ Len(ms) \in Nat /\ Len(r) = l
      /\ \A i \in 1..Len(ms) : r[i] = ms[i]
      /\ r[l] = m
  <2> DEFINE D == EMessages(n, Len(h))
  <2>1. ms \in Seq(D)
    BY DEF Conversation
  <2> HIDE DEF D
  <2> QED BY <2>1, OneMore
<1> HIDE DEF a, r
<1>3. \A i \in 1..Len(r) : i \in 1..Len(ms) \/ i = l
  BY <1>2
<1>4. /\ m.kind = "result" => m.uses = {}
      /\ m.at = Len(h) + 1 /\ m.at # 0 /\ m.form = "whole"
      /\ m.kind # "result" => NoneOpen(h)
      /\ m.kind = "result" => Made(h, m.id) /\ ~Given(h, m.id) /\ ~m.text
      /\ \A c \in m.uses : ~Made(h, c)
  <2>1. Len(h) + 1 \in Nat /\ m \in EMessages(nb, Len(h) + 1)
    BY <1>1 DEF Says
  <2>2. m.kind = "result" => m.uses = {}
    BY <2>1, MessageFields
  <2> QED BY <2>1, <2>2, <1>1 DEF Says
<1>5. \A c : Made(ms, c) => Made(h, c)
  BY <1>1, MadeBefore
<1>6. \A c : Given(h, c) => Made(h, c)
  BY DEF Spoken, Paired, Whole
<1>7. ASSUME NEW i \in 1..Len(r) PROVE Mirrors(a, r[i])
  <2>1. CASE i = l
    BY <2>1, <1>1, <1>2, <1>4 DEF Mirrors
  <2>2. CASE i \in 1..Len(ms)
    <3>1. ms[i] \in EMessages(n, Len(h)) /\ Mirrors(h, ms[i])
      BY <2>2, SeqDomain DEF Conversation, Paired
    <3>2. ms[i].at \in 0..Len(h)
      BY <3>1, <1>1, MessageFields
    <3>3. ms[i].at # 0 => a[ms[i].at] = h[ms[i].at]
      BY <3>2, <1>1
    <3> QED BY <3>1, <3>3, <2>2, <1>2 DEF Mirrors
  <2> QED BY <2>1, <2>2, <1>3
<1>8. Ordered(r)
  <2> SUFFICES ASSUME NEW i \in 1..Len(r), NEW j \in 1..Len(r), NEW c \in r[i].uses, GivenAt(r, j, c)
               PROVE  i < j
    BY DEF Ordered
  <2>1. CASE i \in 1..Len(ms) /\ j \in 1..Len(ms)
    <3>1. c \in ms[i].uses /\ GivenAt(ms, j, c)
      BY <2>1, <1>2 DEF GivenAt
    <3> QED BY <3>1, <2>1 DEF Paired, Ordered
  <2>2. CASE i \in 1..Len(ms) /\ j = l
    BY <2>2, <1>2
  <2>3. CASE i = l /\ j \in 1..Len(ms)
    <3>1. c \in m.uses /\ GivenAt(ms, j, c)
      BY <2>3, <1>2 DEF GivenAt
    <3>2. Made(ms, c)
      BY <3>1, <2>3 DEF Paired, Whole, Given
    <3> QED BY <3>1, <3>2, <1>4, <1>5
  <2>4. CASE i = l /\ j = l
    BY <2>4, <1>2, <1>4 DEF GivenAt
  <2> QED BY <2>1, <2>2, <2>3, <2>4, <1>3
<1>9. Joined(a, r)
  <2> SUFFICES ASSUME NEW i \in 1..Len(r), NEW k \in 1..Len(r), i < k, NEW c \in r[i].uses,
                      ~Given(a, c) \/ \E j \in k..Len(r) : GivenAt(r, j, c)
               PROVE  r[k].kind = "result"
    BY DEF Joined, Waits
  <2>1. i \in 1..Len(ms) /\ c \in ms[i].uses
    BY <1>2, <1>3
  <2>2. Made(h, c)
    BY <2>1, <1>5 DEF Made
  <2>3. CASE k = l
    <3>1. CASE ~Given(a, c)
      BY <3>1, <2>2, <2>3, <1>1, <1>2, <1>4 DEF NoneOpen
    <3>2. CASE \E j \in k..Len(r) : GivenAt(r, j, c)
      <4>1. PICK j \in k..Len(r) : GivenAt(r, j, c)
        BY <3>2
      <4>2. j = k
        BY <2>3, <1>2
      <4> QED BY <4>1, <4>2 DEF GivenAt
    <3> QED BY <3>1, <3>2
  <2>4. CASE k \in 1..Len(ms)
    <3>1. Waits(h, ms, i, k)
      <4>1. CASE ~Given(a, c)
        BY <4>1, <2>1, <1>1 DEF Waits
      <4>2. CASE \E j \in k..Len(r) : GivenAt(r, j, c)
        <5>1. PICK j \in k..Len(r) : GivenAt(r, j, c)
          BY <4>2
        <5>2. CASE j = l
          <6>1. ~Given(h, c)
            BY <5>1, <5>2, <1>2, <1>4 DEF GivenAt
          <6> QED BY <6>1, <2>1 DEF Waits
        <5>3. CASE j \in k..Len(ms)
          <6>1. GivenAt(ms, j, c)
            BY <5>1, <5>3, <2>4, <1>2 DEF GivenAt
          <6> QED BY <6>1, <5>3, <2>1 DEF Waits
        <5> QED BY <5>2, <5>3, <2>4, <1>2
      <4> QED BY <4>1, <4>2
    <3>2. ms[k].kind = "result"
      BY <3>1, <2>1, <2>4 DEF Paired, Joined
    <3> QED BY <3>2, <2>4, <1>2
  <2> QED BY <2>3, <2>4, <1>3
<1>10. ASSUME NEW c
       PROVE  /\ Given(r, c) => Made(r, c)
              /\ Made(r, c) /\ Given(a, c) => Given(r, c)
              /\ Made(a, c) /\ ~Given(a, c) => Made(r, c)
  <2>1. /\ Given(ms, c) => Made(ms, c)
        /\ Made(ms, c) /\ Given(h, c) => Given(ms, c)
        /\ Made(h, c) /\ ~Given(h, c) => Made(ms, c)
    BY DEF Paired, Whole
  <2> QED BY <2>1, <1>1, <1>2, <1>4, <1>6
<1>11. Whole(a, r)
  BY <1>10 DEF Whole
<1>12. Paired(a, r)
  BY <1>7, <1>8, <1>9, <1>11 DEF Paired
<1> QED BY <1>12 DEF a, r

LEMMA SaidSpoken ==
  ASSUME NEW n \in Nat, NEW nb \in Nat, NEW h, Transcript(h, n), Spoken(h), NEW m, Says(nb, h, m)
  PROVE  /\ Spoken(Append(h, m))
         /\ \A d : DeletedWhole(h, d) => DeletedWhole(Append(h, m), d)
<1> DEFINE a == Append(h, m)
<1>1. Paired(a, a)
  <2>1. Conversation(h, n, Len(h)) /\ Paired(h, h)
    BY TranscriptIs DEF Spoken
  <2> QED BY <2>1, SaidPaired
<1>2. /\ \A c : Given(a, c) <=> Given(h, c) \/ (m.kind = "result" /\ m.id = c)
      /\ Len(h) \in Nat /\ Len(a) = Len(h) + 1
      /\ \A i \in 1..Len(h) : a[i] = h[i]
      /\ a[Len(h) + 1] = m
  <2> DEFINE D == EMessages(n, Len(h))
  <2>1. h \in Seq(D)
    BY DEF Transcript
  <2> HIDE DEF D
  <2> QED BY <2>1, OneMore
<1> HIDE DEF a
<1>3. \A i \in 1..Len(a) : i \in 1..Len(h) \/ i = Len(h) + 1
  BY <1>2
<1>4. (\A c \in m.uses : ~Made(h, c)) /\ (m.kind = "result" => ~m.text)
  BY DEF Says
<1>5. \A i \in 1..Len(h) : \A c \in h[i].uses : Made(h, c)
  BY DEF Made
<1>6. ASSUME NEW i \in 1..Len(a), NEW j \in 1..Len(a), NEW c, c \in a[i].uses, c \in a[j].uses PROVE i = j
  <2>1. CASE i \in 1..Len(h) /\ j \in 1..Len(h)
    BY <2>1, <1>2, <1>6 DEF Spoken
  <2>2. CASE i = Len(h) + 1 /\ j \in 1..Len(h)
    BY <2>2, <1>2, <1>4, <1>5, <1>6
  <2>3. CASE i \in 1..Len(h) /\ j = Len(h) + 1
    BY <2>3, <1>2, <1>4, <1>5, <1>6
  <2> QED BY <2>1, <2>2, <2>3, <1>3
<1>7. \A i \in 1..Len(a) : a[i].kind = "result" => ~a[i].text
  <2> TAKE i \in 1..Len(a)
  <2>1. CASE i \in 1..Len(h)
    BY <2>1, <1>2 DEF Spoken
  <2>2. CASE i = Len(h) + 1
    BY <2>2, <1>2, <1>4
  <2> QED BY <2>1, <2>2, <1>3
<1>8. Spoken(a)
  BY <1>1, <1>6, <1>7 DEF Spoken
<1>9. ASSUME NEW d, DeletedWhole(h, d) PROVE DeletedWhole(a, d)
  <2>1. \A c \in d : Given(h, c) /\ Made(h, c)
    BY <1>9 DEF DeletedWhole, Spoken, Paired, Whole
  <2>2. \A i \in 1..Len(a) : a[i].uses \cap d = {} \/ a[i].uses \subseteq d
    <3> TAKE i \in 1..Len(a)
    <3>1. CASE i \in 1..Len(h)
      BY <3>1, <1>2, <1>9 DEF DeletedWhole
    <3>2. CASE i = Len(h) + 1
      BY <3>2, <2>1, <1>2, <1>4
    <3> QED BY <3>1, <3>2, <1>3
  <2> QED BY <2>1, <2>2, <1>2 DEF DeletedWhole
<1> QED BY <1>8, <1>9 DEF a

(* the steps of the plugin *)
LEMMA HeldIs ==
  ASSUME EngineInv, PairHeld
  PROVE  /\ calls \in Nat /\ Len(history) \in Nat /\ Transcript(history, calls)
         /\ Conversation(history, calls, Len(history)) /\ Conversation(work, calls, Len(history))
         /\ Spoken(history) /\ Paired(history, history)
         /\ "pair" \notin harm => Paired(history, work) /\ DeletedWhole(history, deleted)
BY EngineNumbers, TranscriptIs DEF EngineInv, EngineMessages, PairHeld, Spoken

LEMMA OpenCalls ==
  ASSUME EngineInv
  PROVE  /\ \A c : c \in E!Outstanding <=> Made(history, c) /\ ~Given(history, c)
         /\ E!Outstanding = {} => NoneOpen(history)
<1> DEFINE D == EMessages(calls, Len(history))
<1>1. history \in Seq(D)
  BY DEF EngineInv, EngineMessages, Transcript
<1> HIDE DEF D
<1>2. \A c : (c \in E!UsesOf(history) <=> Made(history, c)) /\ (c \in E!ResultsOf(history) <=> Given(history, c))
  BY <1>1, MadeAndGiven
<1>3. \A c : c \in E!Outstanding <=> Made(history, c) /\ ~Given(history, c)
  BY <1>2 DEF E!Outstanding
<1> QED BY <1>3 DEF NoneOpen

LEMMA PassHeld ==
  ASSUME PairHeld, UNCHANGED history,
         "pair" \notin harm' => Paired(history, work') /\ DeletedWhole(history, deleted')
  PROVE  PairHeld'
BY DEF PairHeld

LEMMA SaidHeld ==
  ASSUME EngineInv, PairHeld, NEW nb \in Nat, NEW m, E!Said(m), Says(nb, history, m)
  PROVE  PairHeld'
<1>1. history' = Append(history, m) /\ work' = Append(work, m) /\ deleted' = deleted /\ harm' = harm
  BY DEF E!Said
<1>2. Spoken(history') /\ (DeletedWhole(history, deleted) => DeletedWhole(history', deleted'))
  BY <1>1, HeldIs, SaidSpoken
<1>3. Paired(history, work) => Paired(history', work')
  BY <1>1, HeldIs, SaidPaired
<1> QED BY <1>1, <1>2, <1>3, HeldIs DEF PairHeld

LEMMA HostHeld ==
  ASSUME EngineInv, PairHeld
  PROVE  /\ E!Ask => PairHeld'
         /\ E!Answer => PairHeld'
         /\ \A n \in 1..2, text \in BOOLEAN : E!UseTools(n, text) => PairHeld'
         /\ \A c \in 1..EngineCalls, worth \in BOOLEAN : E!ResultArrives(c, worth) => PairHeld'
<1> DEFINE l == Len(history) + 1
<1>1. calls \in Nat /\ l \in Nat /\ l \in 0..l
  BY HeldIs
<1>2. \A c : Made(history, c) => c \in 1..calls
  <2>1. \A i \in 1..Len(history) : history[i] \in EMessages(calls, Len(history))
    BY HeldIs, SeqDomain DEF Conversation
  <2>2. \A i \in 1..Len(history) : history[i].uses \subseteq 1..calls
    BY <2>1, HeldIs, MessageFields
  <2> QED BY <2>2 DEF Made
<1>3. ASSUME E!Ask PROVE PairHeld'
  <2> DEFINE m == E!Question(l)
  <2>1. E!Said(m) /\ NoneOpen(history)
    BY <1>3, OpenCalls DEF E!Ask, E!Place
  <2>2. m \in EMessages(calls, l) /\ m.kind = "user" /\ m.at = l /\ m.form = "whole" /\ m.uses = {}
    BY <1>1 DEF E!Question, E!Message, EMessages, EKinds, MapKinds
  <2> HIDE DEF m
  <2>3. Says(calls, history, m)
    BY <2>1, <2>2 DEF Says, MapKinds
  <2> QED BY <2>1, <2>3, <1>1, SaidHeld
<1>4. ASSUME E!Answer PROVE PairHeld'
  <2> DEFINE m == E!Message("assistant", TRUE, {}, 0, l)
  <2>1. E!Said(m) /\ NoneOpen(history)
    BY <1>4, OpenCalls DEF E!Answer, E!Place
  <2>2. m \in EMessages(calls, l) /\ m.kind = "assistant" /\ m.at = l /\ m.form = "whole" /\ m.uses = {}
    BY <1>1 DEF E!Message, EMessages, EKinds, MapKinds
  <2> HIDE DEF m
  <2>3. Says(calls, history, m)
    BY <2>1, <2>2 DEF Says, MapKinds
  <2> QED BY <2>1, <2>3, <1>1, SaidHeld
<1>5. ASSUME NEW n \in 1..2, NEW text \in BOOLEAN, E!UseTools(n, text) PROVE PairHeld'
  <2> DEFINE m == E!Message("assistant", text, (calls + 1)..(calls + n), 0, l)
  <2>1. E!Said(m) /\ NoneOpen(history)
    BY <1>5, OpenCalls DEF E!UseTools, E!Place
  <2>2. calls + n \in Nat /\ (calls + 1)..(calls + n) \subseteq 1..(calls + n)
        /\ \A c \in (calls + 1)..(calls + n) : c \notin 1..calls
    BY <1>1
  <2>3. m \in EMessages(calls + n, l) /\ m.kind = "assistant" /\ m.at = l /\ m.form = "whole"
        /\ m.uses = (calls + 1)..(calls + n)
    BY <2>2, <1>1 DEF E!Message, EMessages, EKinds, MapKinds
  <2> HIDE DEF m
  <2>4. Says(calls + n, history, m)
    BY <2>1, <2>2, <2>3, <1>2 DEF Says, MapKinds
  <2> QED BY <2>1, <2>2, <2>4, SaidHeld
<1>6. ASSUME NEW c \in 1..EngineCalls, NEW worth \in BOOLEAN, E!ResultArrives(c, worth) PROVE PairHeld'
  <2> DEFINE m == E!Message("result", FALSE, {}, c, l)
  <2>1. E!Said(m) /\ Made(history, c) /\ ~Given(history, c)
    BY <1>6, OpenCalls DEF E!ResultArrives, E!Place
  <2>2. c \in 1..calls
    BY <2>1, <1>2
  <2>3. m \in EMessages(calls, l) /\ m.kind = "result" /\ m.at = l /\ m.form = "whole" /\ m.uses = {}
        /\ m.id = c /\ ~m.text
    BY <2>2, <1>1 DEF E!Message, EMessages, EKinds, MapKinds
  <2> HIDE DEF m
  <2>4. Says(calls, history, m)
    BY <2>1, <2>3 DEF Says, MapKinds
  <2> QED BY <2>1, <2>4, <1>1, SaidHeld
<1> QED BY <1>3, <1>4, <1>5, <1>6

LEMMA ReplayPaired ==
  ASSUME EngineInv, PairHeld
  PROVE  Paired(history, E!Replayed)
<1> DEFINE k == boundary.at - 1
           c == E!BeyondResults(history, k)
<1>1. calls \in Nat /\ Len(history) \in Nat /\ Paired(history, history)
      /\ Conversation(history, calls, Len(history)) /\ boundary.at \in 0..Len(history)
  BY HeldIs, EngineNumbers
<1>2. \/ E!Replayed = history
      \/ E!BoundaryApplies /\ c < Len(history) /\ E!Replayed = E!From(history, c)
  BY Zenon DEF E!Replayed
<1>3. CASE E!Replayed = history
  BY <1>1, <1>3
<1>4. CASE E!BoundaryApplies /\ c < Len(history) /\ E!Replayed = E!From(history, c)
  <2>1. k \in 0..Len(history)
    BY <1>1, <1>4 DEF E!BoundaryApplies
  <2> HIDE DEF k
  <2>2. history \in Seq(EMessages(calls, Len(history)))
    BY <1>1 DEF Conversation
  <2>3. c \in k..Len(history) /\ (c = Len(history) \/ history[c + 1].kind # "result")
    BY <2>1, <2>2, BeyondResultsIs, BeyondSeam
  <2> HIDE DEF c
  <2>4. c \in 0..Len(history) /\ c < Len(history) /\ history[c + 1].kind # "result"
    BY <2>1, <2>3, <1>1, <1>4
  <2>5. Closed(history, history, c)
    BY <2>4, <1>1, SeamCloses
  <2>6. Paired(history, E!From(history, c))
    BY <2>4, <2>5, <1>1, PairedFrom
  <2> QED BY <2>6, <1>4
<1> QED BY <1>2, <1>3, <1>4

LEMMA BeginHeld ==
  ASSUME EngineInv, PairHeld
  PROVE  /\ \A prompted \in BOOLEAN : E!Assemble(prompted) => PairHeld'
         /\ E!BeforePromptBuild => PairHeld'
         /\ \A map \in BOOLEAN : E!AfterToolCall(map) => PairHeld'
<1>1. /\ calls \in Nat /\ Len(history) \in Nat /\ Conversation(work, calls, Len(history)) /\ Spoken(history)
      /\ Conversation(history, calls, Len(history)) /\ Paired(history, history)
      /\ "pair" \notin harm => Paired(history, work) /\ DeletedWhole(history, deleted)
      /\ Conversation(E!Replayed, calls, Len(history))
  BY HeldIs, ReplayedIs
<1>2. ASSUME NEW prompted \in BOOLEAN, E!Assemble(prompted) PROVE PairHeld'
  <2> DEFINE replay == IF prompted THEN E!Replayed ELSE history
  <2>1. /\ UNCHANGED <<history, deleted, harm>>
        /\ work' = E!FastPath(replay) /\ E!Outstanding = {}
    BY <1>2 DEF E!Assemble, E!Begin, E!host
  <2>2. Conversation(replay, calls, Len(history)) /\ Paired(history, replay)
    BY <1>1, ReplayPaired
  <2> HIDE DEF replay
  <2>3. "pair" \notin harm => Paired(history, work')
    BY <2>1, <2>2, <1>1, OpenCalls, FastPathPaired
  <2> QED BY <2>1, <2>3, <1>1, PassHeld
<1>3. ASSUME E!BeforePromptBuild PROVE PairHeld'
  <2>1. /\ UNCHANGED <<history, deleted, harm>>
        /\ work' = E!FastPath(work) /\ E!Outstanding = {}
    BY <1>3 DEF E!BeforePromptBuild, E!Begin, E!host
  <2>2. "pair" \notin harm => Paired(history, work')
    BY <2>1, <1>1, OpenCalls, FastPathPaired
  <2> QED BY <2>1, <2>2, <1>1, PassHeld
<1>4. ASSUME NEW map \in BOOLEAN, E!AfterToolCall(map) PROVE PairHeld'
  <2>1. /\ UNCHANGED <<history, deleted, harm>>
        /\ work' = work \/ work' = E!WithMap(work, E!Map("active"))
    BY <1>4 DEF E!AfterToolCall, E!Begin, E!host
  <2>2. "active" \in MapKinds
    BY DEF MapKinds
  <2>3. E!Map("active") \in EMessages(calls, Len(history)) /\ E!Map("active").kind \in MapKinds
    BY <1>1, <2>2, MapIs
  <2>4. "pair" \notin harm => Paired(history, work')
    BY <2>1, <2>3, <1>1, WithMapPaired
  <2> QED BY <2>1, <2>4, <1>1, PassHeld
<1> QED BY <1>2, <1>3, <1>4

LEMMA AggressiveHeld ==
  ASSUME EngineInv, PairHeld, NEW k \in 1..MaxMessages, NEW known \in BOOLEAN, E!Aggressive(k, known)
  PROVE  PairHeld'
<1> DEFINE rest == E!WithoutMaps(work)
           maps == E!Maps(work)
           c == E!DeleteCount(rest, k)
           gone == SubSeq(rest, 1, c)
           after == E!WithMaps(E!From(rest, c), maps)
           l == Len(history)
<1>1. /\ UNCHANGED history
      /\ k \in 1..E!Less(Len(rest), AGGRESSIVE_MIN_KEEP)
      /\ work' = after \/ work' = E!WithHistoryMap(after)
      /\ deleted' = deleted \cup E!IdsOf(gone)
      /\ "pair" \notin harm' => "pair" \notin harm /\ E!UsesOf(gone) \cap E!Outstanding = {}
  BY DEF E!Aggressive, E!host, E!Decide
<1> SUFFICES ASSUME "pair" \notin harm'
             PROVE  Paired(history, work') /\ DeletedWhole(history, deleted')
  BY <1>1, PassHeld
<1>2. /\ calls \in Nat /\ l \in Nat /\ Conversation(work, calls, l)
      /\ Spoken(history) /\ Paired(history, work) /\ DeletedWhole(history, deleted)
  BY <1>1, HeldIs
<1>3. /\ Conversation(maps, calls, l) /\ KindsOf(maps) \subseteq MapKinds
      /\ Conversation(rest, calls, l) /\ KindsOf(rest) \cap MapKinds = {}
      /\ Paired(history, rest)
  BY <1>2, MapsApart, MapsOutPaired
<1> HIDE DEF rest, maps
<1>4. rest \in Seq(EMessages(calls, l)) /\ Len(rest) \in Nat
  BY <1>3, SeqDomain DEF Conversation
<1>5. k \in 0..Len(rest)
  BY <1>1, <1>4, EngineConstants DEF E!Less
<1>6. c \in 0..Len(rest) /\ (c = Len(rest) \/ rest[c + 1].kind # "result")
  BY <1>4, <1>5, DeleteCountIs, DeleteSeam
<1> HIDE DEF c
<1>7. c = Len(rest) => NoneOpen(history)
  <2> SUFFICES ASSUME c = Len(rest), NEW x, Made(history, x), ~Given(history, x) PROVE FALSE
    BY DEF NoneOpen
  <2>1. x \in E!Outstanding
    BY OpenCalls
  <2>2. PICK i \in 1..Len(rest) : x \in rest[i].uses
    BY <1>3 DEF Paired, Whole, Made
  <2>3. DOMAIN gone = 1..c /\ gone[i] = rest[i]
    <3> DEFINE D == EMessages(calls, l)
    <3>1. rest \in Seq(D) /\ i \in 1..c
      BY <1>4
    <3> HIDE DEF D
    <3> QED BY <3>1, <1>6, FirstOnes
  <2>4. x \in E!UsesOf(gone)
    BY <2>2, <2>3 DEF E!UsesOf
  <2> QED BY <2>1, <2>4, <1>1
<1>8. Closed(history, rest, c)
  <2>1. \/ c < Len(rest) /\ rest[c + 1].kind # "result"
        \/ c = Len(rest) /\ NoneOpen(history)
    BY <1>4, <1>6, <1>7
  <2> QED BY <2>1, <1>2, <1>3, <1>6, SeamCloses
<1>9. Paired(history, E!From(rest, c)) /\ DeletedWhole(history, deleted')
  BY <1>1, <1>2, <1>3, <1>6, <1>8, CutPaired
<1>10. Conversation(E!From(rest, c), calls, l)
  BY <1>2, <1>3, <1>6, FromConversation
<1>11. KindsOf(E!From(rest, c)) \cap MapKinds = {}
  <2>1. \A i \in 1..Len(E!From(rest, c)) : i + c \in 1..Len(rest) /\ E!From(rest, c)[i] = rest[i + c]
    BY <1>4, <1>6, FromFacts
  <2> QED BY <2>1, <1>3 DEF KindsOf
<1>12. Conversation(after, calls, l) /\ Paired(history, after)
  BY <1>2, <1>3, <1>9, <1>10, <1>11, WithMapsKept, WithMapsPaired
<1> HIDE DEF after
<1>13. Paired(history, work')
  BY <1>1, <1>2, <1>12, MapReplacedPaired
<1> QED BY <1>9, <1>13

LEMMA StalledHeld ==
  ASSUME EngineInv, PairHeld, NEW forced \in BOOLEAN, E!Stalled(forced)
  PROVE  PairHeld'
<1> DEFINE rest == E!WithoutMaps(work)
           maps == E!Maps(work)
           l == Len(history)
<1>1. UNCHANGED <<history, deleted, harm>> /\ work' = E!WithMaps(rest, maps)
  BY DEF E!Stalled, E!host
<1> SUFFICES ASSUME "pair" \notin harm PROVE Paired(history, work') /\ DeletedWhole(history, deleted)
  BY <1>1, PassHeld
<1>2. /\ calls \in Nat /\ l \in Nat /\ Conversation(work, calls, l)
      /\ Paired(history, work) /\ DeletedWhole(history, deleted)
  BY HeldIs
<1>3. /\ Conversation(maps, calls, l) /\ KindsOf(maps) \subseteq MapKinds
      /\ Conversation(rest, calls, l) /\ KindsOf(rest) \cap MapKinds = {}
      /\ Paired(history, rest)
  BY <1>2, MapsApart, MapsOutPaired
<1> HIDE DEF rest, maps
<1> QED BY <1>1, <1>2, <1>3, WithMapsPaired

LEMMA TailAccumulateHeld ==
  ASSUME EngineInv, PairHeld, NEW n \in 0..MaxMessages, E!TailAccumulate(n)
  PROVE  PairHeld'
<1> DEFINE c == E!KeptFrom(work, n)
           l == Len(history)
<1>1. /\ UNCHANGED history
      /\ c \in 1..(Len(work) - 1) /\ work' = E!From(work, c)
      /\ deleted' = deleted \cup E!TailIds(SubSeq(work, 1, c))
      /\ "pair" \notin harm' => "pair" \notin harm /\ work[c + 1].kind # "result"
  BY DEF E!TailAccumulate, E!host, E!Decide, E!IsResult
<1> HIDE DEF c
<1> SUFFICES ASSUME "pair" \notin harm'
             PROVE  Paired(history, work') /\ DeletedWhole(history, deleted')
  BY <1>1, PassHeld
<1>2. /\ calls \in Nat /\ l \in Nat /\ Conversation(work, calls, l) /\ Len(work) \in Nat
      /\ Spoken(history) /\ Paired(history, work) /\ DeletedWhole(history, deleted)
  BY <1>1, HeldIs, EngineNumbers
<1>3. c \in 0..Len(work) /\ c < Len(work)
  BY <1>1, <1>2
<1>4. Closed(history, work, c)
  BY <1>1, <1>2, <1>3, SeamCloses
<1> QED BY <1>1, <1>2, <1>3, <1>4, CutPaired

LEMMA HeadDeleteHeld ==
  ASSUME EngineInv, PairHeld, NEW k \in 1..MaxMessages, E!HeadDelete(k)
  PROVE  PairHeld'
<1> DEFINE c == E!HeadCount(work, k)
           l == Len(history)
<1>1. /\ UNCHANGED history
      /\ Len(work) > AGGRESSIVE_MIN_KEEP /\ k <= Len(work) - AGGRESSIVE_MIN_KEEP
      /\ work' = E!From(work, c)
      /\ deleted' = deleted \cup E!IdsOf(SubSeq(work, 1, c))
      /\ "pair" \notin harm' => "pair" \notin harm /\ work[c + 1].kind # "result"
  BY DEF E!HeadDelete, E!CanDelete, E!host, E!Decide, E!IsResult
<1> SUFFICES ASSUME "pair" \notin harm'
             PROVE  Paired(history, work') /\ DeletedWhole(history, deleted')
  BY <1>1, PassHeld
<1>2. /\ calls \in Nat /\ l \in Nat /\ Conversation(work, calls, l) /\ Len(work) \in Nat
      /\ work \in Seq(EMessages(calls, l)) /\ k \in 0..Len(work)
      /\ Spoken(history) /\ Paired(history, work) /\ DeletedWhole(history, deleted)
  BY <1>1, HeldIs, EngineNumbers, EngineConstants
<1>3. c \in 0..(Len(work) - AGGRESSIVE_MIN_KEEP) /\ c \in 0..Len(work)
  BY <1>1, <1>2, HeadCountIs
<1> HIDE DEF c
<1>4. c < Len(work)
  BY <1>2, <1>3, EngineConstants
<1>5. Closed(history, work, c)
  BY <1>1, <1>2, <1>3, <1>4, SeamCloses
<1> QED BY <1>1, <1>2, <1>3, <1>5, CutPaired

LEMMA TailDeleteHeld ==
  ASSUME EngineInv, PairHeld, NEW group \in E!Groups(work), E!TailDelete(group)
  PROVE  PairHeld'
<1> DEFINE ids == UNION {work[i].uses \cup (IF E!IsResult(work[i]) THEN {work[i].id} ELSE {}) : i \in group}
           l == Len(history)
<1>1. /\ UNCHANGED history
      /\ E!LastUser(work) = 1 /\ work' = Kept(work, DOMAIN work \ group)
      /\ deleted' = deleted \cup ids
      /\ "pair" \notin harm' => "pair" \notin harm /\ ids \subseteq E!ResultsOf(history)
  BY DEF E!TailDelete, E!Blocked, E!Without, E!Kept, Kept, E!host, E!Decide
<1> SUFFICES ASSUME "pair" \notin harm'
             PROVE  Paired(history, work') /\ DeletedWhole(history, deleted')
  BY <1>1, PassHeld
<1>2. /\ calls \in Nat /\ l \in Nat /\ Conversation(work, calls, l)
      /\ Spoken(history) /\ Paired(history, work) /\ DeletedWhole(history, deleted)
  BY <1>1, HeldIs
<1>3. \A c : c \in ids <=> \E i \in group : c \in work[i].uses \/ GivenAt(work, i, c)
  BY DEF GivenAt, E!IsResult
<1> HIDE DEF ids
<1>4. \A c \in ids : Given(history, c)
  <2> DEFINE D == EMessages(calls, l)
  <2>1. history \in Seq(D)
    BY HeldIs DEF Conversation
  <2> HIDE DEF D
  <2>2. \A c : c \in E!ResultsOf(history) <=> Given(history, c)
    BY <2>1, MadeAndGiven
  <2> QED BY <2>2, <1>1
<1>5. Paired(history, Kept(work, DOMAIN work \ group)) /\ DeletedWhole(history, deleted \cup ids)
  BY <1>1, <1>2, <1>3, <1>4, GroupPaired
<1> QED BY <1>1, <1>5

LEMMA TruncateHeld ==
  ASSUME EngineInv, PairHeld, NEW i \in 1..MaxMessages, E!Truncate(i)
  PROVE  PairHeld'
<1> DEFINE f == IF work[i].form = "summary" THEN work[i].form ELSE "cut"
           m == InForm(work[i], f)
           l == Len(history)
<1>1. /\ UNCHANGED history /\ i \in 2..Len(work)
      /\ work' = [work EXCEPT ![i].form = IF @ = "summary" THEN @ ELSE "cut"]
      /\ deleted' = deleted \cup E!IdOf(work[i])
      /\ "pair" \notin harm' => "pair" \notin harm /\ E!IdOf(work[i]) = {}
  BY DEF E!Truncate, E!host, E!Decide
<1> SUFFICES ASSUME "pair" \notin harm'
             PROVE  Paired(history, work') /\ DeletedWhole(history, deleted')
  BY <1>1, PassHeld
<1>2. /\ calls \in Nat /\ l \in Nat /\ Conversation(work, calls, l) /\ Len(work) \in Nat
      /\ DOMAIN work = 1..Len(work) /\ work \in Seq(EMessages(calls, l))
      /\ Paired(history, work) /\ DeletedWhole(history, deleted)
  BY <1>1, HeldIs, EngineNumbers
<1>3. i \in 1..Len(work) /\ work[i] \in EMessages(calls, l)
  BY <1>1, <1>2
<1>4. f \in {"whole", "summary", "cut"} /\ (f = "summary" => work[i].form = "summary")
  OBVIOUS
<1>5. work' = [work EXCEPT ![i] = m]
  BY <1>1, Zenon DEF InForm
<1> HIDE DEF f
<1>6. /\ m \in EMessages(calls, l) /\ m.kind = work[i].kind /\ m.at = work[i].at /\ m.id = work[i].id
      /\ m.uses = work[i].uses /\ m.text = work[i].text /\ m.form = f
  BY <1>2, <1>3, <1>4, FormEdited, TextsEdited
<1> HIDE DEF m
<1>7. Len(work') = Len(work) /\ \A j \in 1..Len(work) : work'[j] = IF j = i THEN m ELSE work[j]
  <2> DEFINE D == EMessages(calls, l)
             r == [work EXCEPT ![i] = m]
  <2>1. work \in Seq(D) /\ m \in D
    BY <1>2, <1>6
  <2> HIDE DEF D
  <2>2. Len(r) = Len(work) /\ \A j \in 1..Len(work) : r[j] = IF j = i THEN m ELSE work[j]
    BY <2>1, <1>3
  <2> QED BY <2>2, <1>5
<1>8. \A j \in 1..Len(work) :
        /\ work'[j].kind = work[j].kind /\ work'[j].id = work[j].id /\ work'[j].uses = work[j].uses
        /\ work'[j].text = work[j].text /\ work'[j].at = work[j].at
        /\ work'[j].form = "summary" => work[j].form = "summary" \/ ~work[j].text
  BY <1>4, <1>6, <1>7
<1>9. Paired(history, work')
  BY <1>2, <1>7, <1>8, FormsPaired
<1>10. deleted' = deleted
  BY <1>1
<1> QED BY <1>2, <1>9, <1>10

LEMMA OtherHeld ==
  ASSUME EngineInv, PairHeld
  PROVE  /\ \A ids \in SUBSET (1..EngineCalls) : E!Mild(ids) => PairHeld'
         /\ \A next \in {"mild", "idle"} : E!BelowThreshold(next) => PairHeld'
         /\ E!NoEmergency => PairHeld'
         /\ E!Emergency \/ E!CompactItself => PairHeld'
         /\ E!EmergencyEnds => PairHeld'
         /\ \A map \in {"active", "none", "wait"} : E!InjectMap(map) => PairHeld'
<1>1. /\ calls \in Nat /\ Len(history) \in Nat /\ Conversation(work, calls, Len(history)) /\ Spoken(history)
      /\ "pair" \notin harm => Paired(history, work) /\ DeletedWhole(history, deleted)
  BY HeldIs
<1>2. ASSUME NEW ids \in SUBSET (1..EngineCalls), E!Mild(ids) PROVE PairHeld'
  <2>1. UNCHANGED <<history, deleted, harm>> /\ work' = E!Summarized(work, ids)
    BY <1>2 DEF E!Mild, E!host
  <2>2. "pair" \notin harm => Paired(history, work')
    BY <2>1, <1>1, SummarizedPaired
  <2> QED BY <2>1, <2>2, <1>1, PassHeld
<1>3. ASSUME UNCHANGED <<history, deleted, harm, work>> PROVE PairHeld'
  BY <1>1, <1>3, PassHeld
<1>4. \A next \in {"mild", "idle"} : E!BelowThreshold(next) => PairHeld'
  BY <1>3 DEF E!BelowThreshold, E!host
<1>5. E!NoEmergency => PairHeld'
  BY <1>3 DEF E!NoEmergency, E!host
<1>6. ASSUME E!Emergency \/ E!CompactItself PROVE PairHeld'
  <2>1. UNCHANGED <<history, deleted, harm>> /\ work' = E!WithoutMaps(work)
    BY <1>6 DEF E!Emergency, E!CompactItself, E!TakesAside, E!host
  <2>2. "pair" \notin harm => Paired(history, work')
    BY <2>1, <1>1, MapsOutPaired
  <2> QED BY <2>1, <2>2, <1>1, PassHeld
<1>7. ASSUME E!EmergencyEnds PROVE PairHeld'
  <2>1. UNCHANGED <<history, deleted, harm>> /\ work' = E!WithMaps(work, aside) /\ phase = "deleting"
    BY <1>7 DEF E!EmergencyEnds, E!host
  <2>2. /\ KindsOf(work) \cap MapKinds = {}
        /\ Conversation(aside, calls, Len(history)) /\ KindsOf(aside) \subseteq MapKinds
    BY <2>1 DEF EngineInv, EngineMessages
  <2>3. "pair" \notin harm => Paired(history, work')
    BY <2>1, <2>2, <1>1, WithMapsPaired
  <2> QED BY <2>1, <2>3, <1>1, PassHeld
<1>8. ASSUME NEW map \in {"active", "none", "wait"}, E!InjectMap(map) PROVE PairHeld'
  <2>1. /\ UNCHANGED <<history, deleted, harm>>
        /\ work' \in {work, E!WithActiveMap(work), E!WithoutKind(work, "active")}
    BY <1>8 DEF E!InjectMap, E!host
  <2>2. "active" \in MapKinds
    BY DEF MapKinds
  <2>3. "pair" \notin harm => Paired(history, work')
    BY <2>1, <2>2, <1>1, MapReplacedPaired, MapsOutPaired
  <2> QED BY <2>1, <2>3, <1>1, PassHeld
<1> QED BY <1>2, <1>4, <1>5, <1>6, <1>7, <1>8

LEMMA PairStep ==
  ASSUME EngineInv, PairHeld, E!Next
  PROVE  PairHeld'
<1>1. CASE E!Ask \/ E!Answer \/ (\E n \in 1..2, text \in BOOLEAN : E!UseTools(n, text))
           \/ (\E c \in 1..EngineCalls, worth \in BOOLEAN : E!ResultArrives(c, worth))
  BY <1>1, HostHeld
<1>2. CASE \/ \E prompted \in BOOLEAN : E!Assemble(prompted)
           \/ E!BeforePromptBuild
           \/ \E map \in BOOLEAN : E!AfterToolCall(map)
  BY <1>2, BeginHeld
<1>3. CASE \/ \E k \in 1..MaxMessages, known \in BOOLEAN : E!Aggressive(k, known)
           \/ \E forced \in BOOLEAN : E!Stalled(forced)
           \/ \E n \in 0..MaxMessages : E!TailAccumulate(n)
           \/ \E next \in {"mild", "idle"} : E!BelowThreshold(next)
  BY <1>3, AggressiveHeld, StalledHeld, TailAccumulateHeld, OtherHeld
<1>4. CASE \/ \E ids \in SUBSET (1..EngineCalls) : E!Mild(ids)
           \/ E!Emergency \/ E!NoEmergency \/ E!CompactItself
  BY <1>4, OtherHeld
<1>5. CASE \/ \E k \in 1..MaxMessages : E!HeadDelete(k)
           \/ \E group \in E!Groups(work) : E!TailDelete(group)
           \/ \E i \in 1..MaxMessages : E!Truncate(i)
           \/ E!EmergencyEnds
           \/ \E map \in {"active", "none", "wait"} : E!InjectMap(map)
  BY <1>5, HeadDeleteHeld, TailDeleteHeld, TruncateHeld, OtherHeld
<1> QED BY <1>1, <1>2, <1>3, <1>4, <1>5 DEF E!Next

LEMMA PairInit ==
  ASSUME E!Init
  PROVE  PairHeld
<1> DEFINE q == E!Question(1)
           h == <<q>>
<1>1. history = h /\ work = h /\ deleted = {}
  BY DEF E!Init
<1>2. q.kind = "user" /\ q.at = 1 /\ q.uses = {} /\ q.form = "whole"
  BY DEF E!Question, E!Message
<1> HIDE DEF q
<1>3. Len(h) = 1 /\ h[1] = q
  OBVIOUS
<1> HIDE DEF h
<1>4. \A i \in 1..Len(h) : i = 1 /\ h[i] = q
  BY <1>3
<1>5. \A c : ~Made(h, c) /\ ~Given(h, c)
  BY <1>2, <1>4 DEF Made, Given, GivenAt
<1>6. \A i \in 1..Len(h) : Mirrors(h, h[i])
  BY <1>2, <1>3, <1>4 DEF Mirrors
<1>7. Joined(h, h) /\ Ordered(h) /\ Whole(h, h)
  BY <1>2, <1>4, <1>5 DEF Joined, Waits, Ordered, Whole
<1>8. Paired(h, h)
  BY <1>6, <1>7 DEF Paired
<1>9. Spoken(h)
  BY <1>2, <1>4, <1>8 DEF Spoken
<1>10. DeletedWhole(h, {})
  BY DEF DeletedWhole
<1> QED BY <1>1, <1>8, <1>9, <1>10 DEF PairHeld

PairsHold == focus = "engine" => EngineInv /\ PairHeld

LEMMA PairsEverywhere == Spec => []PairsHold
<1>1. Init => PairsHold
  BY EngineInit, PairInit DEF Init, PairsHold
<1>2. PairsHold /\ [Next]_vars => PairsHold'
  <2> SUFFICES ASSUME PairsHold, [Next]_vars, focus' = "engine" PROVE EngineInv' /\ PairHeld'
    BY DEF PairsHold
  <2>1. CASE focus = "engine" /\ E!Next /\ UNCHANGED focus
    BY <2>1, EngineStep, PairStep DEF PairsHold
  <2>2. CASE UNCHANGED <<focus, compactVars>>
    <3>1. UNCHANGED <<focus, history, calls, offloaded, confirmed, deleted, phase, work,
                      boundary, force, hook, aside, removed, harm>>
      BY <2>2, Zenon DEF compactVars, messages, pluginSide
    <3>2. EngineInv /\ PairHeld
      BY <3>1 DEF PairsHold
    <3>3. EngineInv'
      BY <3>1, <3>2, Zenon DEF EngineInv, EngineCounts, EngineFlags, EngineMessages, TurnHeld
    <3>4. PairHeld'
      BY <3>1, <3>2, Zenon DEF PairHeld
    <3> QED BY <3>3, <3>4
  <2>3. CASE UNCHANGED vars
    BY <2>2, <2>3, Zenon DEF vars
  <2>4. CASE Next
    <3>1. focus = "engine" /\ E!Next /\ UNCHANGED focus
      BY <2>4 DEF Next
    <3> QED BY <2>1, <3>1
  <2> QED BY <2>3, <2>4
<1> QED BY <1>1, <1>2, PTL DEF Spec

(* Calls and their results stay together in every request of the plugin: a call made  *)
(* has its result behind it unless it is still to come, with only results in between, *)
(* and every result its call, for every length of the conversation, every number of   *)
(* parallel calls, and all the maps put in; the cuts that harm says are excepted.     *)
THEOREM CallsTogether == Spec => []PairsTogether
<1>1. PairsHold => PairsTogether
  <2> SUFFICES ASSUME EngineInv, PairHeld, "pair" \notin harm
               PROVE  /\ E!UsesOf(work) \ E!Outstanding = E!ResultsOf(work)
                      /\ \A i \in DOMAIN work : E!IsResult(work[i]) =>
                           \E j \in 1..(i - 1) : /\ work[i].id \in work[j].uses
                                                 /\ \A k \in (j + 1)..i : E!IsResult(work[k])
    BY DEF PairsHold, PairsTogether, E!PairsTogether
  <2>1. /\ calls \in Nat /\ Len(history) \in Nat /\ Conversation(work, calls, Len(history))
        /\ Paired(history, work) /\ Len(work) \in Nat /\ DOMAIN work = 1..Len(work)
    BY HeldIs, EngineNumbers
  <2>2. \A i \in 1..Len(work) : work[i] \in EMessages(calls, Len(history))
    BY <2>1, SeqDomain DEF Conversation
  <2>3. \A c : Made(work, c) => Made(history, c)
    BY <2>1, MadeBefore
  <2>4. ASSUME NEW c PROVE Given(work, c) => Given(history, c)
    <3> SUFFICES ASSUME NEW i \in 1..Len(work), GivenAt(work, i, c) PROVE Given(history, c)
      BY DEF Given
    <3>1. work[i].at \in 0..Len(history) /\ Mirrors(history, work[i]) /\ work[i].kind = "result"
      BY <2>1, <2>2, MessageFields DEF Paired, GivenAt
    <3>2. work[i].at # 0
      BY <3>1 DEF Mirrors, MapKinds
    <3>3. work[i].at \in 1..Len(history) /\ GivenAt(history, work[i].at, c)
      BY <3>1, <3>2, <2>1 DEF Mirrors, GivenAt
    <3> QED BY <3>3 DEF Given
  <2>5. \A c : (c \in E!UsesOf(work) <=> Made(work, c)) /\ (c \in E!ResultsOf(work) <=> Given(work, c))
    <3> DEFINE D == EMessages(calls, Len(history))
    <3>1. work \in Seq(D)
      BY <2>1 DEF Conversation
    <3> HIDE DEF D
    <3> QED BY <3>1, MadeAndGiven
  <2>6. \A c : (Given(work, c) => Made(work, c)) /\ (Made(work, c) /\ Given(history, c) => Given(work, c))
    BY <2>1 DEF Paired, Whole
  <2>7. \A c : c \in E!UsesOf(work) \ E!Outstanding <=> c \in E!ResultsOf(work)
    BY <2>3, <2>4, <2>5, <2>6, OpenCalls
  <2>8. ASSUME NEW i \in 1..Len(work), work[i].kind = "result"
        PROVE  \E j \in 1..(i - 1) : /\ work[i].id \in work[j].uses
                                     /\ \A k \in (j + 1)..i : E!IsResult(work[k])
    <3> DEFINE c == work[i].id
    <3>1. GivenAt(work, i, c)
      BY <2>8 DEF GivenAt
    <3>2. PICK j \in 1..Len(work) : c \in work[j].uses
      BY <3>1, <2>6 DEF Given, Made
    <3>3. j < i /\ j \in 1..(i - 1)
      BY <3>1, <3>2, <2>1 DEF Paired, Ordered
    <3>4. ASSUME NEW k \in (j + 1)..i PROVE E!IsResult(work[k])
      <4>1. k \in 1..Len(work) /\ j < k /\ i \in k..Len(work)
        BY <3>3, <2>1
      <4>2. Waits(history, work, j, k)
        BY <4>1, <3>1, <3>2 DEF Waits
      <4> QED BY <4>1, <4>2, <2>1 DEF Paired, Joined, E!IsResult
    <3> QED BY <3>2, <3>3, <3>4
  <2> QED BY <2>1, <2>7, <2>8 DEF E!IsResult
<1> QED BY <1>1, PairsEverywhere, PTL

-----------------------------------------------------------------------------
(* All four together *)

(* The variables of the component that runs have their types: the conversations of  *)
(* both compactions, the plugin's lists of tool calls, the server's tasks.          *)
THEOREM TypeCorrect == Spec => []TypeOK
<1>1. CompactHolds /\ EngineHolds /\ PluginHolds /\ ServerHolds => TypeOK
  BY CompactTyped, EngineTyped, PluginTyped, ServerTyped
     DEF CompactHolds, EngineHolds, PluginHolds, ServerHolds, TypeOK
<1> QED BY <1>1, CompactEverywhere, EngineEverywhere, PluginEverywhere, ServerEverywhere, PTL

==============================================================================
