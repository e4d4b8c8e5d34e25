-------------------------- MODULE CheckpointProofs --------------------------
(***************************************************************************)
(* Proofs about Checkpoint: types, the lock, and that the file it guards   *)
(* implements AtomicCheckpoint; and about its captures: what a capture     *)
(* passes it has handed over, whichever reads and writes of the file fail, *)
(* and while none fails no update is lost.                                 *)
(***************************************************************************)
EXTENDS Checkpoint, SequenceTheorems, FiniteSetTheorems,
        WellFoundedInduction, TLAPS

-----------------------------------------------------------------------------
(* Data *)

\* A nonempty set of times has a newest member: what Math.max returns in
\* auto-capture.ts:139.
LEMMA NewestExists ==
    ASSUME NEW N \in Nat, NEW S, S \subseteq 0 .. N, S # {}
    PROVE  /\ Newest(S) \in S
           /\ \A n \in S : n <= Newest(S)
<1> DEFINE R == {yx \in (0 .. N) \X (0 .. N) : yx[1] > yx[2]}
<1>1. IsWellFoundedOn(R, 0 .. N)
  <2> SUFFICES ASSUME NEW f \in [Nat -> 0 .. N],
                      \A n \in Nat : <<f[n + 1], f[n]>> \in R
               PROVE  FALSE
    BY Zenon DEF IsWellFoundedOn
  <2>1. \A n \in Nat : f[n + 1] > f[n]
    <3> TAKE n \in Nat
    <3>1. <<f[n + 1], f[n]>> \in R
      OBVIOUS
    <3> QED  BY <3>1, Zenon
  <2> DEFINE g == [n \in Nat |-> N - f[n]]
  <2>2. g \in [Nat -> Nat]
    OBVIOUS
  <2>3. \A n \in Nat : g[n + 1] < g[n]
    BY <2>1
  <2>4. \A n \in Nat : <<g[n + 1], g[n]>> \in OpToRel(<, Nat)
    <3> TAKE n \in Nat
    <3>1. g[n + 1] \in Nat /\ g[n] \in Nat /\ g[n + 1] < g[n]
      BY <2>2, <2>3
    <3> HIDE DEF g
    <3> QED  BY <3>1, Zenon DEF OpToRel
  <2> HIDE DEF g
  <2> QED  BY <2>2, <2>4, NatLessThanWellFounded, Zenon DEF IsWellFoundedOn
<1>2. PICK m \in S : \A n \in S : ~ (<<n, m>> \in R)
  <2> HIDE DEF R
  <2> QED  BY <1>1, WFMin, Zenon
<1>3. \A n \in S : n <= m
  <2> TAKE n \in S
  <2>1. n \in 0 .. N /\ m \in 0 .. N
    OBVIOUS
  <2>2. ~ (n > m)
    BY <1>2, <2>1
  <2> QED  BY <2>1, <2>2
<1> QED  BY <1>3, Zenon DEF Newest

LEMMA CaptureKeepsType ==
    ASSUME NEW op \in CaptureOp, NEW cp \in Checkpoint
    PROVE  CaptureAtomically(op, cp) \in Checkpoint
<1> DEFINE new == RecordConversation(op, cp)
<1>1. op.session \in Sessions /\ op.window \subseteq Time
  BY DEF CaptureOp
<1>2. /\ cp.captured \in [Sessions -> Cursor]
      /\ cp.l1 \in [Sessions -> Cursor]
      /\ cp.pipeline \in [Sessions -> Save]
      /\ cp.processed \in Nat
      /\ cp.extracted \in Nat
  BY DEF Checkpoint
<1>3. CASE new = {}
  BY <1>3 DEF CaptureAtomically
<1>4. CASE new # {}
  <2>1. new \subseteq Time
    BY <1>1 DEF RecordConversation
  <2>2. Newest(new) \in Cursor
    <3> HIDE DEF new
    <3>1. new \subseteq 0 .. MaxMessages
      BY <2>1, BoundsAssumption DEF Time
    <3>2. Newest(new) \in new
      BY <3>1, <1>4, NewestExists, BoundsAssumption
    <3> QED  BY <3>1, <3>2 DEF Cursor
  <2>3. Cardinality(new) \in Nat
    <3> HIDE DEF new
    <3>1. IsFiniteSet(1 .. MaxMessages)
      BY FS_Interval, BoundsAssumption
    <3>2. IsFiniteSet(new)
      BY <3>1, <2>1, FS_Subset DEF Time
    <3> QED  BY <3>2, FS_CardinalityType
  <2> DEFINE c == [cp.captured EXCEPT ![op.session] = Newest(new)]
             n == cp.processed + Cardinality(new)
  <2>4. CaptureAtomically(op, cp) = [cp EXCEPT !.captured = c, !.processed = n]
    BY <1>4 DEF CaptureAtomically
  <2>5. c \in [Sessions -> Cursor] /\ n \in Nat
    <3> HIDE DEF new
    <3> QED  BY <1>1, <1>2, <2>2, <2>3
  <2> HIDE DEF new, c, n
  <2> QED  BY <2>4, <2>5 DEF Checkpoint
<1> QED  BY <1>3, <1>4

LEMMA ApplyKeepsType ==
    ASSUME NEW op \in Op, NEW cp \in Checkpoint
    PROVE  Apply(op, cp) \in Checkpoint
<1>1. CASE op \in CaptureOp
  <2>1. op.kind = "captureAtomically"
    BY <1>1 DEF CaptureOp
  <2>2. Apply(op, cp) = CaptureAtomically(op, cp)
    BY <2>1 DEF Apply
  <2> QED  BY <1>1, <2>2, CaptureKeepsType
<1>2. CASE op \in L1Op
  <2>1. op.kind = "markL1ExtractionComplete"
    BY <1>2 DEF L1Op
  <2>2. Apply(op, cp) = MarkL1ExtractionComplete(op, cp)
    BY <2>1 DEF Apply
  <2>3. op.session \in Sessions /\ op.cursor \in Cursor /\ op.stored \in Nat
    BY <1>2, BoundsAssumption DEF L1Op, Time, Cursor
  <2> DEFINE c == [cp.l1 EXCEPT ![op.session] = op.cursor]
             n == cp.extracted + op.stored
  <2>4. Apply(op, cp) = [cp EXCEPT !.l1 = c, !.extracted = n]
    BY <2>2 DEF MarkL1ExtractionComplete
  <2>5. c \in [Sessions -> Cursor] /\ n \in Nat
    BY <2>3 DEF Checkpoint
  <2> HIDE DEF c, n
  <2> QED  BY <2>4, <2>5 DEF Checkpoint
<1>3. CASE op \in MergeOp
  <2>1. op.kind = "mergePipelineStates"
    BY <1>3 DEF MergeOp
  <2>2. Apply(op, cp) = MergePipelineStates(op, cp)
    BY <2>1 DEF Apply
  <2>3. op.states \in [Sessions -> Save]
    BY <1>3 DEF MergeOp
  <2> QED  BY <2>2, <2>3 DEF MergePipelineStates, Checkpoint
<1> QED  BY <1>1, <1>2, <1>3 DEF Op

LEMMA DefaultHasType == DEFAULT_CHECKPOINT \in Checkpoint
BY BoundsAssumption DEF DEFAULT_CHECKPOINT, Checkpoint, Cursor, Save

-----------------------------------------------------------------------------
(* The chain as a sequence *)

\* Removing an element keeps the others in order.
LEMMA RemoveAtProperties ==
    ASSUME NEW S, NEW q \in Seq(S), NEW i \in 1 .. Len(q)
    PROVE  /\ RemoveAt(q, i) \in Seq(S)
           /\ Len(RemoveAt(q, i)) = Len(q) - 1
           /\ \A j \in 1 .. Len(q) - 1 :
                 RemoveAt(q, i)[j] = IF j < i THEN q[j] ELSE q[j + 1]
<1>1. /\ SubSeq(q, 1, i - 1) \in Seq(S)
      /\ Len(SubSeq(q, 1, i - 1)) = i - 1
      /\ \A j \in 1 .. i - 1 : SubSeq(q, 1, i - 1)[j] = q[j]
  OBVIOUS
<1>2. /\ SubSeq(q, i + 1, Len(q)) \in Seq(S)
      /\ Len(SubSeq(q, i + 1, Len(q))) = Len(q) - i
      /\ \A j \in 1 .. Len(q) - i : SubSeq(q, i + 1, Len(q))[j] = q[j + i]
  OBVIOUS
<1> DEFINE l == SubSeq(q, 1, i - 1)
           r == SubSeq(q, i + 1, Len(q))
<1>3. RemoveAt(q, i) = l \o r
  BY DEF RemoveAt
<1>0. Len(l) = i - 1 /\ Len(r) = Len(q) - i /\ l \in Seq(S) /\ r \in Seq(S)
  BY <1>1, <1>2
<1> HIDE DEF l, r
<1>4. l \o r \in Seq(S) /\ Len(l \o r) = Len(q) - 1
  BY <1>0
<1>5. ASSUME NEW j \in 1 .. Len(q) - 1
      PROVE  (l \o r)[j] = IF j < i THEN q[j] ELSE q[j + 1]
  <2>2. CASE j < i
    BY <1>0, <2>2, <1>1 DEF l
  <2>3. CASE ~ (j < i)
    <3>1. (l \o r)[j] = r[j - (i - 1)]
      BY <1>0, <2>3
    <3>2. j - (i - 1) \in 1 .. Len(q) - i
      BY <2>3
    <3>3. r[j - (i - 1)] = q[(j - (i - 1)) + i]
      BY <3>2, <1>2 DEF r
    <3> QED  BY <3>1, <3>3, <2>3
  <2> QED  BY <2>2, <2>3
<1> QED  BY <1>3, <1>4, <1>5

\* A new operation waits at the end.
LEMMA EnqueueEntry ==
    ASSUME TypeOK, NEW op \in Op, WithFileLock(op)
    PROVE  /\ chain' \in Seq(Entry)
           /\ Len(chain') = Len(chain) + 1
           /\ chain'[Len(chain) + 1].op = op
           /\ chain'[Len(chain) + 1].step = "waiting"
           /\ \A i \in 1 .. Len(chain) : chain'[i] = chain[i]
<1> DEFINE e == [op |-> op, step |-> "waiting", cp |-> DEFAULT_CHECKPOINT]
<1>1. e \in Entry /\ e.op = op /\ e.step = "waiting"
  BY DefaultHasType DEF Entry
<1>2. chain \in Seq(Entry) /\ chain' = Append(chain, e)
  BY DEF TypeOK, WithFileLock
<1>3. /\ chain' \in Seq(Entry)
      /\ Len(chain') = Len(chain) + 1
      /\ chain'[Len(chain) + 1] = e
      /\ \A i \in 1 .. Len(chain) : chain'[i] = chain[i]
  <2> HIDE DEF e
  <2> QED  BY <1>1, <1>2
<1> HIDE DEF e
<1> QED  BY <1>1, <1>3

\* Operation i goes to step st with contents c.
Advance(i, st, c) == chain' = [chain EXCEPT ![i].step = st, ![i].cp = c]

\* A step of an operation rewrites its entry and no other.
LEMMA AdvanceEntry ==
    ASSUME TypeOK, NEW i \in DOMAIN chain,
           NEW st \in {"waiting", "loaded", "applied"}, NEW c \in Checkpoint,
           Advance(i, st, c)
    PROVE  /\ chain' \in Seq(Entry)
           /\ Len(chain') = Len(chain)
           /\ chain'[i].op = chain[i].op
           /\ chain'[i].step = st
           /\ chain'[i].cp = c
           /\ \A j \in 1 .. Len(chain) : j # i => chain'[j] = chain[j]
<1> DEFINE e == [op |-> chain[i].op, step |-> st, cp |-> c]
<1>1. chain \in Seq(Entry) /\ chain[i] \in Entry
  BY DEF TypeOK
<1>2. e \in Entry /\ e.op = chain[i].op /\ e.step = st /\ e.cp = c
  BY <1>1 DEF Entry
<1>3. [[chain[i] EXCEPT !.step = st] EXCEPT !.cp = c] = e
  <2>1. chain[i] = [op |-> chain[i].op, step |-> chain[i].step, cp |-> chain[i].cp]
    BY <1>1 DEF Entry
  <2>2. [chain[i] EXCEPT !.step = st] =
           [op |-> chain[i].op, step |-> st, cp |-> chain[i].cp]
    BY <2>1
  <2>3. [[op |-> chain[i].op, step |-> st, cp |-> chain[i].cp] EXCEPT !.cp = c] = e
    OBVIOUS
  <2> HIDE DEF e
  <2> QED  BY <2>2, <2>3, Zenon
<1>4. chain' = [chain EXCEPT ![i] = e]
  <2>1. chain' = [chain EXCEPT ![i] = [[chain[i] EXCEPT !.step = st] EXCEPT !.cp = c]]
    BY DEF Advance
  <2> HIDE DEF e
  <2> QED  BY <2>1, <1>3
<1> HIDE DEF e
<1>5. /\ chain' \in Seq(Entry)
      /\ Len(chain') = Len(chain)
      /\ chain'[i] = e
      /\ \A j \in 1 .. Len(chain) : j # i => chain'[j] = chain[j]
  BY <1>1, <1>2, <1>4
<1> QED  BY <1>2, <1>5

-----------------------------------------------------------------------------
(* Type correctness, action by action *)

LEMMA InitHasType == Init => TypeOK
<1> SUFFICES ASSUME Init PROVE TypeOK
  OBVIOUS
<1>1. file \in Checkpoint /\ mgr \in [Sessions -> Save]
  BY DefaultHasType, BoundsAssumption DEF Init, Save
<1>2. chain \in Seq(Entry)
  BY DEF Init
<1>3. l1 \in L1Run
  BY BoundsAssumption DEF Init, IdleL1, L1Run, Cursor
<1>4. /\ taken \in [Sessions -> [Time -> Nat]]
      /\ log \in [Sessions -> SUBSET Time]
      /\ cut \in [Sessions -> Cursor]
      /\ clock \in Cursor /\ boot \in Cursor
      /\ saves \in Save
  BY BoundsAssumption DEF Init, Cursor, Save
<1>5. /\ memories \in Nat
      /\ turn \in SUBSET Sessions
      /\ redelivered \in 0 .. MaxRedeliveries
      /\ faults \in 0 .. MaxFaults
      /\ crashes \in 0 .. MaxCrashes
  BY FaultBoundsAssumption DEF Init
<1> QED  BY <1>1, <1>2, <1>3, <1>4, <1>5 DEF TypeOK

LEMMA FaultHasType == TypeOK /\ Fault => faults' \in 0 .. MaxFaults
BY FaultBoundsAssumption DEF TypeOK, Fault

LEMMA IdleL1HasType == IdleL1 \in L1Run
BY BoundsAssumption DEF IdleL1, L1Run, Cursor

LEMMA EntryHasType ==
    ASSUME TypeOK, NEW i \in DOMAIN chain
    PROVE  /\ chain[i].op \in Op
           /\ chain[i].step \in {"waiting", "loaded", "applied"}
           /\ chain[i].cp \in Checkpoint
<1>1. chain[i] \in Entry
  BY DEF TypeOK
<1> QED  BY <1>1 DEF Entry

LEMMA ReadKeepsType ==
    ASSUME TypeOK, NEW i \in DOMAIN chain, Read(i)
    PROVE  TypeOK'
<1>1. chain \in Seq(Entry) /\ file \in Checkpoint /\ faults \in 0 .. MaxFaults
  BY DEF TypeOK
<1>2. PICK c \in Checkpoint : Advance(i, "loaded", c)
  BY <1>1, DefaultHasType DEF Read, Advance
<1>3. chain' \in Seq(Entry)
  BY <1>1, <1>2, AdvanceEntry
<1>4. faults' \in 0 .. MaxFaults
  BY <1>1, FaultHasType DEF Read
<1> QED  BY <1>3, <1>4 DEF TypeOK, Read, l0Vars, l1Vars, mgrVars

LEMMA RunKeepsType ==
    ASSUME TypeOK, NEW i \in DOMAIN chain, Run(i)
    PROVE  TypeOK'
<1> DEFINE c == Apply(chain[i].op, chain[i].cp)
<1>1. chain \in Seq(Entry) /\ taken \in [Sessions -> [Time -> Nat]]
  BY DEF TypeOK
<1>2. chain[i].op \in Op /\ chain[i].cp \in Checkpoint
  BY EntryHasType
<1>3. c \in Checkpoint
  BY <1>2, ApplyKeepsType
<1>4. Advance(i, "applied", c)
  BY DEF Run, Advance
<1> HIDE DEF c
<1>5. chain' \in Seq(Entry)
  BY <1>1, <1>3, <1>4, AdvanceEntry
<1>6. taken' \in [Sessions -> [Time -> Nat]]
  <2>1. CASE chain[i].op.kind = "captureAtomically"
    <3> DEFINE s == chain[i].op.session
               t == [m \in Time |->
                       IF m \in RecordConversation(chain[i].op, chain[i].cp)
                       THEN taken[s][m] + 1 ELSE taken[s][m]]
    <3>1. s \in Sessions
      BY <1>2, <2>1 DEF Op, CaptureOp, L1Op, MergeOp
    <3>2. t \in [Time -> Nat]
      BY <1>1, <3>1
    <3>3. taken' = [taken EXCEPT ![s] = t]
      BY <2>1 DEF Run
    <3> HIDE DEF s, t
    <3> QED  BY <1>1, <3>1, <3>2, <3>3
  <2>2. CASE chain[i].op.kind # "captureAtomically"
    BY <1>1, <2>2 DEF Run
  <2> QED  BY <2>1, <2>2
<1> QED  BY <1>5, <1>6 DEF TypeOK, Run, l1Vars, mgrVars

\* What Write and WriteFails have in common.
LEMMA ReleaseHasType ==
    ASSUME TypeOK, NEW i \in DOMAIN chain, Release(i), L1Returns(chain[i].op)
    PROVE  chain' \in Seq(Entry) /\ l1' \in L1Run
<1>1. chain \in Seq(Entry) /\ l1 \in L1Run
  BY DEF TypeOK
<1>2. chain' = RemoveAt(chain, i) /\ i \in 1 .. Len(chain)
  BY <1>1 DEF Release
<1>3. chain' \in Seq(Entry)
  BY <1>1, <1>2, RemoveAtProperties, Zenon
<1> QED  BY <1>1, <1>3, IdleL1HasType DEF L1Returns

LEMMA WriteKeepsType ==
    ASSUME TypeOK, NEW i \in DOMAIN chain, Write(i) \/ WriteFails(i)
    PROVE  TypeOK'
<1>1. chain' \in Seq(Entry) /\ l1' \in L1Run
  BY ReleaseHasType DEF Write, WriteFails
<1>2. file' \in Checkpoint
  <2>1. file \in Checkpoint
    BY DEF TypeOK
  <2>2. chain[i].cp \in Checkpoint
    BY EntryHasType
  <2> QED  BY <2>1, <2>2 DEF Write, WriteFails
<1>3. faults' \in 0 .. MaxFaults
  BY FaultHasType DEF TypeOK, Write, WriteFails
<1> QED  BY <1>1, <1>2, <1>3 DEF TypeOK, Write, WriteFails, l0Vars, mgrVars

LEMMA BuildPromptKeepsType ==
    ASSUME TypeOK, NEW s \in Sessions, BuildPrompt(s)
    PROVE  TypeOK'
<1>1. /\ clock \in Cursor
      /\ log \in [Sessions -> SUBSET Time]
      /\ cut \in [Sessions -> Cursor]
      /\ turn \in SUBSET Sessions
  BY DEF TypeOK
<1>2. clock' \in Time /\ clock' \in Cursor
  BY <1>1, BoundsAssumption DEF BuildPrompt, Cursor, Time
<1>3. log' \in [Sessions -> SUBSET Time]
  <2>1. log' = [log EXCEPT ![s] = log[s] \cup {clock'}]
    BY DEF BuildPrompt
  <2>2. log[s] \cup {clock'} \in SUBSET Time
    BY <1>1, <1>2
  <2> QED  BY <1>1, <2>1, <2>2
<1>4. cut' \in [Sessions -> Cursor]
  <2> DEFINE c == IF log[s] = {} THEN 0 ELSE Newest(log[s])
  <2>1. cut' = [cut EXCEPT ![s] = c]
    BY DEF BuildPrompt
  <2>2. log[s] \subseteq 0 .. MaxMessages
    BY <1>1, BoundsAssumption DEF Time
  <2>3. c \in Cursor
    <3>1. CASE log[s] = {}
      BY <3>1, BoundsAssumption DEF Cursor
    <3>2. CASE log[s] # {}
      <4>1. Newest(log[s]) \in log[s]
        BY <2>2, <3>2, NewestExists, BoundsAssumption
      <4> QED  BY <2>2, <3>2, <4>1 DEF Cursor
    <3> QED  BY <3>1, <3>2
  <2> HIDE DEF c
  <2> QED  BY <1>1, <2>1, <2>3
<1> QED
  BY <1>1, <1>2, <1>3, <1>4
     DEF TypeOK, BuildPrompt, fileVars, l1Vars, mgrVars

\* What AgentEnd and Redeliver have in common.
LEMMA CaptureEnqueued ==
    ASSUME TypeOK, NEW s \in Sessions, CallCapture(s)
    PROVE  \E op \in Op : op.kind = "captureAtomically" /\ WithFileLock(op)
<1>1. PICK w \in Windows(s) :
        WithFileLock([kind |-> "captureAtomically", session |-> s,
                      window |-> w, floor |-> boot])
  BY Zenon DEF CallCapture
<1> DEFINE op == [kind |-> "captureAtomically", session |-> s,
                  window |-> w, floor |-> boot]
<1>2. w \subseteq Time /\ boot \in Cursor
  BY DEF TypeOK, Windows
<1>3. op \in Op /\ op.kind = "captureAtomically"
  BY <1>2 DEF Op, CaptureOp
<1> HIDE DEF op
<1>4. WithFileLock(op)
  BY <1>1 DEF op
<1> QED  BY <1>3, <1>4

LEMMA AgentEndKeepsType ==
    ASSUME TypeOK, NEW s \in Sessions, AgentEnd(s)
    PROVE  TypeOK'
<1>1. chain' \in Seq(Entry)
  BY CaptureEnqueued, EnqueueEntry DEF AgentEnd
<1> QED  BY <1>1 DEF TypeOK, AgentEnd, l1Vars, mgrVars

LEMMA RedeliverKeepsType ==
    ASSUME TypeOK, NEW s \in Sessions, Redeliver(s)
    PROVE  TypeOK'
<1>1. chain' \in Seq(Entry)
  BY CaptureEnqueued, EnqueueEntry DEF Redeliver
<1>2. redelivered' \in 0 .. MaxRedeliveries
  BY FaultBoundsAssumption DEF TypeOK, Redeliver
<1> QED  BY <1>1, <1>2 DEF TypeOK, Redeliver, l1Vars, mgrVars

LEMMA StartL1KeepsType ==
    ASSUME TypeOK, NEW s \in Sessions, StartL1(s)
    PROVE  TypeOK'
<1>1. file.l1[s] \in Cursor /\ 0 \in Cursor
  BY BoundsAssumption DEF TypeOK, Checkpoint, Cursor
<1>2. l1' \in L1Run
  BY <1>1 DEF StartL1, L1Run
<1>3. faults' \in 0 .. MaxFaults
  BY FaultHasType DEF TypeOK, StartL1
<1> QED  BY <1>2, <1>3 DEF TypeOK, StartL1, fileVars, l0Vars, mgrVars

\* The operation by which an L1 run commits its cursor.
LEMMA MarkEnqueued ==
    ASSUME TypeOK, NEW c \in Time, NEW n \in {0, 1}, FinishL1(c, n)
    PROVE  \E op \in Op : op.kind = "markL1ExtractionComplete" /\ WithFileLock(op)
<1> DEFINE op == [kind |-> "markL1ExtractionComplete", session |-> l1.session,
                  cursor |-> c, stored |-> n]
<1>1. l1.session \in Sessions
  BY DEF TypeOK, L1Run
<1>2. op \in Op /\ op.kind = "markL1ExtractionComplete"
  BY <1>1 DEF Op, L1Op
<1>3. WithFileLock(op)
  BY DEF FinishL1
<1> HIDE DEF op
<1> QED  BY <1>2, <1>3

LEMMA FinishL1KeepsType ==
    ASSUME TypeOK, NEW c \in Time, NEW n \in {0, 1}, FinishL1(c, n)
    PROVE  TypeOK'
<1>1. chain' \in Seq(Entry)
  BY MarkEnqueued, EnqueueEntry
<1>2. l1' \in L1Run
  BY DEF TypeOK, FinishL1, L1Run
<1>3. memories' \in Nat
  BY DEF TypeOK, FinishL1
<1> QED  BY <1>1, <1>2, <1>3 DEF TypeOK, FinishL1, l0Vars, mgrVars

LEMMA AbandonL1KeepsType ==
    ASSUME TypeOK, AbandonL1
    PROVE  TypeOK'
BY IdleL1HasType DEF TypeOK, AbandonL1, fileVars, l0Vars, mgrVars

LEMMA SaveHasType ==
    ASSUME TypeOK, NEW s \in Sessions, PersistStates(s)
    PROVE  /\ mgr' \in [Sessions -> Save]
           /\ saves' \in Save
           /\ \E op \in Op : op.kind = "mergePipelineStates" /\ WithFileLock(op)
<1>1. mgr \in [Sessions -> Save] /\ saves \in Save
  BY DEF TypeOK
<1>2. saves' \in Save
  BY <1>1, BoundsAssumption DEF PersistStates, Save
<1>3. mgr' \in [Sessions -> Save]
  BY <1>1, <1>2 DEF PersistStates
<1> DEFINE op == [kind |-> "mergePipelineStates", states |-> mgr']
<1>4. op \in Op /\ op.kind = "mergePipelineStates"
  BY <1>3 DEF Op, MergeOp
<1>5. WithFileLock(op)
  BY DEF PersistStates
<1> HIDE DEF op
<1> QED  BY <1>2, <1>3, <1>4, <1>5

LEMMA PersistStatesKeepsType ==
    ASSUME TypeOK, NEW s \in Sessions, PersistStates(s)
    PROVE  TypeOK'
<1>1. chain' \in Seq(Entry)
  BY SaveHasType, EnqueueEntry
<1> QED  BY <1>1, SaveHasType DEF TypeOK, PersistStates, l0Vars, l1Vars

LEMMA CrashKeepsType ==
    ASSUME TypeOK, Crash
    PROVE  TypeOK'
<1>1. chain' \in Seq(Entry)
  BY DEF Crash
<1>2. cut' \in [Sessions -> Cursor] /\ boot' \in Cursor
  BY BoundsAssumption DEF TypeOK, Crash, Cursor
<1>3. mgr' \in [Sessions -> Save]
  BY DefaultHasType DEF TypeOK, Crash, Checkpoint
<1>4. faults' \in 0 .. MaxFaults
  BY FaultHasType DEF TypeOK, Crash
<1>5. crashes' \in 0 .. MaxCrashes
  BY FaultBoundsAssumption DEF TypeOK, Crash
<1> QED
  BY <1>1, <1>2, <1>3, <1>4, <1>5, IdleL1HasType DEF TypeOK, Crash

LEMMA StepKeepsType == TypeOK /\ [Next]_vars => TypeOK'
<1> SUFFICES ASSUME TypeOK, [Next]_vars PROVE TypeOK'
  OBVIOUS
<1>1. CASE LockStep
  BY <1>1, ReadKeepsType, RunKeepsType, WriteKeepsType DEF LockStep
<1>2. ASSUME NEW s \in Sessions, BuildPrompt(s) PROVE TypeOK'
  BY <1>2, BuildPromptKeepsType
<1>3. ASSUME NEW s \in Sessions, AgentEnd(s) PROVE TypeOK'
  BY <1>3, AgentEndKeepsType
<1>4. ASSUME NEW s \in Sessions, Redeliver(s) PROVE TypeOK'
  BY <1>4, RedeliverKeepsType
<1>5. ASSUME NEW s \in Sessions, StartL1(s) PROVE TypeOK'
  BY <1>5, StartL1KeepsType
<1>6. ASSUME NEW s \in Sessions, PersistStates(s) PROVE TypeOK'
  BY <1>6, PersistStatesKeepsType
<1>7. ASSUME NEW c \in Time, NEW n \in {0, 1}, FinishL1(c, n) PROVE TypeOK'
  BY <1>7, FinishL1KeepsType
<1>8. CASE AbandonL1
  BY <1>8, AbandonL1KeepsType
<1>9. CASE Crash
  BY <1>9, CrashKeepsType
<1>10. CASE UNCHANGED vars
  BY <1>10 DEF TypeOK, vars, fileVars, l0Vars, l1Vars, mgrVars
<1> QED
  BY <1>1, <1>2, <1>3, <1>4, <1>5, <1>6, <1>7, <1>8, <1>9, <1>10 DEF Next

\* Every variable of Checkpoint keeps its type, whatever operations wait, fail
\* or are lost in a crash.
THEOREM TypeCorrect == Spec => []TypeOK
<1>1. Init => TypeOK
  BY InitHasType
<1>2. TypeOK /\ [Next]_vars => TypeOK'
  BY StepKeepsType
<1> QED  BY <1>1, <1>2, PTL DEF Spec

-----------------------------------------------------------------------------
(* The lock: only the oldest operation has begun *)

LockInv == \A i \in DOMAIN chain : i # 1 => chain[i].step = "waiting"

\* The kinds of step, as the lock sees them.
Enqueue ==
    /\ \E op \in Op : WithFileLock(op)
    /\ UNCHANGED <<file, taken, faults, crashes>>
HeadStep ==
    /\ 1 \in DOMAIN chain
    /\ Read(1) \/ Run(1) \/ Write(1) \/ WriteFails(1)
Elsewhere ==
    /\ UNCHANGED <<file, chain, taken, crashes>>
    /\ faults' = faults \/ Fault

LEMMA StepCases ==
    ASSUME TypeOK, LockInv, [Next]_vars
    PROVE  HeadStep \/ Enqueue \/ Elsewhere \/ Crash
<1>1. CASE LockStep
  <2>1. PICK i \in DOMAIN chain : Read(i) \/ Run(i) \/ Write(i) \/ WriteFails(i)
    BY <1>1 DEF LockStep
  <2>2. i = 1
    BY <2>1 DEF LockInv, Read, MayRun, Run, Write, WriteFails
  <2> QED  BY <2>1, <2>2 DEF HeadStep
<1>2. ASSUME NEW s \in Sessions, BuildPrompt(s) PROVE Elsewhere
  BY <1>2 DEF BuildPrompt, Elsewhere, fileVars
<1>3. ASSUME NEW s \in Sessions, AgentEnd(s) PROVE Enqueue
  BY <1>3, CaptureEnqueued DEF AgentEnd, Enqueue
<1>4. ASSUME NEW s \in Sessions, Redeliver(s) PROVE Enqueue
  BY <1>4, CaptureEnqueued DEF Redeliver, Enqueue
<1>5. ASSUME NEW s \in Sessions, StartL1(s) PROVE Elsewhere
  BY <1>5 DEF StartL1, Elsewhere, fileVars, l0Vars
<1>6. ASSUME NEW s \in Sessions, PersistStates(s) PROVE Enqueue
  <2>1. UNCHANGED <<file, taken, faults, crashes>>
    BY <1>6 DEF PersistStates, l0Vars
  <2> QED  BY <1>6, <2>1, SaveHasType DEF Enqueue
<1>7. ASSUME NEW c \in Time, NEW n \in {0, 1}, FinishL1(c, n) PROVE Enqueue
  <2>1. UNCHANGED <<file, taken, faults, crashes>>
    BY <1>7 DEF FinishL1, l0Vars
  <2> QED  BY <1>7, <2>1, MarkEnqueued DEF Enqueue
<1>8. CASE AbandonL1
  BY <1>8 DEF AbandonL1, Elsewhere, fileVars, l0Vars
<1>9. CASE UNCHANGED vars
  BY <1>9 DEF Elsewhere, vars, fileVars, l0Vars
<1> QED
  BY <1>1, <1>2, <1>3, <1>4, <1>5, <1>6, <1>7, <1>8, <1>9 DEF Next

\* The chain when the oldest operation has ended: the rest of it.
LEMMA RestOfChain ==
    ASSUME TypeOK, 1 \in DOMAIN chain, Release(1)
    PROVE  /\ Len(chain') = Len(chain) - 1
           /\ \A j \in DOMAIN chain' : j + 1 \in DOMAIN chain /\ chain'[j] = chain[j + 1]
<1>1. chain \in Seq(Entry) /\ 1 \in 1 .. Len(chain)
  BY DEF TypeOK
<1>2. chain' = RemoveAt(chain, 1)
  BY DEF Release
<1>3. /\ chain' \in Seq(Entry)
      /\ Len(chain') = Len(chain) - 1
      /\ \A j \in 1 .. Len(chain) - 1 :
            chain'[j] = IF j < 1 THEN chain[j] ELSE chain[j + 1]
  BY <1>1, <1>2, RemoveAtProperties
<1> QED  BY <1>1, <1>3

LEMMA LockInvKept ==
    ASSUME TypeOK, LockInv, [Next]_vars
    PROVE  LockInv'
<1>1. CASE HeadStep
  <2>1. 1 \in DOMAIN chain /\ chain \in Seq(Entry) /\ file \in Checkpoint
    BY <1>1 DEF HeadStep, TypeOK
  <2>2. CASE Read(1) \/ Run(1)
    <3>1. PICK st \in {"waiting", "loaded", "applied"}, c \in Checkpoint :
             Advance(1, st, c)
      BY <2>1, <2>2, DefaultHasType, EntryHasType, ApplyKeepsType
         DEF Read, Run, Advance
    <3>2. /\ chain' \in Seq(Entry)
          /\ Len(chain') = Len(chain)
          /\ \A j \in 1 .. Len(chain) : j # 1 => chain'[j] = chain[j]
      BY <2>1, <3>1, AdvanceEntry
    <3> QED  BY <2>1, <3>2 DEF LockInv
  <2>3. CASE Write(1) \/ WriteFails(1)
    <3>1. Release(1)
      BY <2>3 DEF Write, WriteFails
    <3>2. \A j \in DOMAIN chain' : j \in Nat \ {0}
      BY <2>1, <3>1, ReleaseHasType, <2>3 DEF Write, WriteFails
    <3> QED  BY <2>1, <3>1, <3>2, RestOfChain DEF LockInv
  <2> QED  BY <1>1, <2>2, <2>3 DEF HeadStep
<1>2. CASE Enqueue
  <2>1. PICK op \in Op : WithFileLock(op)
    BY <1>2 DEF Enqueue
  <2>2. chain \in Seq(Entry)
    BY DEF TypeOK
  <2>3. ASSUME NEW j \in DOMAIN chain', j # 1
        PROVE  chain'[j].step = "waiting"
    <3>1. Len(chain') = Len(chain) + 1 /\ chain' \in Seq(Entry)
      BY <2>1, EnqueueEntry
    <3>2. CASE j = Len(chain) + 1
      BY <2>1, <3>2, EnqueueEntry
    <3>3. CASE j \in 1 .. Len(chain)
      BY <2>1, <2>2, <2>3, <3>3, EnqueueEntry DEF LockInv
    <3> QED  BY <2>2, <3>1, <3>2, <3>3
  <2> QED  BY <2>3 DEF LockInv
<1>3. CASE Elsewhere
  BY <1>3 DEF Elsewhere, LockInv
<1>4. CASE Crash
  BY <1>4 DEF Crash, LockInv
<1> QED  BY <1>1, <1>2, <1>3, <1>4, StepCases

-----------------------------------------------------------------------------
(* The operations are atomic *)

\* What the oldest operation holds comes from the file, or after a failure
\* from an empty one.
HeadCurrent ==
    1 \in DOMAIN chain =>
        /\ chain[1].step = "loaded" => chain[1].cp \in Atomic!Seen
        /\ chain[1].step = "applied" =>
              \E seen \in Atomic!Seen : chain[1].cp = Apply(chain[1].op, seen)

\* What an operation may have seen it may have seen later too, while the file
\* stays as it is.
LEMMA SeenGrows ==
    ASSUME TypeOK, file' = file, faults' = faults \/ Fault
    PROVE  /\ \A seen \in Atomic!Seen : seen \in Atomic!Seen'
           /\ file \in Atomic!Seen'
<1>1. faults \in Nat /\ faults' \in Nat /\ (faults' = 0 => faults = 0)
  BY DEF TypeOK, Fault
<1> QED  BY <1>1 DEF Atomic!Seen

LEMMA HeadCurrentKept ==
    ASSUME TypeOK, LockInv, HeadCurrent, [Next]_vars
    PROVE  HeadCurrent'
<1>1. CASE HeadStep
  <2>1. 1 \in DOMAIN chain /\ chain \in Seq(Entry) /\ file \in Checkpoint
    BY <1>1 DEF HeadStep, TypeOK
  <2>2. CASE Read(1)
    <3>1. PICK c \in Checkpoint : Advance(1, "loaded", c) /\ c \in Atomic!Seen'
      <4>1. CASE chain' = [chain EXCEPT ![1].step = "loaded", ![1].cp = file]
                 /\ UNCHANGED faults
        <5>1. Advance(1, "loaded", file)
          BY <4>1 DEF Advance
        <5>2. file \in Atomic!Seen'
          BY <2>2, <4>1, SeenGrows DEF Read
        <5> QED  BY <2>1, <5>1, <5>2
      <4>2. CASE chain' = [chain EXCEPT ![1].step = "loaded",
                                        ![1].cp = DEFAULT_CHECKPOINT]
                 /\ Fault
        <5>1. Advance(1, "loaded", DEFAULT_CHECKPOINT)
          BY <4>2 DEF Advance
        <5>2. faults' # 0
          BY <4>2 DEF TypeOK, Fault
        <5>3. DEFAULT_CHECKPOINT \in Atomic!Seen'
          BY <5>2 DEF Atomic!Seen
        <5> QED  BY <5>1, <5>3, DefaultHasType
      <4> QED  BY <2>2, <4>1, <4>2 DEF Read
    <3>2. chain'[1].step = "loaded" /\ chain'[1].cp = c
      BY <2>1, <3>1, AdvanceEntry
    <3> QED  BY <3>1, <3>2 DEF HeadCurrent
  <2>3. CASE Run(1)
    <3> DEFINE c == Apply(chain[1].op, chain[1].cp)
    <3>1. Advance(1, "applied", c)
      BY <2>3 DEF Run, Advance
    <3>2. c \in Checkpoint
      BY <2>1, EntryHasType, ApplyKeepsType
    <3>3. chain'[1].op = chain[1].op /\ chain'[1].step = "applied" /\ chain'[1].cp = c
      <4> HIDE DEF c
      <4> QED  BY <2>1, <3>1, <3>2, AdvanceEntry
    <3>4. chain[1].cp \in Atomic!Seen'
      BY <2>1, <2>3, SeenGrows DEF HeadCurrent, Run
    <3> QED  BY <3>3, <3>4 DEF HeadCurrent
  <2>4. CASE Write(1) \/ WriteFails(1)
    <3>1. Release(1)
      BY <2>4 DEF Write, WriteFails
    <3>2. \A j \in DOMAIN chain' : chain'[j].step = "waiting" \/ j # 1
      BY <2>1, <3>1, RestOfChain DEF LockInv
    <3> QED  BY <3>2 DEF HeadCurrent
  <2> QED  BY <1>1, <2>2, <2>3, <2>4 DEF HeadStep
<1>2. CASE Enqueue
  <2>1. PICK op \in Op : WithFileLock(op)
    BY <1>2 DEF Enqueue
  <2>2. chain \in Seq(Entry) /\ file' = file /\ faults' = faults
    BY <1>2 DEF TypeOK, Enqueue
  <2>3. CASE chain = <<>>
    <3>1. Len(chain) = 0
      BY <2>3
    <3>2. chain'[1].step = "waiting"
      BY <2>1, <3>1, EnqueueEntry
    <3> QED  BY <3>2 DEF HeadCurrent
  <2>4. CASE chain # <<>>
    <3>1. 1 \in DOMAIN chain /\ 1 \in 1 .. Len(chain)
      BY <2>2, <2>4
    <3>2. \A j \in 1 .. Len(chain) : chain'[j] = chain[j]
      BY <2>1, EnqueueEntry
    <3>3. chain'[1] = chain[1]
      BY <3>1, <3>2
    <3>4. Atomic!Seen' = Atomic!Seen
      BY <2>2 DEF Atomic!Seen
    <3> QED  BY <3>1, <3>3, <3>4 DEF HeadCurrent
  <2> QED  BY <2>3, <2>4
<1>3. CASE Elsewhere
  <2>1. chain' = chain /\ \A seen \in Atomic!Seen : seen \in Atomic!Seen'
    BY <1>3, SeenGrows DEF Elsewhere
  <2> QED  BY <2>1 DEF HeadCurrent
<1>4. CASE Crash
  BY <1>4 DEF Crash, HeadCurrent
<1> QED  BY <1>1, <1>2, <1>3, <1>4, StepCases

LEMMA StepIsAtomic ==
    ASSUME TypeOK, LockInv, HeadCurrent, [Next]_vars
    PROVE  [Atomic!Next]_<<file, faults>>
<1>1. CASE HeadStep
  <2>1. 1 \in DOMAIN chain
    BY <1>1 DEF HeadStep
  <2>2. CASE Write(1)
    <3>1. /\ \E seen \in Atomic!Seen : file' = Apply(chain[1].op, seen)
          /\ chain[1].op \in Op
          /\ UNCHANGED faults
      BY <2>1, <2>2, EntryHasType DEF HeadCurrent, Write
    <3> QED  BY <3>1 DEF Atomic!Next, Atomic!Perform
  <2>3. CASE ~ Write(1)
    BY <1>1, <2>3 DEF HeadStep, Read, Run, WriteFails, Fault, Atomic!Next, Atomic!Fail
  <2> QED  BY <2>2, <2>3
<1>2. CASE Enqueue \/ Elsewhere \/ Crash
  BY <1>2 DEF Enqueue, Elsewhere, Crash, Fault, Atomic!Next, Atomic!Fail
<1> QED  BY <1>1, <1>2, StepCases

\* withFileLock makes mutate() and captureAtomically() atomic, whichever reads
\* and writes of the file fail and also when the process crashes with
\* operations running: the file only ever changes by one whole operation,
\* applied to the file or, after a failure, to an empty one.
THEOREM LockIsAtomic == Spec => AtomicFile
<1>1. Init => TypeOK /\ LockInv /\ HeadCurrent
  BY InitHasType DEF Init, LockInv, HeadCurrent
<1>2. Init => Atomic!Init
  BY DEF Init, Atomic!Init
<1>3. TypeOK /\ LockInv /\ HeadCurrent /\ [Next]_vars =>
         (TypeOK /\ LockInv /\ HeadCurrent)' /\ [Atomic!Next]_<<file, faults>>
  BY StepKeepsType, LockInvKept, HeadCurrentKept, StepIsAtomic
<1> QED  BY <1>1, <1>2, <1>3, PTL DEF Spec, AtomicFile, Atomic!Spec

-----------------------------------------------------------------------------
(* Deliveries are repeated only after a failure *)

\* The checkpoint as the oldest operation knows it.
View ==
    IF 1 \in DOMAIN chain /\ chain[1].step # "waiting" THEN chain[1].cp ELSE file

\* A message that has used up its deliveries is behind the cursor, in the file
\* and in what the operation under way has read of it: RetakenOnlyPerFault
\* alone does not say why a capture will not take the message again.
RetakenInv ==
    \A s \in Sessions, m \in Time :
        /\ taken[s][m] <= 1 + (faults + crashes)
        /\ taken[s][m] = 1 + (faults + crashes) => m <= View.captured[s]

\* The new messages of a capture are newer than the cursor of its session, and
\* the cursor it writes is as new as all of them.
LEMMA CaptureMovesCursor ==
    ASSUME NEW op \in CaptureOp, NEW cp \in Checkpoint
    PROVE  /\ \A s \in Sessions :
                 CaptureAtomically(op, cp).captured[s] >= cp.captured[s]
           /\ \A m \in RecordConversation(op, cp) :
                 /\ m > cp.captured[op.session]
                 /\ m <= CaptureAtomically(op, cp).captured[op.session]
<1> DEFINE new == RecordConversation(op, cp)
           ses == op.session
<1>1. ses \in Sessions /\ op.window \subseteq Time
  BY DEF CaptureOp
<1>2. cp.captured \in [Sessions -> Cursor]
  BY DEF Checkpoint
<1>3. \A s \in Sessions : cp.captured[s] \in Nat
  BY <1>2, BoundsAssumption DEF Cursor
<1>4. new \subseteq Time
  BY <1>1 DEF RecordConversation
<1>5. \A m \in new : m > cp.captured[ses]
  <2> TAKE m \in new
  <2>1. m \in Time /\ m > AfterTimestamp(op, cp)
    BY <1>4 DEF RecordConversation
  <2>2. CASE cp.captured[ses] = 0
    BY <2>1, <2>2, BoundsAssumption DEF Time
  <2>3. CASE cp.captured[ses] # 0
    BY <2>1, <2>3 DEF AfterTimestamp
  <2> QED  BY <2>2, <2>3
<1>6. CASE new = {}
  <2>1. CaptureAtomically(op, cp) = cp
    BY <1>6 DEF CaptureAtomically
  <2> QED  BY <1>3, <1>6, <2>1
<1>7. CASE new # {}
  <2> DEFINE c == [cp.captured EXCEPT ![ses] = Newest(new)]
  <2>1. CaptureAtomically(op, cp).captured = c
    BY <1>7 DEF CaptureAtomically, Checkpoint
  <2>2. Newest(new) \in new /\ \A m \in new : m <= Newest(new)
    <3> HIDE DEF new
    <3>1. new \subseteq 0 .. MaxMessages
      BY <1>4, BoundsAssumption DEF Time
    <3> QED  BY <3>1, <1>7, NewestExists, BoundsAssumption
  <2>3. Newest(new) > cp.captured[ses] /\ Newest(new) \in Nat
    <3> HIDE DEF new, ses
    <3>1. Newest(new) \in Time
      BY <1>4, <2>2
    <3>2. Newest(new) > cp.captured[ses]
      BY <1>5, <2>2
    <3> QED  BY <3>1, <3>2, BoundsAssumption DEF Time
  <2>4. c[ses] = Newest(new) /\ \A s \in Sessions : s # ses => c[s] = cp.captured[s]
    <3> HIDE DEF new, ses
    <3> QED  BY <1>1, <1>2
  <2>5. \A s \in Sessions : c[s] >= cp.captured[s]
    <3> HIDE DEF new, ses, c
    <3> QED  BY <1>3, <2>3, <2>4
  <2>6. \A m \in new : m > cp.captured[ses] /\ m <= c[ses]
    <3> HIDE DEF new, ses, c
    <3> QED  BY <1>5, <2>2, <2>4
  <2> HIDE DEF c
  <2> QED  BY <2>1, <2>5, <2>6
<1> QED  BY <1>6, <1>7

LEMMA ApplyMovesCursor ==
    ASSUME NEW op \in Op, NEW cp \in Checkpoint, NEW s \in Sessions
    PROVE  Apply(op, cp).captured[s] >= cp.captured[s]
<1>1. cp.captured[s] \in Nat
  BY BoundsAssumption DEF Checkpoint, Cursor
<1>2. CASE op \in CaptureOp
  <2>1. Apply(op, cp) = CaptureAtomically(op, cp)
    BY <1>2 DEF Apply, CaptureOp
  <2> QED  BY <1>2, <2>1, CaptureMovesCursor
<1>3. CASE op \in L1Op
  <2>1. Apply(op, cp) = MarkL1ExtractionComplete(op, cp)
    BY <1>3 DEF Apply, L1Op
  <2>2. Apply(op, cp).captured = cp.captured
    BY <2>1 DEF MarkL1ExtractionComplete, Checkpoint
  <2> QED  BY <1>1, <2>2
<1>4. CASE op \in MergeOp
  <2>1. Apply(op, cp) = MergePipelineStates(op, cp)
    BY <1>4 DEF Apply, MergeOp
  <2>2. Apply(op, cp).captured = cp.captured
    BY <2>1 DEF MergePipelineStates, Checkpoint
  <2> QED  BY <1>1, <2>2
<1> QED  BY <1>2, <1>3, <1>4 DEF Op

\* A failure allows one more delivery of every message.
LEMMA FailureAllowsOneMore ==
    ASSUME TypeOK, RetakenInv, taken' = taken,
           faults' \in Nat, crashes' \in Nat,
           faults' + crashes' > faults + crashes
    PROVE  RetakenInv'
<1>0. faults' \in Nat /\ crashes' \in Nat /\ faults' + crashes' > faults + crashes
  OBVIOUS
<1>1. faults \in Nat /\ crashes \in Nat
  BY FaultBoundsAssumption DEF TypeOK
<1>2. faults' + crashes' \in Nat
  <2>1. \A x, y \in Nat : x + y \in Nat
    OBVIOUS
  <2> QED  BY <1>0, <2>1, Zenon
<1>3. ASSUME NEW s \in Sessions, NEW m \in Time
      PROVE  taken'[s][m] < 1 + (faults' + crashes')
  <2> DEFINE t == taken[s][m]
             l == faults + crashes
             k == faults' + crashes'
  <2>1. t \in Nat /\ t <= 1 + l
    BY DEF TypeOK, RetakenInv
  <2>2. l \in Nat /\ k \in Nat /\ k > l
    <3>1. l \in Nat
      BY <1>1
    <3>2. k \in Nat
      BY <1>2
    <3>3. k > l
      BY <1>0
    <3> QED  BY <3>1, <3>2, <3>3
  <2>3. taken'[s][m] = t
    OBVIOUS
  <2> HIDE DEF t, l
  <2>4. t < 1 + k
    <3> HIDE DEF k
    <3> QED  BY <2>1, <2>2
  <2> QED  BY <2>3, <2>4
<1>4. ASSUME NEW s \in Sessions, NEW m \in Time
      PROVE  taken'[s][m] \in Nat
  BY DEF TypeOK
<1> QED  BY <1>3, <1>4 DEF RetakenInv

LEMMA SameView ==
    ASSUME RetakenInv, UNCHANGED <<taken, faults, crashes>>, View' = View
    PROVE  RetakenInv'
BY Zenon DEF RetakenInv

LEMMA RunKeepsRetaken ==
    ASSUME TypeOK, RetakenInv, 1 \in DOMAIN chain, Run(1)
    PROVE  RetakenInv'
<1> DEFINE op == chain[1].op
           cp == chain[1].cp
           c  == Apply(op, cp)
<1>1. op \in Op /\ cp \in Checkpoint /\ c \in Checkpoint
  BY EntryHasType, ApplyKeepsType
<1>2. View = cp
  BY DEF View, Run
<1>3. View' = c
  <2>1. Advance(1, "applied", c)
    BY DEF Run, Advance
  <2>2. chain \in Seq(Entry)
    BY DEF TypeOK
  <2>3. chain'[1].step = "applied" /\ chain'[1].cp = c /\ 1 \in DOMAIN chain'
    <3> HIDE DEF c
    <3> QED  BY <1>1, <2>1, <2>2, AdvanceEntry
  <2> HIDE DEF c
  <2> QED  BY <2>3 DEF View
<1>4. faults \in Nat /\ crashes \in Nat /\ UNCHANGED <<faults, crashes>>
  BY FaultBoundsAssumption DEF TypeOK, Run
<1> SUFFICES ASSUME NEW s \in Sessions, NEW m \in Time
             PROVE  /\ taken'[s][m] <= 1 + (faults + crashes)
                    /\ taken'[s][m] = 1 + (faults + crashes) => m <= c.captured[s]
  <2> HIDE DEF c
  <2> QED  BY <1>3, <1>4 DEF RetakenInv
<1>5. /\ taken[s][m] \in Nat
      /\ taken[s][m] <= 1 + (faults + crashes)
      /\ taken[s][m] = 1 + (faults + crashes) => m <= cp.captured[s]
      /\ taken \in [Sessions -> [Time -> Nat]]
  <2> HIDE DEF cp
  <2> QED  BY <1>2 DEF TypeOK, RetakenInv
<1>6. /\ cp.captured[s] \in Nat /\ c.captured[s] \in Nat
      /\ c.captured[s] >= cp.captured[s]
      /\ m \in Nat
  <2>1. m \in Nat
    BY BoundsAssumption DEF Time
  <2> HIDE DEF c, cp, op
  <2>2. cp.captured[s] \in Nat /\ c.captured[s] \in Nat
    BY <1>1, BoundsAssumption DEF Checkpoint, Cursor
  <2>3. c.captured[s] >= cp.captured[s]
    BY <1>1, ApplyMovesCursor DEF c
  <2> QED  BY <2>1, <2>2, <2>3
<1> DEFINE new == RecordConversation(op, cp)
<1>7. CASE op.kind = "captureAtomically" /\ s = op.session /\ m \in new
  <2>1. op \in CaptureOp
    BY <1>1, <1>7 DEF Op, CaptureOp, L1Op, MergeOp
  <2>2. c = CaptureAtomically(op, cp)
    BY <1>7 DEF Apply
  <2>3. m > cp.captured[s] /\ m <= c.captured[s]
    <3> HIDE DEF c, cp, op
    <3> QED  BY <1>1, <1>7, <2>1, <2>2, CaptureMovesCursor
  <2>4. taken'[s][m] = taken[s][m] + 1
    <3>1. taken' = [taken EXCEPT ![s] = [k \in Time |->
             IF k \in new THEN taken[s][k] + 1 ELSE taken[s][k]]]
      BY <1>7 DEF Run
    <3> HIDE DEF new
    <3> QED  BY <1>5, <1>7, <3>1
  <2> HIDE DEF c, cp, op, new
  <2> QED  BY <1>4, <1>5, <1>6, <2>3, <2>4
<1>8. CASE ~ (op.kind = "captureAtomically" /\ s = op.session /\ m \in new)
  <2>1. taken'[s][m] = taken[s][m]
    <3>1. CASE op.kind = "captureAtomically"
      <4>1. taken' = [taken EXCEPT ![op.session] = [k \in Time |->
               IF k \in new THEN taken[op.session][k] + 1 ELSE taken[op.session][k]]]
        BY <3>1 DEF Run
      <4> HIDE DEF new, op, cp, c
      <4> QED  BY <1>5, <1>8, <3>1, <4>1
    <3>2. CASE op.kind # "captureAtomically"
      BY <3>2 DEF Run
    <3> QED  BY <3>1, <3>2
  <2> HIDE DEF c, cp, op, new
  <2> QED  BY <1>4, <1>5, <1>6, <2>1
<1> QED  BY <1>7, <1>8

LEMMA RetakenInvKept ==
    ASSUME TypeOK, LockInv, RetakenInv, [Next]_vars
    PROVE  RetakenInv'
<1>1. /\ faults \in Nat /\ crashes \in Nat
      /\ chain \in Seq(Entry) /\ file \in Checkpoint
  BY FaultBoundsAssumption DEF TypeOK
<1>2. faults' \in Nat /\ crashes' \in Nat
  BY StepKeepsType, FaultBoundsAssumption DEF TypeOK
<1>3. CASE HeadStep
  <2>1. 1 \in DOMAIN chain
    BY <1>3 DEF HeadStep
  <2>2. CASE Read(1)
    <3>1. CASE Fault
      BY <1>1, <1>2, <2>2, <3>1, FailureAllowsOneMore DEF Read, Fault, l0Vars
    <3>2. CASE ~ Fault
      <4>1. Advance(1, "loaded", file)
        BY <2>2, <3>2 DEF Read, Advance
      <4>2. chain'[1].step = "loaded" /\ chain'[1].cp = file /\ 1 \in DOMAIN chain'
        BY <1>1, <2>1, <4>1, AdvanceEntry
      <4>3. View' = View
        BY <2>2, <4>2 DEF View, Read
      <4> QED  BY <2>2, <3>2, <4>3, SameView DEF Read, l0Vars
    <3> QED  BY <3>1, <3>2
  <2>3. CASE Run(1)
    BY <2>1, <2>3, RunKeepsRetaken
  <2>4. CASE Write(1)
    <3>1. View = file'
      BY <2>1, <2>4 DEF View, Write
    <3>2. Release(1)
      BY <2>4 DEF Write
    <3>3. 1 \in DOMAIN chain' => chain'[1].step = "waiting"
      BY <2>1, <3>2, RestOfChain DEF LockInv
    <3>4. View' = View
      BY <3>1, <3>3 DEF View
    <3> QED  BY <2>4, <3>4, SameView DEF Write, l0Vars
  <2>5. CASE WriteFails(1)
    BY <1>1, <1>2, <2>5, FailureAllowsOneMore DEF WriteFails, Fault, l0Vars
  <2> QED  BY <1>3, <2>2, <2>3, <2>4, <2>5 DEF HeadStep
<1>4. CASE Enqueue
  <2>1. PICK op \in Op : WithFileLock(op)
    BY <1>4 DEF Enqueue
  <2>2. View' = View
    <3>1. CASE chain = <<>>
      <4>1. Len(chain) = 0
        BY <3>1
      <4>2. chain'[1].step = "waiting"
        BY <2>1, <4>1, EnqueueEntry
      <4> QED  BY <1>4, <3>1, <4>2 DEF View, Enqueue
    <3>2. CASE chain # <<>>
      <4>1. 1 \in DOMAIN chain /\ 1 \in 1 .. Len(chain)
        BY <1>1, <3>2
      <4>2. /\ \A j \in 1 .. Len(chain) : chain'[j] = chain[j]
            /\ Len(chain') = Len(chain) + 1
            /\ chain' \in Seq(Entry)
        BY <2>1, EnqueueEntry
      <4>3. chain'[1] = chain[1] /\ 1 \in DOMAIN chain'
        BY <1>1, <4>1, <4>2
      <4> QED  BY <1>4, <4>1, <4>3 DEF View, Enqueue
    <3> QED  BY <3>1, <3>2
  <2> QED  BY <1>4, <2>2, SameView DEF Enqueue
<1>5. CASE Elsewhere
  <2>1. CASE Fault
    BY <1>1, <1>2, <1>5, <2>1, FailureAllowsOneMore DEF Elsewhere, Fault
  <2>2. CASE faults' = faults
    <3>1. View' = View
      BY <1>5 DEF View, Elsewhere
    <3> QED  BY <1>5, <2>2, <3>1, SameView DEF Elsewhere
  <2> QED  BY <1>5, <2>1, <2>2 DEF Elsewhere
<1>6. CASE Crash
  <2>1. crashes' = crashes + 1 /\ taken' = taken
    BY <1>6 DEF Crash
  <2>2. faults' = faults \/ faults' = faults + 1
    BY <1>6 DEF Crash, Fault
  <2>3. faults' + crashes' > faults + crashes
    BY <1>1, <2>1, <2>2
  <2> QED  BY <1>2, <2>1, <2>3, FailureAllowsOneMore
<1> QED  BY <1>3, <1>4, <1>5, <1>6, StepCases

LEMMA InitRetaken == Init => RetakenInv
<1> SUFFICES ASSUME Init PROVE RetakenInv
  OBVIOUS
<1>1. \A s \in Sessions, m \in Time : taken[s][m] = 0
  BY DEF Init
<1>2. faults = 0 /\ crashes = 0
  BY DEF Init
<1> QED  BY <1>1, <1>2 DEF RetakenInv

\* captureAtomically delivers a message at most once more than there were
\* failed reads and writes of the file and crashes, for any number of
\* conversations, of concurrent captures and of repeated agent_end events.
THEOREM RetakenPerFault == Spec => []RetakenOnlyPerFault
<1>1. Init => TypeOK /\ LockInv /\ RetakenInv
  BY InitHasType, InitRetaken DEF Init, LockInv
<1>2. TypeOK /\ LockInv /\ RetakenInv /\ [Next]_vars =>
         (TypeOK /\ LockInv /\ RetakenInv)'
  BY StepKeepsType, LockInvKept, RetakenInvKept
<1>3. TypeOK /\ RetakenInv => RetakenOnlyPerFault
  <2> SUFFICES ASSUME TypeOK, RetakenInv, NEW s \in Sessions, NEW m \in Time
               PROVE  taken[s][m] <= 1 + faults + crashes
    BY DEF RetakenOnlyPerFault
  <2>1. faults \in Nat /\ crashes \in Nat /\ taken[s][m] \in Nat
    BY FaultBoundsAssumption DEF TypeOK
  <2>2. taken[s][m] <= 1 + (faults + crashes)
    BY DEF RetakenInv
  <2> QED  BY <2>1, <2>2
<1> QED  BY <1>1, <1>2, <1>3, PTL DEF Spec

\* While nothing fails, each message is delivered to L0 at most once.
THEOREM DeliveredOnce == Spec => []TakenOnce
<1>1. RetakenOnlyPerFault => TakenOnce
  BY DEF RetakenOnlyPerFault, TakenOnce, Healthy
<1> QED  BY <1>1, RetakenPerFault, PTL

-----------------------------------------------------------------------------
(* The inductive invariant of the captures *)

IsCapture(i, s) ==
    chain[i].op.kind = "captureAtomically" /\ chain[i].op.session = s

\* Operation i is a capture that has yet to hand over message m of session s.
WillTake(i, s, m) ==
    /\ IsCapture(i, s)
    /\ m \in chain[i].op.window
    /\ chain[i].step # "applied"

\* Message m has been handed over, or will be before operation n runs.
TakenBefore(n, s, m) ==
    \/ taken[s][m] > 0
    \/ \E i \in DOMAIN chain : i < n /\ WillTake(i, s, m)
Accounted(s, m) ==
    taken[s][m] > 0 \/ \E i \in DOMAIN chain : WillTake(i, s, m)

\* The cursors of a checkpoint pass nothing that was not handed over.
CursorsTrue(cp) ==
    \A s \in Sessions :
        /\ cp.captured[s] <= clock
        /\ \A m \in log[s] \ Noise : m <= cp.captured[s] => taken[s][m] > 0

\* What is said is in the past, and a capture is given part of it, counted
\* from the start of the process, which is the first.
WindowsTrue ==
    /\ boot = 0
    /\ \A s \in Sessions : \A m \in log[s] : m <= clock
    /\ \A i \in DOMAIN chain, s \in Sessions :
          IsCapture(i, s) => /\ chain[i].op.floor = 0
                             /\ chain[i].op.window \subseteq log[s]

\* A window leaves out an earlier message only when a capture before it has it.
WindowsClosed ==
    \A i \in DOMAIN chain, s \in Sessions :
        IsCapture(i, s) =>
            \A n \in chain[i].op.window, m \in log[s] \ Noise :
                m < n => m \in chain[i].op.window \/ TakenBefore(i, s, m)

\* The length of the history that before_prompt_build caches counts messages
\* that the captures of earlier turns have; between turns they have them all.
TurnsAccounted ==
    \A s \in Sessions : \A m \in log[s] \ Noise :
        s \notin turn \/ m <= cut[s] => Accounted(s, m)

CaptureInv ==
    crashes = 0 =>
        /\ WindowsTrue
        /\ WindowsClosed
        /\ TurnsAccounted
        /\ CursorsTrue(file)
        /\ CursorsTrue(View)

-----------------------------------------------------------------------------
(* The chain before and after a step *)

LEMMA ChainDomain ==
    ASSUME TypeOK
    PROVE  Len(chain) \in Nat /\ DOMAIN chain = 1 .. Len(chain)
BY DEF TypeOK

LEMMA EnqueueShape ==
    ASSUME TypeOK, NEW op \in Op, WithFileLock(op)
    PROVE  /\ DOMAIN chain' = 1 .. (Len(chain) + 1)
           /\ \A i \in DOMAIN chain : i \in DOMAIN chain' /\ chain'[i] = chain[i]
           /\ chain'[Len(chain) + 1].op = op
           /\ chain'[Len(chain) + 1].step = "waiting"
           /\ file' = file => View' = View /\ Latest' = Latest
<1>1. Len(chain) \in Nat /\ DOMAIN chain = 1 .. Len(chain)
  BY ChainDomain
<1>2. DOMAIN chain' = 1 .. (Len(chain) + 1)
  BY EnqueueEntry
<1>3. \A i \in DOMAIN chain : i \in DOMAIN chain' /\ chain'[i] = chain[i]
  BY <1>1, <1>2, EnqueueEntry
<1>4. /\ chain'[Len(chain) + 1].op = op
      /\ chain'[Len(chain) + 1].step = "waiting"
  BY EnqueueEntry
<1>5. CASE Len(chain) = 0
  <2>1. 1 \notin DOMAIN chain /\ chain'[1].step = "waiting" /\ chain = <<>>
    BY <1>1, <1>4, <1>5 DEF TypeOK
  <2> QED  BY <1>2, <1>3, <1>4, <2>1 DEF View, Latest
<1>6. CASE Len(chain) # 0
  <2>1. 1 \in DOMAIN chain /\ 1 \in DOMAIN chain' /\ chain'[1] = chain[1]
    BY <1>1, <1>2, <1>3, <1>6
  <2>2. chain # <<>> /\ chain' # <<>>
    BY <1>1, <1>2, <2>1
  <2> QED  BY <1>2, <1>3, <1>4, <2>1, <2>2 DEF View, Latest
<1> QED  BY <1>5, <1>6

LEMMA AdvanceShape ==
    ASSUME TypeOK, 1 \in DOMAIN chain,
           NEW st \in {"loaded", "applied"}, NEW c \in Checkpoint,
           Advance(1, st, c)
    PROVE  /\ DOMAIN chain' = DOMAIN chain
           /\ \A i \in DOMAIN chain : chain'[i].op = chain[i].op
           /\ \A i \in DOMAIN chain : i # 1 => chain'[i] = chain[i]
           /\ chain'[1].step = st /\ chain'[1].cp = c
           /\ View' = c
<1>1. Len(chain) \in Nat /\ DOMAIN chain = 1 .. Len(chain)
  BY ChainDomain
<1>2. /\ chain' \in Seq(Entry) /\ Len(chain') = Len(chain)
      /\ chain'[1].op = chain[1].op /\ chain'[1].step = st /\ chain'[1].cp = c
      /\ \A j \in 1 .. Len(chain) : j # 1 => chain'[j] = chain[j]
  BY AdvanceEntry
<1>3. DOMAIN chain' = DOMAIN chain
  BY <1>1, <1>2
<1> QED  BY <1>1, <1>2, <1>3 DEF View

LEMMA ReleaseShape ==
    ASSUME TypeOK, LockInv, 1 \in DOMAIN chain, Release(1)
    PROVE  /\ DOMAIN chain' = 1 .. (Len(chain) - 1)
           /\ \A i \in DOMAIN chain' :
                 /\ i + 1 \in DOMAIN chain /\ chain'[i] = chain[i + 1]
                 /\ chain'[i].step = "waiting"
           /\ View' = file'
           /\ Latest' = file'
<1>1. chain \in Seq(Entry) /\ 1 \in 1 .. Len(chain)
  BY DEF TypeOK
<1>2. chain' = RemoveAt(chain, 1)
  BY DEF Release
<1>3. /\ chain' \in Seq(Entry)
      /\ Len(chain') = Len(chain) - 1
      /\ \A j \in 1 .. Len(chain) - 1 :
            chain'[j] = IF j < 1 THEN chain[j] ELSE chain[j + 1]
  BY <1>1, <1>2, RemoveAtProperties
<1>4. DOMAIN chain' = 1 .. (Len(chain) - 1)
  BY <1>3
<1>5. ASSUME NEW i \in DOMAIN chain'
      PROVE  /\ i + 1 \in DOMAIN chain /\ chain'[i] = chain[i + 1]
             /\ chain'[i].step = "waiting"
  <2>1. i + 1 \in DOMAIN chain /\ i + 1 # 1 /\ chain'[i] = chain[i + 1]
    BY <1>1, <1>3, <1>4
  <2> QED  BY <2>1 DEF LockInv
<1>6. View' = file'
  BY <1>5 DEF View
<1>7. chain' # <<>> => 1 \in DOMAIN chain'
  BY <1>3
<1> QED  BY <1>4, <1>5, <1>6, <1>7 DEF Latest

-----------------------------------------------------------------------------
(* The captures, action by action *)

\* A capture leaves the cursors of other sessions alone and moves that of its
\* own at most to a message it records; other operations move none.
LEMMA CaptureCursor ==
    ASSUME NEW op \in CaptureOp, NEW cp \in Checkpoint
    PROVE  /\ \A s \in Sessions : s # op.session =>
                 CaptureAtomically(op, cp).captured[s] = cp.captured[s]
           /\ CaptureAtomically(op, cp).captured[op.session] \in
                 {cp.captured[op.session]} \cup RecordConversation(op, cp)
<1> DEFINE new == RecordConversation(op, cp)
           ses == op.session
<1>1. ses \in Sessions /\ op.window \subseteq Time
  BY DEF CaptureOp
<1>2. cp.captured \in [Sessions -> Cursor]
  BY DEF Checkpoint
<1>3. CASE new = {}
  <2>1. CaptureAtomically(op, cp) = cp
    BY <1>3 DEF CaptureAtomically
  <2> QED  BY <2>1
<1>4. CASE new # {}
  <2> DEFINE c == [cp.captured EXCEPT ![ses] = Newest(new)]
  <2>1. CaptureAtomically(op, cp).captured = c
    BY <1>4 DEF CaptureAtomically, Checkpoint
  <2>2. Newest(new) \in new
    <3>1. new \subseteq 0 .. MaxMessages
      BY <1>1, BoundsAssumption DEF Time, RecordConversation
    <3> HIDE DEF new
    <3> QED  BY <3>1, <1>4, NewestExists, BoundsAssumption
  <2>3. c[ses] = Newest(new) /\ \A s \in Sessions : s # ses => c[s] = cp.captured[s]
    <3> HIDE DEF new, ses
    <3> QED  BY <1>1, <1>2
  <2> HIDE DEF c
  <2> QED  BY <2>1, <2>2, <2>3
<1> QED  BY <1>3, <1>4

LEMMA OthersKeepCursor ==
    ASSUME NEW op \in Op, NEW cp \in Checkpoint, op.kind # "captureAtomically"
    PROVE  Apply(op, cp).captured = cp.captured
<1>1. CASE op \in CaptureOp
  BY <1>1 DEF CaptureOp
<1>2. CASE op \in L1Op
  <2>1. Apply(op, cp) = MarkL1ExtractionComplete(op, cp)
    BY <1>2 DEF Apply, L1Op
  <2> QED  BY <2>1 DEF MarkL1ExtractionComplete, Checkpoint
<1>3. CASE op \in MergeOp
  <2>1. Apply(op, cp) = MergePipelineStates(op, cp)
    BY <1>3 DEF Apply, MergeOp
  <2> QED  BY <2>1 DEF MergePipelineStates, Checkpoint
<1> QED  BY <1>1, <1>2, <1>3 DEF Op

\* a step that touches neither the file nor the conversations
LEMMA SameCaptures ==
    ASSUME CaptureInv, UNCHANGED <<file, chain, taken, log, clock, turn, cut, boot, crashes>>
    PROVE  CaptureInv'
<1>1. View' = View
  BY DEF View
<1> QED  BY <1>1 DEF CaptureInv, WindowsTrue, WindowsClosed, TurnsAccounted, CursorsTrue,
                     TakenBefore, Accounted, WillTake, IsCapture

\* what each new operation has to satisfy
LEMMA EnqueueKeepsCaptures ==
    ASSUME TypeOK, CaptureInv, crashes = 0, NEW op \in Op, WithFileLock(op),
           UNCHANGED <<file, taken, log, clock, cut, boot>>,
           op.kind = "captureAtomically" =>
               /\ op.floor = 0
               /\ op.window \subseteq log[op.session]
               /\ \A m \in log[op.session] \ Noise :
                     m \in op.window \/ Accounted(op.session, m),
           \A s \in Sessions : s \in turn => s \in turn' \/
               /\ op.kind = "captureAtomically"
               /\ op.session = s
    PROVE  CaptureInv'
<1>0. PICK n : n = Len(chain) + 1
  OBVIOUS
<1>1. /\ Len(chain) \in Nat /\ DOMAIN chain = 1 .. Len(chain)
      /\ DOMAIN chain' = 1 .. n
      /\ \A i \in DOMAIN chain : i \in DOMAIN chain' /\ chain'[i] = chain[i]
      /\ chain'[n].op = op /\ chain'[n].step = "waiting"
      /\ View' = View
  BY <1>0, ChainDomain, EnqueueShape
<1>2. /\ n \in DOMAIN chain' /\ \A i \in DOMAIN chain : i < n /\ i # n
      /\ \A i \in DOMAIN chain' : i \in DOMAIN chain \/ i = n
  BY <1>0, <1>1
<1>3. \A i \in DOMAIN chain : \A s, m : WillTake(i, s, m)' <=> WillTake(i, s, m)
  BY <1>1 DEF WillTake, IsCapture
<1>4. \A i \in DOMAIN chain : \A s, m : TakenBefore(i, s, m) => TakenBefore(i, s, m)'
  BY <1>1, <1>3 DEF TakenBefore
<1>5. \A s, m : Accounted(s, m) => Accounted(s, m)' /\ TakenBefore(n, s, m)'
  BY <1>1, <1>2, <1>3 DEF TakenBefore, Accounted
<1>6. /\ WindowsTrue /\ WindowsClosed /\ TurnsAccounted
      /\ CursorsTrue(file) /\ CursorsTrue(View)
  BY DEF CaptureInv
<1>7. WindowsTrue'
  BY <1>1, <1>2, <1>6 DEF WindowsTrue, IsCapture
<1>8. WindowsClosed'
  <2> SUFFICES ASSUME NEW i \in DOMAIN chain', NEW s \in Sessions, IsCapture(i, s)',
                      NEW k \in chain'[i].op.window, NEW m \in log'[s] \ Noise,
                      m < k
               PROVE  m \in chain'[i].op.window \/ TakenBefore(i, s, m)'
    BY DEF WindowsClosed
  <2>1. CASE i \in DOMAIN chain
    <3>1. IsCapture(i, s) /\ chain'[i] = chain[i]
      BY <1>1, <2>1 DEF IsCapture
    <3>2. m \in chain[i].op.window \/ TakenBefore(i, s, m)
      BY <1>6, <2>1, <3>1 DEF WindowsClosed
    <3> QED  BY <1>4, <2>1, <3>1, <3>2
  <2>2. CASE i = n
    <3>1. op.kind = "captureAtomically" /\ op.session = s /\ chain'[i].op = op
      BY <1>1, <2>2 DEF IsCapture
    <3>2. m \in op.window \/ Accounted(s, m)
      BY <3>1
    <3> QED  BY <1>5, <2>2, <3>1, <3>2
  <2> QED  BY <1>2, <2>1, <2>2
<1>9. TurnsAccounted'
  <2> SUFFICES ASSUME NEW s \in Sessions, NEW m \in log[s] \ Noise,
                      s \notin turn' \/ m <= cut[s]
               PROVE  Accounted(s, m)'
    BY DEF TurnsAccounted
  <2>1. CASE s \notin turn \/ m <= cut[s]
    BY <1>5, <1>6, <2>1 DEF TurnsAccounted
  <2>2. CASE s \in turn /\ s \notin turn'
    <3>1. op.kind = "captureAtomically" /\ op.session = s
      BY <2>2
    <3>2. m \in op.window \/ Accounted(s, m)
      BY <3>1
    <3>3. m \in op.window => WillTake(n, s, m)'
      BY <1>1, <3>1 DEF WillTake, IsCapture
    <3> QED  BY <1>2, <1>5, <3>2, <3>3 DEF Accounted
  <2> QED  BY <2>1, <2>2
<1>10. CursorsTrue(file)' /\ CursorsTrue(View)'
  BY <1>1, <1>6 DEF CursorsTrue
<1> QED  BY <1>7, <1>8, <1>9, <1>10 DEF CaptureInv

\* agent_end: either window leaves out only what an earlier capture has
LEMMA CallCaptureKeepsCaptures ==
    ASSUME TypeOK, CaptureInv, crashes = 0, NEW s \in Sessions, CallCapture(s),
           UNCHANGED <<file, taken, log, clock, cut, boot>>,
           turn' = turn \/ turn' = turn \ {s}
    PROVE  CaptureInv'
<1>1. PICK w \in Windows(s) :
        WithFileLock([kind |-> "captureAtomically", session |-> s,
                      window |-> w, floor |-> boot])
  BY Zenon DEF CallCapture
<1>2. WindowsTrue /\ TurnsAccounted
  BY DEF CaptureInv
<1>3. /\ w \subseteq log[s] /\ log[s] \subseteq Time
      /\ \A m \in log[s] : m \in w \/ m <= cut[s]
  <2>1. log[s] \subseteq Time /\ cut[s] \in Nat /\ \A m \in Time : m \in Nat
    BY BoundsAssumption DEF TypeOK, Time, Cursor
  <2> QED  BY <2>1 DEF Windows
<1>4. PICK op : op = [kind |-> "captureAtomically", session |-> s,
                      window |-> w, floor |-> boot]
  OBVIOUS
<1>5. /\ op.kind = "captureAtomically" /\ op.session = s
      /\ op.window = w /\ op.floor = 0
  BY <1>2, <1>4 DEF WindowsTrue
<1>6. op \in Op
  BY <1>3, <1>4 DEF TypeOK, Op, CaptureOp
<1>7. \A m \in log[s] \ Noise : m \in w \/ Accounted(s, m)
  BY <1>2, <1>3 DEF TurnsAccounted
<1> QED  BY <1>1, <1>3, <1>4, <1>5, <1>6, <1>7, EnqueueKeepsCaptures

LEMMA BuildPromptKeepsCaptures ==
    ASSUME TypeOK, CaptureInv, crashes = 0, NEW s \in Sessions, BuildPrompt(s)
    PROVE  CaptureInv'
<1>1. /\ log \in [Sessions -> SUBSET Time] /\ clock \in Nat /\ cut \in [Sessions -> Cursor]
      /\ \A m \in Time : m \in Nat
      /\ file \in Checkpoint /\ turn \in SUBSET Sessions
  BY BoundsAssumption DEF TypeOK, Time, Cursor
<1>2. /\ s \notin turn /\ clock' = clock + 1 /\ turn' = turn \cup {s}
      /\ cut' = [cut EXCEPT ![s] = IF log[s] = {} THEN 0 ELSE Newest(log[s])]
      /\ log' = [log EXCEPT ![s] = @ \cup {clock'}]
      /\ UNCHANGED <<file, chain, taken, boot, crashes>>
  BY DEF BuildPrompt, fileVars
<1>3. /\ WindowsTrue /\ WindowsClosed /\ TurnsAccounted
      /\ CursorsTrue(file) /\ CursorsTrue(View)
  BY DEF CaptureInv
<1>4. View' = View /\ View \in Checkpoint
  BY <1>1, <1>2, EntryHasType DEF View
<1>5. ASSUME NEW t \in Sessions
      PROVE  /\ log[t] \subseteq log'[t]
             /\ \A m \in log'[t] : m \in log[t] \/ (m = clock + 1 /\ t = s)
             /\ t # s => cut'[t] = cut[t]
  BY <1>1, <1>2
<1>6. \A i, t, m : TakenBefore(i, t, m)' <=> TakenBefore(i, t, m)
  BY <1>2 DEF TakenBefore, WillTake, IsCapture
<1>7. \A t, m : Accounted(t, m)' <=> Accounted(t, m)
  BY <1>2 DEF Accounted, WillTake, IsCapture
<1>8. ASSUME NEW i \in DOMAIN chain, NEW t \in Sessions, IsCapture(i, t)
      PROVE  \A k \in chain[i].op.window : k \in Nat /\ k <= clock
  <2>1. chain[i].op.window \subseteq log[t] /\ log[t] \subseteq Time
    BY <1>1, <1>3, <1>8 DEF WindowsTrue
  <2> QED  BY <1>1, <1>3, <2>1 DEF WindowsTrue
<1>9. WindowsTrue'
  <2>1. \A t \in Sessions : \A m \in log'[t] : m <= clock'
    BY <1>1, <1>2, <1>3, <1>5 DEF WindowsTrue
  <2>2. \A i \in DOMAIN chain', t \in Sessions :
          IsCapture(i, t)' => /\ chain'[i].op.floor = 0
                              /\ chain'[i].op.window \subseteq log'[t]
    BY <1>2, <1>3, <1>5 DEF WindowsTrue, IsCapture
  <2> QED  BY <1>2, <1>3, <2>1, <2>2 DEF WindowsTrue
<1>10. WindowsClosed'
  <2> SUFFICES ASSUME NEW i \in DOMAIN chain, NEW t \in Sessions, IsCapture(i, t),
                      NEW k \in chain[i].op.window, NEW m \in log'[t] \ Noise,
                      m < k
               PROVE  m \in chain[i].op.window \/ TakenBefore(i, t, m)
    BY <1>2, <1>6 DEF WindowsClosed, IsCapture
  <2>1. m \in log[t]
    BY <1>1, <1>5, <1>8
  <2> QED  BY <1>3, <2>1 DEF WindowsClosed
<1>11. TurnsAccounted'
  <2> SUFFICES ASSUME NEW t \in Sessions, NEW m \in log'[t] \ Noise,
                      t \notin turn' \/ m <= cut'[t]
               PROVE  Accounted(t, m)
    BY <1>7 DEF TurnsAccounted
  <2>1. CASE t # s
    BY <1>2, <1>3, <1>5, <2>1 DEF TurnsAccounted
  <2>2. CASE t = s
    <3>1. m <= cut'[s] /\ cut'[s] = IF log[s] = {} THEN 0 ELSE Newest(log[s])
      BY <1>1, <1>2, <2>2
    <3>2. cut'[s] <= clock /\ cut'[s] \in Nat
      <4>1. CASE log[s] = {}
        BY <1>1, <3>1, <4>1
      <4>2. CASE log[s] # {}
        <5>1. Newest(log[s]) \in log[s]
          <6>1. log[s] \subseteq 0 .. MaxMessages
            BY <1>1, BoundsAssumption DEF Time
          <6> QED  BY <4>2, <6>1, NewestExists, BoundsAssumption
        <5> QED  BY <1>1, <1>3, <3>1, <4>2, <5>1 DEF WindowsTrue
      <4> QED  BY <4>1, <4>2
    <3>3. m \in log[s]
      <4>1. m # clock + 1
        BY <1>1, <3>1, <3>2
      <4> QED  BY <1>5, <2>2, <4>1
    <3> QED  BY <1>2, <1>3, <2>2, <3>3 DEF TurnsAccounted
  <2> QED  BY <2>1, <2>2
<1>12. ASSUME NEW cp \in Checkpoint, CursorsTrue(cp), NEW t \in Sessions
       PROVE  /\ cp.captured[t] <= clock'
              /\ \A m \in log'[t] \ Noise : m <= cp.captured[t] => taken'[t][m] > 0
  <2>1. cp.captured[t] \in Nat /\ cp.captured[t] <= clock
    BY <1>12, BoundsAssumption DEF Checkpoint, Cursor, CursorsTrue
  <2>2. cp.captured[t] <= clock' /\ ~ (clock + 1 <= cp.captured[t])
    BY <1>1, <1>2, <2>1
  <2> QED  BY <1>2, <1>5, <1>12, <2>2 DEF CursorsTrue
<1>13. CursorsTrue(file)'
  BY <1>1, <1>2, <1>3, <1>12 DEF CursorsTrue
<1>14. CursorsTrue(View)'
  BY <1>2, <1>3, <1>4, <1>12 DEF CursorsTrue
<1> QED  BY <1>9, <1>10, <1>11, <1>13, <1>14 DEF CaptureInv

\* read: the operation under way sees the file, or an empty checkpoint, whose
\* cursors pass nothing
LEMMA ReadKeepsCaptures ==
    ASSUME TypeOK, CaptureInv, crashes = 0, 1 \in DOMAIN chain, Read(1)
    PROVE  CaptureInv'
<1>1. PICK c \in {file, DEFAULT_CHECKPOINT} : Advance(1, "loaded", c)
  BY DEF Read, Advance
<1>2. c \in Checkpoint
  BY DefaultHasType DEF TypeOK
<1>3. /\ DOMAIN chain' = DOMAIN chain
      /\ \A i \in DOMAIN chain : chain'[i].op = chain[i].op
      /\ \A i \in DOMAIN chain : i # 1 => chain'[i] = chain[i]
      /\ chain'[1].step = "loaded"
      /\ View' = c
  BY <1>1, <1>2, AdvanceShape
<1>4. /\ chain[1].step = "waiting"
      /\ UNCHANGED <<file, taken, log, clock, turn, cut, boot, crashes>>
  BY DEF Read, l0Vars
<1>5. \A i \in DOMAIN chain : \A s : IsCapture(i, s)' <=> IsCapture(i, s)
  BY <1>3 DEF IsCapture
<1>6. \A i \in DOMAIN chain : \A s, m : WillTake(i, s, m)' <=> WillTake(i, s, m)
  BY <1>3, <1>4, <1>5 DEF WillTake
<1>7. /\ \A i, s, m : TakenBefore(i, s, m)' <=> TakenBefore(i, s, m)
      /\ \A s, m : Accounted(s, m)' <=> Accounted(s, m)
  BY <1>3, <1>4, <1>6 DEF TakenBefore, Accounted
<1>8. /\ WindowsTrue /\ WindowsClosed /\ TurnsAccounted /\ CursorsTrue(file)
  BY DEF CaptureInv
<1>9. WindowsTrue'
  BY <1>3, <1>4, <1>5, <1>8 DEF WindowsTrue
<1>10. WindowsClosed'
  BY <1>3, <1>4, <1>5, <1>7, <1>8 DEF WindowsClosed
<1>11. TurnsAccounted'
  BY <1>4, <1>7, <1>8 DEF TurnsAccounted
<1>12. CursorsTrue(file)'
  BY <1>4, <1>8 DEF CursorsTrue
<1>13. CursorsTrue(View)'
  <2>1. CASE c = file
    BY <1>3, <1>4, <1>8, <2>1 DEF CursorsTrue
  <2>2. CASE c = DEFAULT_CHECKPOINT
    <3>1. \A s \in Sessions : c.captured[s] = 0
      BY <2>2 DEF DEFAULT_CHECKPOINT
    <3>2. clock \in Nat /\ \A s \in Sessions : \A m \in log[s] : m \in Nat /\ m > 0
      BY BoundsAssumption DEF TypeOK, Cursor, Time
    <3>3. \A s \in Sessions : \A m \in log[s] : 0 <= clock /\ ~ (m <= 0)
      BY <3>2
    <3>4. \A s \in Sessions : 0 <= clock
      BY <3>2
    <3> QED  BY <1>3, <1>4, <3>1, <3>3, <3>4 DEF CursorsTrue
  <2> QED  BY <2>1, <2>2
<1> QED  BY <1>9, <1>10, <1>11, <1>12, <1>13 DEF CaptureInv

\* what the body of an operation hands over
LEMMA RunTakes ==
    ASSUME TypeOK, CaptureInv, crashes = 0, 1 \in DOMAIN chain, Run(1)
    PROVE  /\ taken' \in [Sessions -> [Time -> Nat]]
           /\ \A s \in Sessions, m \in Time : taken[s][m] > 0 => taken'[s][m] > 0
           /\ \A s \in Sessions, m \in Time \ Noise : WillTake(1, s, m) => taken'[s][m] > 0
<1> DEFINE op == chain[1].op
           cp == chain[1].cp
           new == RecordConversation(op, cp)
<1>1. op \in Op /\ cp \in Checkpoint /\ chain[1].step = "loaded" /\ View = cp
  BY EntryHasType DEF Run, View
<1>2. taken \in [Sessions -> [Time -> Nat]]
  BY DEF TypeOK
<1>3. CASE op.kind # "captureAtomically"
  <2>1. taken' = taken /\ \A s, m : ~ WillTake(1, s, m)
    BY <1>3 DEF Run, WillTake, IsCapture
  <2> QED  BY <1>2, <2>1
<1>4. CASE op.kind = "captureAtomically"
  <2>1. /\ op \in CaptureOp /\ op.session \in Sessions
    BY <1>1, <1>4 DEF Op, CaptureOp, L1Op, MergeOp
  <2>2. taken' = [taken EXCEPT ![op.session] = [m \in Time |->
           IF m \in new THEN taken[op.session][m] + 1 ELSE taken[op.session][m]]]
    BY <1>4 DEF Run
  <2>3. ASSUME NEW m \in Time \ Noise, m \in op.window
        PROVE  m \in new \/ taken[op.session][m] > 0
    <3>1. /\ op.floor = 0 /\ op.window \subseteq log[op.session]
          /\ CursorsTrue(cp)
      BY <1>1, <1>4, <2>1 DEF CaptureInv, WindowsTrue, IsCapture
    <3>2. m \in Nat /\ m > 0 /\ cp.captured[op.session] \in Nat
      BY <1>1, <2>1, BoundsAssumption DEF Time, Checkpoint, Cursor
    <3>3. CASE m > AfterTimestamp(op, cp)
      BY <2>3, <3>3 DEF RecordConversation
    <3>4. CASE ~ (m > AfterTimestamp(op, cp))
      <4>1. m <= cp.captured[op.session]
        BY <3>1, <3>2, <3>4 DEF AfterTimestamp
      <4> QED  BY <2>1, <2>3, <3>1, <4>1 DEF CursorsTrue
    <3> QED  BY <3>3, <3>4
  <2> HIDE DEF new
  <2>4. /\ taken' \in [Sessions -> [Time -> Nat]]
        /\ \A s \in Sessions : s # op.session => taken'[s] = taken[s]
        /\ \A m \in Time : taken'[op.session][m] =
              IF m \in new THEN taken[op.session][m] + 1 ELSE taken[op.session][m]
    <3> HIDE DEF op
    <3> QED  BY <1>2, <2>1, <2>2
  <2>5. \A s \in Sessions, m \in Time : taken[s][m] \in Nat
    BY <1>2
  <2>6. ASSUME NEW s \in Sessions, NEW m \in Time, taken[s][m] > 0
        PROVE  taken'[s][m] > 0
    <3> HIDE DEF op
    <3> QED  BY <2>1, <2>4, <2>5, <2>6
  <2>7. ASSUME NEW s \in Sessions, NEW m \in Time \ Noise, WillTake(1, s, m)
        PROVE  taken'[s][m] > 0
    <3>1. s = op.session /\ m \in op.window
      BY <2>7 DEF WillTake, IsCapture
    <3>2. m \in new \/ taken[op.session][m] > 0
      BY <2>3, <3>1
    <3> HIDE DEF op
    <3> QED  BY <2>1, <2>4, <2>5, <3>1, <3>2
  <2> QED  BY <2>4, <2>6, <2>7
<1> QED  BY <1>3, <1>4

\* run: the cursor it computes passes only what is in its window, and what the
\* window leaves out was taken by the captures before it
LEMMA RunMovesCursors ==
    ASSUME TypeOK, CaptureInv, crashes = 0, 1 \in DOMAIN chain, Run(1),
           NEW c, c = Apply(chain[1].op, chain[1].cp),
           NEW s \in Sessions
    PROVE  /\ c.captured[s] <= clock
           /\ \A m \in log[s] \ Noise : m <= c.captured[s] => taken'[s][m] > 0
<1>0. PICK op, cp : op = chain[1].op /\ cp = chain[1].cp
  OBVIOUS
<1>1. op \in Op /\ cp \in Checkpoint /\ chain[1].step = "loaded" /\ View = cp
  BY <1>0, EntryHasType DEF Run, View
<1>2. CursorsTrue(cp) /\ WindowsTrue /\ WindowsClosed
  BY <1>1 DEF CaptureInv
<1>3. log[s] \subseteq Time /\ \A m \in Time : m \in Nat
  BY BoundsAssumption DEF TypeOK, Time
<1>4. ASSUME c.captured[s] = cp.captured[s]
      PROVE  /\ c.captured[s] <= clock
             /\ \A m \in log[s] \ Noise : m <= c.captured[s] => taken'[s][m] > 0
  BY <1>2, <1>3, <1>4, RunTakes DEF CursorsTrue
<1>5. CASE op.kind # "captureAtomically"
  <2>1. c.captured = cp.captured
    BY <1>0, <1>1, <1>5, OthersKeepCursor
  <2> QED  BY <1>4, <2>1
<1>6. CASE op.kind = "captureAtomically"
  <2>1. op \in CaptureOp /\ c = CaptureAtomically(op, cp)
    BY <1>0, <1>1, <1>6 DEF Op, CaptureOp, L1Op, MergeOp, Apply
  <2>2. CASE s # op.session \/ c.captured[s] = cp.captured[s]
    BY <1>1, <1>4, <2>1, <2>2, CaptureCursor
  <2>3. CASE s = op.session /\ c.captured[s] # cp.captured[s]
    <3>1. PICK n \in op.window : c.captured[s] = n
      BY <1>1, <2>1, <2>3, CaptureCursor DEF RecordConversation
    <3>2. IsCapture(1, s) /\ op.window \subseteq log[s]
      BY <1>0, <1>2, <1>6, <2>3 DEF IsCapture, WindowsTrue
    <3>3. n <= clock /\ n \in Nat
      BY <1>2, <1>3, <3>1, <3>2 DEF WindowsTrue
    <3>4. ASSUME NEW m \in log[s] \ Noise, m <= n
          PROVE  taken'[s][m] > 0
      <4>1. CASE m \in op.window
        <5>1. WillTake(1, s, m)
          BY <1>0, <1>1, <3>2, <4>1 DEF WillTake
        <5> QED  BY <1>3, <5>1, RunTakes
      <4>2. CASE m \notin op.window
        <5>1. m < n
          BY <1>3, <3>1, <3>3, <3>4, <4>2
        <5>2. TakenBefore(1, s, m)
          BY <1>0, <1>2, <3>1, <3>2, <4>2, <5>1 DEF WindowsClosed
        <5>3. taken[s][m] > 0
          <6>1. \A i \in DOMAIN chain : ~ (i < 1)
            BY ChainDomain
          <6> QED  BY <5>2, <6>1 DEF TakenBefore
        <5> QED  BY <1>3, <5>3, RunTakes
      <4> QED  BY <4>1, <4>2
    <3> QED  BY <3>1, <3>3, <3>4
  <2> QED  BY <2>2, <2>3
<1> QED  BY <1>5, <1>6

LEMMA RunKeepsCaptures ==
    ASSUME TypeOK, CaptureInv, crashes = 0, 1 \in DOMAIN chain, Run(1)
    PROVE  CaptureInv'
<1>0. PICK c : c = Apply(chain[1].op, chain[1].cp)
  OBVIOUS
<1>1. Advance(1, "applied", c) /\ c \in Checkpoint
  BY <1>0, EntryHasType, ApplyKeepsType DEF Run, Advance
<1>2. /\ DOMAIN chain' = DOMAIN chain
      /\ \A i \in DOMAIN chain : chain'[i].op = chain[i].op
      /\ \A i \in DOMAIN chain : i # 1 => chain'[i] = chain[i]
      /\ View' = c
  BY <1>1, AdvanceShape
<1>3. UNCHANGED <<file, log, clock, turn, cut, boot, crashes>>
  BY DEF Run
<1>4. \A i \in DOMAIN chain : \A s : IsCapture(i, s)' <=> IsCapture(i, s)
  BY <1>2 DEF IsCapture
<1>5. \A i \in DOMAIN chain : \A s, m : i # 1 /\ WillTake(i, s, m) => WillTake(i, s, m)'
  BY <1>2, <1>4 DEF WillTake
<1>6. ASSUME NEW s \in Sessions, NEW m \in log[s] \ Noise
      PROVE  /\ \A i : TakenBefore(i, s, m) => TakenBefore(i, s, m)'
             /\ Accounted(s, m) => Accounted(s, m)'
  <2>1. m \in Time \ Noise
    BY DEF TypeOK
  <2>2. /\ taken[s][m] > 0 => taken'[s][m] > 0
        /\ WillTake(1, s, m) => taken'[s][m] > 0
    BY <2>1, RunTakes
  <2> QED  BY <1>2, <1>5, <2>2 DEF TakenBefore, Accounted
<1>7. /\ WindowsTrue /\ WindowsClosed /\ TurnsAccounted /\ CursorsTrue(file)
  BY DEF CaptureInv
<1>8. WindowsTrue'
  BY <1>2, <1>3, <1>4, <1>7 DEF WindowsTrue
<1>9. WindowsClosed'
  BY <1>2, <1>3, <1>4, <1>6, <1>7 DEF WindowsClosed
<1>10. TurnsAccounted'
  BY <1>3, <1>6, <1>7 DEF TurnsAccounted
<1>11. CursorsTrue(file)'
  <2>1. \A s \in Sessions, m \in Time : taken[s][m] > 0 => taken'[s][m] > 0
    BY RunTakes
  <2>2. \A s \in Sessions : log[s] \subseteq Time
    BY DEF TypeOK
  <2> QED  BY <1>3, <1>7, <2>1, <2>2 DEF CursorsTrue
<1>12. CursorsTrue(View)'
  BY <1>0, <1>2, <1>3, RunMovesCursors DEF CursorsTrue
<1> QED  BY <1>8, <1>9, <1>10, <1>11, <1>12 DEF CaptureInv

\* write: the operation leaves the chain, having nothing left to hand over
LEMMA WriteKeepsCaptures ==
    ASSUME TypeOK, LockInv, CaptureInv, crashes = 0, 1 \in DOMAIN chain,
           Write(1) \/ WriteFails(1)
    PROVE  CaptureInv'
<1>1. /\ Release(1) /\ chain[1].step = "applied" /\ file' \in {file, View}
      /\ UNCHANGED <<taken, log, clock, turn, cut, boot, crashes>>
  BY DEF Write, WriteFails, View, l0Vars
<1>2. /\ DOMAIN chain' = 1 .. (Len(chain) - 1)
      /\ DOMAIN chain = 1 .. Len(chain) /\ Len(chain) \in Nat
      /\ \A i \in DOMAIN chain' : i + 1 \in DOMAIN chain /\ chain'[i] = chain[i + 1]
      /\ View' = file'
  BY <1>1, ChainDomain, ReleaseShape
<1>3. \A i \in DOMAIN chain' : \A s : IsCapture(i, s)' <=> IsCapture(i + 1, s)
  BY <1>2 DEF IsCapture
<1>4. \A i \in DOMAIN chain' : \A s, m : WillTake(i, s, m)' <=> WillTake(i + 1, s, m)
  BY <1>2, <1>3 DEF WillTake
<1>5. ASSUME NEW i \in DOMAIN chain, NEW s, NEW m, WillTake(i, s, m)
      PROVE  i - 1 \in DOMAIN chain' /\ WillTake(i - 1, s, m)'
  <2>1. i # 1
    BY <1>1, <1>5 DEF WillTake
  <2>2. i - 1 \in DOMAIN chain' /\ (i - 1) + 1 = i
    BY <1>2, <2>1
  <2>3. PICK j : j = i - 1
    OBVIOUS
  <2> QED  BY <1>4, <1>5, <2>2, <2>3
<1>6. ASSUME NEW i \in DOMAIN chain', NEW s, NEW m, TakenBefore(i + 1, s, m)
      PROVE  TakenBefore(i, s, m)'
  <2>1. CASE taken[s][m] > 0
    BY <1>1, <2>1 DEF TakenBefore
  <2>2. CASE ~ (taken[s][m] > 0)
    <3>1. PICK j \in DOMAIN chain : j < i + 1 /\ WillTake(j, s, m)
      BY <1>6, <2>2 DEF TakenBefore
    <3>2. j - 1 \in DOMAIN chain' /\ WillTake(j - 1, s, m)'
      BY <1>5, <3>1
    <3>3. j - 1 < i
      BY <1>2, <3>1
    <3>4. PICK k : k = j - 1
      OBVIOUS
    <3> QED  BY <3>2, <3>3, <3>4 DEF TakenBefore
  <2> QED  BY <2>1, <2>2
<1>7. ASSUME NEW s, NEW m, Accounted(s, m)
      PROVE  Accounted(s, m)'
  <2>1. CASE taken[s][m] > 0
    BY <1>1, <2>1 DEF Accounted
  <2>2. CASE ~ (taken[s][m] > 0)
    <3>1. PICK j \in DOMAIN chain : WillTake(j, s, m)
      BY <1>7, <2>2 DEF Accounted
    <3>2. PICK k : k = j - 1
      OBVIOUS
    <3>3. k \in DOMAIN chain' /\ WillTake(k, s, m)'
      BY <1>5, <3>1, <3>2
    <3> QED  BY <3>3 DEF Accounted
  <2> QED  BY <2>1, <2>2
<1>8. /\ WindowsTrue /\ WindowsClosed /\ TurnsAccounted
      /\ CursorsTrue(file) /\ CursorsTrue(View)
  BY DEF CaptureInv
<1>9. WindowsTrue'
  BY <1>1, <1>2, <1>3, <1>8 DEF WindowsTrue
<1>10. WindowsClosed'
  <2> SUFFICES ASSUME NEW i \in DOMAIN chain', NEW s \in Sessions, IsCapture(i, s)',
                      NEW k \in chain'[i].op.window, NEW m \in log'[s] \ Noise,
                      m < k
               PROVE  m \in chain'[i].op.window \/ TakenBefore(i, s, m)'
    BY DEF WindowsClosed
  <2>1. /\ i + 1 \in DOMAIN chain /\ chain'[i] = chain[i + 1]
        /\ IsCapture(i + 1, s) /\ m \in log[s] \ Noise
    BY <1>1, <1>2, <1>3
  <2>2. m \in chain[i + 1].op.window \/ TakenBefore(i + 1, s, m)
    BY <1>8, <2>1 DEF WindowsClosed
  <2> QED  BY <1>6, <2>1, <2>2
<1>11. TurnsAccounted'
  BY <1>1, <1>7, <1>8 DEF TurnsAccounted
<1>12. CursorsTrue(file)' /\ CursorsTrue(View)'
  BY <1>1, <1>2, <1>8 DEF CursorsTrue
<1> QED  BY <1>9, <1>10, <1>11, <1>12 DEF CaptureInv

LEMMA StepKeepsCaptures ==
    ASSUME TypeOK, LockInv, CaptureInv, [Next]_vars
    PROVE  CaptureInv'
<1>0. crashes \in Nat
  BY FaultBoundsAssumption DEF TypeOK
<1>1. CASE crashes # 0 \/ Crash
  <2>1. crashes' = crashes \/ crashes' = crashes + 1
    BY StepCases DEF HeadStep, Enqueue, Elsewhere, Crash, Read, Run, Write, WriteFails
  <2>2. crashes' # 0
    BY <1>0, <1>1, <2>1 DEF Crash
  <2> QED  BY <2>2 DEF CaptureInv
<1>2. CASE crashes = 0 /\ LockStep
  <2>1. PICK i \in DOMAIN chain : Read(i) \/ Run(i) \/ Write(i) \/ WriteFails(i)
    BY <1>2 DEF LockStep
  <2>2. i = 1
    BY <2>1 DEF LockInv, Read, MayRun, Run, Write, WriteFails
  <2> QED  BY <1>2, <2>1, <2>2, ReadKeepsCaptures, RunKeepsCaptures, WriteKeepsCaptures
<1>3. ASSUME crashes = 0, NEW s \in Sessions, BuildPrompt(s) PROVE CaptureInv'
  BY <1>3, BuildPromptKeepsCaptures
<1>4. ASSUME crashes = 0, NEW s \in Sessions, AgentEnd(s) \/ Redeliver(s) PROVE CaptureInv'
  <2>1. /\ CallCapture(s) /\ UNCHANGED <<file, taken, log, clock, cut, boot>>
        /\ turn' = turn \/ turn' = turn \ {s}
    BY <1>4 DEF AgentEnd, Redeliver
  <2> QED  BY <1>4, <2>1, CallCaptureKeepsCaptures
<1>5. ASSUME crashes = 0, NEW op \in Op, op.kind # "captureAtomically", WithFileLock(op),
             UNCHANGED <<file, taken, log, clock, cut, boot, turn>>
      PROVE  CaptureInv'
  BY <1>5, EnqueueKeepsCaptures
<1>6. ASSUME crashes = 0, NEW s \in Sessions, PersistStates(s) PROVE CaptureInv'
  <2>1. UNCHANGED <<file, taken, log, clock, cut, boot, turn>>
    BY <1>6 DEF PersistStates, l0Vars
  <2> QED  BY <1>5, <1>6, <2>1, SaveHasType
<1>7. ASSUME crashes = 0, NEW k \in Time, NEW n \in {0, 1}, FinishL1(k, n) PROVE CaptureInv'
  <2>1. UNCHANGED <<file, taken, log, clock, cut, boot, turn>>
    BY <1>7 DEF FinishL1, l0Vars
  <2> QED  BY <1>5, <1>7, <2>1, MarkEnqueued
<1>8. CASE AbandonL1 \/ (\E s \in Sessions : StartL1(s)) \/ UNCHANGED vars
  <2>1. UNCHANGED <<file, chain, taken, log, clock, turn, cut, boot, crashes>>
    BY <1>8 DEF AbandonL1, StartL1, vars, fileVars, l0Vars
  <2> QED  BY <2>1, SameCaptures
<1> QED  BY <1>1, <1>2, <1>3, <1>4, <1>6, <1>7, <1>8 DEF Next

LEMMA InitCaptures == Init => CaptureInv
<1> SUFFICES ASSUME Init PROVE CaptureInv
  OBVIOUS
<1>1. /\ boot = 0 /\ chain = <<>> /\ \A s \in Sessions : log[s] = {}
      /\ file = DEFAULT_CHECKPOINT /\ clock = 0
  BY DEF Init
<1>2. DOMAIN chain = {}
  BY <1>1
<1>3. \A s \in Sessions : file.captured[s] <= clock
  BY <1>1 DEF DEFAULT_CHECKPOINT
<1> QED  BY <1>1, <1>2, <1>3 DEF CaptureInv, WindowsTrue, WindowsClosed, TurnsAccounted, CursorsTrue, View

\* The cursor of a session passes no message worth recording that no capture
\* has handed over, whichever captures wait for each other and whichever reads
\* and writes fail: a capture with a short window runs after the one that has
\* the rest.
THEOREM NothingIsSkipped == Spec => []NothingSkipped
<1>1. Init => TypeOK /\ LockInv /\ CaptureInv
  BY InitHasType, InitCaptures DEF Init, LockInv
<1>2. TypeOK /\ LockInv /\ CaptureInv /\ [Next]_vars => (TypeOK /\ LockInv /\ CaptureInv)'
  BY StepKeepsType, LockInvKept, StepKeepsCaptures
<1>3. TypeOK /\ CaptureInv => NothingSkipped
  <2> SUFFICES ASSUME TypeOK, CaptureInv, crashes = 0 PROVE NothingSkipped
    BY DEF NothingSkipped
  <2>1. chain # <<>> => 1 \in DOMAIN chain
    BY DEF TypeOK
  <2>2. Latest = file \/ Latest = View
    BY <2>1 DEF Latest, View
  <2> QED  BY <2>2 DEF CaptureInv, CursorsTrue, NothingSkipped
<1> QED  BY <1>1, <1>2, <1>3, PTL DEF Spec

-----------------------------------------------------------------------------
(* No update is lost *)

IsMerge(i) == chain[i].op.kind = "mergePipelineStates"
IsMark(i) == chain[i].op.kind = "markL1ExtractionComplete"

\* Operation i is a save that has not changed its copy of the file.
WillMerge(i) == IsMerge(i) /\ chain[i].step # "applied"

\* The last save has what the manager holds in memory; when no save is left
\* to run, so has the latest checkpoint.  A session the manager does not hold
\* was never saved.
SavesInOrder ==
    /\ \A i \in DOMAIN chain :
          WillMerge(i) /\ (\A j \in DOMAIN chain : j > i => ~ WillMerge(j))
              => chain[i].op.states = mgr
    /\ (\A i \in DOMAIN chain : ~ WillMerge(i)) => Latest.pipeline = mgr
    /\ \A s \in Sessions : mgr[s] = 0 =>
          /\ Latest.pipeline[s] = 0
          /\ \A i \in DOMAIN chain : IsMerge(i) => chain[i].op.states[s] = 0

\* What the operation under way has read is the file; unless it is a save it
\* leaves the pipeline states as they are.
HeadTrue ==
    1 \in DOMAIN chain =>
        /\ chain[1].step = "loaded" => chain[1].cp = file
        /\ chain[1].step = "applied" /\ ~ IsMerge(1) =>
              chain[1].cp.pipeline = file.pipeline

\* One L1 run at a time awaits its mark, and its memories are the only ones
\* that total_memories_extracted may lack.
MarksTrue ==
    /\ \A i \in DOMAIN chain : IsMark(i) => l1.phase = "marking"
    /\ \A i, j \in DOMAIN chain : IsMark(i) /\ IsMark(j) => i = j
    /\ (\A i \in DOMAIN chain : IsMark(i) => chain[i].step = "applied")
          => memories = Latest.extracted
    /\ \A i \in DOMAIN chain : IsMark(i) /\ chain[i].step # "applied" =>
          memories = Latest.extracted + chain[i].op.stored

\* What total_processed counts.
ProcessedTrue ==
    IsFiniteSet(Delivered) /\ Latest.processed = Cardinality(Delivered)

UpdatesInv == Healthy => SavesInOrder /\ HeadTrue /\ MarksTrue /\ ProcessedTrue

\* A step that neither touches the chain nor what the operations count; the L1
\* run that awaits its mark goes on waiting.
LEMMA ElsewhereKeepsUpdates ==
    ASSUME UpdatesInv, Healthy,
           UNCHANGED <<file, chain, taken, memories, mgr>>,
           l1.phase = "marking" => l1' = l1
    PROVE  UpdatesInv'
<1>1. /\ Latest' = Latest /\ Delivered' = Delivered
      /\ \A i : IsMerge(i)' <=> IsMerge(i)
      /\ \A i : IsMark(i)' <=> IsMark(i)
      /\ \A i : WillMerge(i)' <=> WillMerge(i)
  BY DEF Latest, Delivered, IsMerge, IsMark, WillMerge
<1>2. SavesInOrder /\ HeadTrue /\ MarksTrue /\ ProcessedTrue
  BY DEF UpdatesInv
<1>3. SavesInOrder'
  BY <1>1, <1>2 DEF SavesInOrder
<1>4. HeadTrue'
  BY <1>1, <1>2 DEF HeadTrue
<1>5. MarksTrue'
  BY <1>1, <1>2 DEF MarksTrue
<1>6. ProcessedTrue'
  BY <1>1, <1>2 DEF ProcessedTrue
<1> QED  BY <1>3, <1>4, <1>5, <1>6 DEF UpdatesInv

\* A call of withFileLock, whatever the operation, changes neither what the
\* operation under way holds nor what has been counted.
LEMMA EnqueueKeepsHead ==
    ASSUME TypeOK, HeadTrue, ProcessedTrue, NEW op \in Op, WithFileLock(op),
           UNCHANGED <<file, taken>>
    PROVE  HeadTrue' /\ ProcessedTrue'
<1>1. PICK n : n = Len(chain) + 1
  OBVIOUS
<1>2. /\ Len(chain) \in Nat /\ DOMAIN chain = 1 .. Len(chain)
      /\ DOMAIN chain' = 1 .. n
      /\ \A i \in DOMAIN chain : i \in DOMAIN chain' /\ chain'[i] = chain[i]
      /\ chain'[n].step = "waiting" /\ Latest' = Latest
  BY <1>1, ChainDomain, EnqueueShape
<1>3. HeadTrue'
  <2>1. CASE 1 \in DOMAIN chain
    <3>1. chain'[1] = chain[1]
      BY <1>2, <2>1
    <3> QED  BY <2>1, <3>1 DEF HeadTrue, IsMerge
  <2>2. CASE 1 \notin DOMAIN chain
    <3>1. n = 1
      BY <1>1, <1>2, <2>2
    <3> QED  BY <1>2, <3>1 DEF HeadTrue
  <2> QED  BY <2>1, <2>2
<1>4. Delivered' = Delivered
  BY DEF Delivered
<1> QED  BY <1>2, <1>3, <1>4 DEF ProcessedTrue

\* Captures and marks leave the saves alone.
LEMMA EnqueueKeepsSaves ==
    ASSUME TypeOK, SavesInOrder, NEW op \in Op, WithFileLock(op),
           op.kind # "mergePipelineStates", UNCHANGED <<file, mgr>>
    PROVE  SavesInOrder'
<1>1. PICK n : n = Len(chain) + 1
  OBVIOUS
<1>2. /\ DOMAIN chain = 1 .. Len(chain) /\ Len(chain) \in Nat
      /\ DOMAIN chain' = 1 .. n
      /\ \A i \in DOMAIN chain : i \in DOMAIN chain' /\ chain'[i] = chain[i]
      /\ chain'[n].op = op /\ Latest' = Latest
  BY <1>1, ChainDomain, EnqueueShape
<1>3. \A i \in DOMAIN chain' : i \in DOMAIN chain \/ i = n
  BY <1>1, <1>2
<1>4. ~ IsMerge(n)' /\ ~ WillMerge(n)'
  BY <1>2 DEF IsMerge, WillMerge
<1>5. \A i \in DOMAIN chain :
         (IsMerge(i)' <=> IsMerge(i)) /\ (WillMerge(i)' <=> WillMerge(i))
  BY <1>2 DEF IsMerge, WillMerge
<1>6. ASSUME NEW i \in DOMAIN chain', WillMerge(i)',
             \A j \in DOMAIN chain' : j > i => ~ WillMerge(j)'
      PROVE  chain'[i].op.states = mgr'
  <2>1. i \in DOMAIN chain /\ WillMerge(i) /\ chain'[i] = chain[i]
    BY <1>2, <1>3, <1>4, <1>5, <1>6
  <2>2. \A j \in DOMAIN chain : j > i => ~ WillMerge(j)
    BY <1>2, <1>5, <1>6
  <2> QED  BY <2>1, <2>2 DEF SavesInOrder
<1>7. (\A i \in DOMAIN chain' : ~ WillMerge(i)') => Latest'.pipeline = mgr'
  BY <1>2, <1>5 DEF SavesInOrder
<1>8. ASSUME NEW s \in Sessions, mgr'[s] = 0
      PROVE  /\ Latest'.pipeline[s] = 0
             /\ \A i \in DOMAIN chain' : IsMerge(i)' => chain'[i].op.states[s] = 0
  BY <1>2, <1>3, <1>4, <1>5, <1>8 DEF SavesInOrder
<1> QED  BY <1>6, <1>7, <1>8 DEF SavesInOrder

\* Captures and saves leave the marks alone.
LEMMA EnqueueKeepsMarks ==
    ASSUME TypeOK, MarksTrue, NEW op \in Op, WithFileLock(op),
           op.kind # "markL1ExtractionComplete", UNCHANGED <<file, memories, l1>>
    PROVE  MarksTrue'
<1>1. PICK n : n = Len(chain) + 1
  OBVIOUS
<1>2. /\ DOMAIN chain = 1 .. Len(chain) /\ Len(chain) \in Nat
      /\ DOMAIN chain' = 1 .. n
      /\ \A i \in DOMAIN chain : i \in DOMAIN chain' /\ chain'[i] = chain[i]
      /\ chain'[n].op = op /\ Latest' = Latest
  BY <1>1, ChainDomain, EnqueueShape
<1>3. \A i \in DOMAIN chain' : i \in DOMAIN chain \/ i = n
  BY <1>1, <1>2
<1>4. ~ IsMark(n)'
  BY <1>2 DEF IsMark
<1>5. \A i \in DOMAIN chain : IsMark(i)' <=> IsMark(i)
  BY <1>2 DEF IsMark
<1>6. \A i \in DOMAIN chain' : IsMark(i)' =>
         i \in DOMAIN chain /\ IsMark(i) /\ chain'[i] = chain[i]
  BY <1>2, <1>3, <1>4, <1>5
<1>7. (\A i \in DOMAIN chain' : IsMark(i)' => chain'[i].step = "applied") =>
         (\A i \in DOMAIN chain : IsMark(i) => chain[i].step = "applied")
  BY <1>2, <1>5
<1> QED  BY <1>2, <1>6, <1>7 DEF MarksTrue

LEMMA CaptureKeepsUpdates ==
    ASSUME TypeOK, UpdatesInv, Healthy, NEW s \in Sessions, AgentEnd(s) \/ Redeliver(s)
    PROVE  UpdatesInv'
<1>1. PICK op \in Op : op.kind = "captureAtomically" /\ WithFileLock(op)
  BY CaptureEnqueued DEF AgentEnd, Redeliver
<1>2. UNCHANGED <<file, taken, memories, l1, mgr>>
  BY DEF AgentEnd, Redeliver, l1Vars, mgrVars
<1> QED  BY <1>1, <1>2, EnqueueKeepsHead, EnqueueKeepsSaves, EnqueueKeepsMarks DEF UpdatesInv

\* persistStates: the save is the last, and has what the manager has.
LEMMA PersistKeepsUpdates ==
    ASSUME TypeOK, UpdatesInv, Healthy, NEW s \in Sessions, PersistStates(s)
    PROVE  UpdatesInv'
<1>1. PICK op : op = [kind |-> "mergePipelineStates", states |-> mgr']
  OBVIOUS
<1>2. op.kind = "mergePipelineStates" /\ op.states = mgr'
  BY <1>1
<1>3. op \in Op /\ WithFileLock(op)
  BY <1>1, SaveHasType DEF PersistStates, Op, MergeOp
<1>4. UNCHANGED <<file, taken, memories, l1>>
  BY DEF PersistStates, l0Vars, l1Vars
<1>5. SavesInOrder /\ HeadTrue /\ MarksTrue /\ ProcessedTrue
  BY DEF UpdatesInv
<1>6. PICK n : n = Len(chain) + 1
  OBVIOUS
<1>7. /\ DOMAIN chain = 1 .. Len(chain) /\ Len(chain) \in Nat
      /\ DOMAIN chain' = 1 .. n
      /\ \A i \in DOMAIN chain : i \in DOMAIN chain' /\ chain'[i] = chain[i]
      /\ chain'[n].op = op /\ chain'[n].step = "waiting" /\ Latest' = Latest
  BY <1>3, <1>4, <1>6, ChainDomain, EnqueueShape
<1>8. /\ \A i \in DOMAIN chain' : i \in DOMAIN chain \/ i = n
      /\ \A i \in DOMAIN chain : n > i
      /\ n \in DOMAIN chain'
  BY <1>6, <1>7
<1>9. WillMerge(n)'
  BY <1>2, <1>7 DEF WillMerge, IsMerge
<1>10. \A t \in Sessions : mgr'[t] = 0 => mgr[t] = 0
  <2>1. saves' # 0 /\ mgr \in [Sessions -> Save] /\ mgr' = [mgr EXCEPT ![s] = saves']
    BY BoundsAssumption DEF TypeOK, Save, PersistStates
  <2> QED  BY <2>1
<1>11. SavesInOrder'
  <2>1. ASSUME NEW i \in DOMAIN chain', WillMerge(i)',
               \A j \in DOMAIN chain' : j > i => ~ WillMerge(j)'
        PROVE  chain'[i].op.states = mgr'
    <3>1. i = n
      BY <1>8, <1>9, <2>1
    <3> QED  BY <1>2, <1>7, <3>1
  <2>2. ~ (\A i \in DOMAIN chain' : ~ WillMerge(i)')
    BY <1>8, <1>9
  <2>3. ASSUME NEW t \in Sessions, mgr'[t] = 0
        PROVE  /\ Latest'.pipeline[t] = 0
               /\ \A i \in DOMAIN chain' : IsMerge(i)' => chain'[i].op.states[t] = 0
    <3>1. Latest'.pipeline[t] = 0
      BY <1>5, <1>7, <1>10, <2>3 DEF SavesInOrder
    <3>2. \A i \in DOMAIN chain : IsMerge(i) => chain[i].op.states[t] = 0
      BY <1>5, <1>10, <2>3 DEF SavesInOrder
    <3>3. \A i \in DOMAIN chain : IsMerge(i)' => IsMerge(i)
      BY <1>7 DEF IsMerge
    <3> QED  BY <1>2, <1>7, <1>8, <2>3, <3>1, <3>2, <3>3
  <2> QED  BY <2>1, <2>2, <2>3 DEF SavesInOrder
<1>12. MarksTrue' /\ HeadTrue' /\ ProcessedTrue'
  BY <1>2, <1>3, <1>4, <1>5, EnqueueKeepsMarks, EnqueueKeepsHead
<1> QED  BY <1>11, <1>12 DEF UpdatesInv

\* The L1 runner stores its memories and calls: no other mark was waiting.
LEMMA FinishL1KeepsUpdates ==
    ASSUME TypeOK, UpdatesInv, Healthy, NEW c \in Time, NEW k \in {0, 1}, FinishL1(c, k)
    PROVE  UpdatesInv'
<1>1. PICK op : op = [kind |-> "markL1ExtractionComplete",
                      session |-> l1.session, cursor |-> c, stored |-> k]
  OBVIOUS
<1>2. op.kind = "markL1ExtractionComplete" /\ op.stored = k
  BY <1>1
<1>3. op \in Op /\ WithFileLock(op)
  BY <1>1 DEF TypeOK, L1Run, Op, L1Op, FinishL1
<1>4. /\ UNCHANGED <<file, taken, mgr>> /\ memories' = memories + k
      /\ l1.phase = "extracting" /\ l1'.phase = "marking"
  BY DEF TypeOK, L1Run, FinishL1, l0Vars, mgrVars
<1>5. SavesInOrder /\ HeadTrue /\ MarksTrue /\ ProcessedTrue
  BY DEF UpdatesInv
<1>6. PICK n : n = Len(chain) + 1
  OBVIOUS
<1>7. /\ DOMAIN chain = 1 .. Len(chain) /\ Len(chain) \in Nat
      /\ DOMAIN chain' = 1 .. n
      /\ \A i \in DOMAIN chain : i \in DOMAIN chain' /\ chain'[i] = chain[i]
      /\ chain'[n].op = op /\ chain'[n].step = "waiting" /\ Latest' = Latest
  BY <1>3, <1>4, <1>6, ChainDomain, EnqueueShape
<1>8. /\ \A i \in DOMAIN chain' : i \in DOMAIN chain \/ i = n
      /\ n \in DOMAIN chain'
  BY <1>6, <1>7
<1>9. \A i \in DOMAIN chain : ~ IsMark(i)
  BY <1>4, <1>5 DEF MarksTrue
<1>10. memories = Latest.extracted
  BY <1>5, <1>9 DEF MarksTrue
<1>11. \A i \in DOMAIN chain' : IsMark(i)' => i = n
  <2>1. \A i \in DOMAIN chain : IsMark(i)' => IsMark(i)
    BY <1>7 DEF IsMark
  <2> QED  BY <1>8, <1>9, <2>1
<1>12. IsMark(n)'
  BY <1>2, <1>7 DEF IsMark
<1>13. MarksTrue'
  <2>1. ~ (\A i \in DOMAIN chain' : IsMark(i)' => chain'[i].step = "applied")
    BY <1>7, <1>8, <1>12
  <2>2. \A i \in DOMAIN chain' : IsMark(i)' => memories' = Latest'.extracted + chain'[i].op.stored
    BY <1>2, <1>4, <1>7, <1>10, <1>11
  <2> QED  BY <1>4, <1>11, <2>1, <2>2 DEF MarksTrue
<1>14. SavesInOrder' /\ HeadTrue' /\ ProcessedTrue'
  BY <1>2, <1>3, <1>4, <1>5, EnqueueKeepsSaves, EnqueueKeepsHead
<1> QED  BY <1>13, <1>14 DEF UpdatesInv

\* Reading the file: what was true of the file is true of the copy.
LEMMA ReadKeepsUpdates ==
    ASSUME TypeOK, UpdatesInv, Healthy, 1 \in DOMAIN chain, Read(1), Healthy'
    PROVE  UpdatesInv'
<1>1. Advance(1, "loaded", file) /\ chain[1].step = "waiting"
  BY DEF TypeOK, Healthy, Read, Fault, Advance
<1>2. UNCHANGED <<file, taken, memories, l1, mgr>>
  BY DEF Read, l0Vars, l1Vars, mgrVars
<1>3. file \in Checkpoint
  BY DEF TypeOK
<1>4. /\ DOMAIN chain' = DOMAIN chain
      /\ \A i \in DOMAIN chain : chain'[i].op = chain[i].op
      /\ \A i \in DOMAIN chain : i # 1 => chain'[i] = chain[i]
      /\ chain'[1].step = "loaded" /\ chain'[1].cp = file
  BY <1>1, <1>3, AdvanceShape
<1>5. Latest' = Latest
  BY <1>1, <1>2, <1>4 DEF Latest
<1>6. /\ \A i \in DOMAIN chain : chain'[i].step = "applied" <=> chain[i].step = "applied"
      /\ \A i \in DOMAIN chain : IsMerge(i)' <=> IsMerge(i)
      /\ \A i \in DOMAIN chain : IsMark(i)' <=> IsMark(i)
  BY <1>1, <1>4 DEF IsMerge, IsMark
<1>7. \A i \in DOMAIN chain : WillMerge(i)' <=> WillMerge(i)
  BY <1>6 DEF WillMerge
<1>8. SavesInOrder /\ HeadTrue /\ MarksTrue /\ ProcessedTrue
  BY DEF UpdatesInv
<1>9. SavesInOrder'
  BY <1>2, <1>4, <1>5, <1>6, <1>7, <1>8 DEF SavesInOrder
<1>10. HeadTrue'
  BY <1>2, <1>4 DEF HeadTrue
<1>11. MarksTrue'
  BY <1>2, <1>4, <1>5, <1>6, <1>8 DEF MarksTrue
<1>12. ProcessedTrue'
  BY <1>2, <1>5, <1>8 DEF ProcessedTrue, Delivered
<1> QED  BY <1>9, <1>10, <1>11, <1>12 DEF UpdatesInv

\* Writing it back: what was true of the copy is true of the file.
LEMMA WriteKeepsUpdates ==
    ASSUME TypeOK, LockInv, UpdatesInv, Healthy, 1 \in DOMAIN chain, Write(1)
    PROVE  UpdatesInv'
<1>1. /\ Release(1) /\ chain[1].step = "applied" /\ file' = chain[1].cp
      /\ L1Returns(chain[1].op)
      /\ UNCHANGED <<taken, memories, mgr>>
  BY DEF Write, l0Vars, mgrVars
<1>2. /\ DOMAIN chain' = 1 .. (Len(chain) - 1)
      /\ DOMAIN chain = 1 .. Len(chain) /\ Len(chain) \in Nat
      /\ \A i \in DOMAIN chain' : /\ i + 1 \in DOMAIN chain /\ chain'[i] = chain[i + 1]
                                  /\ chain'[i].step = "waiting"
      /\ Latest' = file'
  BY <1>1, ChainDomain, ReleaseShape
<1>3. Latest = file' /\ chain # <<>>
  <2>1. chain # <<>>
    BY DEF TypeOK
  <2> QED  BY <1>1, <2>1 DEF Latest
<1>4. SavesInOrder /\ HeadTrue /\ MarksTrue /\ ProcessedTrue
  BY DEF UpdatesInv
<1>5. \A i \in DOMAIN chain' : /\ (IsMerge(i)' <=> IsMerge(i + 1))
                               /\ (IsMark(i)' <=> IsMark(i + 1))
                               /\ (WillMerge(i)' <=> WillMerge(i + 1))
  BY <1>2 DEF IsMerge, IsMark, WillMerge
<1>6. \A i \in DOMAIN chain : i # 1 => i - 1 \in DOMAIN chain' /\ (i - 1) + 1 = i
  BY <1>2
<1>7. ~ WillMerge(1)
  BY <1>1 DEF WillMerge
<1>8. SavesInOrder'
  <2>1. ASSUME NEW i \in DOMAIN chain', WillMerge(i)',
               \A j \in DOMAIN chain' : j > i => ~ WillMerge(j)'
        PROVE  chain'[i].op.states = mgr'
    <3>1. i + 1 \in DOMAIN chain /\ WillMerge(i + 1) /\ chain'[i] = chain[i + 1]
      BY <1>2, <1>5, <2>1
    <3>2. ASSUME NEW j \in DOMAIN chain, j > i + 1
          PROVE  ~ WillMerge(j)
      <4>1. PICK k : k = j - 1
        OBVIOUS
      <4>2. k \in DOMAIN chain' /\ k + 1 = j /\ k > i
        BY <1>2, <3>2, <4>1
      <4>3. ~ WillMerge(k)'
        BY <2>1, <4>2
      <4> QED  BY <1>5, <4>2, <4>3
    <3> QED  BY <1>1, <1>4, <3>1, <3>2 DEF SavesInOrder
  <2>2. ASSUME \A i \in DOMAIN chain' : ~ WillMerge(i)'
        PROVE  Latest'.pipeline = mgr'
    <3>1. ASSUME NEW j \in DOMAIN chain, j # 1
          PROVE  ~ WillMerge(j)
      <4>1. PICK k : k = j - 1
        OBVIOUS
      <4>2. k \in DOMAIN chain' /\ k + 1 = j
        BY <1>6, <3>1, <4>1
      <4> QED  BY <1>5, <2>2, <4>2
    <3>2. \A j \in DOMAIN chain : ~ WillMerge(j)
      BY <1>7, <3>1
    <3> QED  BY <1>1, <1>2, <1>3, <1>4, <3>2 DEF SavesInOrder
  <2>3. ASSUME NEW s \in Sessions, mgr'[s] = 0
        PROVE  /\ Latest'.pipeline[s] = 0
               /\ \A i \in DOMAIN chain' : IsMerge(i)' => chain'[i].op.states[s] = 0
    BY <1>1, <1>2, <1>3, <1>4, <1>5, <2>3 DEF SavesInOrder
  <2> QED  BY <2>1, <2>2, <2>3 DEF SavesInOrder
<1>9. HeadTrue'
  BY <1>2 DEF HeadTrue
<1>10. MarksTrue'
  <2>1. ASSUME NEW i \in DOMAIN chain', IsMark(i)'
        PROVE  /\ i + 1 \in DOMAIN chain /\ IsMark(i + 1) /\ chain'[i] = chain[i + 1]
               /\ i + 1 # 1 /\ chain[i + 1].step = "waiting"
    <3>1. i \in Nat \ {0}
      BY <1>2
    <3> QED  BY <1>2, <1>5, <2>1, <3>1
  <2>2. ASSUME NEW i \in DOMAIN chain', IsMark(i)'
        PROVE  /\ l1'.phase = "marking"
               /\ memories' = Latest'.extracted + chain'[i].op.stored
    <3>1. i + 1 \in DOMAIN chain /\ IsMark(i + 1) /\ chain[i + 1].step # "applied" /\ i + 1 # 1
      BY <2>1, <2>2
    <3>2. ~ IsMark(1)
      BY <1>4, <3>1 DEF MarksTrue
    <3>3. l1' = l1
      BY <1>1, <3>2 DEF L1Returns, IsMark
    <3> QED  BY <1>1, <1>2, <1>3, <1>4, <2>1, <2>2, <3>1, <3>3 DEF MarksTrue
  <2>3. ASSUME NEW i \in DOMAIN chain', NEW j \in DOMAIN chain', IsMark(i)', IsMark(j)'
        PROVE  i = j
    <3>1. i + 1 = j + 1
      BY <1>4, <2>1, <2>3 DEF MarksTrue
    <3> QED  BY <1>2, <3>1
  <2>4. ASSUME \A i \in DOMAIN chain' : IsMark(i)' => chain'[i].step = "applied"
        PROVE  memories' = Latest'.extracted
    <3>1. ASSUME NEW j \in DOMAIN chain, j # 1
          PROVE  ~ IsMark(j)
      <4>1. PICK k : k = j - 1
        OBVIOUS
      <4>2. k \in DOMAIN chain' /\ k + 1 = j
        BY <1>6, <3>1, <4>1
      <4>3. ~ IsMark(k)'
        BY <1>2, <2>4, <4>2
      <4> QED  BY <1>5, <4>2, <4>3
    <3>2. \A j \in DOMAIN chain : IsMark(j) => chain[j].step = "applied"
      BY <1>1, <3>1
    <3> QED  BY <1>1, <1>2, <1>3, <1>4, <3>2 DEF MarksTrue
  <2> QED  BY <2>2, <2>3, <2>4 DEF MarksTrue
<1>11. ProcessedTrue'
  BY <1>1, <1>2, <1>3, <1>4 DEF ProcessedTrue, Delivered
<1> QED  BY <1>8, <1>9, <1>10, <1>11 DEF UpdatesInv

\* What each operation does to the parts of the checkpoint that UpdatesInv
\* is about.
LEMMA ApplyEffects ==
    ASSUME NEW op \in Op, NEW cp \in Checkpoint
    PROVE  /\ op.kind = "mergePipelineStates" =>
                 Apply(op, cp).pipeline = [s \in Sessions |->
                    IF op.states[s] # 0 THEN op.states[s] ELSE cp.pipeline[s]]
           /\ op.kind # "mergePipelineStates" => Apply(op, cp).pipeline = cp.pipeline
           /\ op.kind = "markL1ExtractionComplete" =>
                 Apply(op, cp).extracted = cp.extracted + op.stored
           /\ op.kind # "markL1ExtractionComplete" =>
                 Apply(op, cp).extracted = cp.extracted
           /\ op.kind = "captureAtomically" =>
                 Apply(op, cp).processed =
                    cp.processed + Cardinality(RecordConversation(op, cp))
           /\ op.kind # "captureAtomically" => Apply(op, cp).processed = cp.processed
<1>1. CASE op \in CaptureOp
  <2> DEFINE new == RecordConversation(op, cp)
  <2>1. op.kind = "captureAtomically" /\ Apply(op, cp) = CaptureAtomically(op, cp)
    BY <1>1 DEF Apply, CaptureOp
  <2>2. CASE new = {}
    <3>1. CaptureAtomically(op, cp) = cp
      BY <2>2 DEF CaptureAtomically
    <3>2. Cardinality(new) = 0 /\ cp.processed \in Nat
      BY <2>2, FS_EmptySet DEF Checkpoint
    <3> HIDE DEF new
    <3> QED  BY <2>1, <3>1, <3>2 DEF new
  <2>3. CASE new # {}
    <3> DEFINE c == [cp.captured EXCEPT ![op.session] = Newest(new)]
               n == cp.processed + Cardinality(new)
    <3>1. CaptureAtomically(op, cp) = [cp EXCEPT !.captured = c, !.processed = n]
      BY <2>3 DEF CaptureAtomically
    <3> HIDE DEF c, n
    <3>2. /\ CaptureAtomically(op, cp).pipeline = cp.pipeline
          /\ CaptureAtomically(op, cp).extracted = cp.extracted
          /\ CaptureAtomically(op, cp).processed = n
      BY <3>1 DEF Checkpoint
    <3> QED  BY <2>1, <3>2 DEF n
  <2> QED  BY <2>2, <2>3
<1>2. CASE op \in L1Op
  <2> DEFINE c == [cp.l1 EXCEPT ![op.session] = op.cursor]
             n == cp.extracted + op.stored
  <2>1. op.kind = "markL1ExtractionComplete" /\ Apply(op, cp) = MarkL1ExtractionComplete(op, cp)
    BY <1>2 DEF Apply, L1Op
  <2>2. Apply(op, cp) = [cp EXCEPT !.l1 = c, !.extracted = n]
    BY <2>1 DEF MarkL1ExtractionComplete
  <2> HIDE DEF c, n
  <2>3. /\ Apply(op, cp).pipeline = cp.pipeline
        /\ Apply(op, cp).processed = cp.processed
        /\ Apply(op, cp).extracted = n
    BY <2>2 DEF Checkpoint
  <2> QED  BY <2>1, <2>3 DEF n
<1>3. CASE op \in MergeOp
  <2>1. op.kind = "mergePipelineStates" /\ Apply(op, cp) = MergePipelineStates(op, cp)
    BY <1>3 DEF Apply, MergeOp
  <2> QED  BY <2>1 DEF MergePipelineStates, Checkpoint
<1> QED  BY <1>1, <1>2, <1>3 DEF Op

\* The messages a capture hands over are new, so counting them is adding them.
LEMMA RunCounts ==
    ASSUME TypeOK, RetakenInv, Healthy, 1 \in DOMAIN chain, Run(1),
           IsFiniteSet(Delivered), chain[1].cp.processed = Cardinality(Delivered)
    PROVE  /\ IsFiniteSet(Delivered')
           /\ Apply(chain[1].op, chain[1].cp).processed = Cardinality(Delivered')
<1>0. PICK op, cp : op = chain[1].op /\ cp = chain[1].cp
  OBVIOUS
<1>1. op \in Op /\ cp \in Checkpoint /\ View = cp
  BY <1>0, EntryHasType DEF Run, View
<1>2. CASE op.kind # "captureAtomically"
  <2>1. taken' = taken
    BY <1>0, <1>2 DEF Run
  <2>2. Delivered' = Delivered
    BY <2>1 DEF Delivered
  <2> QED  BY <1>0, <1>1, <1>2, <2>2, ApplyEffects
<1>3. CASE op.kind = "captureAtomically"
  <2>1. PICK s, new : s = op.session /\ new = RecordConversation(op, cp)
    OBVIOUS
  <2>2. op \in CaptureOp /\ s \in Sessions /\ op.window \subseteq Time
    BY <1>1, <1>3, <2>1 DEF Op, CaptureOp, L1Op, MergeOp
  <2>3. new \subseteq Time
    BY <2>1, <2>2 DEF RecordConversation
  <2>4. /\ taken \in [Sessions -> [Time -> Nat]]
        /\ taken' = [taken EXCEPT ![s] = [m \in Time |->
              IF m \in new THEN taken[s][m] + 1 ELSE taken[s][m]]]
    BY <1>0, <1>3, <2>1 DEF TypeOK, Run
  <2>5. ASSUME NEW m \in new
        PROVE  taken[s][m] = 0
    <3>1. m \in Time /\ m \in Nat /\ m > cp.captured[s] /\ cp.captured[s] \in Nat
      <4>1. m \in Time /\ m \in Nat /\ cp.captured[s] \in Nat
        BY <1>1, <2>2, <2>3, BoundsAssumption DEF Time, Checkpoint, Cursor
      <4> QED  BY <1>1, <2>1, <2>2, <4>1, CaptureMovesCursor
    <3>2. /\ taken[s][m] <= 1 + (faults + crashes)
          /\ taken[s][m] = 1 + (faults + crashes) => m <= cp.captured[s]
      BY <1>1, <2>2, <3>1 DEF RetakenInv
    <3>3. taken[s][m] \in Nat
      BY <2>2, <2>4, <3>1
    <3>4. faults = 0 /\ crashes = 0
      BY DEF Healthy
    <3> QED  BY <3>1, <3>2, <3>3, <3>4
  <2>6. PICK fresh : fresh = {s} \X new
    OBVIOUS
  <2>7. Delivered' = Delivered \cup fresh
    <3>1. ASSUME NEW t \in Sessions, NEW m \in Time
          PROVE  taken'[t][m] > 0 <=> taken[t][m] > 0 \/ (t = s /\ m \in new)
      <4>1. taken[t][m] \in Nat
        BY <2>4
      <4>2. CASE t = s
        <5>1. taken'[s][m] = IF m \in new THEN taken[s][m] + 1 ELSE taken[s][m]
          BY <2>2, <2>4
        <5> QED  BY <4>1, <4>2, <5>1
      <4>3. CASE t # s
        BY <2>2, <2>4, <4>3
      <4> QED  BY <4>2, <4>3
    <3>2. ASSUME NEW d \in Sessions \X Time
          PROVE  d \in Delivered' <=> d \in Delivered \/ d \in fresh
      <4>1. d[1] \in Sessions /\ d[2] \in Time /\ d = <<d[1], d[2]>>
        OBVIOUS
      <4>2. d \in fresh <=> d[1] = s /\ d[2] \in new
        BY <2>6, <4>1
      <4> QED  BY <3>1, <4>1, <4>2 DEF Delivered
    <3>3. /\ Delivered \subseteq Sessions \X Time /\ Delivered' \subseteq Sessions \X Time
          /\ fresh \subseteq Sessions \X Time
      BY <2>2, <2>3, <2>6 DEF Delivered
    <3> QED  BY <3>2, <3>3
  <2>8. Delivered \cap fresh = {}
    <3> SUFFICES ASSUME NEW d \in Delivered, d \in fresh PROVE FALSE
      OBVIOUS
    <3>1. d[1] = s /\ d[2] \in new /\ taken[d[1]][d[2]] > 0
      BY <2>6 DEF Delivered
    <3> QED  BY <2>5, <3>1
  <2>9. IsFiniteSet(new) /\ Cardinality(new) \in Nat
    <3>1. IsFiniteSet(Time)
      BY BoundsAssumption, FS_Interval DEF Time
    <3> QED  BY <2>3, <3>1, FS_Subset, FS_CardinalityType
  <2>10. IsFiniteSet(fresh) /\ Cardinality(fresh) = Cardinality(new)
    <3>1. IsFiniteSet({s}) /\ Cardinality({s}) = 1
      BY FS_Singleton
    <3>2. /\ IsFiniteSet({s} \X new)
          /\ Cardinality({s} \X new) = Cardinality({s}) * Cardinality(new)
      BY <2>9, <3>1, FS_Product
    <3>3. \A k \in Nat : 1 * k = k
      OBVIOUS
    <3> QED  BY <2>6, <2>9, <3>1, <3>2, <3>3
  <2>11. /\ IsFiniteSet(Delivered')
         /\ Cardinality(Delivered') = Cardinality(Delivered) + Cardinality(new)
    <3>1. /\ IsFiniteSet(Delivered \cup fresh)
          /\ Cardinality(Delivered \cup fresh) =
                Cardinality(Delivered) + Cardinality(fresh) - Cardinality(Delivered \cap fresh)
      BY <2>10, FS_Union
    <3>2. Cardinality(Delivered \cap fresh) = 0
      BY <2>8, FS_EmptySet
    <3>3. Cardinality(Delivered) \in Nat
      BY FS_CardinalityType
    <3> QED  BY <2>7, <2>9, <2>10, <3>1, <3>2, <3>3
  <2>12. Apply(op, cp).processed = cp.processed + Cardinality(new)
    BY <1>1, <1>3, <2>1, ApplyEffects
  <2> QED  BY <1>0, <2>11, <2>12
<1> QED  BY <1>2, <1>3

\* The body of the oldest operation.  When it is the last save, the checkpoint
\* has what the manager had when it called, and that is what it has now.
LEMMA RunKeepsUpdates ==
    ASSUME TypeOK, RetakenInv, UpdatesInv, Healthy, 1 \in DOMAIN chain, Run(1)
    PROVE  UpdatesInv'
<1>0. PICK op, c : op = chain[1].op /\ c = Apply(op, chain[1].cp)
  OBVIOUS
<1>1. SavesInOrder /\ HeadTrue /\ MarksTrue /\ ProcessedTrue
  BY DEF UpdatesInv
<1>2. op \in Op /\ chain[1].step = "loaded" /\ file \in Checkpoint
  BY <1>0, EntryHasType DEF TypeOK, Run
<1>3. chain[1].cp = file /\ Latest = file
  BY <1>1, <1>2 DEF HeadTrue, Latest
<1>4. Advance(1, "applied", c) /\ c \in Checkpoint
  BY <1>0, <1>2, <1>3, ApplyKeepsType DEF Run, Advance
<1>5. UNCHANGED <<file, memories, l1, mgr>>
  BY DEF Run, l1Vars, mgrVars
<1>6. /\ DOMAIN chain' = DOMAIN chain
      /\ \A i \in DOMAIN chain : chain'[i].op = chain[i].op
      /\ \A i \in DOMAIN chain : i # 1 => chain'[i] = chain[i]
      /\ chain'[1].step = "applied" /\ chain'[1].cp = c
  BY <1>4, AdvanceShape
<1>7. Latest' = c
  BY <1>6 DEF Latest
<1>8. /\ \A i \in DOMAIN chain : IsMerge(i)' <=> IsMerge(i)
      /\ \A i \in DOMAIN chain : IsMark(i)' <=> IsMark(i)
  BY <1>6 DEF IsMerge, IsMark
<1>9. /\ \A i \in DOMAIN chain : i # 1 => (WillMerge(i)' <=> WillMerge(i))
      /\ ~ WillMerge(1)'
  BY <1>6, <1>8 DEF WillMerge
<1>10. DOMAIN chain = 1 .. Len(chain) /\ Len(chain) \in Nat
  BY ChainDomain
<1>11. /\ op.kind = "mergePipelineStates" =>
              c.pipeline = [s \in Sessions |->
                 IF op.states[s] # 0 THEN op.states[s] ELSE file.pipeline[s]]
       /\ op.kind # "mergePipelineStates" => c.pipeline = file.pipeline
       /\ op.kind = "markL1ExtractionComplete" => c.extracted = file.extracted + op.stored
       /\ op.kind # "markL1ExtractionComplete" => c.extracted = file.extracted
  BY <1>0, <1>2, <1>3, ApplyEffects
<1>12. SavesInOrder'
  <2>1. ASSUME NEW i \in DOMAIN chain', WillMerge(i)',
               \A j \in DOMAIN chain' : j > i => ~ WillMerge(j)'
        PROVE  chain'[i].op.states = mgr'
    <3>1. i # 1 /\ i \in DOMAIN chain /\ WillMerge(i)
      BY <1>6, <1>9, <2>1
    <3>2. ASSUME NEW j \in DOMAIN chain, j > i
          PROVE  ~ WillMerge(j)
      <4>1. j # 1
        BY <1>10, <3>1, <3>2
      <4> QED  BY <1>6, <1>9, <2>1, <3>2, <4>1
    <3> QED  BY <1>1, <1>5, <1>6, <3>1, <3>2 DEF SavesInOrder
  <2>2. ASSUME \A i \in DOMAIN chain' : ~ WillMerge(i)'
        PROVE  Latest'.pipeline = mgr'
    <3>1. \A i \in DOMAIN chain : i # 1 => ~ WillMerge(i)
      BY <1>6, <1>9, <2>2
    <3>2. CASE op.kind = "mergePipelineStates"
      <4>1. WillMerge(1)
        BY <1>0, <1>2, <3>2 DEF WillMerge, IsMerge
      <4>2. op.states = mgr
        <5>1. \A j \in DOMAIN chain : j > 1 => ~ WillMerge(j)
          BY <1>10, <3>1
        <5> QED  BY <1>0, <1>1, <4>1, <5>1 DEF SavesInOrder
      <4>3. \A s \in Sessions : mgr[s] = 0 => file.pipeline[s] = 0
        BY <1>1, <1>3 DEF SavesInOrder
      <4>4. mgr \in [Sessions -> Save]
        BY DEF TypeOK
      <4>5. c.pipeline = [s \in Sessions |-> mgr[s]]
        BY <1>11, <3>2, <4>2, <4>3
      <4> QED  BY <1>5, <1>7, <4>4, <4>5
    <3>3. CASE op.kind # "mergePipelineStates"
      <4>1. ~ WillMerge(1)
        BY <1>0, <3>3 DEF WillMerge, IsMerge
      <4>2. \A i \in DOMAIN chain : ~ WillMerge(i)
        BY <3>1, <4>1
      <4> QED  BY <1>1, <1>3, <1>5, <1>7, <1>11, <3>3, <4>2 DEF SavesInOrder
    <3> QED  BY <3>2, <3>3
  <2>3. ASSUME NEW s \in Sessions, mgr'[s] = 0
        PROVE  /\ Latest'.pipeline[s] = 0
               /\ \A i \in DOMAIN chain' : IsMerge(i)' => chain'[i].op.states[s] = 0
    <3>1. /\ file.pipeline[s] = 0
          /\ \A i \in DOMAIN chain : IsMerge(i) => chain[i].op.states[s] = 0
      BY <1>1, <1>3, <1>5, <2>3 DEF SavesInOrder
    <3>2. op.kind = "mergePipelineStates" => op.states[s] = 0
      BY <1>0, <3>1 DEF IsMerge
    <3>3. c.pipeline[s] = 0
      BY <1>11, <3>1, <3>2
    <3> QED  BY <1>6, <1>7, <1>8, <3>1, <3>3
  <2> QED  BY <2>1, <2>2, <2>3 DEF SavesInOrder
<1>13. HeadTrue'
  BY <1>0, <1>5, <1>6, <1>11 DEF HeadTrue, IsMerge
<1>14. MarksTrue'
  <2>1. \A i \in DOMAIN chain' : IsMark(i)' => l1'.phase = "marking"
    BY <1>1, <1>5, <1>6, <1>8 DEF MarksTrue
  <2>2. \A i, j \in DOMAIN chain' : IsMark(i)' /\ IsMark(j)' => i = j
    BY <1>1, <1>6, <1>8 DEF MarksTrue
  <2>3. CASE op.kind = "markL1ExtractionComplete"
    <3>1. IsMark(1) /\ chain[1].step # "applied"
      BY <1>0, <1>2, <2>3 DEF IsMark
    <3>2. memories = file.extracted + op.stored
      BY <1>0, <1>1, <1>3, <3>1 DEF MarksTrue
    <3>3. memories' = Latest'.extracted
      BY <1>5, <1>7, <1>11, <2>3, <3>2
    <3>4. \A i \in DOMAIN chain' : IsMark(i)' => chain'[i].step = "applied"
      BY <1>1, <1>6, <1>8, <3>1 DEF MarksTrue
    <3> QED  BY <2>1, <2>2, <3>3, <3>4 DEF MarksTrue
  <2>4. CASE op.kind # "markL1ExtractionComplete"
    <3>1. ~ IsMark(1) /\ Latest'.extracted = Latest.extracted
      BY <1>0, <1>3, <1>7, <1>11, <2>4 DEF IsMark
    <3>2. \A i \in DOMAIN chain' : IsMark(i)' => IsMark(i) /\ i # 1 /\ chain'[i] = chain[i]
      BY <1>6, <1>8, <3>1
    <3>3. (\A i \in DOMAIN chain' : IsMark(i)' => chain'[i].step = "applied") =>
             (\A i \in DOMAIN chain : IsMark(i) => chain[i].step = "applied")
      BY <1>6, <1>8, <3>1
    <3> QED  BY <1>1, <1>5, <1>6, <2>1, <2>2, <3>1, <3>2, <3>3 DEF MarksTrue
  <2> QED  BY <2>3, <2>4
<1>15. ProcessedTrue'
  BY <1>0, <1>1, <1>3, <1>7, RunCounts DEF ProcessedTrue
<1> QED  BY <1>12, <1>13, <1>14, <1>15 DEF UpdatesInv

LEMMA StepKeepsUpdates ==
    ASSUME TypeOK, LockInv, RetakenInv, UpdatesInv, [Next]_vars
    PROVE  UpdatesInv'
<1>1. CASE ~ Healthy'
  BY <1>1 DEF UpdatesInv
<1>2. CASE Healthy'
  <2>1. Healthy /\ ~ Crash /\ ~ Fault
    <3>1. faults \in Nat /\ crashes \in Nat
      BY FaultBoundsAssumption DEF TypeOK
    <3>2. ~ Crash /\ ~ Fault
      BY <1>2, <3>1 DEF Healthy, Crash, Fault
    <3>3. faults' = faults /\ crashes' = crashes
      BY <3>2, StepCases DEF HeadStep, Enqueue, Elsewhere, Read, Run, Write, WriteFails
    <3> QED  BY <1>2, <3>2, <3>3 DEF Healthy
  <2>2. CASE LockStep
    <3>1. PICK i \in DOMAIN chain : Read(i) \/ Run(i) \/ Write(i) \/ WriteFails(i)
      BY <2>2 DEF LockStep
    <3>2. i = 1
      BY <3>1 DEF LockInv, Read, MayRun, Run, Write, WriteFails
    <3>3. ~ WriteFails(1)
      BY <2>1 DEF WriteFails
    <3> QED  BY <1>2, <2>1, <3>1, <3>2, <3>3, ReadKeepsUpdates, RunKeepsUpdates, WriteKeepsUpdates
  <2>3. ASSUME NEW s \in Sessions, BuildPrompt(s) PROVE UpdatesInv'
    <3>1. UNCHANGED <<file, chain, taken, memories, mgr, l1>>
      BY <2>3 DEF BuildPrompt, fileVars, l1Vars, mgrVars
    <3> QED  BY <2>1, <3>1, ElsewhereKeepsUpdates
  <2>4. ASSUME NEW s \in Sessions, AgentEnd(s) \/ Redeliver(s) PROVE UpdatesInv'
    BY <2>1, <2>4, CaptureKeepsUpdates
  <2>5. CASE AbandonL1 \/ \E s \in Sessions : StartL1(s)
    <3>1. UNCHANGED <<file, chain, taken, memories, mgr>> /\ l1.phase # "marking"
      BY <2>5 DEF AbandonL1, StartL1, fileVars, l0Vars, mgrVars
    <3> QED  BY <2>1, <3>1, ElsewhereKeepsUpdates
  <2>6. ASSUME NEW s \in Sessions, PersistStates(s) PROVE UpdatesInv'
    BY <2>1, <2>6, PersistKeepsUpdates
  <2>7. ASSUME NEW k \in Time, NEW n \in {0, 1}, FinishL1(k, n) PROVE UpdatesInv'
    BY <2>1, <2>7, FinishL1KeepsUpdates
  <2>8. CASE UNCHANGED vars
    <3>1. UNCHANGED <<file, chain, taken, memories, mgr, l1>>
      BY <2>8 DEF vars, fileVars, l0Vars, l1Vars, mgrVars
    <3> QED  BY <2>1, <3>1, ElsewhereKeepsUpdates
  <2> QED  BY <2>1, <2>2, <2>3, <2>4, <2>5, <2>6, <2>7, <2>8 DEF Next
<1> QED  BY <1>1, <1>2

LEMMA InitUpdates == Init => UpdatesInv
<1> SUFFICES ASSUME Init PROVE UpdatesInv
  OBVIOUS
<1>1. /\ chain = <<>> /\ file = DEFAULT_CHECKPOINT /\ memories = 0
      /\ mgr = [s \in Sessions |-> 0]
      /\ \A s \in Sessions, m \in Time : taken[s][m] = 0
  BY DEF Init
<1>2. Latest = DEFAULT_CHECKPOINT /\ DOMAIN chain = {}
  BY <1>1 DEF Latest
<1>3. Delivered = {}
  <2> SUFFICES ASSUME NEW d \in Delivered PROVE FALSE
    OBVIOUS
  <2>1. d[1] \in Sessions /\ d[2] \in Time /\ taken[d[1]][d[2]] > 0
    BY DEF Delivered
  <2> QED  BY <1>1, <2>1
<1>4. SavesInOrder /\ HeadTrue /\ MarksTrue
  BY <1>1, <1>2 DEF SavesInOrder, HeadTrue, MarksTrue, DEFAULT_CHECKPOINT
<1>5. ProcessedTrue
  BY <1>2, <1>3, FS_EmptySet DEF ProcessedTrue, DEFAULT_CHECKPOINT
<1> QED  BY <1>4, <1>5 DEF UpdatesInv

LEMMA UpdatesAreKept == TypeOK /\ UpdatesInv => NoUpdateLost
<1> SUFFICES ASSUME TypeOK, UpdatesInv, Healthy
             PROVE  CountersExact /\ SavedStatesCurrent
  BY DEF NoUpdateLost
<1>1. SavesInOrder /\ HeadTrue /\ MarksTrue /\ ProcessedTrue
  BY DEF UpdatesInv
<1>2. memories \in Nat /\ Latest.extracted \in Nat
  <2>1. memories \in Nat /\ file \in Checkpoint /\ (chain # <<>> => 1 \in DOMAIN chain)
    BY DEF TypeOK
  <2>2. Latest \in Checkpoint
    BY <2>1, EntryHasType DEF Latest
  <2> QED  BY <2>1, <2>2 DEF Checkpoint
<1>3. CountersExact
  <2> DEFINE late == {j \in Pending("markL1ExtractionComplete") : chain[j].step # "applied"}
  <2>1. CASE \A i \in DOMAIN chain : IsMark(i) => chain[i].step = "applied"
    <3>1. memories = Latest.extracted
      BY <1>1, <2>1 DEF MarksTrue
    <3>2. memories - Latest.extracted = 0
      BY <1>2, <3>1
    <3> QED  BY <1>1, <3>2 DEF CountersExact, ProcessedTrue
  <2>2. ASSUME NEW i \in DOMAIN chain, IsMark(i), chain[i].step # "applied"
        PROVE  CountersExact
    <3>1. memories = Latest.extracted + chain[i].op.stored
      BY <1>1, <2>2 DEF MarksTrue
    <3>2. chain[i].op \in L1Op
      BY <2>2, EntryHasType DEF IsMark, Op, CaptureOp, MergeOp
    <3>3. chain[i].op.stored \in Nat
      BY <3>2 DEF L1Op
    <3>4. memories - Latest.extracted = chain[i].op.stored
      BY <1>2, <3>1, <3>3
    <3>5. i \in late
      BY <2>2 DEF Pending, IsMark
    <3> QED  BY <1>1, <3>4, <3>5 DEF CountersExact, ProcessedTrue
  <2> QED  BY <2>1, <2>2
<1>4. SavedStatesCurrent
  <2> SUFFICES ASSUME Pending("mergePipelineStates") = {} PROVE file.pipeline = mgr
    BY DEF SavedStatesCurrent
  <2>1. \A i \in DOMAIN chain : ~ IsMerge(i) /\ ~ WillMerge(i)
    BY DEF Pending, IsMerge, WillMerge
  <2>2. Latest.pipeline = mgr
    BY <1>1, <2>1 DEF SavesInOrder
  <2>3. chain # <<>> => 1 \in DOMAIN chain
    BY DEF TypeOK
  <2>4. Latest.pipeline = file.pipeline
    BY <1>1, <2>1, <2>3 DEF Latest, HeadTrue
  <2> QED  BY <2>2, <2>4
<1> QED  BY <1>3, <1>4

\* While the file can be read and written no update of it is lost: the counter
\* of messages is the number of messages handed over, the counter of memories
\* lacks at most those of the L1 run that waits for the lock, and the pipeline
\* states are those of the manager's last save.
THEOREM NoUpdateIsLost == Spec => []NoUpdateLost
<1>1. Init => TypeOK /\ LockInv /\ RetakenInv /\ UpdatesInv
  BY InitHasType, InitRetaken, InitUpdates DEF Init, LockInv
<1>2. TypeOK /\ LockInv /\ RetakenInv /\ UpdatesInv /\ [Next]_vars =>
         (TypeOK /\ LockInv /\ RetakenInv /\ UpdatesInv)'
  BY StepKeepsType, LockInvKept, RetakenInvKept, StepKeepsUpdates
<1>3. TypeOK /\ UpdatesInv => NoUpdateLost
  BY UpdatesAreKept
<1> QED  BY <1>1, <1>2, <1>3, PTL DEF Spec

=============================================================================
