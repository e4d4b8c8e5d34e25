------------------------ MODULE MemoryPipelineProofs ------------------------
(***************************************************************************)
(* Proofs about MemoryPipeline, for any finite set of sessions and every   *)
(* value of the other constants: type correctness, and the exactness of    *)
(* the l1Queued and l2Queued flags; and on top of these, no wake-up is     *)
(* lost, garbage collection leaves sessions with work alone, messages      *)
(* reach L1 once and in order, and memories L2 has not read keep a         *)
(* trigger.                                                                *)
(***************************************************************************)
EXTENDS MemoryPipeline, FiniteSetTheorems, SequenceTheorems, TLAPS

L1RunType == [session : Sessions \cup {NoSession}, phase : L1Phases,
              batch : Seq(Nat), result : L1Results]
L2RunType == [session : Sessions \cup {NoSession}, phase : L2Phases]

(* a serial queue has a running task exactly when a session owns it, and   *)
(* is empty when nothing runs                                              *)
RunShape ==
  /\ l1Run.phase = "idle" <=> l1Run.session = NoSession
  /\ l1Run.phase = "idle" => l1Queue = <<>>
  /\ l2Run.phase = "idle" <=> l2Run.session = NoSession
  /\ l2Run.phase = "idle" => l2Queue = <<>>

-----------------------------------------------------------------------------
(* Types of the helper operators *)

(* the effective threshold is a natural number *)
LEMMA EffectiveThresholdType ==
  ASSUME NEW state \in SessionState
  PROVE  EffectiveThreshold(state) \in Nat
BY PipelineAssumption DEF EffectiveThreshold, SessionState

(* drain() keeps the L1 queue, the running task and the buffers well typed *)
LEMMA DrainL1Type ==
  ASSUME NEW q \in Seq(Sessions), NEW b \in [Sessions -> Seq(Nat)], DrainL1(q, b)
  PROVE  /\ l1Queue' \in Seq(Sessions)
         /\ l1Run' \in L1RunType
         /\ messageBuffers' \in [Sessions -> Seq(Nat)]
<1>1. CASE q = <<>>
  <2>1. <<>> \in Seq(Nat) /\ "drained" \in L1Results
    BY PipelineAssumption
  <2>2. L1Idle \in L1RunType
    BY <2>1 DEF L1Idle, L1RunType, L1Phases
  <2> QED BY <1>1, <2>2 DEF DrainL1
<1>2. CASE q # <<>>
  <2>1. Head(q) \in Sessions /\ Tail(q) \in Seq(Sessions)
    BY <1>2
  <2>2. <<>> \in Seq(Nat) /\ b[Head(q)] \in Seq(Nat) /\ "drained" \in L1Results
    BY <2>1, PipelineAssumption
  <2>3. l1Run' \in L1RunType
    BY <1>2, <2>1, <2>2 DEF DrainL1, L1RunType, L1Phases
  <2>4. messageBuffers' \in [Sessions -> Seq(Nat)]
    BY <1>2, <2>2 DEF DrainL1
  <2> QED BY <1>2, <2>1, <2>3, <2>4 DEF DrainL1
<1> QED BY <1>1, <1>2

LEMMA AddL1Type ==
  ASSUME TypeOK, NEW p \in Seq(Sessions), AddL1(p)
  PROVE  /\ l1Queue' \in Seq(Sessions)
         /\ l1Run' \in L1RunType
         /\ messageBuffers' \in [Sessions -> Seq(Nat)]
<1>1. l1Queue \o p \in Seq(Sessions)
  BY DEF TypeOK
<1>2. CASE l1Run.phase = "idle"
  BY <1>1, <1>2, DrainL1Type DEF AddL1, TypeOK
<1>3. CASE l1Run.phase # "idle"
  BY <1>1, <1>3 DEF AddL1, TypeOK, L1RunType
<1> QED BY <1>2, <1>3

LEMMA DrainL2Type ==
  ASSUME NEW q \in Seq(Sessions), DrainL2(q)
  PROVE  l2Queue' \in Seq(Sessions) /\ l2Run' \in L2RunType
BY DEF DrainL2, L2Idle, L2RunType, L2Phases

LEMMA AddL2Type ==
  ASSUME TypeOK, NEW p \in Seq(Sessions), AddL2(p)
  PROVE  l2Queue' \in Seq(Sessions) /\ l2Run' \in L2RunType
<1>1. l2Queue \o p \in Seq(Sessions)
  BY DEF TypeOK
<1>2. CASE l2Run.phase = "idle"
  BY <1>1, <1>2, DrainL2Type DEF AddL2, TypeOK
<1>3. CASE l2Run.phase # "idle"
  BY <1>1, <1>3 DEF AddL2, TypeOK, L2RunType
<1> QED BY <1>2, <1>3

(* the order of a loop over sessions is a sequence of sessions *)
LEMMA OrdersType ==
  ASSUME NEW S \in SUBSET Sessions, NEW p \in Orders(S)
  PROVE  /\ p \in Seq(Sessions)
         /\ \A i, j \in 1..Len(p) : p[i] = p[j] => i = j
         /\ \A s : Queued(p, s) <=> s \in S
<1>1. IsFiniteSet(S) /\ Cardinality(S) \in Nat
  BY PipelineAssumption, FS_Subset, FS_CardinalityType
<1>2. /\ p \in [1..Cardinality(S) -> S]
      /\ \A i, j \in 1..Cardinality(S) : i # j => p[i] # p[j]
      /\ Range(p) = S
  BY DEF Orders, SetToSeqs
<1>3. p \in Seq(Sessions) /\ Len(p) = Cardinality(S)
  BY <1>1, <1>2
<1>4. \A s : Queued(p, s) <=> s \in S
  BY <1>2, <1>3 DEF Queued, Range
<1> QED BY <1>2, <1>3, <1>4

(* setting fields of one session's timers *)
LEMMA EnqueueL1Type ==
  ASSUME TypeOK, NEW s \in Sessions,
         NEW timers \in [Sessions -> SessionTimerState], EnqueueL1(s, timers)
  PROVE  /\ sessionTimers' \in [Sessions -> SessionTimerState]
         /\ l1Queue' \in Seq(Sessions)
         /\ l1Run' \in L1RunType
         /\ messageBuffers' \in [Sessions -> Seq(Nat)]
<1>1. CASE timers[s].l1Queued
  BY <1>1 DEF EnqueueL1, TypeOK, L1RunType
<1>2. CASE ~timers[s].l1Queued
  <2>1. sessionTimers' \in [Sessions -> SessionTimerState]
    BY <1>2 DEF EnqueueL1, SessionTimerState
  <2>2. AddL1(<<s>>) /\ <<s>> \in Seq(Sessions)
    BY <1>2 DEF EnqueueL1
  <2> QED BY <2>1, <2>2, AddL1Type
<1> QED BY <1>1, <1>2

LEMMA EnqueueL2Type ==
  ASSUME TypeOK, NEW s \in Sessions, EnqueueL2(s, sessionTimers)
  PROVE  /\ sessionTimers' \in [Sessions -> SessionTimerState]
         /\ l2Queue' \in Seq(Sessions)
         /\ l2Run' \in L2RunType
<1>0. sessionTimers \in [Sessions -> SessionTimerState]
  BY DEF TypeOK
<1>1. CASE sessionTimers[s].l2Queued
  <2>1. sessionTimers' \in [Sessions -> SessionTimerState]
    BY <1>0, <1>1 DEF EnqueueL2, SessionTimerState, Schedules
  <2> QED BY <1>1, <2>1 DEF EnqueueL2, TypeOK, L2RunType
<1>2. CASE ~sessionTimers[s].l2Queued
  <2>1. sessionTimers' \in [Sessions -> SessionTimerState]
    BY <1>0, <1>2 DEF EnqueueL2, SessionTimerState, Schedules
  <2>2. AddL2(<<s>>) /\ <<s>> \in Seq(Sessions)
    BY <1>2 DEF EnqueueL2
  <2> QED BY <2>1, <2>2, AddL2Type
<1> QED BY <1>1, <1>2

-----------------------------------------------------------------------------
(* Type correctness *)

(* the updates of one session's state and of one session's timers *)
LEMMA AdvanceWarmupType ==
  ASSUME NEW w \in Nat
  PROVE  AdvanceWarmup(w) \in Nat
BY PipelineAssumption DEF AdvanceWarmup

LEMMA RecoveredType ==
  ASSUME NEW saved \in Restored
  PROVE  Recovered(saved) \in SessionState
BY PipelineAssumption DEF Recovered, SessionState, MaxOf

LEMMA NewRecordsType ==
  /\ NewState \in SessionState
  /\ NewTimers \in SessionTimerState
BY PipelineAssumption DEF NewState, SessionState, NewTimers, SessionTimerState, Schedules

LEMMA InitTypeOK == Init => TypeOK /\ RunShape
<1> SUFFICES ASSUME Init PROVE TypeOK /\ RunShape
  OBVIOUS
<1>1. PICK K \in SUBSET Sessions : \E saved \in [K -> Restored] :
        /\ known = K
        /\ sessionStates = [s \in Sessions |->
                              IF s \in K THEN Recovered(saved[s]) ELSE NewState]
        /\ sessionTimers = [s \in Sessions |->
                              IF s \in K /\ HasPending(saved[s])
                              THEN [NewTimers EXCEPT !.l2Schedule = "delay-after-l1"]
                              ELSE NewTimers]
        /\ activity \in {a \in [Sessions -> {"active", "cold", "stale"}] :
                           \A s \in Sessions \ K : a[s] = "active"}
  BY DEF Init
<1>2. PICK saved \in [K -> Restored] :
        /\ known = K
        /\ sessionStates = [s \in Sessions |->
                              IF s \in K THEN Recovered(saved[s]) ELSE NewState]
        /\ sessionTimers = [s \in Sessions |->
                              IF s \in K /\ HasPending(saved[s])
                              THEN [NewTimers EXCEPT !.l2Schedule = "delay-after-l1"]
                              ELSE NewTimers]
        /\ activity \in [Sessions -> {"active", "cold", "stale"}]
  BY <1>1
<1>3. sessionStates \in [Sessions -> SessionState]
  BY <1>2, RecoveredType, NewRecordsType
<1>4. [NewTimers EXCEPT !.l2Schedule = "delay-after-l1"] \in SessionTimerState
  BY NewRecordsType DEF SessionTimerState, Schedules
<1>5. sessionTimers \in [Sessions -> SessionTimerState]
  BY <1>2, <1>4, NewRecordsType
<1>6. /\ <<>> \in Seq(Nat) /\ <<>> \in Seq(Sessions)
      /\ 0 \in 0..(GcEvery - 1)
      /\ "drained" \in L1Results
  BY PipelineAssumption
<1>7. L1Idle \in L1RunType /\ L2Idle \in L2RunType
  BY <1>6 DEF L1Idle, L2Idle, L1RunType, L2RunType, L1Phases, L2Phases
<1>8. TypeOK
  BY <1>2, <1>3, <1>5, <1>6, <1>7 DEF Init, TypeOK, L1RunType, L2RunType
<1>9. RunShape
  BY DEF Init, RunShape, L1Idle, L2Idle
<1> QED BY <1>8, <1>9

LEMMA NotifyType ==
  ASSUME TypeOK, NEW s \in Sessions, NEW m \in Batches, Notify(s, m)
  PROVE  TypeOK'
<1>1. sessionStates' \in [Sessions -> SessionState]
  <2>1. /\ sessionStates \in [Sessions -> SessionState]
        /\ sessionStates' = [sessionStates EXCEPT ![s].conversation_count = @ + 1]
    BY DEF TypeOK, Notify
  <2>2. [sessionStates[s] EXCEPT !.conversation_count = @ + 1] \in SessionState
    BY <2>1 DEF SessionState
  <2> QED BY <2>1, <2>2
<1>2. sessionTimers' \in [Sessions -> SessionTimerState]
  <2>1. /\ sessionTimers \in [Sessions -> SessionTimerState]
        /\ sessionTimers' = [sessionTimers EXCEPT ![s].l1RetryCount = 0]
    BY DEF TypeOK, Notify
  <2>2. [sessionTimers[s] EXCEPT !.l1RetryCount = 0] \in SessionTimerState
    BY <2>1, PipelineAssumption DEF SessionTimerState
  <2> QED BY <2>1, <2>2
<1>3. messageBuffers' \in [Sessions -> Seq(Nat)]
  <2>1. /\ m \in Nat /\ captured[s] \in Nat
        /\ messageBuffers \in [Sessions -> Seq(Nat)]
        /\ messageBuffers' = [messageBuffers EXCEPT
                                ![s] = @ \o [i \in 1..m |-> captured[s] + i]]
    BY PipelineAssumption DEF TypeOK, Notify
  <2>2. [i \in 1..m |-> captured[s] + i] \in Seq(Nat)
    BY <2>1
  <2>3. messageBuffers[s] \o [i \in 1..m |-> captured[s] + i] \in Seq(Nat)
    BY <2>1, <2>2
  <2> QED BY <2>1, <2>3
<1>4. notifying' \in [Sessions -> Seq(Nat)]
  <2>1. /\ notifying \in [Sessions -> Seq(Nat)]
        /\ sessionStates[s] \in SessionState
        /\ notifying' = [notifying EXCEPT
                           ![s] = Append(@, EffectiveThreshold(sessionStates[s]))]
    BY DEF TypeOK, Notify
  <2>2. Append(notifying[s], EffectiveThreshold(sessionStates[s])) \in Seq(Nat)
    BY <2>1, EffectiveThresholdType
  <2> QED BY <2>1, <2>2
<1>5. rounds' \in [Sessions -> Nat] /\ captured' \in [Sessions -> Nat]
  <2>1. /\ rounds \in [Sessions -> Nat] /\ captured \in [Sessions -> Nat]
        /\ rounds' = [rounds EXCEPT ![s] = @ + 1]
        /\ captured' = [captured EXCEPT ![s] = @ + m] /\ m \in Nat
    BY PipelineAssumption DEF TypeOK, Notify
  <2> QED BY <2>1
<1>6. known' \in SUBSET Sessions
      /\ activity' \in [Sessions -> {"active", "cold", "stale"}]
  BY DEF TypeOK, Notify
<1> QED
  BY <1>1, <1>2, <1>3, <1>4, <1>5, <1>6
  DEF TypeOK, Notify, l1Vars, l2Vars, l3Vars, lifeVars

LEMMA NotifyBelowThresholdType ==
  ASSUME TypeOK, NEW s \in Sessions, NotifyBelowThreshold(s)
  PROVE  TypeOK'
<1> DEFINE evicted == IF notifyCounter' = 0
                      THEN {t \in Sessions : Evictable(t)} ELSE {}
<1>1. sessionStates' \in [Sessions -> SessionState]
  <2>1. /\ sessionStates \in [Sessions -> SessionState]
        /\ sessionStates' = [t \in Sessions |->
                               IF t \in evicted THEN NewState ELSE sessionStates[t]]
    BY DEF TypeOK, NotifyBelowThreshold
  <2> HIDE DEF evicted
  <2> QED BY <2>1, NewRecordsType
<1>2. sessionTimers' \in [Sessions -> SessionTimerState]
  <2>1. /\ sessionTimers \in [Sessions -> SessionTimerState]
        /\ sessionTimers' = [t \in Sessions |->
                               IF t \in evicted THEN NewTimers
                               ELSE IF t = s
                               THEN [sessionTimers[t] EXCEPT !.l1Idle = TRUE]
                               ELSE sessionTimers[t]]
    BY DEF TypeOK, NotifyBelowThreshold
  <2> HIDE DEF evicted
  <2>2. [sessionTimers[s] EXCEPT !.l1Idle = TRUE] \in SessionTimerState
    BY <2>1 DEF SessionTimerState
  <2> QED BY <2>1, <2>2, NewRecordsType
<1>3. messageBuffers' \in [Sessions -> Seq(Nat)] /\ notifying' \in [Sessions -> Seq(Nat)]
  <2>1. /\ messageBuffers \in [Sessions -> Seq(Nat)]
        /\ notifying \in [Sessions -> Seq(Nat)] /\ notifying[s] # <<>>
        /\ notifying' = [notifying EXCEPT ![s] = Tail(@)]
        /\ messageBuffers' = [t \in Sessions |->
                                IF t \in evicted THEN <<>> ELSE messageBuffers[t]]
    BY DEF TypeOK, NotifyBelowThreshold
  <2> HIDE DEF evicted
  <2>2. Tail(notifying[s]) \in Seq(Nat) /\ <<>> \in Seq(Nat)
    BY <2>1
  <2> QED BY <2>1, <2>2
<1>4. notifyCounter' \in 0..(GcEvery - 1)
  <2>1. /\ notifyCounter' = (notifyCounter + 1) % GcEvery
        /\ notifyCounter \in Nat /\ GcEvery \in Nat \ {0}
    BY PipelineAssumption DEF TypeOK, NotifyBelowThreshold, NextNotifyCount
  <2> QED BY <2>1
<1>5. /\ known' \subseteq Sessions /\ l2LastRunTime' \subseteq Sessions
      /\ activity' \in [Sessions -> {"active", "cold", "stale"}]
  BY DEF TypeOK, NotifyBelowThreshold
<1> QED
  BY <1>1, <1>2, <1>3, <1>4, <1>5
  DEF TypeOK, NotifyBelowThreshold, l1Vars, l2Vars, l3Vars, lifeVars, historyVars

LEMMA NotifyAtThresholdType ==
  ASSUME TypeOK, NEW s \in Sessions, NotifyAtThreshold(s)
  PROVE  TypeOK'
<1>1. notifying' \in [Sessions -> Seq(Nat)]
  <2>1. /\ notifying \in [Sessions -> Seq(Nat)] /\ notifying[s] # <<>>
        /\ notifying' = [notifying EXCEPT ![s] = Tail(@)]
    BY DEF TypeOK, NotifyAtThreshold
  <2>2. Tail(notifying[s]) \in Seq(Nat)
    BY <2>1
  <2> QED BY <2>1, <2>2
<1>2. /\ sessionTimers' \in [Sessions -> SessionTimerState]
      /\ l1Queue' \in Seq(Sessions)
      /\ l1Run' \in L1RunType
      /\ messageBuffers' \in [Sessions -> Seq(Nat)]
  BY EnqueueL1Type DEF TypeOK, NotifyAtThreshold
<1> QED
  BY <1>1, <1>2
  DEF TypeOK, NotifyAtThreshold, L1RunType, l2Vars, l3Vars, lifeVars, historyVars

(* a session's timers with the idle timer cleared *)
LEMMA IdleClearedType ==
  ASSUME TypeOK, NEW s \in Sessions
  PROVE  [sessionTimers EXCEPT ![s].l1Idle = FALSE] \in [Sessions -> SessionTimerState]
<1>1. sessionTimers \in [Sessions -> SessionTimerState]
  BY DEF TypeOK
<1>2. [sessionTimers[s] EXCEPT !.l1Idle = FALSE] \in SessionTimerState
  BY <1>1 DEF SessionTimerState
<1> QED BY <1>1, <1>2

LEMMA L1IdleFiresType ==
  ASSUME TypeOK, NEW s \in Sessions, L1IdleFires(s)
  PROVE  TypeOK'
<1>1. /\ sessionTimers' \in [Sessions -> SessionTimerState]
      /\ l1Queue' \in Seq(Sessions)
      /\ l1Run' \in L1RunType
      /\ messageBuffers' \in [Sessions -> Seq(Nat)]
  <2>1. CASE destroyed
    <3>1. /\ sessionTimers' = [sessionTimers EXCEPT ![s].l1Idle = FALSE]
          /\ UNCHANGED <<l1Queue, l1Run, messageBuffers>>
      BY <2>1 DEF L1IdleFires, l1Vars
    <3>2. sessionTimers' \in [Sessions -> SessionTimerState]
      BY <3>1, IdleClearedType
    <3> QED BY <3>1, <3>2 DEF TypeOK, L1RunType
  <2>2. CASE ~destroyed
    BY <2>2, IdleClearedType, EnqueueL1Type DEF L1IdleFires
  <2> QED BY <2>1, <2>2
<1> QED
  BY <1>1
  DEF TypeOK, L1IdleFires, L1RunType, l2Vars, l3Vars, lifeVars, historyVars

LEMMA L1RunnerReturnsType ==
  ASSUME TypeOK, RunShape, NEW result \in L1Results, L1RunnerReturns(result)
  PROVE  TypeOK'
<1> DEFINE s == l1Run.session
<1>1. s \in Sessions
  BY DEF TypeOK, RunShape, L1RunnerReturns
<1>2. sessionTimers' \in [Sessions -> SessionTimerState]
  <2>1. /\ sessionTimers \in [Sessions -> SessionTimerState]
        /\ sessionTimers' = [sessionTimers EXCEPT ![s].l1RetryCount = 0]
    BY DEF TypeOK, L1RunnerReturns
  <2> HIDE DEF s
  <2>2. [sessionTimers[s] EXCEPT !.l1RetryCount = 0] \in SessionTimerState
    BY <1>1, <2>1, PipelineAssumption DEF SessionTimerState
  <2> QED BY <1>1, <2>1, <2>2
<1>3. sessionStates' \in [Sessions -> SessionState]
  <2>1. /\ sessionStates \in [Sessions -> SessionState]
        /\ sessionStates' =
             [sessionStates EXCEPT
                ![s].l2_pending_l1_count = sessionStates[s].conversation_count,
                ![s].conversation_count = 0,
                ![s].warmup_threshold = AdvanceWarmup(@)]
    BY DEF TypeOK, L1RunnerReturns
  <2> HIDE DEF s
  <2>2. AdvanceWarmup(sessionStates[s].warmup_threshold) \in Nat
    BY <1>1, <2>1, AdvanceWarmupType DEF SessionState
  <2> QED BY <1>1, <2>1, <2>2 DEF SessionState
<1>4. delivered' \in [Sessions -> Nat]
  <2>1. /\ delivered \in [Sessions -> Nat] /\ l1Run.batch \in Seq(Nat)
        /\ delivered' = [delivered EXCEPT ![s] = @ + Len(l1Run.batch)]
    BY DEF TypeOK, L1RunnerReturns
  <2> QED BY <1>1, <2>1
<1>5. l1Run' \in L1RunType
  <2>1. /\ l1Run \in L1RunType /\ <<>> \in Seq(Nat)
        /\ l1Run' = [l1Run EXCEPT !.phase = "persist", !.batch = <<>>, !.result = result]
    BY DEF TypeOK, L1RunnerReturns, L1RunType
  <2> QED BY <2>1 DEF L1RunType, L1Phases
<1> QED
  BY <1>2, <1>3, <1>4, <1>5
  DEF TypeOK, L1RunnerReturns, L1RunType, l2Vars, l3Vars, lifeVars

LEMMA WakeL1WaitersType ==
  ASSUME TypeOK, WakeL1Waiters
  PROVE  /\ flushWaiters' \in SUBSET Sessions
         /\ flushWaits' \in SUBSET {"l1", "l2", "l3"}
BY DEF TypeOK, WakeL1Waiters

LEMMA L1RunnerThrowsType ==
  ASSUME TypeOK, RunShape, L1RunnerThrows
  PROVE  TypeOK'
<1> DEFINE s == l1Run.session
           retries == IF sessionTimers[s].l1RetryCount > MaxRetries
                      THEN MaxRetries + 1 ELSE sessionTimers[s].l1RetryCount + 1
<1>1. s \in Sessions /\ l1Run.batch \in Seq(Nat)
  BY DEF TypeOK, RunShape, L1RunnerThrows
<1>2. sessionTimers' \in [Sessions -> SessionTimerState]
  <2>1. /\ sessionTimers \in [Sessions -> SessionTimerState]
        /\ sessionTimers' = [sessionTimers EXCEPT
                               ![s].l1RetryCount = retries,
                               ![s].l1Idle = @ \/ retries <= MaxRetries,
                               ![s].l1Queued = FALSE]
    BY DEF TypeOK, L1RunnerThrows
  <2>2. retries \in 0..(MaxRetries + 1)
    <3> HIDE DEF s
    <3> QED BY <1>1, <2>1, PipelineAssumption DEF SessionTimerState
  <2> DEFINE idle == sessionTimers[s].l1Idle \/ retries <= MaxRetries
  <2>3. idle \in BOOLEAN
    OBVIOUS
  <2>4. sessionTimers' = [sessionTimers EXCEPT ![s].l1RetryCount = retries,
                                               ![s].l1Idle = idle,
                                               ![s].l1Queued = FALSE]
    BY <2>1, Zenon
  <2>5. sessionTimers \in [Sessions -> SessionTimerState]
    BY DEF TypeOK
  <2> HIDE DEF s, retries, idle
  <2> DEFINE next == [sessionTimers[s] EXCEPT !.l1RetryCount = retries, !.l1Idle = idle,
                                              !.l1Queued = FALSE]
  <2>6. next \in SessionTimerState
    <3>1. sessionTimers[s] \in SessionTimerState
      BY <1>1, <2>5
    <3> QED BY <2>2, <2>3, <3>1 DEF SessionTimerState
  <2>7. sessionTimers' = [sessionTimers EXCEPT ![s] = next]
    BY <2>4, Zenon
  <2> HIDE DEF next
  <2> QED BY <1>1, <2>5, <2>6, <2>7
<1>3. /\ l1Queue' \in Seq(Sessions)
      /\ l1Run' \in L1RunType
      /\ messageBuffers' \in [Sessions -> Seq(Nat)]
  <2>1. /\ l1Queue \in Seq(Sessions) /\ messageBuffers \in [Sessions -> Seq(Nat)]
        /\ DrainL1(l1Queue, [messageBuffers EXCEPT ![s] = l1Run.batch \o @])
    BY DEF TypeOK, L1RunnerThrows, RestoreBatch
  <2>2. l1Run.batch \o messageBuffers[s] \in Seq(Nat)
    BY <1>1, <2>1
  <2>3. [messageBuffers EXCEPT ![s] = l1Run.batch \o @] \in [Sessions -> Seq(Nat)]
    BY <2>1, <2>2
  <2> QED BY <2>1, <2>3, DrainL1Type
<1>4. flushWaiters' \in SUBSET Sessions /\ flushWaits' \in SUBSET {"l1", "l2", "l3"}
  BY WakeL1WaitersType DEF L1RunnerThrows
<1> QED
  BY <1>2, <1>3, <1>4
  DEF TypeOK, L1RunnerThrows, L1RunType, l2Vars, l3Vars, historyVars

LEMMA L1PersistedType ==
  ASSUME TypeOK, RunShape, L1Persisted
  PROVE  TypeOK'
<1> DEFINE s == l1Run.session
<1>1. s \in Sessions
  BY DEF TypeOK, RunShape, L1Persisted
<1>2. sessionTimers' \in [Sessions -> SessionTimerState]
  <2>1. PICK schedule \in AdvanceL2Timer(sessionTimers[s].l2Schedule) :
          sessionTimers' = [sessionTimers EXCEPT
                              ![s].l2Schedule = schedule,
                              ![s].l1Idle = @ \/ l1Run.result = "hasMore",
                              ![s].l1Queued = FALSE]
    BY DEF L1Persisted
  <2>2. sessionTimers \in [Sessions -> SessionTimerState]
    BY DEF TypeOK
  <2> HIDE DEF s
  <2>3. schedule \in Schedules
    BY <1>1, <2>1, <2>2 DEF AdvanceL2Timer, Schedules, SessionTimerState
  <2> DEFINE idle == sessionTimers[s].l1Idle \/ l1Run.result = "hasMore"
  <2>4. idle \in BOOLEAN
    OBVIOUS
  <2>5. sessionTimers' = [sessionTimers EXCEPT ![s].l2Schedule = schedule,
                                               ![s].l1Idle = idle,
                                               ![s].l1Queued = FALSE]
    BY <2>1, Zenon
  <2> HIDE DEF idle
  <2> QED BY <1>1, <2>2, <2>3, <2>4, <2>5 DEF SessionTimerState
<1>3. /\ l1Queue' \in Seq(Sessions)
      /\ l1Run' \in L1RunType
      /\ messageBuffers' \in [Sessions -> Seq(Nat)]
  BY DrainL1Type DEF TypeOK, L1Persisted
<1>4. flushWaiters' \in SUBSET Sessions /\ flushWaits' \in SUBSET {"l1", "l2", "l3"}
  BY WakeL1WaitersType DEF L1Persisted
<1> QED
  BY <1>2, <1>3, <1>4
  DEF TypeOK, L1Persisted, L1RunType, l2Vars, l3Vars, historyVars

LEMMA WakeL2WaitersType ==
  ASSUME TypeOK, WakeL2Waiters
  PROVE  flushWaits' \in SUBSET {"l1", "l2", "l3"}
BY DEF TypeOK, WakeL2Waiters

(* the timers of a session with l2Schedule and l2Queued set *)
LEMMA SetL2Type ==
  ASSUME TypeOK, NEW s \in Sessions, NEW schedule \in Schedules
  PROVE  /\ [sessionTimers EXCEPT ![s].l2Schedule = schedule, ![s].l2Queued = FALSE]
              \in [Sessions -> SessionTimerState]
         /\ [sessionTimers EXCEPT ![s].l2Schedule = schedule]
              \in [Sessions -> SessionTimerState]
         /\ [sessionTimers EXCEPT ![s].l2Queued = FALSE]
              \in [Sessions -> SessionTimerState]
<1>1. sessionTimers \in [Sessions -> SessionTimerState]
  BY DEF TypeOK
<1> QED BY <1>1 DEF SessionTimerState

LEMMA ArmL2Type ==
  ASSUME TypeOK, NEW s \in Sessions
  PROVE  ArmL2MaxInterval(sessionTimers[s].l2Schedule) \in Schedules
<1>1. sessionTimers[s] \in SessionTimerState
  BY DEF TypeOK
<1> QED BY <1>1 DEF ArmL2MaxInterval, Schedules, SessionTimerState

LEMMA L2TimerFiresType ==
  ASSUME TypeOK, NEW s \in Sessions, L2TimerFires(s)
  PROVE  TypeOK'
<1>1. /\ sessionTimers' \in [Sessions -> SessionTimerState]
      /\ l2Queue' \in Seq(Sessions)
      /\ l2Run' \in L2RunType
  <2>1. CASE destroyed \/ Stops(s)
    <3>1. /\ sessionTimers' = [sessionTimers EXCEPT ![s].l2Schedule = "none"]
          /\ UNCHANGED <<l2Queue, l2Run>>
      BY <2>1 DEF L2TimerFires, l2Vars
    <3>2. sessionTimers' \in [Sessions -> SessionTimerState]
      BY <3>1, SetL2Type DEF Schedules
    <3> QED BY <3>1, <3>2 DEF TypeOK, L2RunType
  <2>2. CASE ~(destroyed \/ Stops(s))
    BY <2>2, EnqueueL2Type DEF L2TimerFires
  <2> QED BY <2>1, <2>2
<1> QED
  BY <1>1
  DEF TypeOK, L2TimerFires, L2RunType, l1Vars, l3Vars, lifeVars, historyVars

LEMMA L2RunnerThrowsType ==
  ASSUME TypeOK, RunShape, L2RunnerThrows
  PROVE  TypeOK'
<1>1. l2Run.session \in Sessions
  BY DEF TypeOK, RunShape, L2RunnerThrows
<1>2. sessionTimers' \in [Sessions -> SessionTimerState]
  <2>1. sessionTimers' = [sessionTimers EXCEPT
          ![l2Run.session].l2Schedule = ArmL2MaxInterval(sessionTimers[l2Run.session].l2Schedule),
          ![l2Run.session].l2Queued = FALSE]
    BY <1>1 DEF TypeOK, L2RunnerThrows
  <2> QED BY <1>1, <2>1, SetL2Type, ArmL2Type
<1>3. l2Queue' \in Seq(Sessions) /\ l2Run' \in L2RunType
  BY DrainL2Type DEF TypeOK, L2RunnerThrows
<1>4. flushWaits' \in SUBSET {"l1", "l2", "l3"}
  BY WakeL2WaitersType DEF L2RunnerThrows
<1> QED
  BY <1>2, <1>3, <1>4
  DEF TypeOK, L2RunnerThrows, L2RunType, l1Vars, l3Vars, historyVars

LEMMA L2PendingClearedType ==
  ASSUME TypeOK, NEW s \in Sessions
  PROVE  [sessionStates EXCEPT ![s].l2_pending_l1_count = 0]
           \in [Sessions -> SessionState]
<1>1. sessionStates \in [Sessions -> SessionState]
  BY DEF TypeOK
<1> QED BY <1>1 DEF SessionState

LEMMA L2RunnerReturnsType ==
  ASSUME TypeOK, RunShape, L2RunnerReturns
  PROVE  TypeOK'
<1>1. l2Run.session \in Sessions
  BY DEF TypeOK, RunShape, L2RunnerReturns
<1>2. sessionStates' \in [Sessions -> SessionState]
  BY <1>1, L2PendingClearedType DEF L2RunnerReturns
<1>3. l2Run' \in L2RunType
  BY DEF TypeOK, L2RunnerReturns, L2RunType, L2Phases
<1> QED
  BY <1>1, <1>2, <1>3
  DEF TypeOK, L2RunnerReturns, L2RunType, l1Vars, l3Vars, lifeVars, historyVars

LEMMA L2RunnerSkipsType ==
  ASSUME TypeOK, RunShape, L2RunnerSkips
  PROVE  TypeOK'
<1>1. l2Run.session \in Sessions
  BY DEF TypeOK, RunShape, L2RunnerSkips
<1>2. sessionStates' \in [Sessions -> SessionState]
  BY <1>1, L2PendingClearedType DEF L2RunnerSkips
<1>3. l2Run' \in L2RunType
  BY DEF TypeOK, L2RunnerSkips, L2RunType, L2Phases
<1>4. sessionTimers' \in [Sessions -> SessionTimerState]
  <2>1. sessionTimers' = [sessionTimers EXCEPT
          ![l2Run.session].l2Schedule = ArmL2MaxInterval(sessionTimers[l2Run.session].l2Schedule)]
    BY <1>1 DEF TypeOK, L2RunnerSkips
  <2> QED BY <1>1, <2>1, SetL2Type, ArmL2Type
<1> QED
  BY <1>2, <1>3, <1>4
  DEF TypeOK, L2RunnerSkips, L2RunType, l1Vars, l3Vars, lifeVars, historyVars

LEMMA L2SkipPersistedType ==
  ASSUME TypeOK, RunShape, L2SkipPersisted
  PROVE  TypeOK'
<1>1. l2Run.session \in Sessions
  BY DEF TypeOK, RunShape, L2SkipPersisted
<1>2. sessionTimers' \in [Sessions -> SessionTimerState]
  BY <1>1, SetL2Type DEF L2SkipPersisted, Schedules
<1>3. l2Queue' \in Seq(Sessions) /\ l2Run' \in L2RunType
  BY DrainL2Type DEF TypeOK, L2SkipPersisted
<1>4. flushWaits' \in SUBSET {"l1", "l2", "l3"}
  BY WakeL2WaitersType DEF L2SkipPersisted
<1> QED
  BY <1>2, <1>3, <1>4
  DEF TypeOK, L2SkipPersisted, L2RunType, l1Vars, l3Vars, historyVars

LEMMA L2PersistedType ==
  ASSUME TypeOK, RunShape, L2Persisted
  PROVE  TypeOK'
<1>1. l2Run.session \in Sessions
  BY DEF TypeOK, RunShape, L2Persisted
<1>2. sessionTimers' \in [Sessions -> SessionTimerState]
  <2>1. sessionTimers' = [sessionTimers EXCEPT
          ![l2Run.session].l2Schedule = ArmL2MaxInterval(sessionTimers[l2Run.session].l2Schedule),
          ![l2Run.session].l2Queued = FALSE]
    BY <1>1 DEF TypeOK, L2Persisted
  <2> QED BY <1>1, <2>1, SetL2Type, ArmL2Type
<1>3. l2Queue' \in Seq(Sessions) /\ l2Run' \in L2RunType
  BY DrainL2Type DEF TypeOK, L2Persisted
<1>4. flushWaits' \in SUBSET {"l1", "l2", "l3"}
  BY WakeL2WaitersType DEF L2Persisted
<1>5. l3Running' \in BOOLEAN /\ l3Pending' \in BOOLEAN /\ l3Stale' \in BOOLEAN
  BY DEF TypeOK, L2Persisted, TriggerL3
<1> QED
  BY <1>2, <1>3, <1>4, <1>5
  DEF TypeOK, L2Persisted, L2RunType, l1Vars, historyVars

LEMMA FlushSessionType ==
  ASSUME TypeOK, NEW s \in Sessions, FlushSession(s)
  PROVE  TypeOK'
<1>1. /\ sessionTimers' \in [Sessions -> SessionTimerState]
      /\ l1Queue' \in Seq(Sessions)
      /\ l1Run' \in L1RunType
      /\ messageBuffers' \in [Sessions -> Seq(Nat)]
  <2>1. CASE HasBuffered(s)
    BY <2>1, IdleClearedType, EnqueueL1Type DEF FlushSession
  <2>2. CASE ~HasBuffered(s)
    <3>1. /\ sessionTimers' = [sessionTimers EXCEPT ![s].l1Idle = FALSE]
          /\ UNCHANGED <<l1Queue, l1Run, messageBuffers>>
      BY <2>2 DEF FlushSession, l1Vars
    <3>2. sessionTimers' \in [Sessions -> SessionTimerState]
      BY <3>1, IdleClearedType
    <3> QED BY <3>1, <3>2 DEF TypeOK, L1RunType
  <2> QED BY <2>1, <2>2
<1>2. flushWaiters' \in SUBSET Sessions
  BY DEF TypeOK, FlushSession
<1> QED
  BY <1>1, <1>2
  DEF TypeOK, FlushSession, L1RunType, l2Vars, l3Vars, historyVars

LEMMA DestroyType ==
  ASSUME TypeOK, Destroy
  PROVE  TypeOK'
<1> DEFINE queued == {s \in Sessions : /\ sessionTimers[s].l1Idle
                                       /\ HasBuffered(s)
                                       /\ ~sessionTimers[s].l1Queued}
           flag(s) == sessionTimers[s].l1Queued \/ s \in queued
<1>1. sessionTimers' \in [Sessions -> SessionTimerState]
  <2>1. sessionTimers' = [s \in Sessions |->
          [sessionTimers[s] EXCEPT !.l1Idle = FALSE, !.l1Queued = flag(s)]]
    BY Zenon DEF Destroy
  <2>2. sessionTimers \in [Sessions -> SessionTimerState]
    BY DEF TypeOK
  <2>3. \A s : flag(s) \in BOOLEAN
    OBVIOUS
  <2> HIDE DEF flag
  <2> QED BY <2>1, <2>2, <2>3 DEF SessionTimerState
<1>2. /\ l1Queue' \in Seq(Sessions)
      /\ l1Run' \in L1RunType
      /\ messageBuffers' \in [Sessions -> Seq(Nat)]
  <2>1. PICK p \in Orders(queued) : AddL1(p)
    BY DEF Destroy
  <2>2. queued \in SUBSET Sessions
    OBVIOUS
  <2> HIDE DEF queued
  <2> QED BY <2>1, <2>2, OrdersType, AddL1Type
<1>3. flushWaits' \in SUBSET {"l1", "l2", "l3"}
  BY DEF Destroy
<1> QED
  BY <1>1, <1>2, <1>3
  DEF TypeOK, Destroy, L1RunType, l2Vars, l3Vars, historyVars

LEMMA FlushL2TimersType ==
  ASSUME TypeOK, FlushL2Timers
  PROVE  TypeOK'
<1> DEFINE queued == {s \in Sessions : /\ sessionTimers[s].l2Schedule # "none"
                                       /\ ~Stops(s)
                                       /\ ~sessionTimers[s].l2Queued}
           flag(s) == sessionTimers[s].l2Queued \/ s \in queued
<1>1. sessionTimers' \in [Sessions -> SessionTimerState]
  <2>1. sessionTimers' = [s \in Sessions |->
          [sessionTimers[s] EXCEPT !.l2Schedule = "none", !.l2Queued = flag(s)]]
    BY Zenon DEF FlushL2Timers
  <2>2. sessionTimers \in [Sessions -> SessionTimerState]
    BY DEF TypeOK
  <2>3. \A s : flag(s) \in BOOLEAN
    OBVIOUS
  <2> HIDE DEF flag
  <2> QED BY <2>1, <2>2, <2>3 DEF SessionTimerState, Schedules
<1>2. l2Queue' \in Seq(Sessions) /\ l2Run' \in L2RunType
  <2>1. PICK p \in Orders(queued) : AddL2(p)
    BY DEF FlushL2Timers
  <2>2. queued \in SUBSET Sessions
    OBVIOUS
  <2> HIDE DEF queued
  <2> QED BY <2>1, <2>2, OrdersType, AddL2Type
<1>3. flushWaits' \in SUBSET {"l1", "l2", "l3"}
  BY DEF FlushL2Timers
<1> QED
  BY <1>1, <1>2, <1>3
  DEF TypeOK, FlushL2Timers, L2RunType, l1Vars, l3Vars, historyVars

LEMMA RestType ==
  ASSUME TypeOK,
         \/ L3Returns \/ FlushReturns \/ DestroyTimesOut
         \/ \E s \in Sessions : GrowsCold(s)
  PROVE  TypeOK'
<1>1. CASE L3Returns
  <2>1. /\ l3Running' \in BOOLEAN /\ l3Pending' \in BOOLEAN /\ l3Stale' \in BOOLEAN
        /\ UNCHANGED <<pipelineVars, l1Vars, l2Vars, flushWaiters, flush, teardown, historyVars>>
    BY <1>1, Zenon DEF L3Returns
  <2>2. flushWaits' \in SUBSET {"l1", "l2", "l3"}
    BY <1>1 DEF TypeOK, L3Returns
  <2> QED BY <2>1, <2>2, Zenon DEF TypeOK, pipelineVars, l1Vars, l2Vars, historyVars
<1>2. CASE FlushReturns
  BY <1>2 DEF TypeOK, FlushReturns, pipelineVars, l1Vars, l2Vars, l3Vars, historyVars
<1>3. CASE DestroyTimesOut
  BY <1>3 DEF TypeOK, DestroyTimesOut, pipelineVars, l1Vars, l2Vars, l3Vars, historyVars
<1>4. CASE \E s \in Sessions : GrowsCold(s)
  <2>1. PICK s \in Sessions : GrowsCold(s)
    BY <1>4
  <2>2. activity' \in [Sessions -> {"active", "cold", "stale"}]
    <3>1. activity \in [Sessions -> {"active", "cold", "stale"}]
      BY Zenon DEF TypeOK
    <3>2. \/ activity' = [activity EXCEPT ![s] = "cold"]
          \/ activity' = [activity EXCEPT ![s] = "stale"]
      BY <2>1, Zenon DEF GrowsCold
    <3> QED BY <3>1, <3>2
  <2>3. UNCHANGED <<known, sessionStates, sessionTimers, messageBuffers, l2LastRunTime,
                    notifying, notifyCounter, l1Vars, l2Vars, l3Vars, lifeVars, historyVars>>
    BY <2>1, Zenon DEF GrowsCold
  <2> QED BY <2>2, <2>3, Zenon DEF TypeOK, l1Vars, l2Vars, l3Vars, lifeVars, historyVars
<1> QED BY <1>1, <1>2, <1>3, <1>4

-----------------------------------------------------------------------------
(* Flags and queues *)

(* appending sessions that are not flagged, and flagging them *)
LEMMA ConcatFlags ==
  ASSUME NEW q \in Seq(Sessions), NEW r \in Sessions \cup {NoSession}, NEW F,
         FlagsMatch(q, r, F),
         NEW p \in Seq(Sessions), NEW P \in SUBSET Sessions,
         \A i, j \in 1..Len(p) : p[i] = p[j] => i = j,
         \A s : Queued(p, s) <=> s \in P,
         F \cap P = {}
  PROVE  FlagsMatch(q \o p, r, F \cup P)
<1> DEFINE qp == q \o p
<1>1. /\ qp \in Seq(Sessions)
      /\ Len(qp) = Len(q) + Len(p)
      /\ \A i \in 1..Len(qp) : qp[i] = IF i <= Len(q) THEN q[i] ELSE p[i - Len(q)]
  OBVIOUS
<1>2. Len(q) \in Nat /\ Len(p) \in Nat
  OBVIOUS
<1> HIDE DEF qp
<1>3. ASSUME NEW s
      PROVE  Queued(qp, s) <=> Queued(q, s) \/ Queued(p, s)
  <2>1. ASSUME Queued(qp, s) PROVE Queued(q, s) \/ Queued(p, s)
    <3>1. PICK i \in 1..Len(qp) : qp[i] = s
      BY <2>1 DEF Queued
    <3>2. CASE i <= Len(q)
      BY <1>1, <1>2, <3>1, <3>2 DEF Queued
    <3>3. CASE ~(i <= Len(q))
      <4>1. i - Len(q) \in 1..Len(p) /\ p[i - Len(q)] = s
        BY <1>1, <1>2, <3>1, <3>3
      <4> QED BY <4>1 DEF Queued
    <3> QED BY <3>2, <3>3
  <2>2. ASSUME Queued(q, s) PROVE Queued(qp, s)
    <3>1. PICK i \in 1..Len(q) : q[i] = s
      BY <2>2 DEF Queued
    <3>2. i \in 1..Len(qp) /\ qp[i] = s
      BY <1>1, <1>2, <3>1
    <3> QED BY <3>2 DEF Queued
  <2>3. ASSUME Queued(p, s) PROVE Queued(qp, s)
    <3>1. PICK i \in 1..Len(p) : p[i] = s
      BY <2>3 DEF Queued
    <3>2. /\ i + Len(q) \in 1..Len(qp)
          /\ ~(i + Len(q) <= Len(q))
          /\ (i + Len(q)) - Len(q) = i
      BY <1>1, <1>2
    <3>3. qp[i + Len(q)] = s
      BY <1>1, <3>1, <3>2
    <3> QED BY <3>2, <3>3 DEF Queued
  <2> QED BY <2>1, <2>2, <2>3
<1>4. ASSUME NEW i \in 1..Len(qp), NEW j \in 1..Len(qp), qp[i] = qp[j]
      PROVE  i = j
  <2>1. \A k \in 1..Len(q) : q[k] \in F
    BY DEF FlagsMatch, Queued
  <2>2. \A k \in 1..Len(p) : p[k] \in P
    BY DEF Queued
  <2>3. CASE i <= Len(q) /\ j <= Len(q)
    BY <1>1, <1>2, <1>4, <2>3 DEF FlagsMatch
  <2>4. CASE ~(i <= Len(q)) /\ ~(j <= Len(q))
    <3>1. /\ i - Len(q) \in 1..Len(p) /\ j - Len(q) \in 1..Len(p)
          /\ p[i - Len(q)] = p[j - Len(q)]
      BY <1>1, <1>2, <1>4, <2>4
    <3>2. i - Len(q) = j - Len(q)
      BY <3>1
    <3> QED BY <1>2, <3>2
  <2>5. CASE i <= Len(q) /\ ~(j <= Len(q))
    <3>1. /\ i \in 1..Len(q) /\ j - Len(q) \in 1..Len(p)
          /\ q[i] = p[j - Len(q)]
      BY <1>1, <1>2, <1>4, <2>5
    <3> QED BY <2>1, <2>2, <3>1
  <2>6. CASE ~(i <= Len(q)) /\ j <= Len(q)
    <3>1. /\ j \in 1..Len(q) /\ i - Len(q) \in 1..Len(p)
          /\ q[j] = p[i - Len(q)]
      BY <1>1, <1>2, <1>4, <2>6
    <3> QED BY <2>1, <2>2, <3>1
  <2> QED BY <2>3, <2>4, <2>5, <2>6
<1>5. ~Queued(qp, r)
  <2>1. ~Queued(q, r)
    BY DEF FlagsMatch
  <2>2. r \notin P
    <3>1. r \in Sessions => r \in F
      BY DEF FlagsMatch
    <3> QED BY <3>1, PipelineAssumption
  <2> QED BY <1>3, <2>1, <2>2
<1>6. F \cup P = {s \in Sessions : Queued(qp, s) \/ r = s}
  <2>1. F = {s \in Sessions : Queued(q, s) \/ r = s}
    BY DEF FlagsMatch
  <2> QED BY <1>3, <2>1
<1> QED BY <1>4, <1>5, <1>6 DEF FlagsMatch, qp

(* the running task ends and the queue hands out its next one *)
LEMMA TakeFlags ==
  ASSUME NEW q \in Seq(Sessions), q # <<>>, NEW r, NEW F, FlagsMatch(q, r, F)
  PROVE  FlagsMatch(Tail(q), Head(q), F \ {r})
<1> DEFINE t == Tail(q)
<1>1. /\ Len(q) \in Nat /\ Len(q) > 0
      /\ t \in Seq(Sessions) /\ Len(t) = Len(q) - 1
      /\ \A i \in 1..Len(t) : t[i] = q[i + 1]
      /\ Head(q) = q[1]
  OBVIOUS
<1> HIDE DEF t
<1>2. ASSUME NEW i \in 1..Len(t), NEW j \in 1..Len(t), t[i] = t[j]
      PROVE  i = j
  <2>1. q[i + 1] = q[j + 1] /\ i + 1 \in 1..Len(q) /\ j + 1 \in 1..Len(q)
    BY <1>1, <1>2
  <2>2. i + 1 = j + 1
    BY <2>1 DEF FlagsMatch
  <2> QED BY <1>1, <2>2
<1>3. ~Queued(t, Head(q))
  <2>1. SUFFICES ASSUME NEW i \in 1..Len(t), t[i] = Head(q) PROVE FALSE
    BY DEF Queued
  <2>2. q[i + 1] = q[1] /\ i + 1 \in 1..Len(q) /\ 1 \in 1..Len(q)
    BY <1>1, <2>1
  <2>3. i + 1 = 1
    BY <2>2 DEF FlagsMatch
  <2> QED BY <1>1, <2>3
<1>4. ASSUME NEW s PROVE Queued(q, s) <=> Queued(t, s) \/ s = Head(q)
  <2>1. ASSUME Queued(q, s) PROVE Queued(t, s) \/ s = Head(q)
    <3>1. PICK i \in 1..Len(q) : q[i] = s
      BY <2>1 DEF Queued
    <3>2. CASE i = 1
      BY <1>1, <3>1, <3>2
    <3>3. CASE i # 1
      <4>1. i - 1 \in 1..Len(t) /\ t[i - 1] = s
        BY <1>1, <3>1, <3>3
      <4> QED BY <4>1 DEF Queued
    <3> QED BY <3>2, <3>3
  <2>2. ASSUME Queued(t, s) PROVE Queued(q, s)
    <3>1. PICK i \in 1..Len(t) : t[i] = s
      BY <2>2 DEF Queued
    <3>2. i + 1 \in 1..Len(q) /\ q[i + 1] = s
      BY <1>1, <3>1
    <3> QED BY <3>2 DEF Queued
  <2>3. ASSUME s = Head(q) PROVE Queued(q, s)
    <3>1. 1 \in 1..Len(q) /\ q[1] = s
      BY <1>1, <2>3
    <3> QED BY <3>1 DEF Queued
  <2> QED BY <2>1, <2>2, <2>3
<1>5. F \ {r} = {s \in Sessions : Queued(t, s) \/ Head(q) = s}
  <2>1. F = {s \in Sessions : Queued(q, s) \/ r = s} /\ ~Queued(q, r)
    BY DEF FlagsMatch
  <2> QED BY <1>4, <2>1
<1> QED BY <1>2, <1>3, <1>5 DEF FlagsMatch, t

(* the running task ends and the queue falls idle *)
LEMMA IdleFlags ==
  ASSUME NEW r, NEW F, FlagsMatch(<<>>, r, F)
  PROVE  FlagsMatch(<<>>, NoSession, F \ {r})
BY PipelineAssumption DEF FlagsMatch, Queued

-----------------------------------------------------------------------------
(* The inductive invariant of the queues *)

L1Flags == {s \in Sessions : sessionTimers[s].l1Queued}
L2Flags == {s \in Sessions : sessionTimers[s].l2Queued}

QueueInv == TypeOK /\ RunShape /\ L1FlagExact /\ L2FlagExact

L1Shape ==
  /\ l1Run.phase = "idle" <=> l1Run.session = NoSession
  /\ l1Run.phase = "idle" => l1Queue = <<>>

L2Shape ==
  /\ l2Run.phase = "idle" <=> l2Run.session = NoSession
  /\ l2Run.phase = "idle" => l2Queue = <<>>

(* what drain() does to the flags when the running task r has ended *)
LEMMA DrainL1Flags ==
  ASSUME NEW q \in Seq(Sessions), NEW b \in [Sessions -> Seq(Nat)], DrainL1(q, b),
         NEW r, NEW F, FlagsMatch(q, r, F)
  PROVE  L1Shape' /\ FlagsMatch(l1Queue', l1Run'.session, F \ {r})
<1>1. CASE q = <<>>
  BY <1>1, IdleFlags DEF DrainL1, L1Idle, L1Shape
<1>2. CASE q # <<>>
  <2>1. /\ l1Run'.session = Head(q) /\ l1Run'.phase = "runner"
        /\ l1Queue' = Tail(q)
    BY <1>2 DEF DrainL1
  <2>2. Head(q) \in Sessions
    BY <1>2
  <2>3. l1Run'.session # NoSession /\ l1Run'.phase # "idle"
    BY <2>1, <2>2, PipelineAssumption
  <2>4. L1Shape'
    BY <2>3 DEF L1Shape
  <2> QED BY <1>2, <2>1, <2>4, TakeFlags
<1> QED BY <1>1, <1>2

LEMMA DrainL2Flags ==
  ASSUME NEW q \in Seq(Sessions), DrainL2(q), NEW r, NEW F, FlagsMatch(q, r, F)
  PROVE  L2Shape' /\ FlagsMatch(l2Queue', l2Run'.session, F \ {r})
<1>1. CASE q = <<>>
  BY <1>1, IdleFlags DEF DrainL2, L2Idle, L2Shape
<1>2. CASE q # <<>>
  <2>1. /\ l2Run'.session = Head(q) /\ l2Run'.phase = "runner"
        /\ l2Queue' = Tail(q)
    BY <1>2 DEF DrainL2
  <2>2. Head(q) \in Sessions
    BY <1>2
  <2>3. l2Run'.session # NoSession /\ l2Run'.phase # "idle"
    BY <2>1, <2>2, PipelineAssumption
  <2>4. L2Shape'
    BY <2>3 DEF L2Shape
  <2> QED BY <1>2, <2>1, <2>4, TakeFlags
<1> QED BY <1>1, <1>2

(* what add() does to the flags when the sessions P become flagged *)
LEMMA AddL1Flags ==
  ASSUME QueueInv,
         NEW p \in Seq(Sessions), NEW P \in SUBSET Sessions,
         \A i, j \in 1..Len(p) : p[i] = p[j] => i = j,
         \A s : Queued(p, s) <=> s \in P,
         L1Flags \cap P = {},
         AddL1(p)
  PROVE  L1Shape' /\ FlagsMatch(l1Queue', l1Run'.session, L1Flags \cup P)
<1>1. /\ l1Queue \in Seq(Sessions) /\ l1Queue \o p \in Seq(Sessions)
      /\ l1Run.session \in Sessions \cup {NoSession}
      /\ messageBuffers \in [Sessions -> Seq(Nat)]
      /\ L1Shape
  BY DEF QueueInv, TypeOK, RunShape, L1Shape
<1>2. FlagsMatch(l1Queue, l1Run.session, L1Flags)
  BY DEF QueueInv, L1FlagExact, L1Flags
<1> HIDE DEF L1Flags
<1>3. FlagsMatch(l1Queue \o p, l1Run.session, L1Flags \cup P)
  BY <1>1, <1>2, ConcatFlags
<1>4. CASE l1Run.phase = "idle"
  <2>1. DrainL1(l1Queue \o p, messageBuffers) /\ l1Run.session = NoSession
    BY <1>1, <1>4 DEF AddL1, L1Shape
  <2>2. /\ L1Shape'
        /\ FlagsMatch(l1Queue', l1Run'.session, (L1Flags \cup P) \ {NoSession})
    BY <1>1, <1>3, <2>1, DrainL1Flags
  <2>3. (L1Flags \cup P) \ {NoSession} = L1Flags \cup P
    BY PipelineAssumption DEF L1Flags
  <2> QED BY <2>2, <2>3
<1>5. CASE l1Run.phase # "idle"
  <2>1. l1Run' = l1Run /\ l1Queue' = l1Queue \o p
    BY <1>5 DEF AddL1
  <2>2. l1Run.session # NoSession
    BY <1>1, <1>5 DEF L1Shape
  <2>3. L1Shape'
    BY <1>5, <2>1, <2>2 DEF L1Shape
  <2> QED BY <1>3, <2>1, <2>3
<1> QED BY <1>4, <1>5

LEMMA AddL2Flags ==
  ASSUME QueueInv,
         NEW p \in Seq(Sessions), NEW P \in SUBSET Sessions,
         \A i, j \in 1..Len(p) : p[i] = p[j] => i = j,
         \A s : Queued(p, s) <=> s \in P,
         L2Flags \cap P = {},
         AddL2(p)
  PROVE  L2Shape' /\ FlagsMatch(l2Queue', l2Run'.session, L2Flags \cup P)
<1>1. /\ l2Queue \in Seq(Sessions) /\ l2Queue \o p \in Seq(Sessions)
      /\ l2Run.session \in Sessions \cup {NoSession}
      /\ L2Shape
  BY DEF QueueInv, TypeOK, RunShape, L2Shape
<1>2. FlagsMatch(l2Queue, l2Run.session, L2Flags)
  BY DEF QueueInv, L2FlagExact, L2Flags
<1> HIDE DEF L2Flags
<1>3. FlagsMatch(l2Queue \o p, l2Run.session, L2Flags \cup P)
  BY <1>1, <1>2, ConcatFlags
<1>4. CASE l2Run.phase = "idle"
  <2>1. DrainL2(l2Queue \o p) /\ l2Run.session = NoSession
    BY <1>1, <1>4 DEF AddL2, L2Shape
  <2>2. /\ L2Shape'
        /\ FlagsMatch(l2Queue', l2Run'.session, (L2Flags \cup P) \ {NoSession})
    BY <1>1, <1>3, <2>1, DrainL2Flags
  <2>3. (L2Flags \cup P) \ {NoSession} = L2Flags \cup P
    BY PipelineAssumption DEF L2Flags
  <2> QED BY <2>2, <2>3
<1>5. CASE l2Run.phase # "idle"
  <2>1. l2Run' = l2Run /\ l2Queue' = l2Queue \o p
    BY <1>5 DEF AddL2
  <2>2. l2Run.session # NoSession
    BY <1>1, <1>5 DEF L2Shape
  <2>3. L2Shape'
    BY <1>5, <2>1, <2>2 DEF L2Shape
  <2> QED BY <1>3, <2>1, <2>3
<1> QED BY <1>4, <1>5

(* a one-element queue *)
LEMMA Singleton ==
  ASSUME NEW s \in Sessions
  PROVE  /\ <<s>> \in Seq(Sessions)
         /\ \A i, j \in 1..Len(<<s>>) : <<s>>[i] = <<s>>[j] => i = j
         /\ \A x : Queued(<<s>>, x) <=> x \in {s}
BY DEF Queued

(* enqueueL1 keeps flags and queue together, whatever else it does to the  *)
(* timers first                                                            *)
LEMMA EnqueueL1Flags ==
  ASSUME QueueInv, NEW s \in Sessions,
         NEW timers \in [Sessions -> SessionTimerState],
         \A t \in Sessions : timers[t].l1Queued = sessionTimers[t].l1Queued,
         EnqueueL1(s, timers)
  PROVE  L1Shape' /\ L1FlagExact'
<1>1. CASE timers[s].l1Queued
  <2>1. UNCHANGED <<l1Queue, l1Run>> /\ sessionTimers' = timers
    BY <1>1 DEF EnqueueL1
  <2>2. L1Flags' = L1Flags
    BY <2>1 DEF L1Flags
  <2> QED BY <2>1, <2>2 DEF QueueInv, RunShape, L1Shape, L1FlagExact, L1Flags
<1>2. CASE ~timers[s].l1Queued
  <2>1. /\ sessionTimers' = [timers EXCEPT ![s].l1Idle = FALSE, ![s].l1Queued = TRUE]
        /\ AddL1(<<s>>)
    BY <1>2 DEF EnqueueL1
  <2>2. L1Flags' = L1Flags \cup {s}
    BY <2>1 DEF L1Flags, SessionTimerState
  <2>3. L1Flags \cap {s} = {}
    BY <1>2 DEF L1Flags
  <2>4. L1Shape' /\ FlagsMatch(l1Queue', l1Run'.session, L1Flags \cup {s})
    <3> DEFINE p == <<s>>
               P == {s}
    <3>1. /\ p \in Seq(Sessions) /\ P \in SUBSET Sessions
          /\ \A i, j \in 1..Len(p) : p[i] = p[j] => i = j
          /\ \A x : Queued(p, x) <=> x \in P
      BY Singleton
    <3>2. L1Flags \cap P = {} /\ AddL1(p)
      BY <2>1, <2>3
    <3> HIDE DEF p, P
    <3>3. L1Shape' /\ FlagsMatch(l1Queue', l1Run'.session, L1Flags \cup P)
      BY <3>1, <3>2, AddL1Flags
    <3> QED BY <3>3 DEF P
  <2> QED BY <2>2, <2>4 DEF L1FlagExact, L1Flags
<1> QED BY <1>1, <1>2

LEMMA EnqueueL2Flags ==
  ASSUME QueueInv, NEW s \in Sessions, EnqueueL2(s, sessionTimers)
  PROVE  L2Shape' /\ L2FlagExact'
<1>0. sessionTimers \in [Sessions -> SessionTimerState]
  BY DEF QueueInv, TypeOK
<1>1. CASE sessionTimers[s].l2Queued
  <2>1. /\ UNCHANGED <<l2Queue, l2Run>>
        /\ sessionTimers' = [sessionTimers EXCEPT ![s].l2Schedule = "none"]
    BY <1>1 DEF EnqueueL2
  <2>2. L2Flags' = L2Flags
    BY <1>0, <2>1 DEF L2Flags, SessionTimerState
  <2> QED BY <2>1, <2>2 DEF QueueInv, RunShape, L2Shape, L2FlagExact, L2Flags
<1>2. CASE ~sessionTimers[s].l2Queued
  <2>1. /\ sessionTimers' = [sessionTimers EXCEPT ![s].l2Schedule = "none",
                                                  ![s].l2Queued = TRUE]
        /\ AddL2(<<s>>)
    BY <1>2 DEF EnqueueL2
  <2>2. L2Flags' = L2Flags \cup {s}
    BY <1>0, <2>1 DEF L2Flags, SessionTimerState
  <2>3. L2Flags \cap {s} = {}
    BY <1>2 DEF L2Flags
  <2>4. L2Shape' /\ FlagsMatch(l2Queue', l2Run'.session, L2Flags \cup {s})
    <3> DEFINE p == <<s>>
               P == {s}
    <3>1. /\ p \in Seq(Sessions) /\ P \in SUBSET Sessions
          /\ \A i, j \in 1..Len(p) : p[i] = p[j] => i = j
          /\ \A x : Queued(p, x) <=> x \in P
      BY Singleton
    <3>2. L2Flags \cap P = {} /\ AddL2(p)
      BY <2>1, <2>3
    <3> HIDE DEF p, P
    <3>3. L2Shape' /\ FlagsMatch(l2Queue', l2Run'.session, L2Flags \cup P)
      BY <3>1, <3>2, AddL2Flags
    <3> QED BY <3>3 DEF P
  <2> QED BY <2>2, <2>4 DEF L2FlagExact, L2Flags
<1> QED BY <1>1, <1>2

-----------------------------------------------------------------------------
(* Every step preserves the invariant of the queues *)

L1Good == L1Shape /\ L1FlagExact
L2Good == L2Shape /\ L2FlagExact

(* the L1 side of a step that leaves the L1 queue and its flags alone *)
LEMMA L1Same ==
  ASSUME QueueInv, UNCHANGED <<l1Queue, l1Run>>,
         \A s \in Sessions : sessionTimers'[s].l1Queued = sessionTimers[s].l1Queued
  PROVE  L1Good'
<1>1. L1Flags' = L1Flags
  BY DEF L1Flags
<1>2. L1FlagExact'
  BY <1>1 DEF QueueInv, L1FlagExact, L1Flags
<1>3. L1Shape'
  BY DEF QueueInv, RunShape, L1Shape
<1> QED BY <1>2, <1>3 DEF L1Good

LEMMA L2Same ==
  ASSUME QueueInv, UNCHANGED <<l2Queue, l2Run>>,
         \A s \in Sessions : sessionTimers'[s].l2Queued = sessionTimers[s].l2Queued
  PROVE  L2Good'
<1>1. L2Flags' = L2Flags
  BY DEF L2Flags
<1>2. L2FlagExact'
  BY <1>1 DEF QueueInv, L2FlagExact, L2Flags
<1>3. L2Shape'
  BY DEF QueueInv, RunShape, L2Shape
<1> QED BY <1>2, <1>3 DEF L2Good

LEMMA NotifyFlags ==
  ASSUME QueueInv, NEW s \in Sessions, NEW m \in Batches, Notify(s, m)
  PROVE  L1Good' /\ L2Good'
<1>1. /\ sessionTimers \in [Sessions -> SessionTimerState]
      /\ sessionTimers' = [sessionTimers EXCEPT ![s].l1RetryCount = 0]
      /\ UNCHANGED <<l1Queue, l1Run, l2Queue, l2Run>>
  BY DEF QueueInv, TypeOK, Notify, l1Vars, l2Vars
<1>2. \A t \in Sessions : /\ sessionTimers'[t].l1Queued = sessionTimers[t].l1Queued
                          /\ sessionTimers'[t].l2Queued = sessionTimers[t].l2Queued
  BY <1>1 DEF SessionTimerState
<1> QED BY <1>1, <1>2, L1Same, L2Same

(* an evicted session had no task, and its new timers have none either *)
LEMMA NotifyBelowThresholdFlags ==
  ASSUME QueueInv, NEW s \in Sessions, NotifyBelowThreshold(s)
  PROVE  L1Good' /\ L2Good'
<1> DEFINE evicted == IF notifyCounter' = 0
                      THEN {t \in Sessions : Evictable(t)} ELSE {}
<1>1. /\ sessionTimers \in [Sessions -> SessionTimerState]
      /\ sessionTimers' = [t \in Sessions |->
                             IF t \in evicted THEN NewTimers
                             ELSE IF t = s
                             THEN [sessionTimers[t] EXCEPT !.l1Idle = TRUE]
                             ELSE sessionTimers[t]]
      /\ UNCHANGED <<l1Queue, l1Run, l2Queue, l2Run>>
  BY DEF QueueInv, TypeOK, NotifyBelowThreshold, l1Vars, l2Vars
<1>2. \A t \in evicted : ~sessionTimers[t].l1Queued /\ ~sessionTimers[t].l2Queued
  BY DEF Evictable
<1> HIDE DEF evicted
<1>3. ASSUME NEW t \in Sessions
      PROVE  /\ sessionTimers'[t].l1Queued = sessionTimers[t].l1Queued
             /\ sessionTimers'[t].l2Queued = sessionTimers[t].l2Queued
  <2>1. CASE t \in evicted
    <3>1. /\ sessionTimers'[t].l1Queued = FALSE
          /\ sessionTimers'[t].l2Queued = FALSE
      BY <1>1, <2>1 DEF NewTimers
    <3>2. /\ sessionTimers[t].l1Queued \in BOOLEAN
          /\ sessionTimers[t].l2Queued \in BOOLEAN
      BY <1>1 DEF SessionTimerState
    <3> QED BY <1>2, <2>1, <3>1, <3>2
  <2>2. CASE t \notin evicted
    BY <1>1, <2>2 DEF SessionTimerState
  <2> QED BY <2>1, <2>2
<1> QED BY <1>1, <1>3, L1Same, L2Same

(* enqueueL1 with some timers that differ from the current ones in neither *)
(* flag                                                                    *)
LEMMA EnqueueL1Good ==
  ASSUME QueueInv, NEW s \in Sessions,
         NEW timers \in [Sessions -> SessionTimerState],
         \A t \in Sessions : /\ timers[t].l1Queued = sessionTimers[t].l1Queued
                             /\ timers[t].l2Queued = sessionTimers[t].l2Queued,
         EnqueueL1(s, timers), UNCHANGED <<l2Queue, l2Run>>
  PROVE  L1Good' /\ L2Good'
<1>1. L1Good'
  BY EnqueueL1Flags DEF L1Good
<1>2. \A t \in Sessions : sessionTimers'[t].l2Queued = timers[t].l2Queued
  BY DEF EnqueueL1, SessionTimerState
<1> QED BY <1>1, <1>2, L2Same

LEMMA NotifyAtThresholdFlags ==
  ASSUME QueueInv, NEW s \in Sessions, NotifyAtThreshold(s)
  PROVE  L1Good' /\ L2Good'
<1>1. /\ sessionTimers \in [Sessions -> SessionTimerState]
      /\ EnqueueL1(s, sessionTimers)
      /\ UNCHANGED <<l2Queue, l2Run>>
  BY DEF QueueInv, TypeOK, NotifyAtThreshold, l2Vars
<1> QED BY <1>1, EnqueueL1Good

(* clearing an idle timer touches no flag *)
LEMMA IdleClearedFlags ==
  ASSUME QueueInv, NEW s \in Sessions, NEW timers,
         timers = [sessionTimers EXCEPT ![s].l1Idle = FALSE]
  PROVE  /\ timers \in [Sessions -> SessionTimerState]
         /\ \A t \in Sessions : /\ timers[t].l1Queued = sessionTimers[t].l1Queued
                                /\ timers[t].l2Queued = sessionTimers[t].l2Queued
<1>1. sessionTimers \in [Sessions -> SessionTimerState]
  BY DEF QueueInv, TypeOK
<1> QED BY <1>1 DEF SessionTimerState

LEMMA L1IdleFiresFlags ==
  ASSUME QueueInv, NEW s \in Sessions, L1IdleFires(s)
  PROVE  L1Good' /\ L2Good'
<1> DEFINE fired == [sessionTimers EXCEPT ![s].l1Idle = FALSE]
<1>1. /\ fired \in [Sessions -> SessionTimerState]
      /\ \A t \in Sessions : /\ fired[t].l1Queued = sessionTimers[t].l1Queued
                             /\ fired[t].l2Queued = sessionTimers[t].l2Queued
  BY IdleClearedFlags
<1>2. UNCHANGED <<l2Queue, l2Run>>
  BY DEF L1IdleFires, l2Vars
<1>3. CASE destroyed
  <2>1. sessionTimers' = fired /\ UNCHANGED <<l1Queue, l1Run>>
    BY <1>3 DEF L1IdleFires, l1Vars
  <2> QED BY <1>1, <1>2, <2>1, L1Same, L2Same
<1>4. CASE ~destroyed
  <2>1. EnqueueL1(s, fired)
    BY <1>4 DEF L1IdleFires
  <2> HIDE DEF fired
  <2> QED BY <1>1, <1>2, <2>1, EnqueueL1Good
<1> QED BY <1>3, <1>4

LEMMA FlushSessionFlags ==
  ASSUME QueueInv, NEW s \in Sessions, FlushSession(s)
  PROVE  L1Good' /\ L2Good'
<1> DEFINE cancelled == [sessionTimers EXCEPT ![s].l1Idle = FALSE]
<1>1. /\ cancelled \in [Sessions -> SessionTimerState]
      /\ \A t \in Sessions : /\ cancelled[t].l1Queued = sessionTimers[t].l1Queued
                             /\ cancelled[t].l2Queued = sessionTimers[t].l2Queued
  BY IdleClearedFlags
<1>2. UNCHANGED <<l2Queue, l2Run>>
  BY DEF FlushSession, l2Vars
<1>3. CASE HasBuffered(s)
  <2>1. EnqueueL1(s, cancelled)
    BY <1>3 DEF FlushSession
  <2> HIDE DEF cancelled
  <2> QED BY <1>1, <1>2, <2>1, EnqueueL1Good
<1>4. CASE ~HasBuffered(s)
  <2>1. sessionTimers' = cancelled /\ UNCHANGED <<l1Queue, l1Run>>
    BY <1>4 DEF FlushSession, l1Vars
  <2> QED BY <1>1, <1>2, <2>1, L1Same, L2Same
<1> QED BY <1>3, <1>4

LEMMA L1RunnerReturnsFlags ==
  ASSUME QueueInv, NEW result \in L1Results, L1RunnerReturns(result)
  PROVE  L1Good' /\ L2Good'
<1> DEFINE s == l1Run.session
<1>1. /\ sessionTimers \in [Sessions -> SessionTimerState]
      /\ sessionTimers' = [sessionTimers EXCEPT ![s].l1RetryCount = 0]
      /\ UNCHANGED <<l1Queue, l2Queue, l2Run>>
  BY DEF QueueInv, TypeOK, L1RunnerReturns, l2Vars
<1>2. /\ l1Run \in L1RunType /\ l1Run.phase = "runner"
      /\ l1Run' = [l1Run EXCEPT !.phase = "persist", !.batch = <<>>, !.result = result]
  BY DEF QueueInv, TypeOK, L1RunType, L1RunnerReturns
<1>3. l1Run'.session = l1Run.session /\ l1Run'.phase = "persist"
  BY <1>2 DEF L1RunType
<1>4. \A t \in Sessions : /\ sessionTimers'[t].l1Queued = sessionTimers[t].l1Queued
                          /\ sessionTimers'[t].l2Queued = sessionTimers[t].l2Queued
  BY <1>1 DEF SessionTimerState
<1>5. L2Good'
  BY <1>1, <1>4, L2Same
<1>6. L1Flags' = L1Flags
  BY <1>4 DEF L1Flags
<1>7. L1FlagExact'
  BY <1>1, <1>3, <1>6 DEF QueueInv, L1FlagExact, L1Flags
<1>8. L1Shape'
  BY <1>2, <1>3 DEF QueueInv, RunShape, L1Shape
<1> QED BY <1>5, <1>7, <1>8 DEF L1Good

(* the end of an L1 task: its flag is cleared and the queue drains *)
LEMMA L1EndsFlags ==
  ASSUME QueueInv, NEW b \in [Sessions -> Seq(Nat)], DrainL1(l1Queue, b),
         UNCHANGED <<l2Queue, l2Run>>,
         \A t \in Sessions :
           /\ sessionTimers'[t].l1Queued =
                (sessionTimers[t].l1Queued /\ t # l1Run.session)
           /\ sessionTimers'[t].l2Queued = sessionTimers[t].l2Queued
  PROVE  L1Good' /\ L2Good'
<1> DEFINE r == l1Run.session
<1>1. l1Queue \in Seq(Sessions) /\ FlagsMatch(l1Queue, r, L1Flags)
  BY DEF QueueInv, TypeOK, L1FlagExact, L1Flags
<1>2. L1Flags' = L1Flags \ {r}
  BY DEF L1Flags
<1> HIDE DEF r
<1>3. L1Shape' /\ FlagsMatch(l1Queue', l1Run'.session, L1Flags \ {r})
  BY <1>1, DrainL1Flags
<1>4. L1Good'
  BY <1>2, <1>3 DEF L1Good, L1FlagExact, L1Flags
<1> QED BY <1>4, L2Same

(* the end of an L2 task *)
LEMMA L2EndsFlags ==
  ASSUME QueueInv, DrainL2(l2Queue), UNCHANGED <<l1Queue, l1Run>>,
         \A t \in Sessions :
           /\ sessionTimers'[t].l2Queued =
                (sessionTimers[t].l2Queued /\ t # l2Run.session)
           /\ sessionTimers'[t].l1Queued = sessionTimers[t].l1Queued
  PROVE  L1Good' /\ L2Good'
<1> DEFINE r == l2Run.session
<1>1. l2Queue \in Seq(Sessions) /\ FlagsMatch(l2Queue, r, L2Flags)
  BY DEF QueueInv, TypeOK, L2FlagExact, L2Flags
<1>2. L2Flags' = L2Flags \ {r}
  BY DEF L2Flags
<1> HIDE DEF r
<1>3. L2Shape' /\ FlagsMatch(l2Queue', l2Run'.session, L2Flags \ {r})
  BY <1>1, DrainL2Flags
<1>4. L2Good'
  BY <1>2, <1>3 DEF L2Good, L2FlagExact, L2Flags
<1> QED BY <1>4, L1Same

LEMMA L1RunnerThrowsFlags ==
  ASSUME QueueInv, L1RunnerThrows
  PROVE  L1Good' /\ L2Good'
<1> DEFINE s == l1Run.session
           b == [messageBuffers EXCEPT ![s] = RestoreBatch(l1Run.batch, @)]
<1>1. s \in Sessions
  <2>1. /\ l1Run.phase = "runner" /\ (l1Run.phase = "idle" <=> s = NoSession)
        /\ s \in Sessions \cup {NoSession}
    BY DEF QueueInv, TypeOK, RunShape, L1RunnerThrows
  <2> QED BY <2>1
<1>2. b \in [Sessions -> Seq(Nat)]
  <2>1. messageBuffers \in [Sessions -> Seq(Nat)] /\ l1Run.batch \in Seq(Nat)
    BY DEF QueueInv, TypeOK
  <2>2. RestoreBatch(l1Run.batch, messageBuffers[s]) \in Seq(Nat)
    BY <1>1, <2>1 DEF RestoreBatch
  <2> QED BY <2>1, <2>2
<1>3. DrainL1(l1Queue, b) /\ UNCHANGED <<l2Queue, l2Run>>
  BY DEF L1RunnerThrows, l2Vars
<1>4. ASSUME NEW t \in Sessions
      PROVE  /\ sessionTimers'[t].l1Queued = (sessionTimers[t].l1Queued /\ t # s)
             /\ sessionTimers'[t].l2Queued = sessionTimers[t].l2Queued
  <2> DEFINE retries == IF sessionTimers[s].l1RetryCount > MaxRetries
                        THEN MaxRetries + 1 ELSE sessionTimers[s].l1RetryCount + 1
             idle == sessionTimers[s].l1Idle \/ retries <= MaxRetries
  <2>1. /\ sessionTimers \in [Sessions -> SessionTimerState]
        /\ sessionTimers' = [sessionTimers EXCEPT ![s].l1RetryCount = retries,
                                                  ![s].l1Idle = idle,
                                                  ![s].l1Queued = FALSE]
    BY DEF QueueInv, TypeOK, L1RunnerThrows
  <2> HIDE DEF retries, idle
  <2> QED BY <1>1, <2>1 DEF SessionTimerState
<1> HIDE DEF b
<1> QED BY <1>2, <1>3, <1>4, L1EndsFlags

LEMMA L1PersistedFlags ==
  ASSUME QueueInv, L1Persisted
  PROVE  L1Good' /\ L2Good'
<1> DEFINE s == l1Run.session
<1>1. s \in Sessions
  <2>1. /\ l1Run.phase = "persist" /\ (l1Run.phase = "idle" <=> s = NoSession)
        /\ s \in Sessions \cup {NoSession}
    BY DEF QueueInv, TypeOK, RunShape, L1Persisted
  <2> QED BY <2>1
<1>2. /\ DrainL1(l1Queue, messageBuffers) /\ UNCHANGED <<l2Queue, l2Run>>
      /\ messageBuffers \in [Sessions -> Seq(Nat)]
  BY DEF QueueInv, TypeOK, L1Persisted, l2Vars
<1>3. ASSUME NEW t \in Sessions
      PROVE  /\ sessionTimers'[t].l1Queued = (sessionTimers[t].l1Queued /\ t # s)
             /\ sessionTimers'[t].l2Queued = sessionTimers[t].l2Queued
  <2> DEFINE idle == sessionTimers[s].l1Idle \/ l1Run.result = "hasMore"
  <2>1. sessionTimers \in [Sessions -> SessionTimerState]
    BY DEF QueueInv, TypeOK
  <2>2. PICK schedule \in AdvanceL2Timer(sessionTimers[s].l2Schedule) :
          sessionTimers' = [sessionTimers EXCEPT ![s].l2Schedule = schedule,
                                                 ![s].l1Idle = idle,
                                                 ![s].l1Queued = FALSE]
    BY DEF L1Persisted
  <2> HIDE DEF idle
  <2> QED BY <1>1, <2>1, <2>2 DEF SessionTimerState
<1> QED BY <1>2, <1>3, L1EndsFlags

LEMMA L2TimerFiresFlags ==
  ASSUME QueueInv, NEW s \in Sessions, L2TimerFires(s)
  PROVE  L1Good' /\ L2Good'
<1>1. /\ sessionTimers \in [Sessions -> SessionTimerState]
      /\ UNCHANGED <<l1Queue, l1Run>>
  BY DEF QueueInv, TypeOK, L2TimerFires, l1Vars
<1>2. CASE destroyed \/ Stops(s)
  <2>1. /\ sessionTimers' = [sessionTimers EXCEPT ![s].l2Schedule = "none"]
        /\ UNCHANGED <<l2Queue, l2Run>>
    BY <1>2 DEF L2TimerFires, l2Vars
  <2>2. \A t \in Sessions : /\ sessionTimers'[t].l1Queued = sessionTimers[t].l1Queued
                            /\ sessionTimers'[t].l2Queued = sessionTimers[t].l2Queued
    BY <1>1, <2>1 DEF SessionTimerState
  <2> QED BY <1>1, <2>1, <2>2, L1Same, L2Same
<1>3. CASE ~(destroyed \/ Stops(s))
  <2>1. EnqueueL2(s, sessionTimers)
    BY <1>3 DEF L2TimerFires
  <2>2. L2Good'
    BY <2>1, EnqueueL2Flags DEF L2Good
  <2>3. \A t \in Sessions : sessionTimers'[t].l1Queued = sessionTimers[t].l1Queued
    BY <1>1, <2>1 DEF EnqueueL2, SessionTimerState
  <2> QED BY <1>1, <2>2, <2>3, L1Same
<1> QED BY <1>2, <1>3

(* a running L2 task belongs to a session *)
LEMMA L2Owner ==
  ASSUME QueueInv, l2Run.phase # "idle"
  PROVE  l2Run.session \in Sessions
<1>1. /\ l2Run.phase = "idle" <=> l2Run.session = NoSession
      /\ l2Run.session \in Sessions \cup {NoSession}
  BY DEF QueueInv, TypeOK, RunShape
<1> QED BY <1>1

(* L2RunnerThrows and L2Persisted end a task in the same way *)
LEMMA L2EndsArmed ==
  ASSUME QueueInv, L2RunnerThrows \/ L2Persisted
  PROVE  L1Good' /\ L2Good'
<1> DEFINE s == l2Run.session
           schedule == ArmL2MaxInterval(sessionTimers[s].l2Schedule)
<1>1. s \in Sessions
  BY L2Owner DEF L2RunnerThrows, L2Persisted
<1>2. DrainL2(l2Queue) /\ UNCHANGED <<l1Queue, l1Run>>
  BY DEF L2RunnerThrows, L2Persisted, l1Vars
<1>3. /\ sessionTimers \in [Sessions -> SessionTimerState]
      /\ sessionTimers' = [sessionTimers EXCEPT ![s].l2Schedule = schedule,
                                                ![s].l2Queued = FALSE]
  BY DEF QueueInv, TypeOK, L2RunnerThrows, L2Persisted
<1> HIDE DEF schedule
<1>4. \A t \in Sessions :
        /\ sessionTimers'[t].l2Queued = (sessionTimers[t].l2Queued /\ t # s)
        /\ sessionTimers'[t].l1Queued = sessionTimers[t].l1Queued
  BY <1>1, <1>3 DEF SessionTimerState
<1> QED BY <1>2, <1>4, L2EndsFlags

LEMMA L2SkipPersistedFlags ==
  ASSUME QueueInv, L2SkipPersisted
  PROVE  L1Good' /\ L2Good'
<1> DEFINE s == l2Run.session
<1>1. s \in Sessions
  BY L2Owner DEF L2SkipPersisted
<1>2. DrainL2(l2Queue) /\ UNCHANGED <<l1Queue, l1Run>>
  BY DEF L2SkipPersisted, l1Vars
<1>3. /\ sessionTimers \in [Sessions -> SessionTimerState]
      /\ sessionTimers' = [sessionTimers EXCEPT ![s].l2Queued = FALSE]
  BY DEF QueueInv, TypeOK, L2SkipPersisted
<1>4. \A t \in Sessions :
        /\ sessionTimers'[t].l2Queued = (sessionTimers[t].l2Queued /\ t # s)
        /\ sessionTimers'[t].l1Queued = sessionTimers[t].l1Queued
  BY <1>1, <1>3 DEF SessionTimerState
<1> QED BY <1>2, <1>4, L2EndsFlags

(* the running L2 task only moves on to its persist *)
LEMMA L2Moves ==
  ASSUME QueueInv, l2Run.phase = "runner",
         NEW phase \in {"persist", "persist-skipped"},
         l2Run' = [l2Run EXCEPT !.phase = phase],
         UNCHANGED <<l1Queue, l1Run, l2Queue>>,
         \A t \in Sessions : /\ sessionTimers'[t].l1Queued = sessionTimers[t].l1Queued
                             /\ sessionTimers'[t].l2Queued = sessionTimers[t].l2Queued
  PROVE  L1Good' /\ L2Good'
<1>1. l2Run \in L2RunType
  BY DEF QueueInv, TypeOK, L2RunType
<1>2. l2Run'.session = l2Run.session /\ l2Run'.phase # "idle"
  BY <1>1 DEF L2RunType
<1>3. L2Flags' = L2Flags
  BY DEF L2Flags
<1>4. L2FlagExact'
  BY <1>2, <1>3 DEF QueueInv, L2FlagExact, L2Flags
<1>5. L2Shape'
  BY <1>2 DEF QueueInv, RunShape, L2Shape
<1> QED BY <1>4, <1>5, L1Same DEF L2Good

LEMMA L2RunnerReturnsFlags ==
  ASSUME QueueInv, L2RunnerReturns
  PROVE  L1Good' /\ L2Good'
<1>1. /\ l2Run.phase = "runner"
      /\ l2Run' = [l2Run EXCEPT !.phase = "persist"]
      /\ UNCHANGED <<l1Queue, l1Run, l2Queue, sessionTimers>>
  BY DEF L2RunnerReturns, l1Vars
<1> QED BY <1>1, L2Moves

LEMMA L2RunnerSkipsFlags ==
  ASSUME QueueInv, L2RunnerSkips
  PROVE  L1Good' /\ L2Good'
<1> DEFINE s == l2Run.session
           schedule == ArmL2MaxInterval(sessionTimers[s].l2Schedule)
<1>1. /\ l2Run.phase = "runner"
      /\ l2Run' = [l2Run EXCEPT !.phase = "persist-skipped"]
      /\ UNCHANGED <<l1Queue, l1Run, l2Queue>>
  BY DEF L2RunnerSkips, l1Vars
<1>2. /\ sessionTimers \in [Sessions -> SessionTimerState]
      /\ sessionTimers' = [sessionTimers EXCEPT ![s].l2Schedule = schedule]
  BY DEF QueueInv, TypeOK, L2RunnerSkips
<1> HIDE DEF s, schedule
<1>3. \A t \in Sessions : /\ sessionTimers'[t].l1Queued = sessionTimers[t].l1Queued
                          /\ sessionTimers'[t].l2Queued = sessionTimers[t].l2Queued
  BY <1>2 DEF SessionTimerState
<1> QED BY <1>1, <1>3, L2Moves

(* destroy() queues the flushed sessions at once, in some order *)
LEMMA DestroyFlags ==
  ASSUME QueueInv, Destroy
  PROVE  L1Good' /\ L2Good'
<1> DEFINE queued == {s \in Sessions : /\ sessionTimers[s].l1Idle
                                       /\ HasBuffered(s)
                                       /\ ~sessionTimers[s].l1Queued}
           flag(s) == sessionTimers[s].l1Queued \/ s \in queued
<1>1. sessionTimers' = [s \in Sessions |->
        [sessionTimers[s] EXCEPT !.l1Idle = FALSE, !.l1Queued = flag(s)]]
  BY Zenon DEF Destroy
<1>2. sessionTimers \in [Sessions -> SessionTimerState] /\ UNCHANGED <<l2Queue, l2Run>>
  BY DEF QueueInv, TypeOK, Destroy, l2Vars
<1>3. \A s \in Sessions : flag(s) <=> s \in L1Flags \/ s \in queued
  BY DEF L1Flags
<1>4. queued \in SUBSET Sessions /\ L1Flags \cap queued = {}
  BY DEF L1Flags
<1>5. PICK p \in Orders(queued) : AddL1(p)
  BY DEF Destroy
<1> HIDE DEF queued, flag
<1>6. \A s \in Sessions : /\ sessionTimers'[s].l1Queued = flag(s)
                          /\ sessionTimers'[s].l2Queued = sessionTimers[s].l2Queued
  BY <1>1, <1>2 DEF SessionTimerState
<1>7. L2Good'
  BY <1>2, <1>6, L2Same
<1>8. L1Flags' = L1Flags \cup queued
  BY <1>3, <1>4, <1>6 DEF L1Flags
<1>9. L1Shape' /\ FlagsMatch(l1Queue', l1Run'.session, L1Flags \cup queued)
  BY <1>4, <1>5, OrdersType, AddL1Flags
<1> QED BY <1>7, <1>8, <1>9 DEF L1Good, L1FlagExact, L1Flags

LEMMA FlushL2TimersFlags ==
  ASSUME QueueInv, FlushL2Timers
  PROVE  L1Good' /\ L2Good'
<1> DEFINE queued == {s \in Sessions : /\ sessionTimers[s].l2Schedule # "none"
                                       /\ ~Stops(s)
                                       /\ ~sessionTimers[s].l2Queued}
           flag(s) == sessionTimers[s].l2Queued \/ s \in queued
<1>1. sessionTimers' = [s \in Sessions |->
        [sessionTimers[s] EXCEPT !.l2Schedule = "none", !.l2Queued = flag(s)]]
  BY Zenon DEF FlushL2Timers
<1>2. sessionTimers \in [Sessions -> SessionTimerState] /\ UNCHANGED <<l1Queue, l1Run>>
  BY DEF QueueInv, TypeOK, FlushL2Timers, l1Vars
<1>3. \A s \in Sessions : flag(s) <=> s \in L2Flags \/ s \in queued
  BY DEF L2Flags
<1>4. queued \in SUBSET Sessions /\ L2Flags \cap queued = {}
  BY DEF L2Flags
<1>5. PICK p \in Orders(queued) : AddL2(p)
  BY DEF FlushL2Timers
<1> HIDE DEF queued, flag
<1>6. \A s \in Sessions : /\ sessionTimers'[s].l2Queued = flag(s)
                          /\ sessionTimers'[s].l1Queued = sessionTimers[s].l1Queued
  BY <1>1, <1>2 DEF SessionTimerState
<1>7. L1Good'
  BY <1>2, <1>6, L1Same
<1>8. L2Flags' = L2Flags \cup queued
  BY <1>3, <1>4, <1>6 DEF L2Flags
<1>9. L2Shape' /\ FlagsMatch(l2Queue', l2Run'.session, L2Flags \cup queued)
  BY <1>4, <1>5, OrdersType, AddL2Flags
<1> QED BY <1>7, <1>8, <1>9 DEF L2Good, L2FlagExact, L2Flags

LEMMA RestFlags ==
  ASSUME QueueInv,
         \/ L3Returns \/ FlushReturns \/ DestroyTimesOut
         \/ \E s \in Sessions : GrowsCold(s)
         \/ UNCHANGED vars
  PROVE  L1Good' /\ L2Good'
<1>1. UNCHANGED <<l1Queue, l1Run, l2Queue, l2Run, sessionTimers>>
  BY DEF L3Returns, FlushReturns, DestroyTimesOut, GrowsCold, vars,
         pipelineVars, l1Vars, l2Vars
<1> QED BY <1>1, L1Same, L2Same

-----------------------------------------------------------------------------
(* The theorems *)

LEMMA InitQueueInv == Init => QueueInv
<1> SUFFICES ASSUME Init PROVE QueueInv
  OBVIOUS
<1>1. TypeOK /\ RunShape
  BY InitTypeOK
<1>2. /\ l1Queue = <<>> /\ l1Run = L1Idle
      /\ l2Queue = <<>> /\ l2Run = L2Idle
      /\ \A s \in Sessions : ~sessionTimers[s].l1Queued /\ ~sessionTimers[s].l2Queued
  BY DEF Init, NewTimers
<1>3. L1FlagExact
  BY <1>2, PipelineAssumption DEF L1FlagExact, FlagsMatch, Queued, L1Idle
<1>4. L2FlagExact
  BY <1>2, PipelineAssumption DEF L2FlagExact, FlagsMatch, Queued, L2Idle
<1> QED BY <1>1, <1>3, <1>4 DEF QueueInv

LEMMA NextTypeOK == TypeOK /\ RunShape /\ [Next]_vars => TypeOK'
<1> SUFFICES ASSUME TypeOK, RunShape, [Next]_vars PROVE TypeOK'
  OBVIOUS
<1>1. CASE UNCHANGED vars
  BY <1>1 DEF TypeOK, vars, pipelineVars, l1Vars, l2Vars, l3Vars, lifeVars, historyVars
<1>2. ASSUME NEW s \in Sessions, NEW m \in Batches, Notify(s, m) PROVE TypeOK'
  BY <1>2, NotifyType
<1>3. ASSUME NEW s \in Sessions,
             NotifyBelowThreshold(s) \/ NotifyAtThreshold(s) \/ L1IdleFires(s)
      PROVE  TypeOK'
  BY <1>3, NotifyBelowThresholdType, NotifyAtThresholdType, L1IdleFiresType
<1>4. ASSUME NEW s \in Sessions, L2TimerFires(s) \/ FlushSession(s) PROVE TypeOK'
  BY <1>4, L2TimerFiresType, FlushSessionType
<1>5. ASSUME NEW result \in L1Results, L1RunnerReturns(result) PROVE TypeOK'
  BY <1>5, L1RunnerReturnsType
<1>6. CASE L1RunnerThrows \/ L1Persisted
  BY <1>6, L1RunnerThrowsType, L1PersistedType
<1>7. CASE L2RunnerReturns \/ L2RunnerSkips \/ L2RunnerThrows
  BY <1>7, L2RunnerReturnsType, L2RunnerSkipsType, L2RunnerThrowsType
<1>8. CASE L2SkipPersisted \/ L2Persisted
  BY <1>8, L2SkipPersistedType, L2PersistedType
<1>9. CASE Destroy \/ FlushL2Timers
  BY <1>9, DestroyType, FlushL2TimersType
<1>10. CASE \/ L3Returns \/ FlushReturns \/ DestroyTimesOut
            \/ \E s \in Sessions : GrowsCold(s)
  BY <1>10, RestType
<1> QED BY <1>1, <1>2, <1>3, <1>4, <1>5, <1>6, <1>7, <1>8, <1>9, <1>10 DEF Next

LEMMA NextFlags == QueueInv /\ [Next]_vars => L1Good' /\ L2Good'
<1> SUFFICES ASSUME QueueInv, [Next]_vars PROVE L1Good' /\ L2Good'
  OBVIOUS
<1>1. ASSUME NEW s \in Sessions, NEW m \in Batches, Notify(s, m)
      PROVE  L1Good' /\ L2Good'
  BY <1>1, NotifyFlags
<1>2. ASSUME NEW s \in Sessions,
             NotifyBelowThreshold(s) \/ NotifyAtThreshold(s) \/ L1IdleFires(s)
      PROVE  L1Good' /\ L2Good'
  BY <1>2, NotifyBelowThresholdFlags, NotifyAtThresholdFlags, L1IdleFiresFlags
<1>3. ASSUME NEW s \in Sessions, L2TimerFires(s) \/ FlushSession(s)
      PROVE  L1Good' /\ L2Good'
  BY <1>3, L2TimerFiresFlags, FlushSessionFlags
<1>4. ASSUME NEW result \in L1Results, L1RunnerReturns(result)
      PROVE  L1Good' /\ L2Good'
  BY <1>4, L1RunnerReturnsFlags
<1>5. CASE L1RunnerThrows \/ L1Persisted
  BY <1>5, L1RunnerThrowsFlags, L1PersistedFlags
<1>6. CASE L2RunnerReturns \/ L2RunnerSkips \/ L2RunnerThrows
  BY <1>6, L2RunnerReturnsFlags, L2RunnerSkipsFlags, L2EndsArmed
<1>7. CASE L2SkipPersisted \/ L2Persisted
  BY <1>7, L2SkipPersistedFlags, L2EndsArmed
<1>8. CASE Destroy \/ FlushL2Timers
  BY <1>8, DestroyFlags, FlushL2TimersFlags
<1>9. CASE \/ L3Returns \/ FlushReturns \/ DestroyTimesOut
           \/ \E s \in Sessions : GrowsCold(s)
           \/ UNCHANGED vars
  BY <1>9, RestFlags
<1> QED BY <1>1, <1>2, <1>3, <1>4, <1>5, <1>6, <1>7, <1>8, <1>9 DEF Next

(* The inductive invariant: the types, the shape of both serial queues and *)
(* the agreement of each queue with its flags.                             *)
THEOREM QueueInvariant == Spec => []QueueInv
<1>1. Init => QueueInv
  BY InitQueueInv
<1>2. QueueInv /\ [Next]_vars => QueueInv'
  <2> SUFFICES ASSUME QueueInv, [Next]_vars PROVE QueueInv'
    OBVIOUS
  <2>1. TypeOK'
    BY NextTypeOK DEF QueueInv
  <2>2. L1Good' /\ L2Good'
    BY NextFlags
  <2> QED BY <2>1, <2>2 DEF QueueInv, RunShape, L1Good, L2Good, L1Shape, L2Shape
<1> QED BY <1>1, <1>2, PTL DEF Spec

(* Every variable of the pipeline manager keeps its type. *)
THEOREM TypeCorrect == Spec => []TypeOK
<1>1. QueueInv => TypeOK
  BY DEF QueueInv
<1> QED BY <1>1, QueueInvariant, PTL

(* l1Queued and l2Queued tell exactly which sessions have an L1 or an L2   *)
(* task queued or running: the early returns of enqueueL1 and enqueueL2    *)
(* can neither double-queue a session nor be stuck on a flag that no task  *)
(* will clear, whatever timers, conflicts, retries and flushes do.         *)
THEOREM FlagsAlwaysExact == Spec => []FlagsExact
<1>1. QueueInv => FlagsExact
  BY DEF QueueInv, FlagsExact
<1> QED BY <1>1, QueueInvariant, PTL

-----------------------------------------------------------------------------
(* the running tasks belong to sessions that are flagged *)
LEMMA RunningIsFlagged ==
  ASSUME QueueInv
  PROVE  /\ l1Run.phase # "idle" => l1Run.session \in Sessions /\ sessionTimers[l1Run.session].l1Queued
         /\ l2Run.phase # "idle" => l2Run.session \in Sessions /\ sessionTimers[l2Run.session].l2Queued
         /\ \A s \in Sessions : l1Run.session = s => l1Run.phase # "idle"
<1>1. /\ l1Run.phase # "idle" => l1Run.session \in Sessions
      /\ l2Run.phase # "idle" => l2Run.session \in Sessions
  BY DEF QueueInv, TypeOK, RunShape
<1>2. \A s \in Sessions : l1Run.session = s => l1Run.phase # "idle"
  BY PipelineAssumption DEF QueueInv, RunShape
<1> QED BY <1>1, <1>2 DEF QueueInv, L1FlagExact, L2FlagExact, FlagsMatch

(* drain() leaves the buffers as they were, but for the one it takes *)
LEMMA DrainBuffers ==
  ASSUME NEW q \in Seq(Sessions), NEW b \in [Sessions -> Seq(Nat)], DrainL1(q, b)
  PROVE  \A t \in Sessions : messageBuffers'[t] \in {b[t], <<>>}
<1>1. CASE q = <<>>
  BY <1>1 DEF DrainL1
<1>2. CASE q # <<>>
  BY <1>2 DEF DrainL1
<1> QED BY <1>1, <1>2

(* what enqueueL1 leaves alone *)
LEMMA EnqueueL1Others ==
  ASSUME TypeOK, NEW s \in Sessions, NEW timers \in [Sessions -> SessionTimerState], EnqueueL1(s, timers)
  PROVE  /\ \A t \in Sessions : t # s => sessionTimers'[t] = timers[t]
         /\ \A t \in Sessions : messageBuffers'[t] \in {messageBuffers[t], <<>>}
         /\ sessionTimers'[s].l2Schedule = timers[s].l2Schedule
         /\ sessionTimers'[s].l2Queued = timers[s].l2Queued
         /\ sessionTimers'[s].l1Queued
         /\ l1Run.phase # "idle" => l1Run' = l1Run
<1>0. l1Queue \o <<s>> \in Seq(Sessions) /\ messageBuffers \in [Sessions -> Seq(Nat)]
  BY DEF TypeOK
<1>1. CASE timers[s].l1Queued
  BY <1>1 DEF EnqueueL1
<1>2. CASE ~timers[s].l1Queued
  <2>1. /\ sessionTimers' = [timers EXCEPT ![s].l1Idle = FALSE, ![s].l1Queued = TRUE]
        /\ AddL1(<<s>>)
    BY <1>2 DEF EnqueueL1
  <2>2. \A t \in Sessions : messageBuffers'[t] \in {messageBuffers[t], <<>>}
    BY <1>0, <2>1, DrainBuffers DEF AddL1
  <2>3. /\ \A t \in Sessions : t # s => sessionTimers'[t] = timers[t]
        /\ sessionTimers'[s].l2Schedule = timers[s].l2Schedule
        /\ sessionTimers'[s].l2Queued = timers[s].l2Queued
        /\ sessionTimers'[s].l1Queued
    BY <2>1 DEF SessionTimerState
  <2> QED BY <2>1, <2>2, <2>3 DEF AddL1
<1> QED BY <1>1, <1>2

LEMMA EnqueueL2Others ==
  ASSUME TypeOK, NEW s \in Sessions, EnqueueL2(s, sessionTimers)
  PROVE  /\ \A t \in Sessions : t # s => sessionTimers'[t] = sessionTimers[t]
         /\ sessionTimers'[s].l2Queued
         /\ l2Run.phase # "idle" => l2Run' = l2Run
<1>1. sessionTimers \in [Sessions -> SessionTimerState]
  BY DEF TypeOK
<1>2. CASE sessionTimers[s].l2Queued
  BY <1>1, <1>2 DEF EnqueueL2, SessionTimerState
<1>3. CASE ~sessionTimers[s].l2Queued
  BY <1>1, <1>3 DEF EnqueueL2, AddL2, SessionTimerState
<1> QED BY <1>2, <1>3

-----------------------------------------------------------------------------
(* Wake-ups *)

LEMMA NextWakeups == TypeOK /\ NoLostWakeup /\ [Next]_vars => NoLostWakeup'
<1> SUFFICES ASSUME TypeOK, NoLostWakeup, [Next]_vars
             PROVE  NoLostWakeup'
  OBVIOUS
<1>0. sessionTimers \in [Sessions -> SessionTimerState] /\ l1Run \in L1RunType /\ l2Run \in L2RunType
  BY DEF TypeOK, L1RunType, L2RunType
<1>1. ASSUME flushWaiters' = flushWaiters, flushWaits' = flushWaits,
             l1Run.phase # "idle" => l1Run'.phase # "idle",
             l2Run.phase # "idle" => l2Run'.phase # "idle",
             l3Running => l3Running'
      PROVE  NoLostWakeup'
  BY <1>1 DEF NoLostWakeup
<1>2. CASE \/ \E s \in Sessions : \/ \E m \in Batches : Notify(s, m)
                                  \/ NotifyBelowThreshold(s)
                                  \/ GrowsCold(s)
           \/ FlushReturns \/ DestroyTimesOut
           \/ UNCHANGED vars
  <2>1. UNCHANGED <<flushWaiters, flushWaits, l1Run, l2Run, l3Running>>
    BY <1>2 DEF Notify, NotifyBelowThreshold, GrowsCold, FlushReturns, DestroyTimesOut,
                vars, l1Vars, l2Vars, l3Vars, lifeVars
  <2> QED BY <1>1, <2>1
<1>3. ASSUME NEW s \in Sessions, NotifyAtThreshold(s)
      PROVE  NoLostWakeup'
  <2>1. EnqueueL1(s, sessionTimers) /\ UNCHANGED <<flushWaiters, flushWaits, l2Run, l3Running>>
    BY <1>3 DEF NotifyAtThreshold, l2Vars, l3Vars, lifeVars
  <2> QED BY <1>0, <1>1, <2>1, EnqueueL1Others
<1>4. ASSUME NEW s \in Sessions, L1IdleFires(s)
      PROVE  NoLostWakeup'
  <2> DEFINE fired == [sessionTimers EXCEPT ![s].l1Idle = FALSE]
  <2>1. fired \in [Sessions -> SessionTimerState]
    BY <1>0 DEF SessionTimerState
  <2>2. /\ EnqueueL1(s, fired) \/ UNCHANGED l1Run
        /\ UNCHANGED <<flushWaiters, flushWaits, l2Run, l3Running>>
    BY <1>4 DEF L1IdleFires, l1Vars, l2Vars, l3Vars, lifeVars
  <2> HIDE DEF fired
  <2> QED BY <1>1, <2>1, <2>2, EnqueueL1Others
<1>5. ASSUME NEW s \in Sessions, L2TimerFires(s)
      PROVE  NoLostWakeup'
  <2>1. /\ EnqueueL2(s, sessionTimers) \/ UNCHANGED l2Run
        /\ UNCHANGED <<flushWaiters, flushWaits, l1Run, l3Running>>
    BY <1>5 DEF L2TimerFires, l1Vars, l2Vars, l3Vars, lifeVars
  <2> QED BY <1>1, <2>1, EnqueueL2Others
<1>6. ASSUME NEW s \in Sessions, FlushSession(s)
      PROVE  NoLostWakeup'
  <2> DEFINE cancelled == [sessionTimers EXCEPT ![s].l1Idle = FALSE]
  <2>1. cancelled \in [Sessions -> SessionTimerState]
    BY <1>0 DEF SessionTimerState
  <2>2. /\ EnqueueL1(s, cancelled) \/ UNCHANGED l1Run
        /\ flushWaiters' = IF l1Run'.phase = "idle" THEN flushWaiters ELSE flushWaiters \cup {s}
        /\ UNCHANGED <<flushWaits, l2Run, l3Running>>
    BY <1>6 DEF FlushSession, l1Vars, l2Vars, l3Vars
  <2> HIDE DEF cancelled
  <2>3. l1Run.phase # "idle" => l1Run'.phase # "idle"
    BY <2>1, <2>2, EnqueueL1Others
  <2> QED BY <2>2, <2>3 DEF NoLostWakeup
<1>7. ASSUME NEW result \in L1Results, L1RunnerReturns(result)
      PROVE  NoLostWakeup'
  <2>1. /\ l1Run' = [l1Run EXCEPT !.phase = "persist", !.batch = <<>>, !.result = result]
        /\ UNCHANGED <<flushWaiters, flushWaits, l2Run, l3Running>>
    BY <1>7 DEF L1RunnerReturns, l2Vars, l3Vars, lifeVars
  <2>2. l1Run'.phase = "persist"
    BY <1>0, <2>1 DEF L1RunType
  <2> QED BY <1>1, <2>1, <2>2
<1>8. CASE L1RunnerThrows \/ L1Persisted
  <2>0. /\ \E b : DrainL1(l1Queue, b)
        /\ WakeL1Waiters /\ UNCHANGED <<l2Run, l3Running>>
    BY <1>8 DEF L1RunnerThrows, L1Persisted, l2Vars, l3Vars
  <2>1. l1Queue # <<>> => l1Run'.phase = "runner"
    BY <2>0 DEF DrainL1
  <2>2. CASE l1Queue = <<>>
    BY <2>0, <2>2 DEF WakeL1Waiters, NoLostWakeup
  <2>3. CASE l1Queue # <<>>
    BY <2>0, <2>1, <2>3 DEF WakeL1Waiters, NoLostWakeup
  <2> QED BY <2>2, <2>3
<1>9. CASE L2RunnerReturns \/ L2RunnerSkips
  <2>1. /\ \/ l2Run' = [l2Run EXCEPT !.phase = "persist"]
           \/ l2Run' = [l2Run EXCEPT !.phase = "persist-skipped"]
        /\ UNCHANGED <<flushWaiters, flushWaits, l1Run, l3Running>>
    BY <1>9 DEF L2RunnerReturns, L2RunnerSkips, l1Vars, l3Vars, lifeVars
  <2>2. l2Run'.phase # "idle"
    BY <1>0, <2>1 DEF L2RunType
  <2> QED BY <1>1, <2>1, <2>2
<1>10. CASE L2RunnerThrows \/ L2SkipPersisted \/ L2Persisted
  <2>1. /\ l2Queue # <<>> => l2Run'.phase = "runner"
        /\ WakeL2Waiters /\ UNCHANGED <<l1Run, flushWaiters>> /\ (l3Running => l3Running')
    BY <1>10 DEF L2RunnerThrows, L2SkipPersisted, L2Persisted, TriggerL3, DrainL2, l1Vars, l3Vars
  <2>2. CASE l2Queue = <<>>
    BY <2>1, <2>2 DEF WakeL2Waiters, NoLostWakeup
  <2>3. CASE l2Queue # <<>>
    BY <2>1, <2>3 DEF WakeL2Waiters, NoLostWakeup
  <2> QED BY <2>2, <2>3
<1>11. CASE L3Returns
  <2>1. /\ flushWaits' = IF l3Running' THEN flushWaits ELSE flushWaits \ {"l3"}
        /\ UNCHANGED <<l1Run, l2Run, flushWaiters>>
    BY <1>11 DEF L3Returns, l1Vars, l2Vars
  <2> QED BY <2>1 DEF NoLostWakeup
<1>12. CASE Destroy
  <2>1. /\ l1Run.phase # "idle" => l1Run' = l1Run
        /\ flushWaits' = IF l1Run'.phase = "idle" THEN {} ELSE {"l1"}
        /\ UNCHANGED <<l2Run, l3Running, flushWaiters>>
    BY <1>12 DEF Destroy, AddL1, l2Vars, l3Vars
  <2> QED BY <2>1 DEF NoLostWakeup
<1>13. CASE FlushL2Timers
  <2>1. /\ flushWaits = {}
        /\ flushWaits' = (IF l2Run'.phase = "idle" THEN {} ELSE {"l2"}) \cup (IF l3Running THEN {"l3"} ELSE {})
        /\ UNCHANGED <<l1Run, l3Running, flushWaiters>>
    BY <1>13 DEF FlushL2Timers, l1Vars, l3Vars
  <2> QED BY <2>1 DEF NoLostWakeup
<1> QED BY <1>2, <1>3, <1>4, <1>5, <1>6, <1>7, <1>8, <1>9, <1>10, <1>11, <1>12, <1>13 DEF Next

-----------------------------------------------------------------------------
(* Work and state *)

(* Everything that will become work of a session needs its state, not only *)
(* the work itself; and while a notification is unfinished the session is  *)
(* active, which is why garbage collection passes it by.                   *)
HasWork(s) ==
  \/ sessionTimers[s].l1Queued \/ sessionTimers[s].l2Queued
  \/ sessionTimers[s].l1Idle \/ sessionTimers[s].l2Schedule # "none"
  \/ messageBuffers[s] # <<>> \/ notifying[s] # <<>>
WorkInv ==
  \A s \in Sessions : /\ HasWork(s) => s \in known
                      /\ notifying[s] # <<>> => activity[s] = "active"

(* one session's work may change; the others keep theirs *)
LEMMA OthersWork ==
  ASSUME WorkInv, NEW s \in Sessions, known \subseteq known',
         HasWork(s)' => s \in known',
         notifying'[s] # <<>> => activity'[s] = "active",
         \A t \in Sessions : t # s => /\ sessionTimers'[t] = sessionTimers[t]
                                      /\ messageBuffers'[t] \in {messageBuffers[t], <<>>}
                                      /\ notifying'[t] = notifying[t]
                                      /\ activity'[t] = activity[t]
  PROVE  WorkInv'
<1>1. ASSUME NEW t \in Sessions, t # s
      PROVE  HasWork(t)' => t \in known'
  BY <1>1 DEF WorkInv, HasWork
<1>2. ASSUME NEW t \in Sessions, t # s
      PROVE  notifying'[t] # <<>> => activity'[t] = "active"
  BY <1>2 DEF WorkInv
<1> QED BY <1>1, <1>2 DEF WorkInv

(* the work of a known session is its own affair *)
LEMMA KnownWork ==
  ASSUME WorkInv, NEW s \in known, s \in Sessions, known' = known,
         notifying' = notifying, activity' = activity,
         \A t \in Sessions : t # s => sessionTimers'[t] = sessionTimers[t],
         \A t \in Sessions : t # s => messageBuffers'[t] \in {messageBuffers[t], <<>>}
  PROVE  WorkInv'
BY OthersWork DEF WorkInv

LEMMA NextWork == QueueInv /\ WorkInv /\ [Next]_vars => WorkInv'
<1> SUFFICES ASSUME QueueInv, WorkInv, [Next]_vars
             PROVE  WorkInv'
  OBVIOUS
<1>0. /\ sessionTimers \in [Sessions -> SessionTimerState] /\ messageBuffers \in [Sessions -> Seq(Nat)]
      /\ notifying \in [Sessions -> Seq(Nat)] /\ activity \in [Sessions -> {"active", "cold", "stale"}]
      /\ l1Queue \in Seq(Sessions) /\ TypeOK /\ l1Run.batch \in Seq(Nat)
  BY DEF QueueInv, TypeOK
<1>1. ASSUME NEW s \in Sessions, NEW m \in Batches, Notify(s, m)
      PROVE  WorkInv'
  <2>1. /\ known' = known \cup {s} /\ activity' = [activity EXCEPT ![s] = "active"]
        /\ sessionTimers' = [sessionTimers EXCEPT ![s].l1RetryCount = 0]
        /\ messageBuffers' = [messageBuffers EXCEPT ![s] = @ \o [i \in 1..m |-> captured[s] + i]]
        /\ notifying' = [notifying EXCEPT ![s] = Append(@, EffectiveThreshold(sessionStates[s]))]
    BY <1>1 DEF Notify
  <2>2. \A t \in Sessions : t # s => /\ sessionTimers'[t] = sessionTimers[t]
                                     /\ messageBuffers'[t] = messageBuffers[t]
                                     /\ notifying'[t] = notifying[t]
                                     /\ activity'[t] = activity[t]
    BY <1>0, <2>1
  <2>3. s \in known' /\ known \subseteq known' /\ activity'[s] = "active"
    BY <1>0, <2>1
  <2> QED BY <2>2, <2>3, OthersWork
<1>2. ASSUME NEW s \in Sessions, NotifyBelowThreshold(s)
      PROVE  WorkInv'
  <2> DEFINE evicted == IF notifyCounter' = 0 THEN {t \in Sessions : Evictable(t)} ELSE {}
  <2>1. /\ notifying[s] # <<>>
        /\ notifying' = [notifying EXCEPT ![s] = Tail(@)]
        /\ known' = known \ evicted
        /\ sessionTimers' = [t \in Sessions |->
                               IF t \in evicted THEN NewTimers
                               ELSE IF t = s
                               THEN [sessionTimers[t] EXCEPT !.l1Idle = TRUE]
                               ELSE sessionTimers[t]]
        /\ messageBuffers' = [t \in Sessions |->
                                IF t \in evicted THEN <<>> ELSE messageBuffers[t]]
        /\ activity' = [t \in Sessions |->
                          IF t \in evicted THEN "active" ELSE activity[t]]
    BY <1>2 DEF NotifyBelowThreshold
  <2>2. \A t \in evicted : activity[t] = "stale"
    BY DEF Evictable
  <2> HIDE DEF evicted
  <2>3. s \in known /\ s \notin evicted /\ activity[s] = "active"
    BY <2>1, <2>2 DEF WorkInv, HasWork
  <2>4. ASSUME NEW t \in Sessions, t \in evicted
        PROVE  ~HasWork(t)' /\ activity'[t] = "active"
    <3>1. notifying[t] = <<>> /\ t # s
      BY <2>2, <2>3, <2>4 DEF WorkInv
    <3>2. notifying'[t] = <<>> /\ messageBuffers'[t] = <<>> /\ sessionTimers'[t] = NewTimers
      BY <1>0, <2>1, <2>4, <3>1
    <3>3. activity'[t] = "active"
      BY <2>1, <2>4
    <3> QED BY <3>2, <3>3 DEF HasWork, NewTimers
  <2>5. ASSUME NEW t \in Sessions, t \notin evicted, t # s
        PROVE  /\ HasWork(t)' => HasWork(t)
               /\ notifying'[t] = notifying[t] /\ activity'[t] = activity[t]
    <3>1. /\ sessionTimers'[t] = sessionTimers[t] /\ messageBuffers'[t] = messageBuffers[t]
          /\ notifying'[t] = notifying[t] /\ activity'[t] = activity[t]
      BY <1>0, <2>1, <2>5
    <3> QED BY <3>1 DEF HasWork
  <2>6. s \in known' /\ activity'[s] = "active"
    BY <2>1, <2>3
  <2>7. \A t \in Sessions : t \in known /\ t \notin evicted => t \in known'
    BY <2>1
  <2>8. ASSUME NEW t \in Sessions
        PROVE  /\ HasWork(t)' => t \in known'
               /\ notifying'[t] # <<>> => activity'[t] = "active"
    BY <2>4, <2>5, <2>6, <2>7 DEF WorkInv
  <2> QED BY <2>8 DEF WorkInv
<1>3. ASSUME NEW s \in Sessions, NotifyAtThreshold(s)
      PROVE  WorkInv'
  <2>1. /\ notifying[s] # <<>> /\ notifying' = [notifying EXCEPT ![s] = Tail(@)]
        /\ EnqueueL1(s, sessionTimers) /\ UNCHANGED <<known, activity>>
    BY <1>3 DEF NotifyAtThreshold
  <2>2. s \in known /\ activity[s] = "active"
    BY <2>1 DEF WorkInv, HasWork
  <2>3. \A t \in Sessions : t # s => notifying'[t] = notifying[t]
    BY <1>0, <2>1
  <2>4. /\ \A t \in Sessions : t # s => sessionTimers'[t] = sessionTimers[t]
        /\ \A t \in Sessions : messageBuffers'[t] \in {messageBuffers[t], <<>>}
    BY <1>0, <2>1, EnqueueL1Others
  <2> QED BY <2>1, <2>2, <2>3, <2>4, OthersWork
<1>4. ASSUME NEW s \in Sessions, L1IdleFires(s)
      PROVE  WorkInv'
  <2> DEFINE fired == [sessionTimers EXCEPT ![s].l1Idle = FALSE]
  <2>1. fired \in [Sessions -> SessionTimerState] /\ \A t \in Sessions : t # s => fired[t] = sessionTimers[t]
    BY <1>0 DEF SessionTimerState
  <2>2. /\ EnqueueL1(s, fired) \/ (sessionTimers' = fired /\ UNCHANGED messageBuffers)
        /\ UNCHANGED <<known, notifying, activity>> /\ sessionTimers[s].l1Idle
    BY <1>4 DEF L1IdleFires
  <2> HIDE DEF fired
  <2>3. s \in known
    BY <2>2 DEF WorkInv, HasWork
  <2>4. CASE EnqueueL1(s, fired)
    <3>1. \A t \in Sessions : t # s => sessionTimers'[t] = fired[t]
      BY <1>0, <2>1, <2>4, EnqueueL1Others
    <3>2. \A t \in Sessions : messageBuffers'[t] \in {messageBuffers[t], <<>>}
      BY <1>0, <2>1, <2>4, EnqueueL1Others
    <3>3. \A t \in Sessions : t # s => sessionTimers'[t] = sessionTimers[t]
      BY <2>1, <3>1
    <3> QED BY <2>2, <2>3, <3>2, <3>3, KnownWork
  <2>5. CASE sessionTimers' = fired /\ UNCHANGED messageBuffers
    BY <2>1, <2>2, <2>3, <2>5, KnownWork
  <2> QED BY <2>2, <2>4, <2>5
<1>5. ASSUME NEW s \in Sessions, L2TimerFires(s)
      PROVE  WorkInv'
  <2>1. /\ EnqueueL2(s, sessionTimers) \/ sessionTimers' = [sessionTimers EXCEPT ![s].l2Schedule = "none"]
        /\ UNCHANGED <<known, notifying, activity, messageBuffers>> /\ sessionTimers[s].l2Schedule # "none"
    BY <1>5 DEF L2TimerFires
  <2>2. s \in known
    BY <2>1 DEF WorkInv, HasWork
  <2>3. \A t \in Sessions : t # s => sessionTimers'[t] = sessionTimers[t]
    BY <1>0, <2>1, EnqueueL2Others
  <2> QED BY <2>1, <2>2, <2>3, KnownWork
<1>6. ASSUME NEW s \in Sessions, FlushSession(s)
      PROVE  WorkInv'
  <2> DEFINE cancelled == [sessionTimers EXCEPT ![s].l1Idle = FALSE]
  <2>1. /\ cancelled \in [Sessions -> SessionTimerState]
        /\ \A t \in Sessions : t # s => cancelled[t] = sessionTimers[t]
        /\ ~cancelled[s].l1Idle /\ cancelled[s].l1Queued = sessionTimers[s].l1Queued
        /\ cancelled[s].l2Queued = sessionTimers[s].l2Queued
        /\ cancelled[s].l2Schedule = sessionTimers[s].l2Schedule
    BY <1>0 DEF SessionTimerState
  <2>2. /\ \/ HasBuffered(s) /\ EnqueueL1(s, cancelled)
           \/ sessionTimers' = cancelled /\ UNCHANGED messageBuffers
        /\ UNCHANGED <<known, notifying, activity>>
    BY <1>6 DEF FlushSession
  <2> HIDE DEF cancelled
  <2>3. CASE HasBuffered(s) /\ EnqueueL1(s, cancelled)
    <3>1. s \in known
      BY <2>3 DEF WorkInv, HasWork, HasBuffered
    <3>2. \A t \in Sessions : t # s => sessionTimers'[t] = cancelled[t]
      BY <1>0, <2>1, <2>3, EnqueueL1Others
    <3>3. \A t \in Sessions : messageBuffers'[t] \in {messageBuffers[t], <<>>}
      BY <1>0, <2>1, <2>3, EnqueueL1Others
    <3>4. \A t \in Sessions : t # s => sessionTimers'[t] = sessionTimers[t]
      BY <2>1, <3>2
    <3> QED BY <2>2, <3>1, <3>3, <3>4, KnownWork
  <2>4. CASE sessionTimers' = cancelled /\ UNCHANGED messageBuffers
    <3>1. HasWork(s)' => HasWork(s)
      BY <2>1, <2>2, <2>4 DEF HasWork
    <3> QED BY <2>1, <2>2, <2>4, <3>1, OthersWork DEF WorkInv
  <2> QED BY <2>2, <2>3, <2>4
<1>7. ASSUME NEW s \in Sessions, GrowsCold(s)
      PROVE  WorkInv'
  <2>1. /\ notifying[s] = <<>> /\ UNCHANGED <<known, notifying, sessionTimers, messageBuffers>>
        /\ \A t \in Sessions : t # s => activity'[t] = activity[t]
    BY <1>0, <1>7 DEF GrowsCold
  <2>2. \A t \in Sessions : HasWork(t)' => HasWork(t)
    BY <2>1 DEF HasWork
  <2> QED BY <2>1, <2>2, OthersWork DEF WorkInv
<1>8. ASSUME NEW s \in Sessions, s \in known, NEW x, sessionTimers' = [sessionTimers EXCEPT ![s] = x],
             UNCHANGED <<known, notifying, activity>>,
             \A t \in Sessions : t # s => messageBuffers'[t] \in {messageBuffers[t], <<>>}
      PROVE  WorkInv'
  BY <1>0, <1>8, KnownWork
<1>9. ASSUME NEW result \in L1Results, L1RunnerReturns(result)
      PROVE  WorkInv'
  <2>1. /\ sessionTimers' = [sessionTimers EXCEPT ![l1Run.session].l1RetryCount = 0]
        /\ UNCHANGED <<known, notifying, activity, messageBuffers>> /\ l1Run.phase # "idle"
    BY <1>9 DEF L1RunnerReturns
  <2>2. l1Run.session \in known /\ l1Run.session \in Sessions
    BY <2>1, RunningIsFlagged DEF WorkInv, HasWork
  <2> QED BY <1>8, <2>1, <2>2
<1>10. CASE L1RunnerThrows
  <2> DEFINE s == l1Run.session
             b == [messageBuffers EXCEPT ![s] = RestoreBatch(l1Run.batch, @)]
  <2>1. /\ UNCHANGED <<known, notifying, activity>> /\ l1Run.phase # "idle"
        /\ DrainL1(l1Queue, b)
        /\ \E x : sessionTimers' = [sessionTimers EXCEPT ![s] = x]
    BY <1>10 DEF L1RunnerThrows
  <2>2. s \in known /\ s \in Sessions
    BY <2>1, RunningIsFlagged DEF WorkInv, HasWork
  <2>3. b \in [Sessions -> Seq(Nat)]
    BY <1>0, <2>2 DEF RestoreBatch
  <2>4. \A t \in Sessions : messageBuffers'[t] \in {b[t], <<>>}
    BY <1>0, <2>1, <2>3, DrainBuffers
  <2>5. \A t \in Sessions : t # s => messageBuffers'[t] \in {messageBuffers[t], <<>>}
    BY <1>0, <2>4
  <2> QED BY <1>8, <2>1, <2>2, <2>5
<1>11. CASE L1Persisted
  <2>1. /\ UNCHANGED <<known, notifying, activity>> /\ l1Run.phase # "idle"
        /\ DrainL1(l1Queue, messageBuffers)
        /\ \E x : sessionTimers' = [sessionTimers EXCEPT ![l1Run.session] = x]
    BY <1>11 DEF L1Persisted
  <2>2. l1Run.session \in known /\ l1Run.session \in Sessions
    BY <2>1, RunningIsFlagged DEF WorkInv, HasWork
  <2>3. \A t \in Sessions : messageBuffers'[t] \in {messageBuffers[t], <<>>}
    BY <1>0, <2>1, DrainBuffers
  <2> QED BY <1>8, <2>1, <2>2, <2>3
<1>12. CASE L2RunnerThrows \/ L2RunnerReturns \/ L2RunnerSkips \/ L2SkipPersisted \/ L2Persisted
  <2>1. /\ UNCHANGED <<known, notifying, activity, messageBuffers>> /\ l2Run.phase # "idle"
        /\ sessionTimers' = sessionTimers \/ \E x : sessionTimers' = [sessionTimers EXCEPT ![l2Run.session] = x]
    BY <1>12 DEF L2RunnerThrows, L2RunnerReturns, L2RunnerSkips, L2SkipPersisted, L2Persisted
  <2>2. l2Run.session \in known /\ l2Run.session \in Sessions
    BY <2>1, RunningIsFlagged DEF WorkInv, HasWork
  <2>3. CASE sessionTimers' = sessionTimers
    BY <2>1, <2>2, <2>3, KnownWork
  <2> QED BY <1>8, <2>1, <2>2, <2>3
<1>13. CASE Destroy
  <2> DEFINE queued == {s \in Sessions : sessionTimers[s].l1Idle /\ HasBuffered(s) /\ ~sessionTimers[s].l1Queued}
  <2>1. /\ UNCHANGED <<known, notifying, activity>>
        /\ sessionTimers' = [s \in Sessions |->
             [sessionTimers[s] EXCEPT !.l1Idle = FALSE, !.l1Queued = @ \/ s \in queued]]
    BY <1>13 DEF Destroy
  <2>2. PICK p \in Orders(queued) : AddL1(p)
    BY <1>13 DEF Destroy
  <2>3. \A t \in Sessions : messageBuffers'[t] \in {messageBuffers[t], <<>>}
    <3>1. p \in Seq(Sessions)
      BY <2>2, OrdersType
    <3>2. l1Queue \o p \in Seq(Sessions)
      BY <1>0, <3>1
    <3> QED BY <1>0, <2>2, <3>2, DrainBuffers DEF AddL1
  <2>4. \A t \in queued : sessionTimers[t].l1Idle
    OBVIOUS
  <2> HIDE DEF queued
  <2>5. ASSUME NEW t \in Sessions
        PROVE  /\ ~sessionTimers'[t].l1Idle /\ sessionTimers'[t].l1Queued = (sessionTimers[t].l1Queued \/ t \in queued)
               /\ sessionTimers'[t].l2Queued = sessionTimers[t].l2Queued
               /\ sessionTimers'[t].l2Schedule = sessionTimers[t].l2Schedule
    BY <1>0, <2>1 DEF SessionTimerState
  <2>6. \A t \in Sessions : HasWork(t)' => HasWork(t)
    BY <2>1, <2>3, <2>4, <2>5 DEF HasWork
  <2> QED BY <2>1, <2>6 DEF WorkInv
<1>14. CASE FlushL2Timers
  <2> DEFINE queued == {s \in Sessions : sessionTimers[s].l2Schedule # "none" /\ ~Stops(s) /\ ~sessionTimers[s].l2Queued}
  <2>1. /\ UNCHANGED <<known, notifying, activity, messageBuffers>>
        /\ sessionTimers' = [s \in Sessions |->
             [sessionTimers[s] EXCEPT !.l2Schedule = "none", !.l2Queued = @ \/ s \in queued]]
    BY <1>14 DEF FlushL2Timers
  <2>2. \A t \in queued : sessionTimers[t].l2Schedule # "none"
    OBVIOUS
  <2> HIDE DEF queued
  <2>3. ASSUME NEW t \in Sessions
        PROVE  /\ sessionTimers'[t].l2Schedule = "none"
               /\ sessionTimers'[t].l2Queued = (sessionTimers[t].l2Queued \/ t \in queued)
               /\ sessionTimers'[t].l1Queued = sessionTimers[t].l1Queued
               /\ sessionTimers'[t].l1Idle = sessionTimers[t].l1Idle
    BY <1>0, <2>1 DEF SessionTimerState
  <2>4. \A t \in Sessions : HasWork(t)' => HasWork(t)
    BY <2>1, <2>2, <2>3 DEF HasWork
  <2> QED BY <2>1, <2>4 DEF WorkInv
<1>15. CASE L3Returns \/ FlushReturns \/ DestroyTimesOut \/ UNCHANGED vars
  <2>1. UNCHANGED <<known, notifying, activity, messageBuffers, sessionTimers>>
    BY <1>15 DEF L3Returns, FlushReturns, DestroyTimesOut, vars, pipelineVars
  <2>2. \A t \in Sessions : HasWork(t)' <=> HasWork(t)
    BY <2>1 DEF HasWork
  <2> QED BY <2>1, <2>2 DEF WorkInv
<1> QED BY <1>1, <1>2, <1>3, <1>4, <1>5, <1>6, <1>7, <1>9, <1>10, <1>11, <1>12, <1>13, <1>14, <1>15 DEF Next

-----------------------------------------------------------------------------
(* Messages *)

(* the messages numbered from + 1 to last, in the order of capture *)
Span(from, last) == [i \in 1..(last - from) |-> from + i]

(* what L1 has not consumed of a session *)
Unread(s) == InFlight(s) \o messageBuffers[s]

(* nothing is delivered that was not captured *)
MessagesInv ==
  \A s \in Sessions : /\ Unread(s) = Span(delivered[s], captured[s])
                      /\ delivered[s] <= captured[s]

LEMMA SpanIsSeq ==
  ASSUME NEW d \in Nat, NEW c \in Nat, d <= c
  PROVE  /\ Span(d, c) \in Seq(Nat)
         /\ Len(Span(d, c)) = c - d
         /\ \A i \in 1..(c - d) : Span(d, c)[i] = d + i
<1>1. c - d \in Nat
  OBVIOUS
<1>2. \A i \in 1..(c - d) : d + i \in Nat
  OBVIOUS
<1> QED BY <1>1, <1>2 DEF Span

(* capturing m messages extends the span *)
LEMMA SpanGrows ==
  ASSUME NEW d \in Nat, NEW c \in Nat, NEW m \in Nat, d <= c
  PROVE  Span(d, c) \o [i \in 1..m |-> c + i] = Span(d, c + m)
<1> DEFINE new == [i \in 1..m |-> c + i]
<1>1. new \in Seq(Nat) /\ Len(new) = m /\ \A i \in 1..m : new[i] = c + i
  OBVIOUS
<1>2. c + m \in Nat /\ d <= c + m
  OBVIOUS
<1>3. /\ Span(d, c) \in Seq(Nat) /\ Len(Span(d, c)) = c - d
      /\ \A i \in 1..(c - d) : Span(d, c)[i] = d + i
  BY SpanIsSeq
<1>4. /\ Span(d, c + m) \in Seq(Nat) /\ Len(Span(d, c + m)) = (c + m) - d
      /\ \A i \in 1..((c + m) - d) : Span(d, c + m)[i] = d + i
  BY <1>2, SpanIsSeq
<1> HIDE DEF new
<1>5. Span(d, c) \o new \in Seq(Nat) /\ Len(Span(d, c) \o new) = (c + m) - d
  BY <1>1, <1>3
<1>6. ASSUME NEW i \in 1..((c + m) - d)
      PROVE  (Span(d, c) \o new)[i] = d + i
  <2>0. i <= c - d \/ i > c - d
    OBVIOUS
  <2>1. CASE i <= c - d
    BY <1>1, <1>3, <2>1
  <2>2. CASE i > c - d
    <3>1. (Span(d, c) \o new)[i] = new[i - (c - d)]
      BY <1>1, <1>3, <2>2
    <3>2. i - (c - d) \in 1..m
      BY <2>2
    <3> QED BY <1>1, <3>1, <3>2
  <2> QED BY <2>0, <2>1, <2>2
<1>7. Span(d, c) \o new = Span(d, c + m)
  BY <1>4, <1>5, <1>6, SeqEqual
<1> QED BY <1>7 DEF new

LEMMA BatchesAssociate ==
  ASSUME NEW a \in Seq(Nat), NEW b \in Seq(Nat), NEW c \in Seq(Nat)
  PROVE  (a \o b) \o c = a \o (b \o c)
BY ConcatAssociative

(* consuming a prefix of the span leaves the rest of it *)
LEMMA SpanShrinks ==
  ASSUME NEW d \in Nat, NEW c \in Nat, d <= c,
         NEW a \in Seq(Nat), NEW b \in Seq(Nat), a \o b = Span(d, c)
  PROVE  d + Len(a) <= c /\ b = Span(d + Len(a), c)
<1>1. /\ Span(d, c) \in Seq(Nat) /\ Len(Span(d, c)) = c - d
      /\ \A i \in 1..(c - d) : Span(d, c)[i] = d + i
  BY SpanIsSeq
<1>2. Len(a) \in Nat /\ Len(b) \in Nat /\ Len(a) + Len(b) = c - d
  <2>1. Len(a) \in Nat /\ Len(b) \in Nat
    BY LenProperties
  <2>2. Len(a \o b) = Len(a) + Len(b)
    BY ConcatProperties
  <2> QED BY <1>1, <2>1, <2>2
<1>3. d + Len(a) \in Nat /\ d + Len(a) <= c /\ Len(b) = c - (d + Len(a))
  BY <1>2
<1>4. /\ Span(d + Len(a), c) \in Seq(Nat) /\ Len(Span(d + Len(a), c)) = c - (d + Len(a))
      /\ \A i \in 1..(c - (d + Len(a))) : Span(d + Len(a), c)[i] = d + Len(a) + i
  BY <1>3, SpanIsSeq
<1>5. ASSUME NEW i \in 1..Len(b)
      PROVE  b[i] = d + Len(a) + i
  <2>1. Len(a) + i \in 1..(c - d)
    BY <1>2
  <2>2. (a \o b)[Len(a) + i] = b[i]
    BY <1>2
  <2> QED BY <1>1, <1>2, <2>1, <2>2
<1>6. b = Span(d + Len(a), c)
  BY <1>3, <1>4, <1>5, SeqEqual
<1> QED BY <1>3, <1>6

(* drain() hands the buffer to the task it starts *)
LEMMA DrainMessages ==
  ASSUME NEW q \in Seq(Sessions), NEW b \in [Sessions -> Seq(Nat)], DrainL1(q, b)
  PROVE  \A t \in Sessions : Unread(t)' = b[t]
<1> SUFFICES ASSUME NEW t \in Sessions PROVE Unread(t)' = b[t]
  OBVIOUS
<1>0. b[t] \in Seq(Nat) /\ <<>> \o b[t] = b[t] /\ b[t] \o <<>> = b[t]
  OBVIOUS
<1>1. CASE q = <<>>
  <2>1. InFlight(t)' = <<>> /\ messageBuffers' = b
    BY <1>1 DEF DrainL1, InFlight, L1Idle
  <2> QED BY <1>0, <2>1 DEF Unread
<1>2. CASE q # <<>> /\ t = Head(q)
  <2>1. InFlight(t)' = b[t] /\ messageBuffers'[t] = <<>>
    BY <1>2 DEF DrainL1, InFlight
  <2> QED BY <1>0, <2>1 DEF Unread
<1>3. CASE q # <<>> /\ t # Head(q)
  <2>1. InFlight(t)' = <<>> /\ messageBuffers'[t] = b[t]
    BY <1>3 DEF DrainL1, InFlight
  <2> QED BY <1>0, <2>1 DEF Unread
<1> QED BY <1>1, <1>2, <1>3

(* nothing is unread but the buffer when no runner holds a batch *)
LEMMA BufferUnread ==
  ASSUME TypeOK, NEW t \in Sessions, l1Run.phase # "runner" \/ l1Run.session # t
  PROVE  Unread(t) = messageBuffers[t]
<1>1. messageBuffers[t] \in Seq(Nat) /\ InFlight(t) = <<>>
  BY DEF TypeOK, InFlight
<1> QED BY <1>1 DEF Unread

LEMMA AddMessages ==
  ASSUME TypeOK, NEW p \in Seq(Sessions), AddL1(p)
  PROVE  \A t \in Sessions : Unread(t)' = Unread(t)
<1>1. l1Queue \o p \in Seq(Sessions) /\ messageBuffers \in [Sessions -> Seq(Nat)]
  BY DEF TypeOK
<1>2. CASE l1Run.phase = "idle"
  <2>1. \A t \in Sessions : Unread(t)' = messageBuffers[t]
    BY <1>1, <1>2, DrainMessages DEF AddL1
  <2>2. \A t \in Sessions : Unread(t) = messageBuffers[t]
    BY <1>2, BufferUnread
  <2> QED BY <2>1, <2>2
<1>3. CASE l1Run.phase # "idle"
  BY <1>3 DEF AddL1, Unread, InFlight
<1> QED BY <1>2, <1>3

LEMMA EnqueueMessages ==
  ASSUME TypeOK, NEW s \in Sessions, NEW timers, EnqueueL1(s, timers)
  PROVE  \A t \in Sessions : Unread(t)' = Unread(t)
<1>1. CASE timers[s].l1Queued
  BY <1>1 DEF EnqueueL1, Unread, InFlight
<1>2. CASE ~timers[s].l1Queued
  <2>1. AddL1(<<s>>) /\ <<s>> \in Seq(Sessions)
    BY <1>2 DEF EnqueueL1
  <2> QED BY <2>1, AddMessages
<1> QED BY <1>1, <1>2

LEMMA NextMessages == TypeOK /\ MessagesInv /\ [Next]_vars => MessagesInv'
<1> SUFFICES ASSUME TypeOK, MessagesInv, [Next]_vars
             PROVE  MessagesInv'
  OBVIOUS
<1>0. /\ messageBuffers \in [Sessions -> Seq(Nat)] /\ l1Queue \in Seq(Sessions)
      /\ captured \in [Sessions -> Nat] /\ delivered \in [Sessions -> Nat]
      /\ l1Run \in L1RunType
  BY DEF TypeOK, L1RunType
<1>1. ASSUME \A t \in Sessions : Unread(t)' = Unread(t), UNCHANGED <<captured, delivered>>
      PROVE  MessagesInv'
  BY <1>1 DEF MessagesInv
<1>2. ASSUME NEW s \in Sessions, NEW m \in Batches, Notify(s, m)
      PROVE  MessagesInv'
  <2> DEFINE new == [i \in 1..m |-> captured[s] + i]
  <2>1. /\ messageBuffers' = [messageBuffers EXCEPT ![s] = @ \o new]
        /\ captured' = [captured EXCEPT ![s] = @ + m]
        /\ UNCHANGED <<delivered, l1Run>>
    BY <1>2 DEF Notify, l1Vars
  <2>2. m \in Nat /\ new \in Seq(Nat)
    BY <1>0, PipelineAssumption
  <2> HIDE DEF new
  <2>3. ASSUME NEW t \in Sessions, t # s
        PROVE  /\ Unread(t)' = Unread(t)
               /\ captured'[t] = captured[t] /\ delivered'[t] = delivered[t]
    BY <1>0, <2>1, <2>3 DEF Unread, InFlight
  <2>4. InFlight(s)' = InFlight(s) /\ InFlight(s) \in Seq(Nat)
    BY <1>0, <2>1 DEF InFlight, L1RunType
  <2>5. messageBuffers'[s] = messageBuffers[s] \o new /\ messageBuffers[s] \in Seq(Nat)
    BY <1>0, <2>1
  <2>6. Unread(s)' = Unread(s) \o new
    <3>1. Unread(s)' = InFlight(s) \o (messageBuffers[s] \o new)
      BY <2>4, <2>5 DEF Unread
    <3>2. InFlight(s) \in Seq(Nat) /\ messageBuffers[s] \in Seq(Nat) /\ new \in Seq(Nat)
      BY <2>2, <2>4, <2>5
    <3>3. (InFlight(s) \o messageBuffers[s]) \o new = InFlight(s) \o (messageBuffers[s] \o new)
      BY <3>2, BatchesAssociate
    <3> QED BY <3>1, <3>3 DEF Unread
  <2>7. captured'[s] = captured[s] + m /\ delivered'[s] = delivered[s]
    BY <1>0, <2>1
  <2>8. /\ captured[s] \in Nat /\ delivered[s] \in Nat /\ delivered[s] <= captured[s]
        /\ Unread(s) = Span(delivered[s], captured[s])
    BY <1>0 DEF MessagesInv
  <2>9. Span(delivered[s], captured[s]) \o new = Span(delivered[s], captured[s] + m)
    BY <2>2, <2>8, SpanGrows DEF new
  <2>10. Unread(s)' = Span(delivered'[s], captured'[s]) /\ delivered'[s] <= captured'[s]
    BY <2>2, <2>6, <2>7, <2>8, <2>9
  <2> QED BY <2>3, <2>10 DEF MessagesInv
<1>3. ASSUME NEW s \in Sessions, NotifyBelowThreshold(s)
      PROVE  MessagesInv'
  <2> DEFINE evicted == IF notifyCounter' = 0 THEN {t \in Sessions : Evictable(t)} ELSE {}
  <2>1. /\ messageBuffers' = [t \in Sessions |->
                                IF t \in evicted THEN <<>> ELSE messageBuffers[t]]
        /\ UNCHANGED <<l1Run, captured, delivered>>
    BY <1>3 DEF NotifyBelowThreshold, l1Vars, historyVars
  <2>2. \A t \in evicted : messageBuffers[t] = <<>>
    BY DEF Evictable
  <2> HIDE DEF evicted
  <2>3. \A t \in Sessions : messageBuffers'[t] = messageBuffers[t]
    BY <2>1, <2>2
  <2>4. \A t \in Sessions : Unread(t)' = Unread(t)
    BY <2>1, <2>3 DEF Unread, InFlight
  <2> QED BY <1>1, <2>1, <2>4
<1>4. ASSUME NEW s \in Sessions, NotifyAtThreshold(s)
      PROVE  MessagesInv'
  <2>1. EnqueueL1(s, sessionTimers) /\ UNCHANGED <<captured, delivered>>
    BY <1>4 DEF NotifyAtThreshold, historyVars
  <2> QED BY <1>1, <2>1, EnqueueMessages
<1>5. ASSUME NEW s \in Sessions, L1IdleFires(s) \/ FlushSession(s)
      PROVE  MessagesInv'
  <2>1. /\ \/ \E timers : EnqueueL1(s, timers)
           \/ UNCHANGED <<l1Run, messageBuffers>>
        /\ UNCHANGED <<captured, delivered>>
    BY <1>5 DEF L1IdleFires, FlushSession, l1Vars, historyVars
  <2>2. \A t \in Sessions : Unread(t)' = Unread(t)
    BY <2>1, EnqueueMessages DEF Unread, InFlight
  <2> QED BY <1>1, <2>1, <2>2
<1>6. ASSUME NEW result \in L1Results, L1RunnerReturns(result)
      PROVE  MessagesInv'
  <2>0. PICK s : s = l1Run.session
    OBVIOUS
  <2>1. /\ l1Run.phase = "runner" /\ UNCHANGED <<messageBuffers, captured>>
        /\ delivered' = [delivered EXCEPT ![s] = @ + Len(l1Run.batch)]
        /\ l1Run' = [l1Run EXCEPT !.phase = "persist", !.batch = <<>>, !.result = result]
    BY <1>6, <2>0 DEF L1RunnerReturns
  <2>2. l1Run'.phase = "persist" /\ l1Run.batch \in Seq(Nat)
    BY <1>0, <2>1 DEF L1RunType
  <2>3. ASSUME NEW t \in Sessions
        PROVE  Unread(t)' = messageBuffers[t]
    <3>1. InFlight(t)' = <<>> /\ messageBuffers'[t] = messageBuffers[t] /\ messageBuffers[t] \in Seq(Nat)
      BY <1>0, <2>1, <2>2 DEF InFlight
    <3> QED BY <3>1 DEF Unread
  <2>4. ASSUME NEW t \in Sessions, t # s
        PROVE  Unread(t)' = Span(delivered'[t], captured'[t]) /\ delivered'[t] <= captured'[t]
    <3>1. delivered'[t] = delivered[t] /\ captured'[t] = captured[t]
      BY <1>0, <2>1, <2>4
    <3>2. Unread(t) = messageBuffers[t]
      BY <1>0, <2>0, <2>4, BufferUnread
    <3> QED BY <2>3, <3>1, <3>2 DEF MessagesInv
  <2>5. ASSUME s \in Sessions
        PROVE  Unread(s)' = Span(delivered'[s], captured'[s]) /\ delivered'[s] <= captured'[s]
    <3>1. delivered'[s] = delivered[s] + Len(l1Run.batch) /\ captured'[s] = captured[s]
      BY <1>0, <2>1, <2>5
    <3>2. /\ l1Run.batch \o messageBuffers[s] = Span(delivered[s], captured[s])
          /\ delivered[s] <= captured[s]
      BY <2>0, <2>1, <2>5 DEF MessagesInv, Unread, InFlight
    <3>3. messageBuffers[s] \in Seq(Nat) /\ delivered[s] \in Nat /\ captured[s] \in Nat
      BY <1>0, <2>5
    <3>4. /\ delivered[s] + Len(l1Run.batch) <= captured[s]
          /\ messageBuffers[s] = Span(delivered[s] + Len(l1Run.batch), captured[s])
      BY <2>2, <3>2, <3>3, SpanShrinks
    <3>5. Unread(s)' = messageBuffers[s]
      BY <2>3, <2>5
    <3> QED BY <3>1, <3>4, <3>5
  <2> QED BY <2>4, <2>5 DEF MessagesInv
<1>7. CASE L1RunnerThrows
  <2> DEFINE s == l1Run.session
             b == [messageBuffers EXCEPT ![s] = RestoreBatch(l1Run.batch, @)]
  <2>1. l1Run.phase = "runner" /\ DrainL1(l1Queue, b) /\ UNCHANGED <<captured, delivered>>
    BY <1>7 DEF L1RunnerThrows, historyVars
  <2>2. ASSUME NEW t \in Sessions
        PROVE  b[t] \in Seq(Nat) /\ b[t] = Unread(t)
    <3>1. CASE t = s
      <4>1. b[t] = l1Run.batch \o messageBuffers[t]
        BY <1>0, <3>1 DEF RestoreBatch
      <4>2. l1Run.batch \in Seq(Nat) /\ messageBuffers[t] \in Seq(Nat)
        BY <1>0 DEF L1RunType
      <4>3. InFlight(t) = l1Run.batch
        BY <2>1, <3>1 DEF InFlight
      <4>4. l1Run.batch \o messageBuffers[t] \in Seq(Nat)
        BY <4>2, ConcatProperties
      <4>5. Unread(t) = l1Run.batch \o messageBuffers[t]
        BY <4>3 DEF Unread
      <4> QED BY <4>1, <4>4, <4>5, Zenon
    <3>2. CASE t # s
      BY <1>0, <3>2, BufferUnread
    <3> QED BY <3>1, <3>2
  <2>3. b \in [Sessions -> Seq(Nat)]
    BY <1>0, <2>2
  <2> HIDE DEF b
  <2>4. \A t \in Sessions : Unread(t)' = b[t]
    BY <1>0, <2>1, <2>3, DrainMessages
  <2> QED BY <1>1, <2>1, <2>2, <2>4
<1>8. CASE L1Persisted
  <2>1. /\ l1Run.phase = "persist" /\ DrainL1(l1Queue, messageBuffers)
        /\ UNCHANGED <<captured, delivered>>
    BY <1>8 DEF L1Persisted, historyVars
  <2>2. \A t \in Sessions : Unread(t) = messageBuffers[t]
    BY <2>1, BufferUnread
  <2>3. \A t \in Sessions : Unread(t)' = messageBuffers[t]
    BY <1>0, <2>1, DrainMessages
  <2> QED BY <1>1, <2>1, <2>2, <2>3
<1>9. CASE Destroy
  <2> DEFINE queued == {s \in Sessions : sessionTimers[s].l1Idle /\ HasBuffered(s) /\ ~sessionTimers[s].l1Queued}
  <2>1. UNCHANGED <<captured, delivered>>
    BY <1>9 DEF Destroy, historyVars
  <2>2. PICK p \in Orders(queued) : AddL1(p)
    BY <1>9 DEF Destroy
  <2>3. p \in Seq(Sessions)
    BY <2>2, OrdersType
  <2> QED BY <1>1, <2>1, <2>2, <2>3, AddMessages
<1>10. CASE \/ \E s \in Sessions : L2TimerFires(s) \/ GrowsCold(s)
            \/ L2RunnerThrows \/ L2RunnerReturns \/ L2RunnerSkips \/ L2SkipPersisted \/ L2Persisted
            \/ L3Returns \/ FlushL2Timers \/ FlushReturns \/ DestroyTimesOut \/ UNCHANGED vars
  <2>1. UNCHANGED <<l1Run, messageBuffers, captured, delivered>>
    BY <1>10 DEF L2TimerFires, GrowsCold, L2RunnerThrows, L2RunnerReturns, L2RunnerSkips,
                 L2SkipPersisted, L2Persisted, L3Returns, FlushL2Timers, FlushReturns,
                 DestroyTimesOut, vars, pipelineVars, l1Vars, historyVars
  <2>2. \A t \in Sessions : Unread(t)' = Unread(t)
    BY <2>1 DEF Unread, InFlight
  <2> QED BY <1>1, <2>1, <2>2
<1> QED BY <1>2, <1>3, <1>4, <1>5, <1>6, <1>7, <1>8, <1>9, <1>10 DEF Next

-----------------------------------------------------------------------------
(* Triggers of L2 *)

(* PendingL2HasTrigger for one session *)
Triggered(s) ==
  ~destroyed /\ sessionStates[s].l2_pending_l1_count > 0 =>
    \/ sessionTimers[s].l2Schedule # "none"
    \/ sessionTimers[s].l2Queued
    \/ l1Run.session = s /\ l1Run.phase = "persist"
    \/ activity[s] # "active"
    \/ sessionStates[s].conversation_count > 0

(* an L2 run that was skipped has armed the periodic timer already *)
SkipArmed ==
  ~destroyed /\ l2Run.phase = "persist-skipped"
    => sessionTimers[l2Run.session].l2Schedule # "none"

(* No timer fires before a skipped run has ended, so the session is still  *)
(* armed when its l2Queued is cleared; and only destroy() starts a flush,  *)
(* so the timers it takes away are those of a destroyed manager.           *)
TriggerInv ==
  /\ \A s \in Sessions : Triggered(s)
  /\ SkipArmed
  /\ flush # "none" => destroyed

(* a session keeps its trigger when nothing of it changes but other timers *)
LEMMA TriggerKept ==
  ASSUME NEW t \in Sessions, Triggered(t), teardown' = teardown,
         sessionStates'[t] = sessionStates[t], activity'[t] = activity[t],
         sessionTimers'[t].l2Schedule = sessionTimers[t].l2Schedule,
         sessionTimers'[t].l2Queued = sessionTimers[t].l2Queued,
         l1Run.session = t /\ l1Run.phase = "persist" => l1Run' = l1Run
  PROVE  Triggered(t)'
BY DEF Triggered, destroyed

(* and so do all sessions in a step of the L1 queue *)
LEMMA TriggersKept ==
  ASSUME TriggerInv, UNCHANGED <<teardown, flush, sessionStates, activity, l2Run>>,
         \A t \in Sessions : /\ sessionTimers'[t].l2Schedule = sessionTimers[t].l2Schedule
                             /\ sessionTimers'[t].l2Queued = sessionTimers[t].l2Queued,
         l1Run.phase = "persist" => l1Run' = l1Run,
         l2Run.phase = "persist-skipped" => l2Run.session \in Sessions
  PROVE  TriggerInv'
<1>1. \A t \in Sessions : Triggered(t)'
  BY TriggerKept DEF TriggerInv
<1>2. SkipArmed'
  BY DEF TriggerInv, SkipArmed, destroyed
<1> QED BY <1>1, <1>2 DEF TriggerInv, destroyed

(* the fields of the session that a step arms or takes off the queue *)
LEMMA TriggerArmed ==
  ASSUME TriggerInv, UNCHANGED <<teardown, flush, activity>>, NEW s \in Sessions,
         UNCHANGED <<sessionStates, l1Run>>,
         \A t \in Sessions : t # s => sessionTimers'[t] = sessionTimers[t],
         ~destroyed => sessionTimers'[s].l2Schedule # "none",
         l2Run'.phase # "persist-skipped"
  PROVE  TriggerInv'
<1>1. \A t \in Sessions : t # s => Triggered(t)'
  BY TriggerKept DEF TriggerInv
<1>2. Triggered(s)'
  BY DEF Triggered, destroyed
<1>3. SkipArmed'
  BY DEF SkipArmed
<1> QED BY <1>1, <1>2, <1>3 DEF TriggerInv, destroyed

(* a destroyed manager owes no trigger *)
LEMMA DestroyedOwesNothing ==
  ASSUME destroyed'
  PROVE  TriggerInv'
<1>1. \A t \in Sessions : Triggered(t)'
  BY DEF Triggered, destroyed
<1>2. SkipArmed'
  BY DEF SkipArmed, destroyed
<1> QED BY <1>1, <1>2 DEF TriggerInv

(* a task that drain() has just started has not been skipped *)
LEMMA DrainNotSkipped ==
  ASSUME NEW q, DrainL2(q)
  PROVE  l2Run'.phase # "persist-skipped"
BY DEF DrainL2, L2Idle

LEMMA EnqueueL2Skipped ==
  ASSUME NEW s, NEW timers, EnqueueL2(s, timers)
  PROVE  l2Run' = l2Run \/ l2Run'.phase # "persist-skipped"
BY DrainNotSkipped DEF EnqueueL2, AddL2

LEMMA NextTriggers == QueueInv /\ TriggerInv /\ [Next]_vars => TriggerInv'
<1> SUFFICES ASSUME QueueInv, TriggerInv, [Next]_vars
             PROVE  TriggerInv'
  OBVIOUS
<1>0. /\ sessionTimers \in [Sessions -> SessionTimerState] /\ sessionStates \in [Sessions -> SessionState]
      /\ activity \in [Sessions -> {"active", "cold", "stale"}]
      /\ l1Run \in L1RunType /\ l2Run \in L2RunType /\ TypeOK
  BY DEF QueueInv, TypeOK, L1RunType, L2RunType
<1>a. l2Run.phase # "idle" => l2Run.session \in Sessions /\ sessionTimers[l2Run.session].l2Queued
  BY RunningIsFlagged
<1>b. l1Run.phase # "idle" => l1Run.session \in Sessions
  BY RunningIsFlagged
<1>1. ASSUME NEW s \in Sessions, NEW m \in Batches, Notify(s, m)
      PROVE  TriggerInv'
  <2>1. /\ UNCHANGED <<teardown, flush, l1Run, l2Run>>
        /\ sessionStates' = [sessionStates EXCEPT ![s].conversation_count = @ + 1]
        /\ sessionTimers' = [sessionTimers EXCEPT ![s].l1RetryCount = 0]
        /\ activity' = [activity EXCEPT ![s] = "active"]
    BY <1>1 DEF Notify, l1Vars, l2Vars, lifeVars
  <2>2. \A t \in Sessions : /\ sessionTimers'[t].l2Schedule = sessionTimers[t].l2Schedule
                            /\ sessionTimers'[t].l2Queued = sessionTimers[t].l2Queued
    BY <1>0, <2>1 DEF SessionTimerState
  <2>3. \A t \in Sessions : t # s => sessionStates'[t] = sessionStates[t] /\ activity'[t] = activity[t]
    BY <1>0, <2>1
  <2>4. sessionStates'[s].conversation_count > 0
    BY <1>0, <2>1 DEF SessionState
  <2>5. \A t \in Sessions : t # s => Triggered(t)'
    BY <2>1, <2>2, <2>3, TriggerKept DEF TriggerInv
  <2>6. Triggered(s)'
    BY <2>4 DEF Triggered
  <2>7. SkipArmed'
    BY <1>a, <2>1, <2>2 DEF TriggerInv, SkipArmed, destroyed
  <2> QED BY <2>1, <2>5, <2>6, <2>7 DEF TriggerInv, destroyed
<1>2. ASSUME NEW s \in Sessions, NotifyBelowThreshold(s)
      PROVE  TriggerInv'
  <2> DEFINE evicted == IF notifyCounter' = 0 THEN {t \in Sessions : Evictable(t)} ELSE {}
  <2>1. /\ sessionStates' = [t \in Sessions |->
                               IF t \in evicted THEN NewState ELSE sessionStates[t]]
        /\ sessionTimers' = [t \in Sessions |->
                               IF t \in evicted THEN NewTimers
                               ELSE IF t = s
                               THEN [sessionTimers[t] EXCEPT !.l1Idle = TRUE]
                               ELSE sessionTimers[t]]
        /\ activity' = [t \in Sessions |->
                          IF t \in evicted THEN "active" ELSE activity[t]]
        /\ UNCHANGED <<teardown, flush, l1Run, l2Run>>
    BY <1>2 DEF NotifyBelowThreshold, l1Vars, l2Vars, lifeVars
  <2>2. \A t \in evicted : ~sessionTimers[t].l2Queued
    BY DEF Evictable
  <2> HIDE DEF evicted
  <2>3. ASSUME NEW t \in Sessions, t \in evicted
        PROVE  Triggered(t)'
    <3>1. sessionStates'[t].l2_pending_l1_count = 0
      BY <2>1, <2>3 DEF NewState
    <3> QED BY <3>1 DEF Triggered
  <2>4. ASSUME NEW t \in Sessions, t \notin evicted
        PROVE  /\ sessionTimers'[t].l2Schedule = sessionTimers[t].l2Schedule
               /\ sessionTimers'[t].l2Queued = sessionTimers[t].l2Queued
               /\ sessionStates'[t] = sessionStates[t] /\ activity'[t] = activity[t]
    <3>1. sessionStates'[t] = sessionStates[t] /\ activity'[t] = activity[t]
      BY <2>1, <2>4
    <3>2. sessionTimers'[t] \in {sessionTimers[t], [sessionTimers[t] EXCEPT !.l1Idle = TRUE]}
      BY <2>1, <2>4
    <3>3. sessionTimers[t] \in SessionTimerState
      BY <1>0
    <3> QED BY <3>1, <3>2, <3>3 DEF SessionTimerState
  <2>5. \A t \in Sessions : t \notin evicted => Triggered(t)'
    BY <2>1, <2>4, TriggerKept DEF TriggerInv
  <2>6. SkipArmed'
    BY <1>a, <2>1, <2>2, <2>4 DEF TriggerInv, SkipArmed, destroyed
  <2> QED BY <2>1, <2>3, <2>5, <2>6 DEF TriggerInv, destroyed
<1>3. ASSUME NEW s \in Sessions, NEW timers \in [Sessions -> SessionTimerState], EnqueueL1(s, timers),
             UNCHANGED <<teardown, flush, sessionStates, activity, l2Run>>,
             \A t \in Sessions : /\ timers[t].l2Schedule = sessionTimers[t].l2Schedule
                                 /\ timers[t].l2Queued = sessionTimers[t].l2Queued
      PROVE  TriggerInv'
  <2>1. /\ \A t \in Sessions : t # s => sessionTimers'[t] = timers[t]
        /\ sessionTimers'[s].l2Schedule = timers[s].l2Schedule
        /\ sessionTimers'[s].l2Queued = timers[s].l2Queued
        /\ l1Run.phase # "idle" => l1Run' = l1Run
    BY <1>0, <1>3, EnqueueL1Others
  <2>2. \A t \in Sessions : /\ sessionTimers'[t].l2Schedule = sessionTimers[t].l2Schedule
                            /\ sessionTimers'[t].l2Queued = sessionTimers[t].l2Queued
    BY <1>3, <2>1
  <2> QED BY <1>3, <1>a, <2>1, <2>2, TriggersKept
<1>4. ASSUME NEW s \in Sessions, NotifyAtThreshold(s)
      PROVE  TriggerInv'
  <2>1. EnqueueL1(s, sessionTimers) /\ UNCHANGED <<teardown, flush, sessionStates, activity, l2Run>>
    BY <1>4 DEF NotifyAtThreshold, l2Vars, lifeVars
  <2> QED BY <1>0, <1>3, <2>1
<1>5. ASSUME NEW s \in Sessions, L1IdleFires(s) \/ FlushSession(s)
      PROVE  TriggerInv'
  <2> DEFINE timers == [sessionTimers EXCEPT ![s].l1Idle = FALSE]
  <2>1. /\ EnqueueL1(s, timers) \/ (sessionTimers' = timers /\ UNCHANGED l1Run)
        /\ UNCHANGED <<teardown, flush, sessionStates, activity, l2Run>>
    BY <1>5 DEF L1IdleFires, FlushSession, l1Vars, l2Vars, lifeVars
  <2>2. \A t \in Sessions : /\ timers[t].l2Schedule = sessionTimers[t].l2Schedule
                            /\ timers[t].l2Queued = sessionTimers[t].l2Queued
    BY <1>0 DEF SessionTimerState
  <2>3. timers \in [Sessions -> SessionTimerState]
    BY <1>0, IdleClearedType
  <2> HIDE DEF timers
  <2>4. CASE EnqueueL1(s, timers)
    BY <1>3, <2>1, <2>2, <2>3, <2>4
  <2>5. CASE sessionTimers' = timers /\ UNCHANGED l1Run
    BY <1>a, <2>1, <2>2, <2>5, TriggersKept
  <2> QED BY <2>1, <2>4, <2>5
<1>6. ASSUME NEW s \in Sessions, GrowsCold(s)
      PROVE  TriggerInv'
  <2>1. /\ UNCHANGED <<teardown, flush, sessionStates, sessionTimers, l1Run, l2Run>>
        /\ \A t \in Sessions : t # s => activity'[t] = activity[t]
        /\ activity'[s] # "active"
    BY <1>0, <1>6 DEF GrowsCold, l1Vars, l2Vars, lifeVars
  <2>2. \A t \in Sessions : t # s => Triggered(t)'
    BY <2>1, TriggerKept DEF TriggerInv
  <2>3. Triggered(s)'
    BY <2>1 DEF Triggered
  <2> QED BY <2>1, <2>2, <2>3 DEF TriggerInv, SkipArmed, destroyed
<1>7. ASSUME NEW result \in L1Results, L1RunnerReturns(result)
      PROVE  TriggerInv'
  <2>0. PICK s : s = l1Run.session
    OBVIOUS
  <2>1. /\ UNCHANGED <<teardown, flush, activity, l2Run>> /\ l1Run.phase = "runner"
        /\ sessionTimers' = [sessionTimers EXCEPT ![s].l1RetryCount = 0]
        /\ l1Run' = [l1Run EXCEPT !.phase = "persist", !.batch = <<>>, !.result = result]
        /\ \A t \in Sessions : t # s => sessionStates'[t] = sessionStates[t]
    BY <1>0, <1>7, <2>0 DEF L1RunnerReturns, l2Vars, lifeVars
  <2>2. \A t \in Sessions : /\ sessionTimers'[t].l2Schedule = sessionTimers[t].l2Schedule
                            /\ sessionTimers'[t].l2Queued = sessionTimers[t].l2Queued
    BY <1>0, <2>1 DEF SessionTimerState
  <2>3. l1Run'.session = s /\ l1Run'.phase = "persist"
    BY <1>0, <2>0, <2>1 DEF L1RunType
  <2>4. \A t \in Sessions : t # s => Triggered(t)'
    BY <2>0, <2>1, <2>2, TriggerKept DEF TriggerInv
  <2>5. Triggered(s)'
    BY <2>3 DEF Triggered
  <2>6. SkipArmed'
    BY <1>a, <2>1, <2>2 DEF TriggerInv, SkipArmed, destroyed
  <2> QED BY <2>1, <2>4, <2>5, <2>6 DEF TriggerInv, destroyed
<1>8. CASE L1RunnerThrows
  <2>0. PICK s : s = l1Run.session
    OBVIOUS
  <2>1. /\ UNCHANGED <<teardown, flush, activity, sessionStates, l2Run>> /\ l1Run.phase = "runner"
        /\ \E r, i : sessionTimers' = [sessionTimers EXCEPT ![s].l1RetryCount = r, ![s].l1Idle = i,
                                                            ![s].l1Queued = FALSE]
    BY <1>8, <2>0 DEF L1RunnerThrows, l2Vars
  <2>2. \A t \in Sessions : /\ sessionTimers'[t].l2Schedule = sessionTimers[t].l2Schedule
                            /\ sessionTimers'[t].l2Queued = sessionTimers[t].l2Queued
    BY <1>0, <2>1 DEF SessionTimerState
  <2> QED BY <1>a, <2>1, <2>2, TriggersKept
<1>9. CASE L1Persisted
  <2>0. PICK s : s = l1Run.session
    OBVIOUS
  <2>1. /\ UNCHANGED <<teardown, flush, activity, sessionStates, l2Run>> /\ l1Run.phase = "persist"
        /\ \E schedule \in AdvanceL2Timer(sessionTimers[s].l2Schedule) : \E i :
             sessionTimers' = [sessionTimers EXCEPT ![s].l2Schedule = schedule, ![s].l1Idle = i,
                                                    ![s].l1Queued = FALSE]
    BY <1>9, <2>0 DEF L1Persisted, l2Vars
  <2>2. s \in Sessions
    BY <1>b, <2>0, <2>1
  <2>3. \A t \in Sessions : t # s => sessionTimers'[t] = sessionTimers[t]
    BY <1>0, <2>1
  <2>4. ~destroyed => sessionTimers'[s].l2Schedule # "none"
    BY <1>0, <2>1, <2>2 DEF SessionTimerState, AdvanceL2Timer
  <2>5. \A t \in Sessions : t # s => Triggered(t)'
    BY <2>0, <2>1, <2>3, TriggerKept DEF TriggerInv
  <2>6. Triggered(s)'
    BY <2>1, <2>4 DEF Triggered, destroyed
  <2>7. SkipArmed'
    BY <1>a, <2>1, <2>3, <2>4 DEF TriggerInv, SkipArmed, destroyed
  <2> QED BY <2>1, <2>5, <2>6, <2>7 DEF TriggerInv, destroyed
<1>10. ASSUME NEW s \in Sessions, L2TimerFires(s)
       PROVE  TriggerInv'
  <2>1. /\ UNCHANGED <<teardown, flush, activity, sessionStates, l1Run>>
        /\ ~(l2Run.session = s /\ l2Run.phase = "persist-skipped")
        /\ \/ /\ destroyed \/ Stops(s)
              /\ sessionTimers' = [sessionTimers EXCEPT ![s].l2Schedule = "none"]
              /\ UNCHANGED l2Run
           \/ EnqueueL2(s, sessionTimers)
    BY <1>10 DEF L2TimerFires, l1Vars, l2Vars, lifeVars
  <2>2. \A t \in Sessions : t # s => sessionTimers'[t] = sessionTimers[t]
    BY <1>0, <2>1, EnqueueL2Others
  <2>3. destroyed \/ activity[s] # "active" \/ sessionTimers'[s].l2Queued
    BY <1>0, <2>1, EnqueueL2Others DEF Stops
  <2>4. l2Run' = l2Run \/ l2Run'.phase # "persist-skipped"
    BY <2>1, EnqueueL2Skipped
  <2>5. \A t \in Sessions : t # s => Triggered(t)'
    BY <2>1, <2>2, TriggerKept DEF TriggerInv
  <2>6. Triggered(s)'
    BY <2>1, <2>3 DEF Triggered, destroyed
  <2>7. SkipArmed'
    BY <1>a, <2>1, <2>2, <2>4 DEF TriggerInv, SkipArmed, destroyed
  <2> QED BY <2>1, <2>5, <2>6, <2>7 DEF TriggerInv, destroyed
<1>11. CASE L2RunnerThrows \/ L2Persisted
  <2>0. PICK s : s = l2Run.session
    OBVIOUS
  <2>1. /\ UNCHANGED <<teardown, flush, activity, sessionStates, l1Run>> /\ l2Run.phase # "idle"
        /\ sessionTimers' = [sessionTimers EXCEPT ![s].l2Schedule = ArmL2MaxInterval(@),
                                                  ![s].l2Queued = FALSE]
        /\ DrainL2(l2Queue)
    BY <1>11, <2>0 DEF L2RunnerThrows, L2Persisted, l1Vars
  <2>2. s \in Sessions
    BY <1>a, <2>0, <2>1
  <2>3. ~destroyed => sessionTimers'[s].l2Schedule # "none"
    BY <1>0, <2>1, <2>2 DEF SessionTimerState, ArmL2MaxInterval
  <2>4. \A t \in Sessions : t # s => sessionTimers'[t] = sessionTimers[t]
    BY <1>0, <2>1
  <2> QED BY <2>1, <2>2, <2>3, <2>4, DrainNotSkipped, TriggerArmed
<1>12. CASE L2SkipPersisted
  <2>0. PICK s : s = l2Run.session
    OBVIOUS
  <2>1. /\ UNCHANGED <<teardown, flush, activity, sessionStates, l1Run>> /\ l2Run.phase = "persist-skipped"
        /\ sessionTimers' = [sessionTimers EXCEPT ![s].l2Queued = FALSE]
        /\ DrainL2(l2Queue)
    BY <1>12, <2>0 DEF L2SkipPersisted, l1Vars
  <2>2. s \in Sessions
    BY <1>a, <2>0, <2>1
  <2>3. sessionTimers'[s].l2Schedule = sessionTimers[s].l2Schedule
    BY <1>0, <2>1, <2>2 DEF SessionTimerState
  <2>4. ~destroyed => sessionTimers'[s].l2Schedule # "none"
    BY <2>0, <2>1, <2>3 DEF TriggerInv, SkipArmed
  <2>5. \A t \in Sessions : t # s => sessionTimers'[t] = sessionTimers[t]
    BY <1>0, <2>1
  <2> QED BY <2>1, <2>2, <2>4, <2>5, DrainNotSkipped, TriggerArmed
<1>13. CASE L2RunnerReturns \/ L2RunnerSkips
  <2>0. PICK s : s = l2Run.session
    OBVIOUS
  <2>1. /\ UNCHANGED <<teardown, flush, activity, l1Run>> /\ l2Run.phase = "runner"
        /\ sessionStates' = [sessionStates EXCEPT ![s].l2_pending_l1_count = 0]
        /\ \/ /\ UNCHANGED sessionTimers
              /\ l2Run' = [l2Run EXCEPT !.phase = "persist"]
           \/ /\ sessionTimers' = [sessionTimers EXCEPT ![s].l2Schedule = ArmL2MaxInterval(@)]
              /\ l2Run' = [l2Run EXCEPT !.phase = "persist-skipped"]
    BY <1>13, <2>0 DEF L2RunnerReturns, L2RunnerSkips, l1Vars, lifeVars
  <2>2. s \in Sessions
    BY <1>a, <2>0, <2>1
  <2>3. \A t \in Sessions : t # s => sessionTimers'[t] = sessionTimers[t] /\ sessionStates'[t] = sessionStates[t]
    BY <1>0, <2>1
  <2>4. sessionStates'[s].l2_pending_l1_count = 0
    BY <1>0, <2>1, <2>2 DEF SessionState
  <2>5. \A t \in Sessions : t # s => Triggered(t)'
    BY <2>1, <2>3, TriggerKept DEF TriggerInv
  <2>6. Triggered(s)'
    BY <2>4 DEF Triggered
  <2>7. SkipArmed'
    <3>1. CASE l2Run' = [l2Run EXCEPT !.phase = "persist"]
      <4>1. l2Run'.phase = "persist"
        BY <1>0, <3>1 DEF L2RunType
      <4> QED BY <4>1 DEF SkipArmed
    <3>2. CASE sessionTimers' = [sessionTimers EXCEPT ![s].l2Schedule = ArmL2MaxInterval(@)]
               /\ l2Run' = [l2Run EXCEPT !.phase = "persist-skipped"]
      <4>1. l2Run'.session = s
        BY <1>0, <2>0, <3>2 DEF L2RunType
      <4>2. ~destroyed => sessionTimers'[s].l2Schedule = "max-interval"
        BY <1>0, <2>2, <3>2 DEF SessionTimerState, ArmL2MaxInterval
      <4> QED BY <2>1, <4>1, <4>2 DEF SkipArmed, destroyed
    <3> QED BY <2>1, <3>1, <3>2
  <2> QED BY <2>1, <2>5, <2>6, <2>7 DEF TriggerInv, destroyed
<1>14. CASE Destroy \/ FlushL2Timers \/ FlushReturns \/ DestroyTimesOut
  <2>1. destroyed'
    BY <1>14 DEF Destroy, FlushL2Timers, FlushReturns, DestroyTimesOut, TriggerInv, destroyed
  <2> QED BY <2>1, DestroyedOwesNothing
<1>15. CASE L3Returns \/ UNCHANGED vars
  <2>1. UNCHANGED <<teardown, flush, activity, sessionStates, sessionTimers, l1Run, l2Run>>
    BY <1>15 DEF L3Returns, vars, pipelineVars, l1Vars, l2Vars, lifeVars
  <2> QED BY <1>a, <2>1, TriggersKept
<1> QED BY <1>1, <1>2, <1>4, <1>5, <1>6, <1>7, <1>8, <1>9, <1>10, <1>11, <1>12, <1>13, <1>14, <1>15 DEF Next

-----------------------------------------------------------------------------
(* The theorems *)

(* a recovered session with pending memories starts with its timer armed *)
LEMMA InitTriggers == Init => TriggerInv
<1> SUFFICES ASSUME Init PROVE TriggerInv
  OBVIOUS
<1>1. PICK K \in SUBSET Sessions : \E saved \in [K -> Restored] :
        /\ sessionStates = [s \in Sessions |->
                              IF s \in K THEN Recovered(saved[s]) ELSE NewState]
        /\ sessionTimers = [s \in Sessions |->
                              IF s \in K /\ HasPending(saved[s])
                              THEN [NewTimers EXCEPT !.l2Schedule = "delay-after-l1"]
                              ELSE NewTimers]
  BY DEF Init
<1>2. PICK saved \in [K -> Restored] :
        /\ sessionStates = [s \in Sessions |->
                              IF s \in K THEN Recovered(saved[s]) ELSE NewState]
        /\ sessionTimers = [s \in Sessions |->
                              IF s \in K /\ HasPending(saved[s])
                              THEN [NewTimers EXCEPT !.l2Schedule = "delay-after-l1"]
                              ELSE NewTimers]
  BY <1>1
<1>3. ASSUME NEW s \in Sessions
      PROVE  Triggered(s)
  <2>1. CASE s \notin K
    <3>1. sessionStates[s].l2_pending_l1_count = 0
      BY <1>2, <2>1 DEF NewState
    <3> QED BY <3>1 DEF Triggered
  <2>2. CASE s \in K /\ HasPending(saved[s])
    <3>1. sessionTimers[s].l2Schedule = "delay-after-l1"
      BY <1>2, <2>2 DEF NewTimers
    <3> QED BY <3>1 DEF Triggered
  <2>3. CASE s \in K /\ ~HasPending(saved[s])
    <3>1. saved[s].conversation_count = 0 /\ saved[s].l2_pending_l1_count = 0 /\ saved[s] \in SessionState
      BY <2>3, PipelineAssumption DEF HasPending
    <3>2. sessionStates[s] = Recovered(saved[s])
      BY <1>2, <2>3
    <3>3. sessionStates[s].l2_pending_l1_count = 0
      BY <3>1, <3>2 DEF Recovered, MaxOf, SessionState
    <3> QED BY <3>3 DEF Triggered
  <2> QED BY <2>1, <2>2, <2>3
<1>4. SkipArmed /\ (flush # "none" => destroyed)
  BY DEF Init, SkipArmed, L2Idle
<1> QED BY <1>3, <1>4 DEF TriggerInv

LEMMA InitWork == Init => NoLostWakeup /\ WorkInv /\ MessagesInv
<1> SUFFICES ASSUME Init PROVE NoLostWakeup /\ WorkInv /\ MessagesInv
  OBVIOUS
<1>1. NoLostWakeup
  BY DEF Init, NoLostWakeup
<1>2. PICK K \in SUBSET Sessions : \E saved \in [K -> Restored] :
        /\ known = K
        /\ sessionTimers = [s \in Sessions |->
                              IF s \in K /\ HasPending(saved[s])
                              THEN [NewTimers EXCEPT !.l2Schedule = "delay-after-l1"]
                              ELSE NewTimers]
  BY DEF Init
<1>3. \A s \in Sessions : s \in known \/ sessionTimers[s] = NewTimers
  BY <1>2
<1>4. \A s \in Sessions : messageBuffers[s] = <<>> /\ notifying[s] = <<>>
  BY DEF Init
<1>5. WorkInv
  BY <1>3, <1>4 DEF WorkInv, HasWork, NewTimers
<1>6. ASSUME NEW s \in Sessions
      PROVE  Unread(s) = Span(delivered[s], captured[s]) /\ delivered[s] <= captured[s]
  <2>1. InFlight(s) = <<>> /\ messageBuffers[s] = <<>> /\ delivered[s] = 0 /\ captured[s] = 0
    BY DEF Init, InFlight, L1Idle
  <2>2. Span(0, 0) = <<>>
    BY SpanIsSeq
  <2> QED BY <2>1, <2>2 DEF Unread
<1> QED BY <1>1, <1>5, <1>6 DEF MessagesInv

(* The inductive invariant of this module, on top of QueueInv. *)
PipelineInv == QueueInv /\ NoLostWakeup /\ WorkInv /\ MessagesInv /\ TriggerInv

THEOREM PipelineInvariant == Spec => []PipelineInv
<1>1. Init => PipelineInv
  BY InitQueueInv, InitWork, InitTriggers DEF PipelineInv
<1>2. PipelineInv /\ [Next]_vars => PipelineInv'
  <2> SUFFICES ASSUME PipelineInv, [Next]_vars PROVE PipelineInv'
    OBVIOUS
  <2>1. QueueInv /\ TypeOK
    BY DEF PipelineInv, QueueInv
  <2>2. QueueInv'
    <3>1. TypeOK'
      BY <2>1, NextTypeOK DEF QueueInv
    <3>2. L1Good' /\ L2Good'
      BY <2>1, NextFlags
    <3> QED BY <3>1, <3>2 DEF QueueInv, RunShape, L1Good, L2Good, L1Shape, L2Shape
  <2>3. NoLostWakeup' /\ WorkInv' /\ MessagesInv' /\ TriggerInv'
    BY <2>1, NextWakeups, NextWork, NextMessages, NextTriggers DEF PipelineInv
  <2> QED BY <2>2, <2>3 DEF PipelineInv
<1> QED BY <1>1, <1>2, PTL DEF Spec

(* Nobody sleeps on an idle queue: flushSession and the stages of _doFlush *)
(* wait only while a task runs whose end will wake them, whatever is       *)
(* enqueued, fails or is destroyed meanwhile.                              *)
THEOREM NoWakeupLost == Spec => []NoLostWakeup
<1>1. PipelineInv => NoLostWakeup
  BY DEF PipelineInv
<1> QED BY <1>1, PipelineInvariant, PTL

(* gcStaleSessions never deletes the state of a session that has a task, a *)
(* buffered message or an unfinished notification, so no task runs into    *)
(* "if (!state)".                                                          *)
THEOREM WorkKeepsState == Spec => []WorkHasState
<1>1. PipelineInv => WorkHasState
  BY DEF PipelineInv, WorkInv, HasWork, WorkHasState
<1> QED BY <1>1, PipelineInvariant, PTL

(* What L1 has not consumed of a session is its running batch followed by  *)
(* its buffer, every captured message once and in the order of capture,    *)
(* however often the runner fails and whatever is collected as garbage.    *)
THEOREM MessagesKeepOrder == Spec => []MessagesInOrder
<1>1. PipelineInv => MessagesInOrder
  BY DEF PipelineInv, MessagesInv, Unread, Span, MessagesInOrder
<1> QED BY <1>1, PipelineInvariant, PTL

(* Memories that L2 has not read always have a timer, a queued or running  *)
(* L2, or an L1 about to arm one, unless their session went cold or the    *)
(* manager was destroyed.                                                  *)
THEOREM MemoriesReachL2 == Spec => []PendingL2HasTrigger
<1>1. PipelineInv => PendingL2HasTrigger
  BY DEF PipelineInv, TriggerInv, Triggered, PendingL2HasTrigger
<1> QED BY <1>1, PipelineInvariant, PTL

=============================================================================
