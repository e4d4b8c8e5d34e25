--------------------------- MODULE ProfilesProofs ---------------------------
(***************************************************************************)
(* Proofs about MCProfiles, for every value of its constants: what Persona *)
(* promises of its counters and of the persona, and ProfileSync of what    *)
(* its hosts write over.                                                   *)
(***************************************************************************)
EXTENDS MCProfiles, FiniteSetTheorems, TLAPS

-----------------------------------------------------------------------------
(* The inductive invariant of ProfileSync *)

Docs == [there : BOOLEAN, text : SUBSET S!Edits, version : Nat, intact : BOOLEAN]
Deciding == {"llm", "query"}
HostRuns == [phase : Deciding \cup {"idle", "upsert", "delete"}, only : SUBSET Profiles,
             byUser : BOOLEAN, upserts : [Profiles -> Docs]]

RemoteTypes == remote \in [Profiles -> Docs]
CopyTypes == copies \in [Hosts -> [Profiles -> S!FileOf]]
BaselineTypes == baseline \in [Hosts -> [Profiles -> Docs]]
RunTypes == run \in [Hosts -> HostRuns]
CountTypes == /\ edits \in 0..MaxEdits /\ runs \in 0..MaxRuns /\ faults \in 0..MaxFaults
              /\ exempt \subseteq Profiles
SyncTypes == RemoteTypes /\ CopyTypes /\ BaselineTypes /\ RunTypes /\ CountTypes

\* A version is one more than the one it replaced: there are no more of them than
\* runs that are past their push.
Busy == {h \in Hosts : run[h].phase \in Deciding \cup {"upsert"}}
Past == runs - Cardinality(Busy)
VersionsCounted ==
  /\ IsFiniteSet(Busy) /\ Past \in 0..MaxRuns
  /\ \A p \in Profiles : remote[p].version <= Past
  /\ \A h \in Hosts, p \in Profiles : /\ baseline[h][p].version <= Past
                                      /\ run[h].upserts[p].version <= Past + 1

\* A version stands for a text: a run whose baseline has the version of the document
\* there is has seen what that says, a user's request has probed it.
BaselinesSeen ==
  /\ \A p \in Profiles : p \notin exempt /\ remote[p].there => remote[p].version # 0
  /\ \A h \in Hosts, p \in Profiles : p \notin exempt =>
       /\ baseline[h][p].version <= remote[p].version
       /\ /\ run[h].phase \in Deciding /\ p \in run[h].only
          /\ remote[p].there /\ remote[p].intact /\ baseline[h][p].version = remote[p].version
          => remote[p].text \subseteq copies[h][p].text \cup S!Probed(h, p)

\* What waits to be pushed is the next version, by somebody who has seen or probed this one.
UpsertsSeen ==
  \A h \in Hosts, p \in Profiles : p \notin exempt /\ run[h].upserts[p].there =>
    /\ run[h].upserts[p].version = remote[p].version + 1
    /\ remote[p].there /\ remote[p].intact =>
         remote[p].text \subseteq run[h].upserts[p].text \cup S!Probed(h, p)

SyncInv == SyncTypes /\ VersionsCounted /\ BaselinesSeen /\ UpsertsSeen

-----------------------------------------------------------------------------
(* ProfileSync: runs and their counting *)

LEMMA SyncBounds ==
  MaxEdits \in Nat /\ MaxRuns \in Nat /\ MaxFaults \in Nat
BY ProfilesAssumption DEF S!ProfileAssumption

LEMMA NothingIsDoc ==
  /\ S!NoDoc \in Docs /\ ~S!NoDoc.there /\ S!NoDoc.version = 0
  /\ S!Missing \in S!FileOf /\ S!Idle \in HostRuns /\ S!Idle.phase = "idle"
  /\ \A p \in Profiles : S!Idle.upserts[p] = S!NoDoc
BY DEF S!NoDoc, Docs, S!Missing, S!FileOf, S!Idle, HostRuns, Deciding

(* what a run or a request has when it begins *)
LEMMA RunBegunIs ==
  LET new == [S!Idle EXCEPT !.phase = "llm", !.only = Profiles] IN
  /\ new \in HostRuns /\ new.phase \in Deciding
  /\ \A q \in Profiles : new.upserts[q] = S!NoDoc
BY NothingIsDoc DEF S!Idle, HostRuns, Deciding

LEMMA RequestBegunIs ==
  ASSUME NEW p \in Profiles
  PROVE  LET new == [S!Idle EXCEPT !.phase = "query", !.only = {p}, !.byUser = TRUE] IN
         /\ new \in HostRuns /\ new.phase \in Deciding /\ new.only = {p} /\ new.byUser = TRUE
         /\ \A q \in Profiles : new.upserts[q] = S!NoDoc
BY NothingIsDoc DEF S!Idle, HostRuns, Deciding

(* what a request has probed stays *)
LEMMA ProbedStays ==
  ASSUME NEW h, NEW p, baseline'[h][p] = baseline[h][p], run'[h].byUser = run[h].byUser
  PROVE  S!Probed(h, p)' = S!Probed(h, p)
BY DEF S!Probed

LEMMA DocIs ==
  ASSUME NEW d \in Docs
  PROVE  d.there \in BOOLEAN /\ d.text \subseteq S!Edits /\ d.version \in Nat /\ d.intact \in BOOLEAN
BY DEF Docs

LEMMA FileIs ==
  ASSUME NEW f \in S!FileOf
  PROVE  f.there \in BOOLEAN /\ f.text \subseteq S!Edits
BY DEF S!FileOf

LEMMA HostRunIs ==
  ASSUME NEW r \in HostRuns
  PROVE  /\ r.phase \in Deciding \cup {"idle", "upsert", "delete"} /\ r.only \subseteq Profiles
         /\ r.upserts \in [Profiles -> Docs] /\ r.byUser \in BOOLEAN
BY DEF HostRuns

(* a host turns to something else *)
LEMMA RunBecomes ==
  ASSUME RunTypes, NEW h \in Hosts, NEW new \in HostRuns, run' = [run EXCEPT ![h] = new]
  PROVE  RunTypes' /\ run'[h] = new /\ \A g \in Hosts : g # h => run'[g] = run[g]
BY DEF RunTypes

(* a run begins *)
LEMMA BusyGrows ==
  ASSUME VersionsCounted, CountTypes, NEW h \in Hosts, run[h].phase = "idle",
         run'[h].phase \in Deciding, \A g \in Hosts : g # h => run'[g] = run[g],
         runs < MaxRuns, runs' = runs + 1
  PROVE  IsFiniteSet(Busy') /\ Past' = Past
<1>1. Busy' = Busy \cup {h} /\ h \notin Busy
  BY DEF Busy, Deciding
<1>2. IsFiniteSet(Busy) /\ Cardinality(Busy) \in Nat
  BY FS_CardinalityType DEF VersionsCounted
<1>3. IsFiniteSet(Busy') /\ Cardinality(Busy') = Cardinality(Busy) + 1
  BY <1>1, <1>2, FS_AddElement
<1> HIDE DEF Busy
<1>4. Past' = runs' - Cardinality(Busy')
  BY DEF Past
<1> QED BY <1>2, <1>3, <1>4, SyncBounds DEF Past, CountTypes

(* a run is past its push *)
LEMMA BusyShrinks ==
  ASSUME VersionsCounted, CountTypes, NEW h \in Hosts, run[h].phase \in Deciding \cup {"upsert"},
         run'[h].phase \in {"idle", "delete"}, \A g \in Hosts : g # h => run'[g] = run[g], runs' = runs
  PROVE  IsFiniteSet(Busy') /\ Past' = Past + 1 /\ Past' \in 0..MaxRuns
<1>1. Busy' = Busy \ {h} /\ h \in Busy
  BY DEF Busy, Deciding
<1>2. IsFiniteSet(Busy) /\ Cardinality(Busy) \in Nat
  BY FS_CardinalityType DEF VersionsCounted
<1>3. IsFiniteSet(Busy') /\ Cardinality(Busy') = Cardinality(Busy) - 1 /\ Cardinality(Busy') \in Nat
  BY <1>1, <1>2, FS_RemoveElement, FS_CardinalityType
<1>4. Past' = runs' - Cardinality(Busy')
  BY DEF Past
<1>5. runs \in 0..MaxRuns /\ Past \in 0..MaxRuns
  BY DEF CountTypes, VersionsCounted
<1> HIDE DEF Busy
<1> QED BY <1>2, <1>3, <1>4, <1>5, SyncBounds DEF Past

LEMMA BusyStays ==
  ASSUME \A g \in Hosts : run'[g].phase \in Deciding \cup {"upsert"} <=>
                             run[g].phase \in Deciding \cup {"upsert"},
         runs' = runs
  PROVE  Busy' = Busy /\ Past' = Past
<1>1. Busy' = Busy
  BY DEF Busy, Deciding
<1> QED BY <1>1 DEF Past

LEMMA FaultsCount ==
  ASSUME CountTypes, S!Fault \/ UNCHANGED faults
  PROVE  faults' \in 0..MaxFaults
BY SyncBounds DEF S!Fault, CountTypes

(* what a pull answers: the documents there are, or nothing *)
LEMMA PullIs ==
  ASSUME RemoteTypes, CountTypes, NEW records, S!PullProfiles(records)
  PROVE  /\ records \in [Profiles -> Docs] /\ faults' \in 0..MaxFaults
         /\ \A p \in Profiles : records[p] = remote[p] \/ records[p] = S!NoDoc
<1>1. [p \in Profiles |-> S!NoDoc] \in [Profiles -> Docs]
  BY NothingIsDoc
<1>2. CASE records = remote /\ UNCHANGED faults
  BY <1>2 DEF RemoteTypes, CountTypes
<1>3. CASE records = [p \in Profiles |-> S!NoDoc] /\ S!Fault
  BY <1>1, <1>3, FaultsCount
<1> QED BY <1>2, <1>3 DEF S!PullProfiles

-----------------------------------------------------------------------------
(* ProfileSync: its actions *)

LEMMA BeginSees ==
  ASSUME SyncInv, NEW h \in Hosts, S!Begin(h)
  PROVE  SyncInv'
<1> USE DEF SyncInv, SyncTypes
<1>1. PICK records \in {remote, [p \in Profiles |-> S!NoDoc]} :
        /\ S!PullProfiles(records) /\ baseline' = [baseline EXCEPT ![h] = records]
        /\ copies' = [copies EXCEPT ![h] = [p \in Profiles |-> S!Pulled(records[p], copies[h][p])]]
  BY DEF S!Begin
<1>2. /\ run[h].phase = "idle" /\ runs < MaxRuns /\ runs' = runs + 1
      /\ run' = [run EXCEPT ![h] = [S!Idle EXCEPT !.phase = "llm", !.only = Profiles]]
      /\ UNCHANGED <<remote, edits, exempt>>
  BY DEF S!Begin
<1>3. /\ records \in [Profiles -> Docs] /\ faults' \in 0..MaxFaults
      /\ \A p \in Profiles : records[p] = remote[p] \/ records[p] = S!NoDoc
  BY <1>1, PullIs
<1> DEFINE new == [S!Idle EXCEPT !.phase = "llm", !.only = Profiles]
<1>4. new \in HostRuns /\ new.phase \in Deciding /\ \A p \in Profiles : new.upserts[p] = S!NoDoc
  BY RunBegunIs
<1>5. run' = [run EXCEPT ![h] = new]
  BY <1>2
<1> HIDE DEF new
<1>6. /\ RunTypes' /\ run'[h] = new /\ \A g \in Hosts : g # h => run'[g] = run[g]
  BY <1>4, <1>5, RunBecomes
<1> DEFINE pulled == [p \in Profiles |-> S!Pulled(records[p], copies[h][p])]
<1>7. /\ pulled \in [Profiles -> S!FileOf]
      /\ \A p \in Profiles : records[p].there /\ records[p].intact => pulled[p].text = records[p].text
  <2>1. \A p \in Profiles : records[p] \in Docs /\ copies[h][p] \in S!FileOf
    BY <1>3 DEF CopyTypes
  <2>2. ASSUME NEW p \in Profiles
        PROVE  /\ S!Pulled(records[p], copies[h][p]) \in S!FileOf
               /\ records[p].there /\ records[p].intact =>
                    S!Pulled(records[p], copies[h][p]).text = records[p].text
    BY <2>1, NothingIsDoc DEF S!Pulled, S!FileOf, Docs
  <2> QED BY <2>2
<1> HIDE DEF pulled
<1>8. copies' = [copies EXCEPT ![h] = pulled]
  BY <1>1 DEF pulled
<1>9. /\ CopyTypes' /\ copies'[h] = pulled /\ \A g \in Hosts : g # h => copies'[g] = copies[g]
  BY <1>7, <1>8 DEF CopyTypes
<1>10. /\ BaselineTypes' /\ baseline'[h] = records /\ \A g \in Hosts : g # h => baseline'[g] = baseline[g]
  BY <1>1, <1>3 DEF BaselineTypes
<1>11. SyncTypes'
  BY <1>2, <1>3, <1>6, <1>9, <1>10, SyncBounds DEF RemoteTypes, CountTypes
<1>12. VersionsCounted'
  <2>1. IsFiniteSet(Busy') /\ Past' = Past
    BY <1>2, <1>4, <1>6, BusyGrows
  <2>2. \A p \in Profiles : records[p].version <= Past
    BY <1>3, NothingIsDoc DEF VersionsCounted
  <2>3. \A g \in Hosts, p \in Profiles : /\ baseline'[g][p].version <= Past
                                         /\ run'[g].upserts[p].version <= Past + 1
    BY <1>4, <1>6, <1>10, <2>2, NothingIsDoc, SyncBounds DEF VersionsCounted
  <2> HIDE DEF SyncInv, SyncTypes
  <2>4. Past \in 0..MaxRuns /\ \A p \in Profiles : remote'[p].version <= Past
    BY <1>2 DEF SyncInv, VersionsCounted
  <2> QED BY <2>1, <2>3, <2>4 DEF VersionsCounted
<1>13. BaselinesSeen'
  <2>1. ASSUME NEW p \in Profiles, p \notin exempt
        PROVE  /\ records[p].version <= remote[p].version
               /\ remote[p].there /\ remote[p].intact /\ records[p].version = remote[p].version
                    => remote[p].text \subseteq pulled[p].text
    <3>1. remote[p].version \in Nat /\ (remote[p].there => remote[p].version # 0)
      BY <2>1, DocIs DEF RemoteTypes, BaselinesSeen
    <3>2. CASE records[p] = remote[p]
      BY <1>7, <3>1, <3>2
    <3>3. CASE records[p] = S!NoDoc
      BY <3>1, <3>3, NothingIsDoc
    <3> QED BY <1>3, <3>2, <3>3
  <2>0. BaselinesSeen
    OBVIOUS
  <2> HIDE DEF SyncInv, SyncTypes
  <2>2. ASSUME NEW g \in Hosts, NEW p \in Profiles, p \notin exempt'
        PROVE  /\ baseline'[g][p].version <= remote'[p].version
               /\ /\ run'[g].phase \in Deciding /\ p \in run'[g].only
                  /\ remote'[p].there /\ remote'[p].intact /\ baseline'[g][p].version = remote'[p].version
                  => remote'[p].text \subseteq copies'[g][p].text \cup S!Probed(g, p)'
    <3>1. CASE g = h
      <4>1. baseline'[g] = records /\ copies'[g] = pulled /\ remote'[p] = remote[p] /\ p \notin exempt
        BY <1>2, <1>9, <1>10, <2>2, <3>1
      <4> QED BY <2>1, <4>1
    <3>2. CASE g # h
      <4>1. /\ baseline'[g] = baseline[g] /\ copies'[g] = copies[g] /\ run'[g] = run[g]
            /\ remote'[p] = remote[p] /\ p \notin exempt
        BY <1>2, <1>6, <1>9, <1>10, <2>2, <3>2
      <4>2. S!Probed(g, p)' = S!Probed(g, p)
        BY <4>1, ProbedStays
      <4> QED BY <2>0, <4>1, <4>2 DEF BaselinesSeen
    <3> QED BY <3>1, <3>2
  <2> QED BY <1>2, <2>0, <2>2 DEF BaselinesSeen
<1>14. UpsertsSeen'
  <2>1. ASSUME NEW g \in Hosts, NEW q \in Profiles, run'[g].upserts[q].there
        PROVE  run'[g] = run[g] /\ S!Probed(g, q)' = S!Probed(g, q)
    <3>1. g # h
      BY <1>4, <1>6, <2>1, NothingIsDoc
    <3>2. run'[g] = run[g] /\ baseline'[g][q] = baseline[g][q]
      BY <1>6, <1>10, <3>1
    <3> QED BY <3>2, ProbedStays
  <2>2. UpsertsSeen /\ UNCHANGED <<remote, exempt>>
    BY <1>2
  <2> HIDE DEF SyncInv, SyncTypes
  <2> QED BY <2>1, <2>2 DEF UpsertsSeen
<1> QED BY <1>11, <1>12, <1>13, <1>14


(* more runs are past their push, and versions are no more *)
LEMMA VersionsRise ==
  ASSUME SyncTypes, VersionsCounted, RemoteTypes', BaselineTypes', RunTypes',
         IsFiniteSet(Busy'), Past' \in {Past, Past + 1}, Past' \in 0..MaxRuns,
         \A p \in Profiles : remote'[p].version <= Past \/ remote'[p].version <= Past',
         \A g \in Hosts, p \in Profiles : baseline'[g][p].version <= Past,
         \A g \in Hosts, p \in Profiles : run'[g].upserts[p].version <= Past + 1
  PROVE  VersionsCounted'
<1>1. Past \in Nat /\ Past' \in Nat /\ Past <= Past' /\ Past + 1 <= Past' + 1
  BY SyncBounds DEF VersionsCounted
<1>2. /\ \A p \in Profiles : remote'[p].version \in Nat
      /\ \A g \in Hosts, p \in Profiles : /\ baseline'[g][p].version \in Nat
                                          /\ run'[g].upserts[p].version \in Nat
  BY DocIs, HostRunIs DEF RemoteTypes, BaselineTypes, RunTypes
<1>3. /\ \A p \in Profiles : remote'[p].version <= Past'
      /\ \A g \in Hosts, p \in Profiles : /\ baseline'[g][p].version <= Past'
                                          /\ run'[g].upserts[p].version <= Past' + 1
  BY <1>1, <1>2
<1> QED BY <1>3 DEF VersionsCounted


(* what an edit leaves: every text of the host, and more *)
LEMMA EditsSee ==
  ASSUME SyncInv, NEW h \in Hosts, S!LlmEdits(h)
  PROVE  SyncInv'
<1> USE DEF SyncInv, SyncTypes
<1>1. UNCHANGED <<remote, baseline, run, runs, faults, exempt>> /\ edits' \in 0..MaxEdits
  <2>1. UNCHANGED <<remote, baseline, run, runs, faults, exempt>>
    BY DEF S!LlmEdits
  <2>2. CASE edits < MaxEdits /\ edits' = edits + 1
    BY <2>1, <2>2, SyncBounds DEF CountTypes
  <2>3. CASE UNCHANGED edits
    BY <2>1, <2>3 DEF CountTypes
  <2> QED BY <2>1, <2>2, <2>3 DEF S!LlmEdits
<1>2. /\ CopyTypes'
      /\ \A g \in Hosts, p \in Profiles : copies[g][p].text \subseteq copies'[g][p].text
  <2> DEFINE old == copies[h]
  <2>0. /\ copies \in [Hosts -> [Profiles -> S!FileOf]] /\ old \in [Profiles -> S!FileOf]
        /\ \A p \in Profiles : old[p].text \subseteq S!Edits
    BY FileIs DEF CopyTypes
  <2> SUFFICES \E new \in [Profiles -> S!FileOf] :
                 /\ copies' = [copies EXCEPT ![h] = new]
                 /\ \A p \in Profiles : old[p].text \subseteq new[p].text
    BY <2>0 DEF CopyTypes
  <2>1. CASE /\ edits < MaxEdits
             /\ \E p \in Profiles :
                  copies' = [copies EXCEPT ![h][p] = [there |-> TRUE, text |-> @.text \cup {edits + 1}]]
    <3>1. PICK p \in Profiles :
            copies' = [copies EXCEPT ![h][p] = [there |-> TRUE, text |-> @.text \cup {edits + 1}]]
      BY <2>1
    <3> DEFINE file == [there |-> TRUE, text |-> old[p].text \cup {edits + 1}]
               new == [old EXCEPT ![p] = file]
    <3>2. file \in S!FileOf /\ old[p].text \subseteq file.text
      <4>1. edits + 1 \in S!Edits
        BY <2>1, SyncBounds DEF S!Edits, CountTypes
      <4> QED BY <2>0, <4>1 DEF S!FileOf
    <3>3. copies' = [copies EXCEPT ![h] = new]
      BY <2>0, <3>1
    <3> HIDE DEF file
    <3>4. new \in [Profiles -> S!FileOf] /\ \A q \in Profiles : old[q].text \subseteq new[q].text
      BY <2>0, <3>2
    <3> QED BY <3>3, <3>4
  <2>2. CASE \E p, q \in Profiles :
               /\ p # q /\ copies[h][p].there /\ copies[h][q].there
               /\ copies' = [copies EXCEPT ![h][p].there = FALSE, ![h][q].text = @ \cup copies[h][p].text]
    <3>1. PICK p, q \in Profiles :
               /\ p # q
               /\ copies' = [copies EXCEPT ![h][p].there = FALSE, ![h][q].text = @ \cup copies[h][p].text]
      BY <2>2
    <3> DEFINE gone == [old[p] EXCEPT !.there = FALSE]
               merged == [old[q] EXCEPT !.text = @ \cup old[p].text]
               new == [old EXCEPT ![p] = gone, ![q] = merged]
    <3>2. /\ gone \in S!FileOf /\ gone.text = old[p].text
          /\ merged \in S!FileOf /\ old[q].text \subseteq merged.text
      BY <2>0 DEF S!FileOf
    <3>3. copies' = [copies EXCEPT ![h] = new]
      BY <2>0, <3>1
    <3> HIDE DEF gone, merged
    <3>4. new \in [Profiles -> S!FileOf] /\ \A z \in Profiles : old[z].text \subseteq new[z].text
      BY <2>0, <3>1, <3>2
    <3> QED BY <3>3, <3>4
  <2> QED BY <2>1, <2>2 DEF S!LlmEdits
<1>3. SyncTypes'
  BY <1>1, <1>2 DEF RemoteTypes, BaselineTypes, RunTypes, CountTypes
<1>4. VersionsCounted'
  <2>1. Busy' = Busy /\ Past' = Past
    BY <1>1, BusyStays
  <2> QED BY <1>1, <2>1 DEF VersionsCounted
<1>5. BaselinesSeen' /\ UpsertsSeen'
  <2>0. \A g \in Hosts, p \in Profiles : S!Probed(g, p)' = S!Probed(g, p)
    BY <1>1, ProbedStays
  <2>1. BaselinesSeen'
    BY <1>1, <1>2, <2>0 DEF BaselinesSeen
  <2>2. UpsertsSeen'
    BY <1>1, <2>0 DEF UpsertsSeen
  <2> QED BY <2>1, <2>2
<1> QED BY <1>3, <1>4, <1>5

(* documents leave, or are no longer intact: nobody has to have seen those *)
LEMMA RemovalsSee ==
  ASSUME SyncTypes, BaselinesSeen, UpsertsSeen, SyncTypes', exempt \subseteq exempt',
         \A p \in Profiles : \/ remote'[p] = remote[p]
                             \/ p \in exempt' /\ ~remote'[p].there
                             \/ /\ remote'[p].version = remote[p].version /\ ~remote'[p].intact
                                /\ remote[p].there,
         \A g \in Hosts, p \in Profiles :
            /\ baseline'[g][p] = baseline[g][p]
            /\ run'[g].phase \in Deciding => run'[g] = run[g] /\ copies'[g][p] = copies[g][p]
            /\ run'[g] = run[g] \/ ~run'[g].upserts[p].there
  PROVE  BaselinesSeen' /\ UpsertsSeen'
<1>1. \A p \in Profiles : p \notin exempt' /\ remote'[p].there => remote'[p].version # 0
  BY DEF BaselinesSeen
<1>2. ASSUME NEW g \in Hosts, NEW p \in Profiles, p \notin exempt'
      PROVE  /\ baseline'[g][p].version <= remote'[p].version
             /\ /\ run'[g].phase \in Deciding /\ p \in run'[g].only
                /\ remote'[p].there /\ remote'[p].intact /\ baseline'[g][p].version = remote'[p].version
                => remote'[p].text \subseteq copies'[g][p].text \cup S!Probed(g, p)'
  <2>1. run'[g].phase \in Deciding => S!Probed(g, p)' = S!Probed(g, p)
    BY ProbedStays
  <2> QED BY <1>2, <2>1 DEF BaselinesSeen
<1>3. ASSUME NEW g \in Hosts, NEW p \in Profiles, p \notin exempt', run'[g].upserts[p].there
      PROVE  /\ run'[g].upserts[p].version = remote'[p].version + 1
             /\ remote'[p].there /\ remote'[p].intact =>
                  remote'[p].text \subseteq run'[g].upserts[p].text \cup S!Probed(g, p)'
  <2>1. run'[g] = run[g] /\ S!Probed(g, p)' = S!Probed(g, p)
    BY <1>3, ProbedStays
  <2> QED BY <1>3, <2>1 DEF UpsertsSeen
<1>4. BaselinesSeen'
  BY <1>1, <1>2 DEF BaselinesSeen
<1> QED BY <1>3, <1>4 DEF UpsertsSeen

LEMMA FailedRunSees ==
  ASSUME SyncInv, NEW h \in Hosts, S!RunFails(h)
  PROVE  SyncInv'
<1> USE DEF SyncInv, SyncTypes
<1>1. /\ run[h].phase = "llm" /\ S!Fault /\ run' = [run EXCEPT ![h] = S!Idle]
      /\ UNCHANGED <<remote, copies, baseline, edits, runs, exempt>>
  BY DEF S!RunFails
<1>2. /\ RunTypes' /\ run'[h] = S!Idle /\ \A g \in Hosts : g # h => run'[g] = run[g]
  BY <1>1, NothingIsDoc, RunBecomes
<1>3. SyncTypes'
  BY <1>1, <1>2, FaultsCount DEF RemoteTypes, CopyTypes, BaselineTypes, CountTypes
<1>4. VersionsCounted'
  <2>1. IsFiniteSet(Busy') /\ Past' = Past + 1 /\ Past' \in 0..MaxRuns
    BY <1>1, <1>2, NothingIsDoc, BusyShrinks DEF Deciding
  <2>2. \A g \in Hosts, p \in Profiles : run'[g].upserts[p].version <= Past + 1
    BY <1>2, NothingIsDoc, SyncBounds DEF VersionsCounted
  <2>3. /\ \A p \in Profiles : remote'[p].version <= Past
        /\ \A g \in Hosts, p \in Profiles : baseline'[g][p].version <= Past
    BY <1>1 DEF VersionsCounted
  <2>4. RemoteTypes' /\ BaselineTypes' /\ RunTypes'
    BY <1>3
  <2> HIDE DEF Past, SyncTypes, SyncInv
  <2> QED BY <2>1, <2>2, <2>3, <2>4, VersionsRise DEF SyncInv
<1>5. BaselinesSeen' /\ UpsertsSeen'
  <2>1. \A g \in Hosts, p \in Profiles :
          /\ baseline'[g][p] = baseline[g][p]
          /\ run'[g].phase \in Deciding => run'[g] = run[g] /\ copies'[g][p] = copies[g][p]
          /\ run'[g] = run[g] \/ ~run'[g].upserts[p].there
    BY <1>1, <1>2, NothingIsDoc DEF Deciding
  <2>2. remote' = remote /\ exempt' = exempt /\ BaselinesSeen /\ UpsertsSeen
    BY <1>1
  <2> HIDE DEF SyncInv, SyncTypes
  <2> QED BY <1>3, <2>1, <2>2, RemovalsSee DEF SyncInv
<1> QED BY <1>3, <1>4, <1>5


(* /v2/scenario/write, /v2/core/write: what is replaced was probed *)
LEMMA UserWriteSees ==
  ASSUME SyncInv, NEW h \in Hosts, NEW p \in Profiles, S!UserWrites(h, p)
  PROVE  SyncInv'
<1> USE DEF SyncInv, SyncTypes
<1>1. PICK records \in {remote, [q \in Profiles |-> S!NoDoc]} :
        S!PullProfiles(records) /\ baseline' = [baseline EXCEPT ![h][p] = records[p]]
  BY DEF S!UserWrites
<1>0. PICK known \in {{}, copies[h][p].text} :
        copies' = [copies EXCEPT ![h][p] = [there |-> TRUE, text |-> known \cup {edits + 1}]]
  BY DEF S!UserWrites
<1>2. /\ run[h].phase = "idle" /\ runs < MaxRuns /\ runs' = runs + 1
      /\ edits < MaxEdits /\ edits' = edits + 1
      /\ run' = [run EXCEPT ![h] = [S!Idle EXCEPT !.phase = "query", !.only = {p}, !.byUser = TRUE]]
      /\ UNCHANGED <<remote, exempt>>
  BY DEF S!UserWrites
<1>3. /\ records \in [Profiles -> Docs] /\ faults' \in 0..MaxFaults
      /\ \A q \in Profiles : records[q] = remote[q] \/ records[q] = S!NoDoc
  BY <1>1, PullIs
<1> DEFINE new == [S!Idle EXCEPT !.phase = "query", !.only = {p}, !.byUser = TRUE]
<1>4. /\ new \in HostRuns /\ new.phase \in Deciding /\ new.only = {p} /\ new.byUser = TRUE
      /\ \A q \in Profiles : new.upserts[q] = S!NoDoc
  BY RequestBegunIs
<1>5. run' = [run EXCEPT ![h] = new]
  BY <1>2
<1> HIDE DEF new
<1>6. /\ RunTypes' /\ run'[h] = new /\ \A g \in Hosts : g # h => run'[g] = run[g]
  BY <1>4, <1>5, RunBecomes
<1> DEFINE file == [there |-> TRUE, text |-> known \cup {edits + 1}]
<1>7. file \in S!FileOf
  <2>1. known \subseteq S!Edits
    BY FileIs DEF CopyTypes
  <2>2. edits + 1 \in S!Edits
    BY <1>2, SyncBounds DEF S!Edits, CountTypes
  <2> QED BY <2>1, <2>2 DEF S!FileOf
<1>8. copies' = [copies EXCEPT ![h] = [copies[h] EXCEPT ![p] = file]]
  BY <1>0 DEF CopyTypes
<1> HIDE DEF file
<1>9. /\ CopyTypes'
      /\ \A g \in Hosts : g # h => copies'[g] = copies[g]
  BY <1>7, <1>8 DEF CopyTypes
<1>10. /\ BaselineTypes' /\ baseline'[h][p] = records[p]
       /\ \A g \in Hosts, q \in Profiles : g # h \/ q # p => baseline'[g][q] = baseline[g][q]
  <2>1. baseline' = [baseline EXCEPT ![h] = [baseline[h] EXCEPT ![p] = records[p]]]
    BY <1>1 DEF BaselineTypes
  <2> QED BY <1>3, <2>1 DEF BaselineTypes
<1>11. SyncTypes'
  BY <1>2, <1>3, <1>6, <1>9, <1>10, SyncBounds DEF RemoteTypes, CountTypes
<1>12. VersionsCounted'
  <2>1. IsFiniteSet(Busy') /\ Past' = Past
    BY <1>2, <1>4, <1>6, BusyGrows
  <2>2. records[p].version <= Past
    BY <1>3, NothingIsDoc DEF VersionsCounted
  <2>3. \A g \in Hosts, q \in Profiles : /\ baseline'[g][q].version <= Past
                                         /\ run'[g].upserts[q].version <= Past + 1
    BY <1>4, <1>6, <1>10, <2>2, NothingIsDoc, SyncBounds DEF VersionsCounted
  <2> HIDE DEF SyncInv, SyncTypes
  <2>4. Past \in 0..MaxRuns /\ \A q \in Profiles : remote'[q].version <= Past
    BY <1>2 DEF SyncInv, VersionsCounted
  <2> QED BY <2>1, <2>3, <2>4 DEF VersionsCounted
<1>13. BaselinesSeen'
  <2>1. p \notin exempt =>
          /\ records[p].version <= remote[p].version
          /\ remote[p].there /\ remote[p].intact /\ records[p].version = remote[p].version
               => remote[p].text = records[p].text
    <3>1. remote[p].version \in Nat /\ (p \notin exempt /\ remote[p].there => remote[p].version # 0)
      BY DocIs DEF RemoteTypes, BaselinesSeen
    <3>2. CASE records[p] = remote[p]
      BY <3>1, <3>2
    <3>3. CASE records[p] = S!NoDoc
      BY <3>1, <3>3, NothingIsDoc
    <3> QED BY <1>3, <3>2, <3>3
  <2>0. BaselinesSeen
    OBVIOUS
  <2> HIDE DEF SyncInv, SyncTypes
  <2>2. ASSUME NEW g \in Hosts, NEW q \in Profiles, q \notin exempt'
        PROVE  /\ baseline'[g][q].version <= remote'[q].version
               /\ /\ run'[g].phase \in Deciding /\ q \in run'[g].only
                  /\ remote'[q].there /\ remote'[q].intact /\ baseline'[g][q].version = remote'[q].version
                  => remote'[q].text \subseteq copies'[g][q].text \cup S!Probed(g, q)'
    <3>1. CASE g = h /\ q = p
      <4>1. S!Probed(g, q)' = records[p].text
        BY <1>4, <1>6, <1>10, <3>1 DEF S!Probed
      <4> QED BY <1>2, <1>10, <2>1, <2>2, <3>1, <4>1
    <3>2. CASE g = h /\ q # p
      BY <1>2, <1>4, <1>6, <1>10, <2>0, <2>2, <3>2 DEF BaselinesSeen
    <3>3. CASE g # h
      <4>1. /\ baseline'[g][q] = baseline[g][q] /\ copies'[g] = copies[g] /\ run'[g] = run[g]
            /\ remote'[q] = remote[q] /\ q \notin exempt
        BY <1>2, <1>6, <1>9, <1>10, <2>2, <3>3
      <4>2. S!Probed(g, q)' = S!Probed(g, q)
        BY <4>1, ProbedStays
      <4> QED BY <2>0, <4>1, <4>2 DEF BaselinesSeen
    <3> QED BY <3>1, <3>2, <3>3
  <2> QED BY <1>2, <2>0, <2>2 DEF BaselinesSeen
<1>14. UpsertsSeen'
  <2>1. ASSUME NEW g \in Hosts, NEW q \in Profiles, run'[g].upserts[q].there
        PROVE  run'[g] = run[g] /\ S!Probed(g, q)' = S!Probed(g, q)
    <3>1. g # h
      BY <1>4, <1>6, <2>1, NothingIsDoc
    <3>2. run'[g] = run[g] /\ baseline'[g][q] = baseline[g][q]
      BY <1>6, <1>10, <3>1
    <3> QED BY <3>2, ProbedStays
  <2>2. UpsertsSeen /\ UNCHANGED <<remote, exempt>>
    BY <1>2
  <2> HIDE DEF SyncInv, SyncTypes
  <2> QED BY <2>1, <2>2 DEF UpsertsSeen
<1> QED BY <1>11, <1>12, <1>13, <1>14

(* /v2/scenario/rm *)
LEMMA UserRemovalSees ==
  ASSUME SyncInv, NEW h \in Hosts, NEW p \in Profiles, S!UserRemoves(h, p)
  PROVE  SyncInv'
<1> USE DEF SyncInv, SyncTypes
<1>1. /\ run[h].phase = "idle" /\ runs < MaxRuns /\ runs' = runs + 1
      /\ copies' = [copies EXCEPT ![h][p] = S!Missing]
      /\ UNCHANGED <<baseline, run, edits>> /\ faults' \in 0..MaxFaults
      /\ \/ remote' = [remote EXCEPT ![p] = S!NoDoc] /\ exempt' = exempt \cup {p}
         \/ UNCHANGED <<remote, exempt>>
  BY FaultsCount DEF S!UserRemoves
<1>2. /\ CopyTypes' /\ \A g \in Hosts : g # h => copies'[g] = copies[g]
  <2>1. copies' = [copies EXCEPT ![h] = [copies[h] EXCEPT ![p] = S!Missing]]
    BY <1>1 DEF CopyTypes
  <2> QED BY <2>1, NothingIsDoc DEF CopyTypes
<1>3. /\ RemoteTypes' /\ exempt \subseteq exempt' /\ exempt' \subseteq Profiles
      /\ \A q \in Profiles : remote'[q] = remote[q] \/ (q \in exempt' /\ remote'[q] = S!NoDoc)
  BY <1>1, NothingIsDoc DEF RemoteTypes, CountTypes
<1>4. SyncTypes'
  BY <1>1, <1>2, <1>3, SyncBounds DEF BaselineTypes, RunTypes, CountTypes
<1>5. VersionsCounted'
  <2>1. Busy' = Busy /\ Cardinality(Busy) \in Nat /\ IsFiniteSet(Busy)
    BY <1>1, FS_CardinalityType DEF Busy, VersionsCounted
  <2>2. Past' = runs' - Cardinality(Busy)
    BY <2>1 DEF Past
  <2>3. Past' = Past + 1 /\ Past' \in 0..MaxRuns
    <3> HIDE DEF Busy
    <3>1. runs \in 0..MaxRuns /\ Past \in 0..MaxRuns /\ Past = runs - Cardinality(Busy)
      BY DEF Past, CountTypes, VersionsCounted
    <3> QED BY <1>1, <2>1, <2>2, <3>1, SyncBounds
  <2>4. /\ \A q \in Profiles : remote'[q].version <= Past
        /\ \A g \in Hosts, q \in Profiles : /\ baseline'[g][q].version <= Past
                                            /\ run'[g].upserts[q].version <= Past + 1
    BY <1>1, <1>3, NothingIsDoc, SyncBounds DEF VersionsCounted
  <2>5. RemoteTypes' /\ BaselineTypes' /\ RunTypes' /\ IsFiniteSet(Busy')
    BY <1>4, <2>1
  <2> HIDE DEF Past, Busy, SyncTypes, SyncInv
  <2> QED BY <2>3, <2>4, <2>5, VersionsRise DEF SyncInv
<1>6. BaselinesSeen' /\ UpsertsSeen'
  <2>1. \A g \in Hosts, q \in Profiles :
            /\ baseline'[g][q] = baseline[g][q]
            /\ run'[g].phase \in Deciding => run'[g] = run[g] /\ copies'[g][q] = copies[g][q]
            /\ run'[g] = run[g] \/ ~run'[g].upserts[q].there
    BY <1>1, <1>2 DEF Deciding
  <2> HIDE DEF SyncTypes, SyncInv
  <2> QED BY <1>3, <1>4, <2>1, NothingIsDoc, RemovalsSee DEF SyncInv
<1> QED BY <1>4, <1>5, <1>6


(* the documents there are, compared with what the run would push *)
LEMMA QueriesSee ==
  ASSUME SyncInv, NEW h \in Hosts, S!Queries(h)
  PROVE  SyncInv'
<1> USE DEF SyncInv, SyncTypes
<1>1. /\ run[h].phase \in Deciding /\ UNCHANGED <<remote, copies, baseline, edits, runs, exempt>>
      /\ faults' \in 0..MaxFaults
  BY FaultsCount DEF S!Queries, CountTypes, Deciding
<1> DEFINE next == [p \in Profiles |-> IF p \in S!Accepted(h) THEN S!NextDoc(h, p) ELSE S!NoDoc]
           asks == [run[h] EXCEPT !.phase = "upsert", !.upserts = next]
           fails == [run[h] EXCEPT !.phase = "delete"]
<1>2. run[h] \in HostRuns /\ RemoteTypes /\ CopyTypes
  BY DEF RunTypes
<1>3. /\ next \in [Profiles -> Docs]
      /\ \A p \in Profiles :
           /\ next[p].version <= Past + 1
           /\ next[p].there => /\ p \in S!Accepted(h) /\ next[p].version = remote[p].version + 1
                               /\ next[p].text = copies[h][p].text
  <2> SUFFICES ASSUME NEW p \in Profiles
               PROVE  /\ next[p] \in Docs /\ next[p].version <= Past + 1
                      /\ next[p].there => /\ p \in S!Accepted(h) /\ next[p].version = remote[p].version + 1
                                          /\ next[p].text = copies[h][p].text
    OBVIOUS
  <2>1. /\ remote[p].version \in Nat /\ remote[p].version <= Past /\ Past \in Nat
        /\ copies[h][p].text \subseteq S!Edits
    BY <1>2, DocIs, FileIs, SyncBounds DEF RemoteTypes, CopyTypes, VersionsCounted
  <2>2. CASE p \in S!Accepted(h)
    <3>1. next[p] = [there |-> TRUE, text |-> copies[h][p].text, version |-> remote[p].version + 1,
                     intact |-> TRUE]
      BY <2>2 DEF S!NextDoc
    <3> HIDE DEF next
    <3>2. next[p] \in Docs
      BY <2>1, <3>1 DEF Docs
    <3> QED BY <2>1, <2>2, <3>1, <3>2
  <2>3. CASE p \notin S!Accepted(h)
    <3>1. next[p] = S!NoDoc
      BY <2>3
    <3> HIDE DEF next
    <3> QED BY <2>1, <3>1, NothingIsDoc
  <2> QED BY <2>2, <2>3
<1>4. /\ asks \in HostRuns /\ asks.phase = "upsert" /\ asks.upserts = next
      /\ fails \in HostRuns /\ fails.phase = "delete" /\ fails.upserts = run[h].upserts
      /\ asks.byUser = run[h].byUser /\ fails.byUser = run[h].byUser
  <2> HIDE DEF next
  <2> QED BY <1>2, <1>3 DEF HostRuns
<1>5. run' = [run EXCEPT ![h] = asks] \/ run' = [run EXCEPT ![h] = fails]
  <2>1. CASE run' = [run EXCEPT ![h].phase = "upsert", ![h].upserts = next]
    BY <2>1 DEF RunTypes
  <2>2. CASE run' = [run EXCEPT ![h].phase = "delete"]
    BY <2>2 DEF RunTypes
  <2> QED BY <2>1, <2>2 DEF S!Queries
<1> HIDE DEF asks, fails, next
<1>6. /\ RunTypes' /\ run'[h] \in {asks, fails} /\ \A g \in Hosts : g # h => run'[g] = run[g]
  <2>1. CASE run' = [run EXCEPT ![h] = asks]
    BY <1>4, <2>1, RunBecomes
  <2>2. CASE run' = [run EXCEPT ![h] = fails]
    BY <1>4, <2>2, RunBecomes
  <2> QED BY <1>5, <2>1, <2>2
<1>7. SyncTypes'
  BY <1>1, <1>6 DEF RemoteTypes, CopyTypes, BaselineTypes, CountTypes
<1>8. VersionsCounted'
  <2>1. IsFiniteSet(Busy') /\ Past' \in {Past, Past + 1} /\ Past' \in 0..MaxRuns
    <3>1. CASE run'[h] = asks
      <4>1. Busy' = Busy /\ Past' = Past
        BY <1>1, <1>4, <1>6, <3>1, BusyStays DEF Deciding
      <4> QED BY <4>1 DEF VersionsCounted
    <3>2. CASE run'[h] = fails
      BY <1>1, <1>4, <1>6, <3>2, BusyShrinks
    <3> QED BY <1>6, <3>1, <3>2
  <2>2. \A g \in Hosts, p \in Profiles : run'[g].upserts[p].version <= Past + 1
    BY <1>3, <1>4, <1>6 DEF VersionsCounted
  <2>3. /\ \A p \in Profiles : remote'[p].version <= Past
        /\ \A g \in Hosts, p \in Profiles : baseline'[g][p].version <= Past
    BY <1>1 DEF VersionsCounted
  <2>4. RemoteTypes' /\ BaselineTypes' /\ RunTypes'
    BY <1>7
  <2> HIDE DEF Past, Busy, SyncTypes, SyncInv
  <2> QED BY <2>1, <2>2, <2>3, <2>4, VersionsRise DEF SyncInv
<1>0. \A g \in Hosts, p \in Profiles : S!Probed(g, p)' = S!Probed(g, p)
  BY <1>1, <1>4, <1>6, ProbedStays
<1>9. BaselinesSeen'
  <2>1. \A g \in Hosts : run'[g].phase \in Deciding => run'[g] = run[g]
    BY <1>4, <1>6 DEF Deciding
  <2>2. BaselinesSeen /\ UNCHANGED <<remote, copies, baseline, exempt>>
    BY <1>1
  <2> HIDE DEF SyncInv, SyncTypes
  <2> QED BY <1>0, <2>1, <2>2 DEF BaselinesSeen
<1>10. UpsertsSeen'
  <2>1. ASSUME NEW p \in Profiles, p \notin exempt, next[p].there, remote[p].there, remote[p].intact
        PROVE  remote[p].text \subseteq next[p].text \cup S!Probed(h, p)
    <3>1. p \in S!Accepted(h) /\ next[p].text = copies[h][p].text
      BY <1>3, <2>1
    <3>2. p \in run[h].only /\ baseline[h][p].version = remote[p].version
      BY <2>1, <3>1 DEF S!Accepted, S!Changed, S!VersionHeld
    <3> QED BY <1>1, <2>1, <3>1, <3>2 DEF BaselinesSeen
  <2>2. ASSUME NEW g \in Hosts, NEW p \in Profiles, p \notin exempt, run'[g].upserts[p].there
        PROVE  /\ run'[g].upserts[p].version = remote[p].version + 1
               /\ remote[p].there /\ remote[p].intact =>
                    remote[p].text \subseteq run'[g].upserts[p].text \cup S!Probed(g, p)
    <3>1. CASE g = h /\ run'[h] = asks
      BY <1>3, <1>4, <2>1, <2>2, <3>1
    <3>2. CASE g # h \/ run'[h] = fails
      BY <1>4, <1>6, <2>2, <3>2 DEF UpsertsSeen
    <3> QED BY <1>6, <3>1, <3>2
  <2> QED BY <1>0, <1>1, <2>2 DEF UpsertsSeen
<1> QED BY <1>7, <1>8, <1>9, <1>10


(* the documents that were compared are replaced by their next versions *)
LEMMA UpsertsSee ==
  ASSUME SyncInv, NEW h \in Hosts, S!Upserts(h)
  PROVE  SyncInv' /\ S!SeenBeforeReplaced
<1> DEFINE new == run[h].upserts
           changed == {p \in Profiles : new[p].there}
           after == [S!Idle EXCEPT !.phase = "delete", !.only = run[h].only]
<1>1. /\ run[h].phase = "upsert" /\ run' = [run EXCEPT ![h] = after]
      /\ UNCHANGED <<copies, baseline, edits, runs>> /\ faults' \in 0..MaxFaults
      /\ \/ /\ remote' = [p \in Profiles |-> IF p \in changed THEN new[p] ELSE remote[p]]
            /\ exempt' = exempt \cup S!StaleAfter(h, changed)
         \/ UNCHANGED <<remote, exempt>>
  BY FaultsCount DEF S!Upserts, SyncInv, SyncTypes, CountTypes
<1>2. /\ RemoteTypes /\ RunTypes /\ new \in [Profiles -> Docs] /\ run[h] \in HostRuns
  BY HostRunIs DEF SyncInv, SyncTypes, RunTypes
<1>3. /\ after \in HostRuns /\ after.phase = "delete"
      /\ \A p \in Profiles : after.upserts[p] = S!NoDoc
  BY <1>2, NothingIsDoc, HostRunIs DEF S!Idle, HostRuns
<1> HIDE DEF after
<1>4. /\ RunTypes' /\ run'[h] = after /\ \A g \in Hosts : g # h => run'[g] = run[g]
  BY <1>1, <1>2, <1>3, RunBecomes
<1>5. /\ remote' \in [Profiles -> Docs] /\ exempt \subseteq exempt' /\ exempt' \subseteq Profiles
      /\ \A p \in Profiles :
           remote'[p] = remote[p] \/ (/\ new[p].there /\ remote'[p] = new[p]
                                      /\ p \notin exempt' => p \notin S!StaleAfter(h, changed))
  <2>0. exempt \subseteq Profiles
    BY DEF SyncInv, SyncTypes, CountTypes
  <2>1. CASE UNCHANGED <<remote, exempt>>
    BY <1>2, <2>0, <2>1 DEF RemoteTypes
  <2>2. CASE /\ remote' = [p \in Profiles |-> IF p \in changed THEN new[p] ELSE remote[p]]
             /\ exempt' = exempt \cup S!StaleAfter(h, changed)
    <3>1. S!StaleAfter(h, changed) \subseteq Profiles
      BY DEF S!StaleAfter
    <3> QED BY <1>2, <2>0, <2>2, <3>1 DEF RemoteTypes
  <2> QED BY <1>1, <2>1, <2>2
<1>6. SyncTypes'
  BY <1>1, <1>4, <1>5 DEF SyncInv, SyncTypes, RemoteTypes, CopyTypes, BaselineTypes, CountTypes
(* a push that nobody else is about to repeat, by somebody who has seen what was there *)
<1>7. ASSUME NEW p \in Profiles, p \notin exempt', remote'[p] # remote[p]
      PROVE  /\ remote'[p].there /\ remote'[p].version = remote[p].version + 1
             /\ remote[p].there /\ remote[p].intact =>
                  remote[p].text \subseteq remote'[p].text \cup S!Probed(h, p)
             /\ \A g \in Hosts : g # h => ~run[g].upserts[p].there
  <2>1. new[p].there /\ remote'[p] = new[p] /\ p \notin S!StaleAfter(h, changed) /\ p \notin exempt
    BY <1>5, <1>7
  <2>2. /\ new[p].version = remote[p].version + 1
        /\ remote[p].there /\ remote[p].intact =>
             remote[p].text \subseteq new[p].text \cup S!Probed(h, p)
    BY <2>1 DEF SyncInv, UpsertsSeen
  <2>3. \A g \in Hosts : g # h => ~run[g].upserts[p].there
    BY <2>1 DEF S!StaleAfter
  <2> QED BY <2>1, <2>2, <2>3
<1>8. VersionsCounted'
  <2>1. IsFiniteSet(Busy') /\ Past' = Past + 1 /\ Past' \in 0..MaxRuns
    BY <1>1, <1>3, <1>4, BusyShrinks DEF SyncInv, SyncTypes, Deciding
  <2>2. \A g \in Hosts, p \in Profiles : run'[g].upserts[p].version <= Past + 1
    BY <1>3, <1>4, NothingIsDoc, SyncBounds DEF SyncInv, VersionsCounted
  <2>3. /\ \A p \in Profiles : remote'[p].version <= Past \/ remote'[p].version <= Past + 1
        /\ \A g \in Hosts, p \in Profiles : baseline'[g][p].version <= Past
    BY <1>1, <1>5 DEF SyncInv, VersionsCounted
  <2>4. RemoteTypes' /\ BaselineTypes' /\ RunTypes'
    BY <1>6 DEF SyncTypes
  <2>5. SyncTypes /\ VersionsCounted
    BY DEF SyncInv
  <2> HIDE DEF Past, Busy
  <2> QED BY <2>1, <2>2, <2>3, <2>4, <2>5, VersionsRise
<1>9. BaselinesSeen'
  <2>0. /\ \A p \in Profiles : remote[p].version \in Nat
        /\ \A g \in Hosts, p \in Profiles : baseline[g][p].version \in Nat
    BY DocIs DEF SyncInv, SyncTypes, RemoteTypes, BaselineTypes
  <2>1. ASSUME NEW p \in Profiles, p \notin exempt', remote'[p].there
        PROVE  remote'[p].version # 0
    BY <1>5, <1>7, <2>0, <2>1 DEF SyncInv, BaselinesSeen
  <2>2. ASSUME NEW g \in Hosts, NEW p \in Profiles, p \notin exempt'
        PROVE  /\ baseline'[g][p].version <= remote'[p].version
               /\ /\ run'[g].phase \in Deciding /\ p \in run'[g].only
                  /\ remote'[p].there /\ remote'[p].intact /\ baseline'[g][p].version = remote'[p].version
                  => remote'[p].text \subseteq copies'[g][p].text \cup S!Probed(g, p)'
    <3>1. p \notin exempt /\ baseline[g][p].version <= remote[p].version
      BY <1>5, <2>2 DEF SyncInv, BaselinesSeen
    <3>2. CASE remote'[p] = remote[p]
      <4>1. CASE g = h
        BY <1>1, <1>3, <1>4, <3>1, <3>2, <4>1 DEF Deciding
      <4>2. CASE g # h
        <5>1. S!Probed(g, p)' = S!Probed(g, p)
          BY <1>1, <1>4, <4>2, ProbedStays
        <5> QED BY <1>1, <1>4, <3>1, <3>2, <4>2, <5>1 DEF SyncInv, BaselinesSeen
      <4> QED BY <4>1, <4>2
    <3>3. CASE remote'[p] # remote[p]
      <4>1. remote'[p].version = remote[p].version + 1
        BY <1>7, <2>2, <3>3
      <4> QED BY <1>1, <2>0, <3>1, <4>1
    <3> QED BY <3>2, <3>3
  <2> QED BY <2>1, <2>2 DEF BaselinesSeen
<1>10. UpsertsSeen'
  <2>1. ASSUME NEW g \in Hosts, NEW p \in Profiles, p \notin exempt', run'[g].upserts[p].there
        PROVE  /\ p \notin exempt /\ remote'[p] = remote[p] /\ run'[g].upserts = run[g].upserts
               /\ S!Probed(g, p)' = S!Probed(g, p)
    <3>1. g # h
      BY <1>3, <1>4, <2>1, NothingIsDoc
    <3>2. p \notin exempt /\ remote'[p] = remote[p] /\ run'[g] = run[g]
      BY <1>4, <1>5, <1>7, <2>1, <3>1
    <3> QED BY <1>1, <3>2, ProbedStays
  <2> QED BY <2>1 DEF SyncInv, UpsertsSeen
<1>11. S!SeenBeforeReplaced
  <2>1. ASSUME NEW p \in Profiles, remote[p].there, remote[p].intact, p \notin exempt'
        PROVE  remote[p].text \subseteq remote'[p].text \cup S!Probed(h, p)
    BY <1>7, <2>1
  <2>2. h \in S!Pushing
    BY <1>1, <1>3, <1>4 DEF S!Pushing
  <2>3. \A p \in Profiles : S!Probed(h, p) \subseteq UNION {S!Probed(g, p) : g \in S!Pushing}
    BY <2>2
  <2> QED BY <2>1, <2>3 DEF S!SeenBeforeReplaced
<1> QED BY <1>6, <1>8, <1>9, <1>10, <1>11 DEF SyncInv

(* what the run no longer has goes, whatever it has become *)
LEMMA DeletesSee ==
  ASSUME SyncInv, NEW h \in Hosts, S!Deletes(h)
  PROVE  SyncInv'
<1>1. /\ run[h].phase = "delete" /\ run' = [run EXCEPT ![h] = S!Idle]
      /\ UNCHANGED <<copies, baseline, edits, runs>> /\ faults' \in 0..MaxFaults
      /\ \/ /\ remote' = [p \in Profiles |-> IF p \in S!Stale(h) THEN S!NoDoc ELSE remote[p]]
            /\ exempt' = exempt \cup S!Stale(h)
         \/ UNCHANGED <<remote, exempt>>
  BY FaultsCount DEF S!Deletes, SyncInv, SyncTypes, CountTypes
<1>2. RemoteTypes /\ RunTypes /\ S!Stale(h) \subseteq Profiles
  BY HostRunIs DEF SyncInv, SyncTypes, RunTypes, S!Stale
<1>3. /\ RunTypes' /\ run'[h] = S!Idle /\ \A g \in Hosts : g # h => run'[g] = run[g]
  BY <1>1, <1>2, NothingIsDoc, RunBecomes
<1>4. /\ remote' \in [Profiles -> Docs] /\ exempt \subseteq exempt' /\ exempt' \subseteq Profiles
      /\ \A p \in Profiles : remote'[p] = remote[p] \/ (p \in exempt' /\ remote'[p] = S!NoDoc)
  <2>0. exempt \subseteq Profiles
    BY DEF SyncInv, SyncTypes, CountTypes
  <2> QED BY <1>1, <1>2, <2>0, NothingIsDoc DEF RemoteTypes
<1>5. SyncTypes'
  BY <1>1, <1>3, <1>4 DEF SyncInv, SyncTypes, RemoteTypes, CopyTypes, BaselineTypes, CountTypes
<1>6. VersionsCounted'
  <2>1. Busy' = Busy /\ Past' = Past
    BY <1>1, <1>3, NothingIsDoc, BusyStays DEF Deciding
  <2>2. /\ IsFiniteSet(Busy) /\ Past \in 0..MaxRuns
        /\ \A p \in Profiles : remote[p].version <= Past
        /\ \A g \in Hosts, p \in Profiles : /\ baseline[g][p].version <= Past
                                            /\ run[g].upserts[p].version <= Past + 1
    BY DEF SyncInv, VersionsCounted
  <2>3. \A g \in Hosts, p \in Profiles : run'[g].upserts[p].version <= Past + 1
    BY <1>3, <2>2, NothingIsDoc, SyncBounds
  <2>4. \A p \in Profiles : remote'[p].version <= Past
    BY <1>4, <2>2, NothingIsDoc, SyncBounds
  <2> HIDE DEF Past, Busy
  <2> QED BY <1>1, <2>1, <2>2, <2>3, <2>4 DEF VersionsCounted
<1>7. BaselinesSeen' /\ UpsertsSeen'
  <2>1. \A g \in Hosts, p \in Profiles :
            /\ baseline'[g][p] = baseline[g][p]
            /\ run'[g].phase \in Deciding => run'[g] = run[g] /\ copies'[g][p] = copies[g][p]
            /\ run'[g] = run[g] \/ ~run'[g].upserts[p].there
    BY <1>1, <1>3, NothingIsDoc DEF Deciding
  <2> QED BY <1>4, <1>5, <2>1, NothingIsDoc, RemovalsSee DEF SyncInv
<1> QED BY <1>5, <1>6, <1>7 DEF SyncInv

LEMMA CorruptionSees ==
  ASSUME SyncInv, NEW p \in Profiles, S!Corrupted(p)
  PROVE  SyncInv'
<1>1. /\ UNCHANGED <<copies, baseline, run, edits, runs, exempt>> /\ faults' \in 0..MaxFaults
      /\ remote[p].there /\ remote' = [remote EXCEPT ![p] = [remote[p] EXCEPT !.intact = FALSE]]
  <2>1. remote' = [remote EXCEPT ![p].intact = FALSE]
    BY DEF S!Corrupted
  <2>2. remote' = [remote EXCEPT ![p] = [remote[p] EXCEPT !.intact = FALSE]]
    BY <2>1 DEF SyncInv, SyncTypes, RemoteTypes
  <2> QED BY <2>2, FaultsCount DEF S!Corrupted, SyncInv, SyncTypes
<1> DEFINE broken == [remote[p] EXCEPT !.intact = FALSE]
<1>2. /\ broken \in Docs /\ broken.version = remote[p].version /\ broken.intact = FALSE
      /\ remote \in [Profiles -> Docs]
  BY DEF SyncInv, SyncTypes, RemoteTypes, Docs
<1> HIDE DEF broken
<1>3. /\ RemoteTypes' /\ remote'[p] = broken /\ \A q \in Profiles : q # p => remote'[q] = remote[q]
  BY <1>1, <1>2 DEF RemoteTypes, broken
<1>4. SyncTypes'
  BY <1>1, <1>3 DEF SyncInv, SyncTypes, CopyTypes, BaselineTypes, RunTypes, CountTypes
<1>5. VersionsCounted'
  <2>1. Busy' = Busy /\ Past' = Past
    BY <1>1, BusyStays
  <2> HIDE DEF Past, Busy
  <2> QED BY <1>1, <1>2, <1>3, <2>1 DEF SyncInv, VersionsCounted
<1>6. BaselinesSeen' /\ UpsertsSeen'
  <2>1. \A q \in Profiles : \/ remote'[q] = remote[q]
                            \/ /\ remote'[q].version = remote[q].version /\ ~remote'[q].intact
                               /\ remote[q].there
    BY <1>1, <1>2, <1>3
  <2>2. \A g \in Hosts, q \in Profiles :
            /\ baseline'[g][q] = baseline[g][q]
            /\ run'[g].phase \in Deciding => run'[g] = run[g] /\ copies'[g][q] = copies[g][q]
            /\ run'[g] = run[g] \/ ~run'[g].upserts[q].there
    BY <1>1
  <2> QED BY <1>1, <1>4, <2>1, <2>2, RemovalsSee DEF SyncInv
<1> QED BY <1>4, <1>5, <1>6 DEF SyncInv


LEMMA SyncInit ==
  ASSUME S!Init
  PROVE  SyncInv
<1>1. \A h \in Hosts, p \in Profiles :
        /\ remote[p] = S!NoDoc /\ baseline[h][p] = S!NoDoc /\ run[h] = S!Idle
        /\ run[h].upserts[p] = S!NoDoc
  BY NothingIsDoc DEF S!Init
<1>2. RemoteTypes /\ CopyTypes /\ BaselineTypes /\ RunTypes
  BY NothingIsDoc DEF S!Init, RemoteTypes, CopyTypes, BaselineTypes, RunTypes
<1>3. SyncTypes
  BY <1>2, SyncBounds DEF S!Init, SyncTypes, CountTypes
<1>4. VersionsCounted
  <2>1. Busy = {} /\ runs = 0
    BY NothingIsDoc DEF S!Init, Busy, Deciding
  <2>2. IsFiniteSet(Busy) /\ Past = 0
    BY <2>1, FS_EmptySet DEF Past
  <2>3. \A p \in Profiles : remote[p] = S!NoDoc
    BY DEF S!Init
  <2> HIDE DEF Busy, Past
  <2> QED BY <1>1, <2>2, <2>3, NothingIsDoc, SyncBounds DEF VersionsCounted
<1>5. \A p \in Profiles : remote[p] = S!NoDoc
  BY DEF S!Init
<1>6. BaselinesSeen
  BY <1>1, <1>5, NothingIsDoc DEF BaselinesSeen
<1>7. UpsertsSeen
  BY <1>1, NothingIsDoc DEF UpsertsSeen
<1> QED BY <1>3, <1>4, <1>6, <1>7 DEF SyncInv

(* only a push puts one document in the place of another *)
LEMMA OthersReplaceNothing ==
  ASSUME SyncTypes,
         \A p \in Profiles : remote'[p].there => remote'[p].text = remote[p].text
  PROVE  S!SeenBeforeReplaced
BY DEF S!SeenBeforeReplaced

LEMMA SyncStep ==
  ASSUME SyncInv, S!Next
  PROVE  SyncInv' /\ S!SeenBeforeReplaced
<1>1. ASSUME NEW h \in Hosts, S!HostStep(h)
      PROVE  SyncInv' /\ S!SeenBeforeReplaced
  <2>0. ASSUME UNCHANGED remote
        PROVE  S!SeenBeforeReplaced
    BY <2>0 DEF S!SeenBeforeReplaced
  <2>1. CASE S!Begin(h)
    BY <2>0, <2>1, BeginSees DEF S!Begin
  <2>2. CASE S!LlmEdits(h)
    BY <2>0, <2>2, EditsSee DEF S!LlmEdits
  <2>3. CASE S!RunFails(h)
    BY <2>0, <2>3, FailedRunSees DEF S!RunFails
  <2>4. ASSUME NEW p \in Profiles, S!UserWrites(h, p)
        PROVE  SyncInv' /\ S!SeenBeforeReplaced
    BY <2>0, <2>4, UserWriteSees DEF S!UserWrites
  <2>5. ASSUME NEW p \in Profiles, S!UserRemoves(h, p)
        PROVE  SyncInv' /\ S!SeenBeforeReplaced
    <3>1. RemoteTypes /\ SyncTypes
      BY DEF SyncInv, SyncTypes
    <3>2. \A q \in Profiles : remote'[q] = remote[q] \/ remote'[q] = S!NoDoc
      BY <2>5, <3>1 DEF S!UserRemoves, RemoteTypes
    <3>3. S!SeenBeforeReplaced
      BY <3>1, <3>2, NothingIsDoc, OthersReplaceNothing
    <3> QED BY <2>5, <3>3, UserRemovalSees
  <2>6. CASE S!Queries(h)
    BY <2>0, <2>6, QueriesSee DEF S!Queries
  <2>7. CASE S!Upserts(h)
    BY <2>7, UpsertsSee
  <2>8. CASE S!Deletes(h)
    <3>1. SyncTypes
      BY DEF SyncInv
    <3>2. \A q \in Profiles : remote'[q] = remote[q] \/ remote'[q] = S!NoDoc
      BY <2>8 DEF S!Deletes
    <3>3. S!SeenBeforeReplaced
      BY <3>1, <3>2, NothingIsDoc, OthersReplaceNothing
    <3> QED BY <2>8, <3>3, DeletesSee
  <2> QED BY <1>1, <2>1, <2>2, <2>3, <2>4, <2>5, <2>6, <2>7, <2>8 DEF S!HostStep
<1>2. ASSUME NEW p \in Profiles, S!Corrupted(p)
      PROVE  SyncInv' /\ S!SeenBeforeReplaced
  <2>1. RemoteTypes /\ SyncTypes
    BY DEF SyncInv, SyncTypes
  <2>2. \A q \in Profiles : remote'[q].text = remote[q].text
    BY <1>2, <2>1 DEF S!Corrupted, RemoteTypes, Docs
  <2> QED BY <1>2, <2>1, <2>2, CorruptionSees, OthersReplaceNothing
<1> QED BY <1>1, <1>2 DEF S!Next

LEMMA SyncStutters ==
  ASSUME SyncInv, UNCHANGED syncVars
  PROVE  SyncInv' /\ S!SeenBeforeReplaced
<1>1. UNCHANGED <<remote, copies, baseline, run, edits, runs, faults, exempt>>
  BY DEF syncVars
<1>2. Busy' = Busy /\ Past' = Past
  BY <1>1, BusyStays
<1>3. SyncTypes'
  BY <1>1 DEF SyncInv, SyncTypes, RemoteTypes, CopyTypes, BaselineTypes, RunTypes, CountTypes
<1>4. VersionsCounted'
  BY <1>1, <1>2 DEF SyncInv, VersionsCounted
<1>0. \A g \in Hosts, p \in Profiles : S!Probed(g, p)' = S!Probed(g, p)
  BY <1>1, ProbedStays
<1>5. BaselinesSeen'
  BY <1>0, <1>1 DEF SyncInv, BaselinesSeen
<1>6. UpsertsSeen' /\ S!SeenBeforeReplaced
  BY <1>0, <1>1 DEF SyncInv, UpsertsSeen, S!SeenBeforeReplaced
<1> QED BY <1>3, <1>4, <1>5, <1>6 DEF SyncInv

(* versions are within their bound *)
LEMMA SyncTyped ==
  ASSUME SyncInv
  PROVE  S!TypeOK
<1>1. ASSUME NEW d \in Docs, d.version <= MaxRuns + 1
      PROVE  d \in S!Doc
  BY <1>1, SyncBounds DEF Docs, S!Doc
<1>2. Past <= MaxRuns /\ Past \in Nat
  BY SyncBounds DEF SyncInv, VersionsCounted
<1>3. \A p \in Profiles : remote[p] \in Docs /\ remote[p].version \in Nat /\ remote[p].version <= Past
  BY DocIs DEF SyncInv, SyncTypes, RemoteTypes, VersionsCounted
<1>4. \A h \in Hosts, p \in Profiles :
        /\ baseline[h][p] \in Docs /\ baseline[h][p].version \in Nat /\ baseline[h][p].version <= Past
        /\ run[h] \in HostRuns /\ run[h].upserts[p] \in Docs
        /\ run[h].upserts[p].version \in Nat /\ run[h].upserts[p].version <= Past + 1
  BY DocIs, HostRunIs DEF SyncInv, SyncTypes, BaselineTypes, RunTypes, VersionsCounted
<1>5. \A h \in Hosts, p \in Profiles :
        remote[p] \in S!Doc /\ baseline[h][p] \in S!Doc /\ run[h].upserts[p] \in S!Doc
  BY <1>1, <1>2, <1>3, <1>4, SyncBounds
<1>6. \A p \in Profiles : remote[p] \in S!Doc
  BY <1>1, <1>2, <1>3, SyncBounds
<1>7. SyncTypes
  BY DEF SyncInv
<1>8. remote \in [Profiles -> S!Doc] /\ baseline \in [Hosts -> [Profiles -> S!Doc]]
  BY <1>5, <1>6, <1>7 DEF SyncTypes, RemoteTypes, BaselineTypes
<1>9. run \in [Hosts -> [phase : {"idle", "llm", "query", "upsert", "delete"}, only : SUBSET Profiles,
                         byUser : BOOLEAN, upserts : [Profiles -> S!Doc]]]
  <2>1. ASSUME NEW h \in Hosts
        PROVE  run[h].upserts \in [Profiles -> S!Doc] /\ run[h] \in HostRuns
    <3>1. run[h] \in HostRuns
      BY <1>7 DEF SyncTypes, RunTypes
    <3> QED BY <1>5, <3>1, HostRunIs
  <2>2. ASSUME NEW h \in Hosts
        PROVE  run[h] \in [phase : {"idle", "llm", "query", "upsert", "delete"}, only : SUBSET Profiles,
                           byUser : BOOLEAN, upserts : [Profiles -> S!Doc]]
    BY <2>1 DEF HostRuns, Deciding
  <2> QED BY <1>7, <2>2 DEF SyncTypes, RunTypes
<1> QED BY <1>7, <1>8, <1>9 DEF SyncTypes, CopyTypes, CountTypes, S!TypeOK


-----------------------------------------------------------------------------
(* The inductive invariant of Persona *)

L2Phases == {"idle", "llm", "nav", "check", "repair", "count"}
L3Phases == {"idle", "load", "llm", "navigate", "mark"}
L2Runs == [phase : L2Phases, stamp : P!Time, batch : SUBSET P!Memories, pre : P!Counters,
           post : P!Counters, wasEmpty : BOOLEAN, seen : P!Document]
L3Runs == [phase : L3Phases, facts : SUBSET P!Memories, nav : SUBSET Scenes]

SceneTypes ==
  /\ local \in BOOLEAN /\ persona \in P!Document /\ index \in [Scenes -> P!Time]
  /\ files \in [Scenes -> P!File] /\ backup \in [Scenes -> P!File]
ProgressTypes ==
  /\ memories \in 0..MaxMemories /\ captures \in 0..MaxCaptures /\ cursor \in 0..memories
  /\ asked \in BOOLEAN /\ clock \in P!Time /\ overlapped \in BOOLEAN
  /\ incidents \subseteq {"unreadable", "missed", "partial", "failed"} /\ unreadable \in 0..MaxUnreadable

\* Counters of no more than there has been of captures, memories, time and L2 rounds.
Counted(c, caps, mems, time, rounds) ==
  /\ c \in P!Counters
  /\ c.total <= caps /\ c.cursors <= caps /\ c.since <= mems /\ c.time <= time
  /\ c.scenes <= rounds
L2Active == l2.phase # "idle"
L3Active == l3.phase # "idle"
Rounds == IF L2Active THEN clock - 1 ELSE clock
CounterTypes ==
  /\ Counted(cp, captures, memories, clock, Rounds)
  /\ L2Active => /\ Counted(l2.pre, captures, memories, clock, Rounds)
                 /\ Counted(l2.post, captures, memories, clock, Rounds)

\* The run has the latest time, and the memories that follow the cursor.
L2Types ==
  /\ l2 \in L2Runs /\ (~L2Active => l2 = P!IdleL2)
  /\ L2Active => /\ l2.stamp = clock /\ clock # 0
                 /\ \E last \in 0..memories : cursor < last /\ l2.batch = (cursor + 1)..last

PersonaTypes == SceneTypes /\ ProgressTypes /\ CounterTypes /\ L2Types /\ l3 \in L3Runs

\* A readable checkpoint has counted every capture, and is ahead of what the L2 run
\* read when it began: nothing looks corrupt.
CountersKept ==
  "unreadable" \notin incidents =>
    /\ cp.total = captures /\ cp.cursors = captures /\ l2.phase # "repair"
    /\ L2Active => l2.pre.scenes <= cp.scenes /\ l2.pre.total <= cp.total

\* As long as nothing has gone wrong and the runs take turns.
Clean == incidents = {} /\ ~overlapped
TakeTurns == overlapped \/ ~L2Active \/ ~L3Active

\* A scene file is one that tells something, and the index has its time.
Agrees(fs, s) ==
  /\ index[s] = fs[s].updated
  /\ fs[s].there <=> fs[s].facts # {}
  /\ fs[s].there <=> fs[s].updated # 0
\* The persona tells what the scene does, if it is no newer.
Told(fs, s) ==
  cp.time # 0 /\ fs[s].updated # 0 /\ fs[s].updated <= cp.time
    => fs[s].facts \subseteq persona.facts

FilesAgree ==
  \A s \in Scenes :
    /\ files[s].updated <= clock /\ (files[s].facts # {} => files[s].there /\ files[s].updated # 0)
    /\ l2.phase # "llm" \/ files[s].updated # l2.stamp => Agrees(files, s)

\* What a failed run restores is what it began with.
BackupAgrees ==
  backup # P!NoBackup =>
    /\ \E s \in Scenes : files[s].facts # {}
    /\ \E s \in Scenes : backup[s].facts # {}
    /\ l2.phase = "llm" /\ local =>
         \A s \in Scenes : backup[s].updated < l2.stamp /\ Agrees(backup, s) /\ Told(backup, s)

PersonaKnows ==
  /\ \A s \in Scenes : Told(files, s)
  /\ L2Active => cp.time < l2.stamp
  /\ l3.phase = "llm" => persona.facts \subseteq l3.facts
  /\ \A s \in P!Indexed : /\ l3.phase = "llm" => files[s].facts \subseteq l3.facts
                          /\ l3.phase \in {"navigate", "mark"} => files[s].facts \subseteq persona.facts

NavigationLists ==
  /\ persona.body /\ l2.phase # "nav" /\ l3.phase # "navigate" => persona.nav = P!Indexed
  /\ l3.phase \in {"llm", "navigate"} => l3.nav = P!Indexed
  /\ l2.phase = "nav" => l2.seen = persona

ScenesKept == FilesAgree /\ BackupAgrees /\ PersonaKnows /\ NavigationLists

PersonaInv == PersonaTypes /\ CountersKept /\ TakeTurns /\ (Clean => ScenesKept)


-----------------------------------------------------------------------------
(* Persona: its types *)

LEMMA PersonaBounds ==
  /\ Interval \in Nat \ {0} /\ MaxCaptures \in Nat /\ MaxMemories \in Nat
  /\ MaxTime \in Nat \ {0} /\ MaxUnreadable \in Nat
BY ProfilesAssumption DEF P!PersonaAssumption

LEMMA CountersAre ==
  ASSUME NEW c \in P!Counters
  PROVE  /\ c.total \in 0..MaxCaptures /\ c.cursors \in 0..MaxCaptures /\ c.since \in 0..MaxMemories
         /\ c.scenes \in 0..MaxTime /\ c.request \in BOOLEAN /\ c.time \in 0..MaxTime
BY DEF P!Counters, P!Time

LEMMA CountedRises ==
  ASSUME NEW c, NEW a \in Nat, NEW m \in Nat, NEW t \in Nat, NEW r \in Nat,
         NEW a2 \in Nat, NEW m2 \in Nat, NEW t2 \in Nat, NEW r2 \in Nat,
         a <= a2, m <= m2, t <= t2, r <= r2, Counted(c, a, m, t, r)
  PROVE  Counted(c, a2, m2, t2, r2)
<1>1. c \in P!Counters /\ c.total <= a /\ c.cursors <= a /\ c.since <= m /\ c.time <= t /\ c.scenes <= r
  BY DEF Counted
<1>2. /\ c.total \in Nat /\ c.cursors \in Nat /\ c.since \in Nat /\ c.scenes \in Nat /\ c.time \in Nat
  BY <1>1, CountersAre, PersonaBounds
<1> QED BY <1>1, <1>2 DEF Counted

LEMMA DefaultIsCounted ==
  /\ P!DefaultCheckpoint \in P!Counters
  /\ \A a, m, t, r \in Nat : Counted(P!DefaultCheckpoint, a, m, t, r)
<1>1. P!DefaultCheckpoint \in P!Counters
  BY PersonaBounds DEF P!DefaultCheckpoint, P!Counters, P!Time
<1> QED BY <1>1 DEF Counted, P!DefaultCheckpoint

(* the counters there may be, in numbers *)
LEMMA NumbersAre ==
  ASSUME PersonaTypes
  PROVE  /\ captures \in Nat /\ memories \in Nat /\ clock \in Nat /\ Rounds \in Nat /\ cursor \in Nat
         /\ captures <= MaxCaptures /\ memories <= MaxMemories /\ clock <= MaxTime
         /\ Rounds <= clock /\ cursor <= memories
BY PersonaBounds DEF PersonaTypes, ProgressTypes, L2Types, P!Time, Rounds

LEMMA L2RunIs ==
  ASSUME NEW r \in L2Runs
  PROVE  /\ r.phase \in L2Phases /\ r.stamp \in P!Time /\ r.batch \subseteq P!Memories
         /\ r.pre \in P!Counters /\ r.post \in P!Counters /\ r.wasEmpty \in BOOLEAN
         /\ r.seen \in P!Document
BY DEF L2Runs

LEMMA L3RunIs ==
  ASSUME NEW r \in L3Runs
  PROVE  r.phase \in L3Phases /\ r.facts \subseteq P!Memories /\ r.nav \subseteq Scenes
BY DEF L3Runs

LEMMA IdleRunsAre ==
  /\ P!IdleL2 \in L2Runs /\ P!IdleL2.phase = "idle"
  /\ P!IdleL3 \in L3Runs /\ P!IdleL3.phase = "idle"
  /\ P!NoDocument \in P!Document /\ P!NoFile \in P!File
<1>1. P!NoDocument \in P!Document /\ P!NoFile \in P!File /\ 0 \in P!Time
  BY PersonaBounds DEF P!NoDocument, P!Document, P!NoFile, P!File, P!Time
<1> QED BY <1>1, DefaultIsCounted DEF P!IdleL2, P!IdleL3, L2Runs, L3Runs, L2Phases, L3Phases

LEMMA DocumentIs ==
  ASSUME NEW d \in P!Document
  PROVE  d.body \in BOOLEAN /\ d.facts \subseteq P!Memories /\ d.nav \subseteq Scenes
BY DEF P!Document

LEMMA SceneFileIs ==
  ASSUME NEW f \in P!File
  PROVE  f.there \in BOOLEAN /\ f.facts \subseteq P!Memories /\ f.updated \in P!Time
BY DEF P!File


(* what a read without the lock finds *)
LEMMA ReadIs ==
  ASSUME PersonaTypes, NEW v \in {cp, P!DefaultCheckpoint}, P!Reads(v)
  PROVE  /\ Counted(v, captures, memories, clock, Rounds) /\ unreadable' \in 0..MaxUnreadable
         /\ incidents \subseteq incidents' /\ incidents' \subseteq {"unreadable", "missed", "partial", "failed"}
         /\ "unreadable" \in incidents' \/ v = cp
<1>1. Counted(v, captures, memories, clock, Rounds)
  BY NumbersAre, DefaultIsCounted DEF PersonaTypes, CounterTypes
<1>2. CASE v = cp /\ UNCHANGED <<unreadable, incidents>>
  BY <1>1, <1>2 DEF PersonaTypes, ProgressTypes
<1>3. CASE /\ unreadable < MaxUnreadable /\ unreadable' = unreadable + 1
           /\ v = P!DefaultCheckpoint /\ incidents' = incidents \cup {"unreadable"}
  BY <1>1, <1>3, PersonaBounds DEF PersonaTypes, ProgressTypes
<1> QED BY <1>2, <1>3 DEF P!Reads

LEMMA L2Stays ==
  ASSUME PersonaTypes, UNCHANGED <<l2, clock, cursor>>, memories <= memories', memories' \in Nat
  PROVE  L2Types' /\ L2Active' = L2Active /\ Rounds' = Rounds
<1>1. L2Active' = L2Active /\ Rounds' = Rounds
  BY DEF L2Active, Rounds
<1>2. ASSUME NEW last \in 0..memories
      PROVE  last \in 0..memories'
  BY NumbersAre
<1> QED BY <1>1, <1>2 DEF PersonaTypes, L2Types

LEMMA L2Goes ==
  ASSUME PersonaTypes, L2Active, l2' \in L2Runs, l2'.phase # "idle", l2'.stamp = l2.stamp,
         l2'.batch = l2.batch, UNCHANGED <<clock, cursor, memories>>
  PROVE  L2Types' /\ L2Active' = L2Active /\ Rounds' = Rounds
<1>1. L2Active' = L2Active /\ Rounds' = Rounds
  BY DEF L2Active, Rounds
<1>2. l2.stamp = clock /\ clock # 0 /\ \E last \in 0..memories : cursor < last /\ l2.batch = (cursor + 1)..last
  BY DEF PersonaTypes, L2Types
<1> QED BY <1>1, <1>2 DEF L2Types

LEMMA L2Stops ==
  ASSUME PersonaTypes, L2Active, l2' = P!IdleL2, UNCHANGED clock
  PROVE  L2Types' /\ ~L2Active' /\ Rounds' = Rounds + 1 /\ Rounds' = clock
<1>1. ~L2Active' /\ Rounds' = clock /\ clock \in Nat /\ Rounds = clock - 1
  BY IdleRunsAre, NumbersAre DEF L2Active, Rounds
<1> QED BY <1>1, IdleRunsAre DEF L2Types

(* counters that go on as they are *)
LEMMA CountersStay ==
  ASSUME PersonaTypes, Counted(cp', captures, memories, clock, Rounds),
         captures' \in Nat, memories' \in Nat, clock' \in Nat, Rounds' \in Nat,
         captures <= captures', memories <= memories', clock <= clock', Rounds <= Rounds',
         L2Active' => L2Active /\ UNCHANGED <<l2>>
  PROVE  CounterTypes'
<1>1. Counted(cp', captures', memories', clock', Rounds')
  BY NumbersAre, CountedRises
<1>2. ASSUME L2Active'
      PROVE  /\ Counted(l2'.pre, captures', memories', clock', Rounds')
             /\ Counted(l2'.post, captures', memories', clock', Rounds')
  <2>1. /\ Counted(l2.pre, captures, memories, clock, Rounds)
        /\ Counted(l2.post, captures, memories, clock, Rounds)
    BY <1>2 DEF PersonaTypes, CounterTypes
  <2>2. /\ Counted(l2.pre, captures', memories', clock', Rounds')
        /\ Counted(l2.post, captures', memories', clock', Rounds')
    BY <2>1, NumbersAre, CountedRises
  <2> QED BY <1>2, <2>2
<1> QED BY <1>1, <1>2 DEF CounterTypes

(* counters that rise with what they count *)
LEMMA CountersRise ==
  ASSUME PersonaTypes, Counted(cp', captures', memories', clock, Rounds),
         captures' \in Nat, memories' \in Nat, captures <= captures', memories <= memories',
         UNCHANGED <<l2, clock>>
  PROVE  CounterTypes'
<1>1. L2Active' = L2Active /\ Rounds' = Rounds
  BY DEF L2Active, Rounds
<1>2. ASSUME L2Active
      PROVE  /\ Counted(l2.pre, captures', memories', clock, Rounds)
             /\ Counted(l2.post, captures', memories', clock, Rounds)
  <2>1. /\ Counted(l2.pre, captures, memories, clock, Rounds)
        /\ Counted(l2.post, captures, memories, clock, Rounds)
    BY <1>2 DEF PersonaTypes, CounterTypes
  <2> QED BY <2>1, NumbersAre, CountedRises
<1> QED BY <1>1, <1>2 DEF CounterTypes

LEMMA CaptureTyped ==
  ASSUME PersonaTypes, P!Capture, overlapped' \in BOOLEAN
  PROVE  PersonaTypes'
<1>1. /\ captures < MaxCaptures /\ captures' = captures + 1
      /\ cp' = [cp EXCEPT !.total = @ + 1, !.cursors = @ + 1]
      /\ UNCHANGED <<local, files, index, backup, persona, memories, cursor, asked, l2, l3,
                     clock, incidents, unreadable>>
  BY DEF P!Capture
<1>2. Counted(cp, captures, memories, clock, Rounds)
  BY DEF PersonaTypes, CounterTypes
<1>3. Counted(cp', captures + 1, memories, clock, Rounds)
  <2>1. cp \in P!Counters /\ cp.total \in Nat /\ cp.cursors \in Nat
    BY <1>2, CountersAre, PersonaBounds DEF Counted
  <2>2. cp.total + 1 \in 0..MaxCaptures /\ cp.cursors + 1 \in 0..MaxCaptures
    BY <1>1, <1>2, <2>1, NumbersAre, PersonaBounds DEF Counted
  <2>3. cp' \in P!Counters
    BY <1>1, <2>1, <2>2 DEF P!Counters
  <2> QED BY <1>1, <1>2, <2>1, <2>3, NumbersAre DEF Counted, P!Counters
<1>4. CounterTypes'
  BY <1>1, <1>3, NumbersAre, CountersRise
<1>5. L2Types'
  BY <1>1, NumbersAre, L2Stays
<1> QED BY <1>1, <1>4, <1>5, NumbersAre, PersonaBounds DEF PersonaTypes, SceneTypes, ProgressTypes

LEMMA L1ExtractsTyped ==
  ASSUME PersonaTypes, P!L1Extracts, overlapped' \in BOOLEAN
  PROVE  PersonaTypes'
<1>1. /\ memories < MaxMemories /\ memories' = memories + 1
      /\ cp' = [cp EXCEPT !.since = @ + 1]
      /\ UNCHANGED <<local, files, index, backup, persona, captures, cursor, asked, l2, l3,
                     clock, incidents, unreadable>>
  BY DEF P!L1Extracts
<1>2. Counted(cp, captures, memories, clock, Rounds)
  BY DEF PersonaTypes, CounterTypes
<1>3. Counted(cp', captures, memories + 1, clock, Rounds)
  <2>1. cp \in P!Counters /\ cp.since \in Nat
    BY <1>2, CountersAre, PersonaBounds DEF Counted
  <2>2. cp.since + 1 \in 0..MaxMemories
    BY <1>1, <1>2, <2>1, NumbersAre, PersonaBounds DEF Counted
  <2>3. cp' \in P!Counters
    BY <1>1, <2>1, <2>2 DEF P!Counters
  <2> QED BY <1>1, <1>2, <2>1, <2>3, NumbersAre DEF Counted, P!Counters
<1>4. CounterTypes'
  BY <1>1, <1>3, NumbersAre, CountersRise
<1>5. L2Types'
  BY <1>1, NumbersAre, L2Stays
<1> QED BY <1>1, <1>4, <1>5, NumbersAre, PersonaBounds DEF PersonaTypes, SceneTypes, ProgressTypes


LEMMA L3Typed ==
  ASSUME PersonaTypes, P!L3Keeps, UNCHANGED clock, cp' \in {cp, P!MarkPersonaGenerated(cp, clock)},
         asked' \in BOOLEAN, incidents' \subseteq {"unreadable", "missed", "partial", "failed"},
         l3' \in L3Runs, persona' \in P!Document, overlapped' \in BOOLEAN
  PROVE  PersonaTypes'
<1>1. UNCHANGED <<local, files, index, backup, memories, captures, cursor, l2, unreadable>>
  BY DEF P!L3Keeps
<1>2. Counted(cp, captures, memories, clock, Rounds)
  BY DEF PersonaTypes, CounterTypes
<1>3. Counted(P!MarkPersonaGenerated(cp, clock), captures, memories, clock, Rounds)
  <2> DEFINE marked == P!MarkPersonaGenerated(cp, clock)
  <2>1. /\ cp \in P!Counters /\ clock \in Nat /\ memories \in Nat /\ clock \in P!Time
        /\ cp.total <= captures /\ cp.cursors <= captures /\ cp.scenes <= Rounds
    BY <1>2, NumbersAre DEF Counted, PersonaTypes, ProgressTypes
  <2>2. marked = [cp EXCEPT !.time = clock, !.since = 0, !.request = FALSE]
    BY DEF P!MarkPersonaGenerated
  <2> HIDE DEF marked
  <2>3. /\ marked \in P!Counters /\ marked.total = cp.total /\ marked.cursors = cp.cursors
        /\ marked.since = 0 /\ marked.time = clock /\ marked.scenes = cp.scenes
    <3>1. 0 \in 0..MaxMemories
      BY PersonaBounds
    <3>2. marked \in P!Counters
      BY <2>1, <2>2, <3>1 DEF P!Counters
    <3>3. cp \in [{"total", "cursors", "since", "scenes", "request", "time"} ->
                  UNION {0..MaxCaptures, 0..MaxMemories, 0..MaxTime, BOOLEAN, P!Time}]
      BY <2>1 DEF P!Counters
    <3>4. /\ marked.total = cp.total /\ marked.cursors = cp.cursors
          /\ marked.since = 0 /\ marked.time = clock /\ marked.scenes = cp.scenes
      BY <2>2, <3>3
    <3> QED BY <3>2, <3>4
  <2>4. Counted(marked, captures, memories, clock, Rounds)
    BY <2>1, <2>3 DEF Counted
  <2> QED BY <2>4 DEF marked
<1>4. L2Types' /\ L2Active' = L2Active /\ Rounds' = Rounds
  BY <1>1, NumbersAre, L2Stays
<1>5. CounterTypes'
  BY <1>1, <1>2, <1>3, <1>4, NumbersAre, CountersStay
<1> QED BY <1>1, <1>4, <1>5 DEF PersonaTypes, SceneTypes, ProgressTypes

LEMMA OfferedFactsAre ==
  ASSUME PersonaTypes
  PROVE  P!OfferedFacts \subseteq P!Memories /\ P!Indexed \subseteq Scenes
<1>1. \A s \in Scenes : files[s].facts \subseteq P!Memories
  BY SceneFileIs DEF PersonaTypes, SceneTypes
<1> QED BY <1>1 DEF P!OfferedFacts, P!Offered, P!ChangedScenes, P!Indexed

LEMMA L3DecidesTyped ==
  ASSUME PersonaTypes, P!L3Decides, overlapped' \in BOOLEAN
  PROVE  PersonaTypes'
<1>1. [P!IdleL3 EXCEPT !.phase = "load"] \in L3Runs
  BY IdleRunsAre DEF L3Runs, L3Phases
<1>2. l3' \in L3Runs /\ asked' \in BOOLEAN /\ UNCHANGED <<persona, cp, clock, incidents>> /\ P!L3Keeps
  BY <1>1 DEF P!L3Decides, PersonaTypes
<1> QED BY <1>2, L3Typed DEF PersonaTypes, SceneTypes, ProgressTypes

LEMMA L3MissesTyped ==
  ASSUME PersonaTypes, P!L3Misses, overlapped' \in BOOLEAN
  PROVE  PersonaTypes'
<1>1. /\ UNCHANGED <<persona, cp, clock, l3, local, files, index, backup, memories, captures, cursor, l2>>
      /\ asked' = FALSE /\ incidents' = incidents \cup {"unreadable", "missed"}
  BY DEF P!L3Misses
<1>2. unreadable' \in 0..MaxUnreadable
  BY PersonaBounds DEF P!L3Misses, PersonaTypes, ProgressTypes
<1>3. L2Types'
  BY <1>1, NumbersAre, L2Stays
<1>4. CounterTypes'
  BY <1>1 DEF PersonaTypes, CounterTypes, Counted, L2Active, Rounds
<1> QED BY <1>1, <1>2, <1>3, <1>4 DEF PersonaTypes, SceneTypes, ProgressTypes

LEMMA L3LoadsTyped ==
  ASSUME PersonaTypes, P!L3Loads, overlapped' \in BOOLEAN
  PROVE  PersonaTypes'
<1>1. persona.facts \subseteq P!Memories
  BY DocumentIs DEF PersonaTypes, SceneTypes
<1>2. \A ph \in L3Phases :
        [phase |-> ph, facts |-> persona.facts \cup P!OfferedFacts, nav |-> P!Indexed] \in L3Runs
  BY <1>1, OfferedFactsAre DEF L3Runs
<1>3. l3' \in L3Runs /\ UNCHANGED <<asked, persona, cp, clock, incidents>> /\ P!L3Keeps
  BY <1>2 DEF P!L3Loads, L3Phases
<1> QED BY <1>3, L3Typed DEF PersonaTypes, SceneTypes, ProgressTypes

LEMMA L3WritesTyped ==
  ASSUME PersonaTypes, P!L3Writes \/ P!L3WritesNothing \/ P!L3Fails \/ P!L3Navigates,
         overlapped' \in BOOLEAN
  PROVE  PersonaTypes'
<1>1. l3 \in L3Runs /\ persona \in P!Document
  BY DEF PersonaTypes, SceneTypes
<1>2. \A ph \in L3Phases : [l3 EXCEPT !.phase = ph] \in L3Runs
  BY <1>1 DEF L3Runs
<1>3. l3' \in L3Runs /\ UNCHANGED <<asked, cp, clock>> /\ P!L3Keeps
  BY <1>2 DEF P!L3Writes, P!L3WritesNothing, P!L3Fails, P!L3Navigates, L3Phases
<1>4. persona' \in P!Document
  <2>1. l3.facts \subseteq P!Memories /\ l3.nav \subseteq Scenes
    BY <1>1, L3RunIs
  <2>2. /\ [body |-> TRUE, facts |-> l3.facts, nav |-> {}] \in P!Document
        /\ [persona EXCEPT !.nav = l3.nav] \in P!Document
    BY <1>1, <2>1 DEF P!Document
  <2> QED BY <1>1, <2>2, IdleRunsAre DEF P!L3Writes, P!L3WritesNothing, P!L3Fails, P!L3Navigates
<1>5. incidents' \subseteq {"unreadable", "missed", "partial", "failed"}
  BY DEF P!L3Writes, P!L3WritesNothing, P!L3Fails, P!L3Navigates, P!Notes, PersonaTypes, ProgressTypes
<1> QED BY <1>3, <1>4, <1>5, L3Typed DEF PersonaTypes, ProgressTypes

LEMMA L3MarksTyped ==
  ASSUME PersonaTypes, P!L3Marks, overlapped' \in BOOLEAN
  PROVE  PersonaTypes'
<1>1. /\ l3' = P!IdleL3 /\ cp' = P!MarkPersonaGenerated(cp, clock)
      /\ UNCHANGED <<asked, persona, clock, incidents>> /\ P!L3Keeps
  BY DEF P!L3Marks
<1> QED BY <1>1, IdleRunsAre, L3Typed DEF PersonaTypes, SceneTypes, ProgressTypes

(* what an L2 run makes of the scene files are scene files *)
LEMMA FilesAre ==
  ASSUME PersonaTypes
  PROVE  /\ \A s \in Scenes : \A facts \in SUBSET P!Memories : P!Written(s, facts) \in P!File
         /\ P!Cleaned \in [Scenes -> P!File] /\ P!SyncedIndex \in [Scenes -> P!Time]
         /\ P!Restored \in [Scenes -> P!File] /\ P!BackedUp \in [Scenes -> P!File]
         /\ P!Navigated \in P!Document
<1>1. /\ l2 \in L2Runs /\ files \in [Scenes -> P!File] /\ backup \in [Scenes -> P!File]
      /\ persona \in P!Document
  BY DEF PersonaTypes, L2Types, SceneTypes
<1>2. \A s \in Scenes : \A facts \in SUBSET P!Memories : P!Written(s, facts) \in P!File
  BY <1>1, L2RunIs DEF P!Written, P!File
<1>3. P!Cleaned \in [Scenes -> P!File]
  BY <1>1, IdleRunsAre DEF P!Cleaned
<1>4. P!SyncedIndex \in [Scenes -> P!Time]
  <2>1. \A s \in Scenes : P!Cleaned[s].updated \in P!Time
    BY <1>3, SceneFileIs
  <2> QED BY <2>1 DEF P!SyncedIndex
<1>5. P!Navigated \in P!Document
  <2>1. l2.seen \in P!Document /\ P!Indexed \subseteq Scenes
    BY <1>1, L2RunIs, OfferedFactsAre
  <2> QED BY <1>1, <2>1 DEF P!Navigated, P!Document
<1> QED BY <1>1, <1>2, <1>3, <1>4, <1>5 DEF P!Restored, P!BackedUp


LEMMA L2BeginTyped ==
  ASSUME PersonaTypes, P!L2Begin, overlapped' \in BOOLEAN, UNCHANGED l3
  PROVE  PersonaTypes'
<1>1. PICK v \in {cp, P!DefaultCheckpoint} :
        /\ P!Reads(v)
        /\ l2' = [P!IdleL2 EXCEPT !.phase = "llm", !.stamp = clock + 1, !.pre = v,
                                  !.batch = P!UnreadMemories, !.wasEmpty = P!Indexed = {}]
  BY DEF P!L2Begin
<1>2. /\ ~L2Active /\ cursor < memories /\ clock < MaxTime /\ clock' = clock + 1
      /\ backup' = P!BackedUp /\ UNCHANGED <<files, index, persona, cp, cursor, asked>>
      /\ UNCHANGED <<local, memories, captures>>
  BY DEF P!L2Begin, P!L2Keeps, L2Active
<1>3. /\ Counted(v, captures, memories, clock, Rounds) /\ unreadable' \in 0..MaxUnreadable
      /\ incidents' \subseteq {"unreadable", "missed", "partial", "failed"}
  BY <1>1, ReadIs
<1>4. P!UnreadMemories \subseteq P!Memories /\ clock + 1 \in P!Time /\ P!UnreadMemories = (cursor + 1)..memories
  BY <1>2, NumbersAre, PersonaBounds DEF P!UnreadMemories, P!Memories, P!Time
<1>5. /\ l2' \in L2Runs /\ l2'.phase = "llm" /\ l2'.stamp = clock + 1 /\ l2'.pre = v
      /\ l2'.post = P!DefaultCheckpoint /\ l2'.batch = P!UnreadMemories
  <2>1. v \in P!Counters
    BY <1>3 DEF Counted
  <2>2. P!IdleL2.post = P!DefaultCheckpoint
    BY DEF P!IdleL2
  <2>3. \A b \in BOOLEAN :
          LET new == [P!IdleL2 EXCEPT !.phase = "llm", !.stamp = clock + 1, !.pre = v,
                                      !.batch = P!UnreadMemories, !.wasEmpty = b] IN
            /\ new \in L2Runs /\ new.phase = "llm" /\ new.stamp = clock + 1 /\ new.pre = v
            /\ new.post = P!DefaultCheckpoint /\ new.batch = P!UnreadMemories
    BY <1>4, <2>1, <2>2, IdleRunsAre DEF L2Runs, L2Phases
  <2>4. (P!Indexed = {}) \in BOOLEAN
    OBVIOUS
  <2> QED BY <1>1, <2>3, <2>4
<1>6. L2Active' /\ Rounds' = clock /\ Rounds = clock
  BY <1>2, <1>5, NumbersAre DEF L2Active, Rounds
<1>7. L2Types'
  BY <1>2, <1>4, <1>5, <1>6, NumbersAre DEF L2Types
<1>8. CounterTypes'
  <2>1. Counted(cp, captures, memories, clock, Rounds)
    BY DEF PersonaTypes, CounterTypes
  <2>2. Counted(P!DefaultCheckpoint, captures, memories, clock, Rounds)
    BY NumbersAre, DefaultIsCounted
  <2>3. \A c : Counted(c, captures, memories, clock, Rounds) => Counted(c, captures, memories, clock + 1, clock)
    BY <1>6, NumbersAre, CountedRises
  <2> QED BY <1>2, <1>3, <1>5, <1>6, <2>1, <2>2, <2>3 DEF CounterTypes
<1>9. SceneTypes'
  BY <1>2, FilesAre DEF PersonaTypes, SceneTypes
<1>10. ProgressTypes'
  BY <1>2, <1>3, <1>4 DEF PersonaTypes, ProgressTypes
<1> QED BY <1>7, <1>8, <1>9, <1>10 DEF PersonaTypes

LEMMA L2EditsTyped ==
  ASSUME PersonaTypes, P!L2Edits, overlapped' \in BOOLEAN
  PROVE  PersonaTypes'
<1>1. /\ UNCHANGED <<index, backup, persona, cp, cursor, asked, l2, clock, incidents, unreadable>>
      /\ UNCHANGED <<local, memories, captures, l3>>
  BY DEF P!L2Edits, P!L2Keeps
<1>2. /\ l2.batch \subseteq P!Memories /\ \A s \in Scenes : files[s].facts \subseteq P!Memories
      /\ files \in [Scenes -> P!File]
  BY L2RunIs, SceneFileIs DEF PersonaTypes, L2Types, SceneTypes
<1>3. files' \in [Scenes -> P!File]
  <2>1. \A s \in Scenes : \A facts \in SUBSET P!Memories : P!Written(s, facts) \in P!File
    BY FilesAre
  <2>2. CASE \E s \in Scenes : files' = [files EXCEPT ![s] = P!Written(s, files[s].facts \cup l2.batch)]
    BY <1>2, <2>1, <2>2
  <2>3. CASE \E s \in Scenes : \E t \in P!RenameTargets(s) :
               files' = [files EXCEPT ![t] = P!Written(t, l2.batch)]
    <3>1. PICK s \in Scenes : \E t \in P!RenameTargets(s) :
               files' = [files EXCEPT ![t] = P!Written(t, l2.batch)]
      BY <2>3
    <3>2. PICK t \in P!RenameTargets(s) : files' = [files EXCEPT ![t] = P!Written(t, l2.batch)]
      BY <3>1
    <3>3. t \in Scenes
      BY DEF P!RenameTargets
    <3> QED BY <1>2, <2>1, <3>2, <3>3
  <2>4. CASE \E s, t \in Scenes :
               files' = [files EXCEPT ![s] = P!Written(s, {}),
                                      ![t] = P!Written(t, files[s].facts \cup files[t].facts)]
    <3>1. PICK s, t \in Scenes :
               files' = [files EXCEPT ![s] = P!Written(s, {}),
                                      ![t] = P!Written(t, files[s].facts \cup files[t].facts)]
      BY <2>4
    <3>2. P!Written(s, {}) \in P!File /\ P!Written(t, files[s].facts \cup files[t].facts) \in P!File
      BY <1>2, <2>1
    <3> QED BY <1>2, <3>1, <3>2
  <2> QED BY <2>2, <2>3, <2>4 DEF P!L2Edits
<1>4. L2Types' /\ L2Active' = L2Active /\ Rounds' = Rounds
  BY <1>1, NumbersAre, L2Stays
<1>5. CounterTypes'
  BY <1>1, <1>4 DEF PersonaTypes, CounterTypes
<1> QED BY <1>1, <1>3, <1>4, <1>5 DEF PersonaTypes, SceneTypes, ProgressTypes

LEMMA L2FailsTyped ==
  ASSUME PersonaTypes, P!L2Fails, overlapped' \in BOOLEAN
  PROVE  PersonaTypes'
<1>1. /\ l2.phase = "llm" /\ files' = P!Restored /\ asked' = TRUE /\ l2' = P!IdleL2
      /\ UNCHANGED <<index, backup, persona, cp, cursor, clock, unreadable>>
      /\ UNCHANGED <<local, memories, captures, l3>>
  BY DEF P!L2Fails, P!L2Keeps
<1>2. incidents' \subseteq {"unreadable", "missed", "partial", "failed"}
  BY DEF P!L2Fails, P!Notes, PersonaTypes, ProgressTypes
<1>3. L2Types' /\ ~L2Active' /\ Rounds' = Rounds + 1
  BY <1>1, L2Stops DEF L2Active
<1>4. CounterTypes'
  <2>1. Counted(cp, captures, memories, clock, Rounds)
    BY DEF PersonaTypes, CounterTypes
  <2> QED BY <1>1, <1>3, <2>1, NumbersAre, CountersStay
<1> QED BY <1>1, <1>2, <1>3, <1>4, FilesAre DEF PersonaTypes, SceneTypes, ProgressTypes

LEMMA L2SyncsTyped ==
  ASSUME PersonaTypes, P!L2Syncs, overlapped' \in BOOLEAN
  PROVE  PersonaTypes'
<1>1. /\ l2.phase = "llm" /\ files' = P!Cleaned /\ index' = P!SyncedIndex
      /\ l2' = [l2 EXCEPT !.phase = "nav", !.seen = persona]
      /\ UNCHANGED <<backup, persona, cp, cursor, asked, clock, incidents, unreadable>>
      /\ UNCHANGED <<local, memories, captures, l3>>
  BY DEF P!L2Syncs, P!L2Keeps
<1>2. /\ l2' \in L2Runs /\ l2'.phase = "nav" /\ l2'.stamp = l2.stamp /\ l2'.batch = l2.batch
      /\ l2'.pre = l2.pre /\ l2'.post = l2.post
  BY <1>1 DEF PersonaTypes, L2Types, SceneTypes, L2Runs, L2Phases
<1>3. L2Types' /\ L2Active /\ L2Active' = L2Active /\ Rounds' = Rounds
  BY <1>1, <1>2, L2Goes DEF L2Active
<1>4. CounterTypes'
  BY <1>1, <1>2, <1>3 DEF PersonaTypes, CounterTypes
<1> QED BY <1>1, <1>3, <1>4, FilesAre DEF PersonaTypes, SceneTypes, ProgressTypes

LEMMA L2NavigatesTyped ==
  ASSUME PersonaTypes, P!L2Navigates, overlapped' \in BOOLEAN
  PROVE  PersonaTypes'
<1>1. PICK signal \in BOOLEAN : cp' = [cp EXCEPT !.request = @ \/ signal]
  BY DEF P!L2Navigates
<1>2. /\ l2.phase = "nav" /\ persona' = P!Navigated
      /\ l2' = P!IdleL2 \/ l2' = [l2 EXCEPT !.phase = "check"]
      /\ UNCHANGED <<files, index, backup, cursor, asked, clock, incidents, unreadable>>
      /\ UNCHANGED <<local, memories, captures, l3>>
  BY DEF P!L2Navigates, P!L2Keeps
<1>3. Counted(cp', captures, memories, clock, Rounds)
  <2>1. Counted(cp, captures, memories, clock, Rounds)
    BY DEF PersonaTypes, CounterTypes
  <2>2. cp \in P!Counters /\ (cp.request \/ signal) \in BOOLEAN
    BY <2>1 DEF Counted
  <2>3. /\ cp' \in P!Counters /\ cp'.total = cp.total /\ cp'.cursors = cp.cursors
        /\ cp'.since = cp.since /\ cp'.time = cp.time /\ cp'.scenes = cp.scenes
    BY <1>1, <2>2 DEF P!Counters
  <2> QED BY <2>1, <2>3 DEF Counted
<1>4. SceneTypes' /\ ProgressTypes'
  BY <1>2, FilesAre DEF PersonaTypes, SceneTypes, ProgressTypes
<1>5. CASE l2' = P!IdleL2
  <2>1. L2Types' /\ ~L2Active' /\ Rounds' = Rounds + 1
    BY <1>2, <1>5, L2Stops DEF L2Active
  <2>2. CounterTypes'
    BY <1>2, <1>3, <2>1, NumbersAre, CountersStay
  <2> QED BY <1>2, <1>4, <2>1, <2>2 DEF PersonaTypes
<1>6. CASE l2' = [l2 EXCEPT !.phase = "check"]
  <2>1. /\ l2' \in L2Runs /\ l2'.phase = "check" /\ l2'.stamp = l2.stamp /\ l2'.batch = l2.batch
        /\ l2'.pre = l2.pre /\ l2'.post = l2.post
    BY <1>6 DEF PersonaTypes, L2Types, L2Runs, L2Phases
  <2>2. L2Types' /\ L2Active /\ L2Active' = L2Active /\ Rounds' = Rounds
    BY <1>2, <2>1, L2Goes DEF L2Active
  <2>3. CounterTypes'
    BY <1>2, <1>3, <2>1, <2>2 DEF PersonaTypes, CounterTypes
  <2> QED BY <1>2, <1>4, <2>2, <2>3 DEF PersonaTypes
<1> QED BY <1>2, <1>5, <1>6


(* the larger of two counters is within the bounds of both *)
LEMMA RepairedIsCounted ==
  ASSUME NEW c, NEW d, NEW a \in Nat, NEW m \in Nat, NEW t \in Nat, NEW r \in Nat,
         Counted(c, a, m, t, r), Counted(d, a, m, t, r)
  PROVE  Counted(P!Repaired(c, d), a, m, t, r)
<1> DEFINE scenes == P!Larger(d.scenes, c.scenes)
           total == P!Larger(d.total, c.total)
           since == P!Larger(d.since, c.since)
           new == P!Repaired(c, d)
<1>1. c \in P!Counters /\ d \in P!Counters
  BY DEF Counted
<1>2. /\ scenes \in 0..MaxTime /\ total \in 0..MaxCaptures /\ since \in 0..MaxMemories
      /\ scenes <= r /\ total <= a /\ since <= m
  BY <1>1, CountersAre DEF Counted, P!Larger
<1>3. new = [d EXCEPT !.scenes = scenes, !.total = total, !.since = since]
  BY <1>1 DEF P!Repaired, P!Counters
<1> HIDE DEF scenes, total, since, new
<1>4. new \in P!Counters
  BY <1>1, <1>2, <1>3 DEF P!Counters
<1>5. /\ new.scenes = scenes /\ new.total = total /\ new.since = since
      /\ new.cursors = d.cursors /\ new.time = d.time
  BY <1>1, <1>3 DEF P!Counters
<1>6. Counted(new, a, m, t, r)
  BY <1>2, <1>4, <1>5 DEF Counted
<1> QED BY <1>6 DEF new

LEMMA L2ChecksTyped ==
  ASSUME PersonaTypes, P!L2Checks, overlapped' \in BOOLEAN
  PROVE  PersonaTypes'
<1>1. PICK v \in {cp, P!DefaultCheckpoint} :
        /\ P!Reads(v)
        /\ l2' = IF P!LooksCorrupt(l2.pre, v)
                   THEN [l2 EXCEPT !.phase = "repair", !.post = P!Repaired(l2.pre, v)]
                   ELSE [l2 EXCEPT !.phase = "count"]
  BY DEF P!L2Checks
<1>2. /\ l2.phase = "check" /\ UNCHANGED <<files, index, backup, persona, cp, cursor, asked, clock>>
      /\ UNCHANGED <<local, memories, captures, l3>>
  BY DEF P!L2Checks, P!L2Keeps
<1>3. /\ Counted(v, captures, memories, clock, Rounds) /\ unreadable' \in 0..MaxUnreadable
      /\ incidents' \subseteq {"unreadable", "missed", "partial", "failed"}
  BY <1>1, ReadIs
<1>4. /\ Counted(l2.pre, captures, memories, clock, Rounds)
      /\ Counted(l2.post, captures, memories, clock, Rounds)
      /\ Counted(cp, captures, memories, clock, Rounds)
  BY <1>2 DEF PersonaTypes, CounterTypes, L2Active
<1>5. Counted(P!Repaired(l2.pre, v), captures, memories, clock, Rounds)
  BY <1>3, <1>4, NumbersAre, RepairedIsCounted
<1>6. /\ l2' \in L2Runs /\ l2'.phase # "idle" /\ l2'.stamp = l2.stamp /\ l2'.batch = l2.batch
      /\ l2'.pre = l2.pre /\ l2'.post \in {l2.post, P!Repaired(l2.pre, v)}
  <2>1. l2 \in L2Runs /\ P!Repaired(l2.pre, v) \in P!Counters
    BY <1>5 DEF PersonaTypes, L2Types, Counted
  <2>2. CASE l2' = [l2 EXCEPT !.phase = "repair", !.post = P!Repaired(l2.pre, v)]
    BY <2>1, <2>2 DEF L2Runs, L2Phases
  <2>3. CASE l2' = [l2 EXCEPT !.phase = "count"]
    BY <2>1, <2>3 DEF L2Runs, L2Phases
  <2> QED BY <1>1, <2>2, <2>3
<1>7. L2Types' /\ L2Active /\ L2Active' = L2Active /\ Rounds' = Rounds
  BY <1>2, <1>6, L2Goes DEF L2Active
<1>8. CounterTypes'
  <2>1. Counted(l2'.pre, captures, memories, clock, Rounds) /\ Counted(l2'.post, captures, memories, clock, Rounds)
    BY <1>4, <1>5, <1>6
  <2> QED BY <1>2, <1>4, <1>7, <2>1 DEF CounterTypes
<1> QED BY <1>2, <1>3, <1>7, <1>8 DEF PersonaTypes, SceneTypes, ProgressTypes

LEMMA L2RepairsTyped ==
  ASSUME PersonaTypes, P!L2Repairs, overlapped' \in BOOLEAN
  PROVE  PersonaTypes'
<1>1. /\ l2.phase = "repair" /\ cp' = l2.post /\ l2' = [l2 EXCEPT !.phase = "count"]
      /\ UNCHANGED <<files, index, backup, persona, cursor, asked, clock, incidents, unreadable>>
      /\ UNCHANGED <<local, memories, captures, l3>>
  BY DEF P!L2Repairs, P!L2Keeps
<1>2. /\ l2' \in L2Runs /\ l2'.phase = "count" /\ l2'.stamp = l2.stamp /\ l2'.batch = l2.batch
      /\ l2'.pre = l2.pre /\ l2'.post = l2.post
  BY <1>1 DEF PersonaTypes, L2Types, L2Runs, L2Phases
<1>3. L2Types' /\ L2Active /\ L2Active' = L2Active /\ Rounds' = Rounds
  BY <1>1, <1>2, L2Goes DEF L2Active
<1>4. CounterTypes'
  BY <1>1, <1>2, <1>3 DEF PersonaTypes, CounterTypes
<1> QED BY <1>1, <1>3, <1>4 DEF PersonaTypes, SceneTypes, ProgressTypes

(* a run that counts is done with the memories of its batch *)
LEMMA CursorMoves ==
  ASSUME PersonaTypes, L2Active
  PROVE  cursor + Cardinality(l2.batch) \in 0..memories
<1>1. PICK last \in 0..memories : cursor < last /\ l2.batch = (cursor + 1)..last
  BY DEF PersonaTypes, L2Types
<1>2. Cardinality(l2.batch) = last - cursor
  BY <1>1, NumbersAre, FS_Interval
<1> QED BY <1>1, <1>2, NumbersAre

LEMMA SameCardinality ==
  ASSUME NEW X
  PROVE  P!Cardinality(X) = Cardinality(X)
BY DEF P!Cardinality, Cardinality

LEMMA L2CountsTyped ==
  ASSUME PersonaTypes, P!L2Counts, overlapped' \in BOOLEAN
  PROVE  PersonaTypes'
<1>1. /\ l2.phase = "count" /\ cp' = [cp EXCEPT !.scenes = @ + 1]
      /\ cursor' \in 0..memories /\ asked' = TRUE /\ l2' = P!IdleL2
      /\ UNCHANGED <<files, index, backup, persona, clock, incidents, unreadable>>
      /\ UNCHANGED <<local, memories, captures, l3>>
  BY CursorMoves, SameCardinality DEF P!L2Counts, P!L2Keeps, L2Active
<1>2. L2Types' /\ ~L2Active' /\ Rounds' = Rounds + 1 /\ Rounds' = clock
  BY <1>1, L2Stops DEF L2Active
<1>3. Counted(cp', captures, memories, clock, clock)
  <2>1. Counted(cp, captures, memories, clock, Rounds) /\ cp \in P!Counters
    BY DEF PersonaTypes, CounterTypes, Counted
  <2>2. cp.scenes + 1 \in 0..MaxTime /\ cp.scenes + 1 <= clock
    BY <1>2, <2>1, CountersAre, NumbersAre, PersonaBounds DEF Counted
  <2>3. /\ cp' \in P!Counters /\ cp'.scenes = cp.scenes + 1 /\ cp'.total = cp.total
        /\ cp'.cursors = cp.cursors /\ cp'.since = cp.since /\ cp'.time = cp.time
    BY <1>1, <2>1, <2>2 DEF P!Counters
  <2> QED BY <2>1, <2>2, <2>3 DEF Counted
<1>4. CounterTypes'
  BY <1>1, <1>2, <1>3 DEF CounterTypes
<1> QED BY <1>1, <1>2, <1>4 DEF PersonaTypes, SceneTypes, ProgressTypes

LEMMA PersonaTypesInit ==
  ASSUME P!Init
  PROVE  PersonaTypes
<1>1. P!NoBackup \in [Scenes -> P!File] /\ 0 \in P!Time
  BY IdleRunsAre, PersonaBounds DEF P!NoBackup, P!Time
<1>2. ~L2Active /\ Rounds = 0
  BY IdleRunsAre DEF P!Init, L2Active, Rounds
<1>3. CounterTypes
  BY <1>2, DefaultIsCounted DEF P!Init, CounterTypes
<1>4. L2Types
  BY <1>2, IdleRunsAre DEF P!Init, L2Types
<1>5. SceneTypes
  BY <1>1, IdleRunsAre DEF P!Init, SceneTypes
<1>6. ProgressTypes
  <2>1. memories = 0 /\ captures = 0 /\ cursor = 0 /\ clock = 0 /\ unreadable = 0 /\ incidents = {}
    BY DEF P!Init
  <2>2. asked \in BOOLEAN /\ overlapped \in BOOLEAN
    BY DEF P!Init
  <2>3. /\ memories \in 0..MaxMemories /\ captures \in 0..MaxCaptures /\ cursor \in 0..memories
        /\ clock \in P!Time /\ unreadable \in 0..MaxUnreadable
    BY <1>1, <2>1, PersonaBounds
  <2> QED BY <2>1, <2>2, <2>3 DEF ProgressTypes
<1>7. l3 \in L3Runs
  BY IdleRunsAre DEF P!Init
<1> QED BY <1>3, <1>4, <1>5, <1>6, <1>7 DEF PersonaTypes

LEMMA PersonaTypesStep ==
  ASSUME PersonaTypes, P!Next
  PROVE  PersonaTypes'
<1>1. overlapped' \in BOOLEAN /\ P!Step
  BY DEF P!Next, P!Remembers, PersonaTypes, ProgressTypes
<1>2. P!L2Begin => UNCHANGED l3
  BY DEF P!L2Begin, P!L2Keeps
<1>3. CASE P!L2Proceeds
  BY <1>1, <1>3, L2SyncsTyped, L2NavigatesTyped, L2ChecksTyped, L2RepairsTyped, L2CountsTyped
     DEF P!L2Proceeds
<1>4. CASE P!L3Proceeds
  BY <1>1, <1>4, L3DecidesTyped, L3LoadsTyped, L3WritesTyped, L3MarksTyped DEF P!L3Proceeds
<1> QED BY <1>1, <1>2, <1>3, <1>4, CaptureTyped, L1ExtractsTyped, L2BeginTyped, L2EditsTyped,
           L2FailsTyped, L3MissesTyped, L3WritesTyped DEF P!Step

LEMMA PersonaTyped ==
  ASSUME PersonaTypes
  PROVE  P!TypeOK
<1>1. cp \in P!Counters
  BY DEF PersonaTypes, CounterTypes, Counted
<1>2. /\ l2 \in [phase : {"idle", "llm", "nav", "check", "repair", "count"}, stamp : P!Time,
                 batch : SUBSET P!Memories, pre : P!Counters, post : P!Counters,
                 wasEmpty : BOOLEAN, seen : P!Document]
      /\ l3 \in [phase : {"idle", "load", "llm", "navigate", "mark"}, facts : SUBSET P!Memories,
                 nav : SUBSET Scenes]
  BY DEF PersonaTypes, L2Types, L2Runs, L2Phases, L3Runs, L3Phases
<1> QED BY <1>1, <1>2 DEF PersonaTypes, SceneTypes, ProgressTypes, P!TypeOK


-----------------------------------------------------------------------------
(* Persona: what its counters say, and whose turn it is *)

(* an L2 run whose checks find nothing wrong *)
LEMMA NothingLooksCorrupt ==
  ASSUME PersonaTypes, L2Active, l2.pre.scenes <= cp.scenes, l2.pre.total <= cp.total
  PROVE  ~P!LooksCorrupt(l2.pre, cp)
<1>1. l2.pre \in P!Counters /\ cp \in P!Counters
  BY DEF PersonaTypes, CounterTypes, Counted
<1>2. /\ l2.pre.scenes \in Nat /\ cp.scenes \in Nat /\ l2.pre.total \in Nat /\ cp.total \in Nat
  BY <1>1, CountersAre, PersonaBounds
<1> QED BY <1>2 DEF P!LooksCorrupt

LEMMA CountersStep ==
  ASSUME PersonaTypes, CountersKept, P!Step
  PROVE  CountersKept'
<1> SUFFICES ASSUME "unreadable" \notin incidents'
             PROVE  /\ cp'.total = captures' /\ cp'.cursors = captures' /\ l2'.phase # "repair"
                    /\ l2'.phase # "idle" => l2'.pre.scenes <= cp'.scenes /\ l2'.pre.total <= cp'.total
  BY DEF CountersKept, L2Active
<1>1. /\ cp \in P!Counters /\ cp.total \in Nat /\ cp.cursors \in Nat /\ cp.scenes \in Nat
      /\ captures \in Nat /\ clock \in Nat
      /\ l2 \in L2Runs /\ l2.pre.scenes \in Nat /\ l2.pre.total \in Nat
  <2>1. cp \in P!Counters /\ l2 \in L2Runs /\ l2.pre \in P!Counters
    BY L2RunIs DEF PersonaTypes, CounterTypes, L2Types, Counted
  <2> QED BY <2>1, CountersAre, NumbersAre, PersonaBounds
<1>2. "unreadable" \notin incidents =>
        /\ cp.total = captures /\ cp.cursors = captures /\ l2.phase # "repair"
        /\ l2.phase # "idle" => l2.pre.scenes <= cp.scenes /\ l2.pre.total <= cp.total
  BY DEF CountersKept, L2Active
<1>3. CASE P!Capture
  <2>1. /\ captures' = captures + 1 /\ cp' = [cp EXCEPT !.total = @ + 1, !.cursors = @ + 1]
        /\ UNCHANGED <<l2, incidents>>
    BY <1>3 DEF P!Capture
  <2>2. cp'.total = cp.total + 1 /\ cp'.cursors = cp.cursors + 1 /\ cp'.scenes = cp.scenes
    BY <1>1, <2>1 DEF P!Counters
  <2> QED BY <1>1, <1>2, <2>1, <2>2
<1>4. CASE P!L1Extracts
  <2>1. cp' = [cp EXCEPT !.since = @ + 1] /\ UNCHANGED <<captures, l2, incidents>>
    BY <1>4 DEF P!L1Extracts
  <2>2. cp'.total = cp.total /\ cp'.cursors = cp.cursors /\ cp'.scenes = cp.scenes
    BY <1>1, <2>1 DEF P!Counters
  <2> QED BY <1>2, <2>1, <2>2
<1>5. CASE P!L2Begin
  <2>1. PICK v \in {cp, P!DefaultCheckpoint} :
          /\ P!Reads(v)
          /\ l2' = [P!IdleL2 EXCEPT !.phase = "llm", !.stamp = clock + 1, !.pre = v,
                                    !.batch = P!UnreadMemories, !.wasEmpty = P!Indexed = {}]
    BY <1>5 DEF P!L2Begin
  <2>2. UNCHANGED <<cp, captures>>
    BY <1>5 DEF P!L2Begin, P!L2Keeps
  <2>3. v = cp /\ "unreadable" \notin incidents
    BY <2>1, ReadIs
  <2>4. l2'.phase = "llm" /\ l2'.pre = cp
    BY <2>1, <2>3 DEF P!IdleL2
  <2> QED BY <1>1, <1>2, <2>2, <2>3, <2>4
<1>6. CASE P!L2Edits
  <2>1. UNCHANGED <<cp, captures, l2, incidents>>
    BY <1>6 DEF P!L2Edits, P!L2Keeps
  <2> QED BY <1>2, <2>1
<1>7. CASE P!L2Fails
  <2>1. UNCHANGED <<cp, captures>> /\ l2' = P!IdleL2 /\ incidents \subseteq incidents'
    BY <1>7 DEF P!L2Fails, P!L2Keeps, P!Notes
  <2> QED BY <1>2, <2>1, IdleRunsAre
<1>8. CASE P!L2Syncs
  <2>1. /\ UNCHANGED <<cp, captures, incidents>> /\ l2.phase = "llm"
        /\ l2' = [l2 EXCEPT !.phase = "nav", !.seen = persona]
    BY <1>8 DEF P!L2Syncs, P!L2Keeps
  <2>2. l2'.phase = "nav" /\ l2'.pre = l2.pre
    BY <1>1, <2>1 DEF L2Runs
  <2> QED BY <1>2, <2>1, <2>2
<1>9. CASE P!L2Navigates
  <2>1. PICK signal \in BOOLEAN : cp' = [cp EXCEPT !.request = @ \/ signal]
    BY <1>9 DEF P!L2Navigates
  <2>2. /\ UNCHANGED <<captures, incidents>> /\ l2.phase = "nav"
        /\ l2' = P!IdleL2 \/ l2' = [l2 EXCEPT !.phase = "check"]
    BY <1>9 DEF P!L2Navigates, P!L2Keeps
  <2>3. cp'.total = cp.total /\ cp'.cursors = cp.cursors /\ cp'.scenes = cp.scenes
    BY <1>1, <2>1 DEF P!Counters
  <2>4. CASE l2' = P!IdleL2
    BY <1>2, <2>2, <2>3, <2>4, IdleRunsAre
  <2>5. CASE l2' = [l2 EXCEPT !.phase = "check"]
    <3>1. l2'.phase = "check" /\ l2'.pre = l2.pre
      BY <1>1, <2>5 DEF L2Runs
    <3> QED BY <1>2, <2>2, <2>3, <3>1
  <2> QED BY <2>2, <2>4, <2>5
<1>10. CASE P!L2Checks
  <2>1. PICK v \in {cp, P!DefaultCheckpoint} :
          /\ P!Reads(v)
          /\ l2' = IF P!LooksCorrupt(l2.pre, v)
                     THEN [l2 EXCEPT !.phase = "repair", !.post = P!Repaired(l2.pre, v)]
                     ELSE [l2 EXCEPT !.phase = "count"]
    BY <1>10 DEF P!L2Checks
  <2>2. UNCHANGED <<cp, captures>> /\ l2.phase = "check"
    BY <1>10 DEF P!L2Checks, P!L2Keeps
  <2>3. v = cp /\ "unreadable" \notin incidents
    BY <2>1, ReadIs
  <2>4. ~P!LooksCorrupt(l2.pre, cp)
    BY <1>2, <2>2, <2>3, NothingLooksCorrupt DEF L2Active
  <2>5. l2' = [l2 EXCEPT !.phase = "count"]
    BY <2>1, <2>3, <2>4
  <2>6. l2'.phase = "count" /\ l2'.pre = l2.pre
    BY <1>1, <2>5 DEF L2Runs
  <2> QED BY <1>2, <2>2, <2>3, <2>6
<1>11. CASE P!L2Repairs
  <2>1. l2.phase = "repair" /\ UNCHANGED incidents
    BY <1>11 DEF P!L2Repairs
  <2> QED BY <1>2, <2>1
<1>12. CASE P!L2Counts
  <2>1. cp' = [cp EXCEPT !.scenes = @ + 1] /\ l2' = P!IdleL2 /\ UNCHANGED <<captures, incidents>>
    BY <1>12 DEF P!L2Counts, P!L2Keeps
  <2>2. cp'.total = cp.total /\ cp'.cursors = cp.cursors
    BY <1>1, <2>1 DEF P!Counters
  <2> QED BY <1>2, <2>1, <2>2, IdleRunsAre
<1>13. CASE P!L3Proceeds \/ P!L3WritesNothing \/ P!L3Fails
  <2>1. /\ UNCHANGED <<captures, l2>> /\ incidents \subseteq incidents'
        /\ UNCHANGED cp \/ cp' = P!MarkPersonaGenerated(cp, clock)
    BY <1>13 DEF P!L3Proceeds, P!L3Decides, P!L3Loads, P!L3Writes, P!L3WritesNothing, P!L3Fails,
                 P!L3Navigates, P!L3Marks, P!L3Keeps, P!Notes
  <2>2. cp'.total = cp.total /\ cp'.cursors = cp.cursors /\ cp'.scenes = cp.scenes
    <3>1. CASE cp' = P!MarkPersonaGenerated(cp, clock)
      BY <1>1, <3>1 DEF P!MarkPersonaGenerated, P!Counters
    <3> QED BY <2>1, <3>1
  <2> QED BY <1>2, <2>1, <2>2
<1>14. CASE P!L3Misses
  BY <1>14 DEF P!L3Misses
<1> QED BY <1>3, <1>4, <1>5, <1>6, <1>7, <1>8, <1>9, <1>10, <1>11, <1>12, <1>13, <1>14
        DEF P!Step, P!L2Proceeds

(* two runs that are under way have been so at once *)
LEMMA TurnsStep ==
  ASSUME P!Remembers
  PROVE  TakeTurns'
BY DEF P!Remembers, TakeTurns, L2Active, L3Active

LEMMA PersonaCounts ==
  ASSUME CountersKept
  PROVE  P!CountersTrue
BY DEF CountersKept, P!CountersTrue


-----------------------------------------------------------------------------
(* Persona: what the persona knows of the scenes *)

(* steps that leave scenes, persona and the time of the last persona alone *)
LEMMA QuietStep ==
  ASSUME ScenesKept, UNCHANGED <<local, files, index, backup, persona, clock>>, cp'.time = cp.time,
         \/ UNCHANGED l2
         \/ /\ {l2.phase, l2'.phase} \cap {"llm", "nav"} = {}
            /\ L2Active' => L2Active /\ l2'.stamp = l2.stamp,
         UNCHANGED l3 \/ {l3.phase, l3'.phase} \cap {"llm", "navigate", "mark"} = {}
  PROVE  ScenesKept'
<1>1. P!Indexed' = P!Indexed
  BY DEF P!Indexed
<1>2. /\ l2'.phase = "llm" => l2.phase = "llm" /\ l2'.stamp = l2.stamp
      /\ l2.phase = "llm" => l2'.phase = "llm"
      /\ l2'.phase = "nav" => l2.phase = "nav" /\ l2'.seen = l2.seen
      /\ l2.phase = "nav" => l2'.phase = "nav"
  OBVIOUS
<1>3. \A s \in Scenes : /\ Agrees(files, s)' <=> Agrees(files, s)
                        /\ Agrees(backup, s)' <=> Agrees(backup, s)
                        /\ Told(files, s)' <=> Told(files, s)
                        /\ Told(backup, s)' <=> Told(backup, s)
  BY DEF Agrees, Told
<1>4. FilesAgree'
  BY <1>2, <1>3 DEF ScenesKept, FilesAgree
<1>5. BackupAgrees'
  <2>1. P!NoBackup' = P!NoBackup
    BY DEF P!NoBackup, P!NoFile
  <2> QED BY <1>2, <1>3, <2>1 DEF ScenesKept, BackupAgrees
<1>6. PersonaKnows'
  <2>1. L2Active' => cp'.time < l2'.stamp
    BY DEF ScenesKept, PersonaKnows, L2Active
  <2>2. /\ l3'.phase = "llm" => l3.phase = "llm" /\ l3' = l3
        /\ l3'.phase \in {"navigate", "mark"} => l3.phase \in {"navigate", "mark"}
    OBVIOUS
  <2> QED BY <1>1, <1>3, <2>1, <2>2 DEF ScenesKept, PersonaKnows
<1>7. NavigationLists'
  <2>1. /\ l3'.phase \in {"llm", "navigate"} => l3.phase \in {"llm", "navigate"} /\ l3' = l3
        /\ l3.phase = "navigate" => l3'.phase = "navigate"
    OBVIOUS
  <2> QED BY <1>1, <1>2, <2>1 DEF ScenesKept, NavigationLists
<1> QED BY <1>4, <1>5, <1>6, <1>7 DEF ScenesKept

LEMMA BeginKeepsScenes ==
  ASSUME PersonaTypes, ScenesKept, P!L2Begin, ~L3Active, UNCHANGED l3
  PROVE  ScenesKept'
<1>1. /\ ~L2Active /\ clock' = clock + 1 /\ backup' = P!BackedUp
      /\ UNCHANGED <<local, files, index, persona, cp>>
      /\ l2'.phase = "llm" /\ l2'.stamp = clock + 1
  BY DEF P!L2Begin, P!L2Keeps, L2Active, P!IdleL2
<1>2. /\ clock \in Nat /\ cp.time \in Nat /\ cp.time <= clock
      /\ \A s \in Scenes : files[s].updated \in Nat /\ files[s].updated <= clock
  <2>1. cp.time \in 0..MaxTime /\ cp.time <= clock
    BY CountersAre DEF PersonaTypes, CounterTypes, Counted
  <2>2. \A s \in Scenes : files[s].updated \in P!Time
    BY SceneFileIs DEF PersonaTypes, SceneTypes
  <2> QED BY <2>1, <2>2, NumbersAre, PersonaBounds DEF P!Time, ScenesKept, FilesAgree
<1>3. \A s \in Scenes : Agrees(files, s) /\ Told(files, s)
  BY <1>1 DEF ScenesKept, FilesAgree, PersonaKnows, L2Active
<1>4. \A s \in Scenes : Agrees(files, s)' /\ Told(files, s)'
  BY <1>1, <1>3 DEF Agrees, Told
<1>5. FilesAgree'
  BY <1>1, <1>2, <1>4 DEF ScenesKept, FilesAgree
<1>6. BackupAgrees'
  <2>1. CASE local /\ \E s \in Scenes : files[s].there
    <3>1. backup' = files /\ files' = files
      BY <1>1, <2>1 DEF P!BackedUp
    <3>2. \E s \in Scenes : files[s].facts # {}
      BY <1>3, <2>1 DEF Agrees
    <3>3. \A s \in Scenes : backup'[s].updated < l2'.stamp /\ Agrees(backup, s)' /\ Told(backup, s)'
      BY <1>1, <1>2, <1>3, <3>1 DEF Agrees, Told
    <3> QED BY <3>1, <3>2, <3>3 DEF BackupAgrees
  <2>2. CASE ~(local /\ \E s \in Scenes : files[s].there)
    <3>1. backup' = backup /\ files' = files /\ P!NoBackup' = P!NoBackup /\ local' = local
      BY <1>1, <2>2 DEF P!BackedUp, P!NoBackup, P!NoFile
    <3>2. backup # P!NoBackup => /\ ~local
                                 /\ \E s \in Scenes : files[s].facts # {}
                                 /\ \E s \in Scenes : backup[s].facts # {}
      BY <1>3, <2>2 DEF ScenesKept, BackupAgrees, Agrees
    <3> QED BY <3>1, <3>2 DEF BackupAgrees
  <2> QED BY <2>1, <2>2
<1>7. PersonaKnows'
  BY <1>1, <1>2, <1>4 DEF PersonaKnows, L3Active
<1>8. NavigationLists'
  <2>1. P!Indexed' = P!Indexed
    BY <1>1 DEF P!Indexed
  <2> QED BY <1>1, <2>1 DEF ScenesKept, NavigationLists, L2Active, L3Active
<1> QED BY <1>5, <1>6, <1>7, <1>8 DEF ScenesKept

(* an edit: what it touches has the run's time, and no fact is left nowhere *)
LEMMA EditDoes ==
  ASSUME PersonaTypes, FilesAgree, P!L2Edits
  PROVE  /\ \A s \in Scenes : files'[s] = files[s] \/ (files'[s].there /\ files'[s].updated = l2.stamp)
         /\ (\E s \in Scenes : files[s].facts # {}) => (\E s \in Scenes : files'[s].facts # {})
<1>1. files \in [Scenes -> P!File] /\ l2.batch # {}
  <2>1. \A last \in 0..memories : cursor < last => (cursor + 1) \in (cursor + 1)..last
    BY NumbersAre
  <2>2. l2.phase = "llm"
    BY DEF P!L2Edits
  <2>3. files \in [Scenes -> P!File]
    BY DEF PersonaTypes, SceneTypes
  <2>4. \E last \in 0..memories : cursor < last /\ l2.batch = (cursor + 1)..last
    BY <2>2 DEF PersonaTypes, L2Types, L2Active
  <2> QED BY <2>1, <2>3, <2>4
<1>2. \A s \in Scenes, facts \in SUBSET P!Memories :
        LET f == P!Written(s, facts) IN f.there /\ f.updated = l2.stamp /\ f.facts = facts
  BY DEF P!Written
<1>3. l2.batch \subseteq P!Memories /\ \A s \in Scenes : files[s].facts \subseteq P!Memories
  BY <1>1, L2RunIs, SceneFileIs DEF PersonaTypes, L2Types
<1>4. CASE \E s \in Scenes : files' = [files EXCEPT ![s] = P!Written(s, files[s].facts \cup l2.batch)]
  <2>1. PICK s \in Scenes : files' = [files EXCEPT ![s] = P!Written(s, files[s].facts \cup l2.batch)]
    BY <1>4
  <2>2. /\ files'[s] = P!Written(s, files[s].facts \cup l2.batch)
        /\ \A t \in Scenes : t # s => files'[t] = files[t]
    BY <1>1, <2>1
  <2>3. files[s].facts \cup l2.batch \in SUBSET P!Memories /\ files[s].facts \cup l2.batch # {}
    BY <1>1, <1>3
  <2> QED BY <1>2, <2>2, <2>3
<1>5. CASE \E s \in Scenes : \E t \in P!RenameTargets(s) :
             files' = [files EXCEPT ![t] = P!Written(t, l2.batch)]
  <2>1. PICK s \in Scenes : \E t \in P!RenameTargets(s) :
               files' = [files EXCEPT ![t] = P!Written(t, l2.batch)]
    BY <1>5
  <2>2. PICK t \in P!RenameTargets(s) : files' = [files EXCEPT ![t] = P!Written(t, l2.batch)]
    BY <2>1
  <2>3. t \in Scenes
    BY DEF P!RenameTargets
  <2>4. /\ files'[t] = P!Written(t, l2.batch)
        /\ \A u \in Scenes : u # t => files'[u] = files[u]
    BY <1>1, <2>2, <2>3
  <2> QED BY <1>1, <1>2, <1>3, <2>3, <2>4
<1>6. CASE \E s, t \in Scenes :
             /\ s # t /\ files[s].there /\ files[t].there
             /\ files' = [files EXCEPT ![s] = P!Written(s, {}),
                                       ![t] = P!Written(t, files[s].facts \cup files[t].facts)]
  <2>1. PICK s, t \in Scenes :
             /\ s # t
             /\ files' = [files EXCEPT ![s] = P!Written(s, {}),
                                       ![t] = P!Written(t, files[s].facts \cup files[t].facts)]
    BY <1>6
  <2>2. /\ files'[s] = P!Written(s, {})
        /\ files'[t] = P!Written(t, files[s].facts \cup files[t].facts)
        /\ \A u \in Scenes : u \notin {s, t} => files'[u] = files[u]
    BY <1>1, <2>1
  <2>3. files[s].facts \cup files[t].facts \in SUBSET P!Memories /\ {} \in SUBSET P!Memories
    BY <1>3
  <2>4. \A u \in Scenes : files'[u] = files[u] \/ (files'[u].there /\ files'[u].updated = l2.stamp)
    BY <1>2, <2>2, <2>3
  <2>5. ASSUME NEW u \in Scenes, files[u].facts # {}
        PROVE  files'[u].facts # {} \/ files'[t].facts # {}
    BY <1>2, <2>2, <2>3, <2>5
  <2> QED BY <2>4, <2>5
<1> QED BY <1>4, <1>5, <1>6 DEF P!L2Edits

LEMMA EditsKeepScenes ==
  ASSUME PersonaTypes, ScenesKept, P!L2Edits, ~L3Active
  PROVE  ScenesKept'
<1>1. /\ UNCHANGED <<index, backup, persona, cp, l2, clock, local, l3>> /\ l2.phase = "llm"
  BY DEF P!L2Edits, P!L2Keeps
<1>2. /\ \A s \in Scenes : files'[s] = files[s] \/ (files'[s].there /\ files'[s].updated = l2.stamp)
      /\ (\E s \in Scenes : files[s].facts # {}) => (\E s \in Scenes : files'[s].facts # {})
  BY EditDoes DEF ScenesKept
<1>3. /\ l2.stamp = clock /\ clock # 0 /\ clock \in Nat /\ cp.time \in Nat /\ cp.time < l2.stamp
  <2>1. cp.time \in 0..MaxTime
    BY CountersAre DEF PersonaTypes, CounterTypes, Counted
  <2> QED BY <1>1, <2>1, NumbersAre, PersonaBounds DEF PersonaTypes, L2Types, L2Active, ScenesKept, PersonaKnows
<1>4. FilesAgree'
  <2>1. ASSUME NEW s \in Scenes
        PROVE  /\ files'[s].updated <= clock
               /\ files'[s].facts # {} => files'[s].there /\ files'[s].updated # 0
               /\ files'[s].updated # l2.stamp => Agrees(files, s)'
    <3>1. CASE files'[s] = files[s]
      BY <1>1, <3>1 DEF ScenesKept, FilesAgree, Agrees
    <3>2. CASE files'[s].there /\ files'[s].updated = l2.stamp
      BY <1>3, <3>2
    <3> QED BY <1>2, <3>1, <3>2
  <2> QED BY <1>1, <2>1 DEF FilesAgree
<1>5. BackupAgrees'
  <2>1. P!NoBackup' = P!NoBackup
    BY DEF P!NoBackup, P!NoFile
  <2>2. \A s \in Scenes : (Agrees(backup, s)' <=> Agrees(backup, s)) /\ (Told(backup, s)' <=> Told(backup, s))
    BY <1>1 DEF Agrees, Told
  <2> QED BY <1>1, <1>2, <2>1, <2>2 DEF ScenesKept, BackupAgrees
<1>6. PersonaKnows'
  <2>1. ASSUME NEW s \in Scenes
        PROVE  Told(files, s)'
    <3>1. CASE files'[s] = files[s]
      BY <1>1, <3>1 DEF ScenesKept, PersonaKnows, Told
    <3>2. CASE files'[s].updated = l2.stamp
      BY <1>1, <1>3, <3>2 DEF Told
    <3> QED BY <1>2, <3>1, <3>2
  <2> QED BY <1>1, <1>3, <2>1 DEF PersonaKnows, L3Active
<1>7. NavigationLists'
  <2>1. P!Indexed' = P!Indexed
    BY <1>1 DEF P!Indexed
  <2> QED BY <1>1, <2>1 DEF ScenesKept, NavigationLists
<1> QED BY <1>4, <1>5, <1>6, <1>7 DEF ScenesKept


LEMMA FailureKeepsScenes ==
  ASSUME PersonaTypes, ScenesKept, P!L2Fails, ~L3Active, incidents' = {}
  PROVE  ScenesKept'
<1>1. /\ l2.phase = "llm" /\ l2' = P!IdleL2 /\ files' = P!Restored
      /\ UNCHANGED <<index, backup, persona, cp, clock, local, l3>>
  BY DEF P!L2Fails, P!L2Keeps
<1>2. \A s \in Scenes : files'[s].updated # l2.stamp
  BY DEF P!L2Fails, P!Notes
<1>3. l2'.phase = "idle" /\ ~L2Active'
  BY <1>1, IdleRunsAre DEF L2Active
<1>4. l2.stamp = clock /\ clock \in Nat
  BY <1>1, NumbersAre DEF PersonaTypes, L2Types, L2Active
<1>5. \A s \in Scenes : /\ files'[s].updated <= clock /\ Agrees(files, s)' /\ Told(files, s)'
                        /\ files'[s].facts # {} => files'[s].there /\ files'[s].updated # 0
  <2>1. CASE local /\ backup # P!NoBackup
    <3>1. files' = backup
      BY <1>1, <2>1 DEF P!Restored
    <3>2. \A s \in Scenes : backup[s].updated < l2.stamp /\ Agrees(backup, s) /\ Told(backup, s)
      BY <1>1, <2>1 DEF ScenesKept, BackupAgrees
    <3>3. \A s \in Scenes : backup[s].updated \in Nat
      BY SceneFileIs, PersonaBounds DEF PersonaTypes, SceneTypes, P!Time
    <3> QED BY <1>1, <1>4, <3>1, <3>2, <3>3 DEF Agrees, Told
  <2>2. CASE ~(local /\ backup # P!NoBackup)
    <3>1. files' = files
      BY <1>1, <2>2 DEF P!Restored
    <3>2. \A s \in Scenes : files[s].updated <= clock /\ Agrees(files, s) /\ Told(files, s)
      BY <1>2, <3>1 DEF ScenesKept, FilesAgree, PersonaKnows
    <3> QED BY <1>1, <3>1, <3>2 DEF Agrees, Told
  <2> QED BY <2>1, <2>2
<1>6. FilesAgree'
  BY <1>1, <1>5 DEF FilesAgree
<1>7. BackupAgrees'
  <2>1. P!NoBackup' = P!NoBackup
    BY DEF P!NoBackup, P!NoFile
  <2>2. backup # P!NoBackup => (\E s \in Scenes : files'[s].facts # {})
    BY <1>1 DEF ScenesKept, BackupAgrees, P!Restored
  <2> QED BY <1>1, <1>3, <2>1, <2>2 DEF ScenesKept, BackupAgrees
<1>8. PersonaKnows'
  BY <1>1, <1>3, <1>5 DEF PersonaKnows, L3Active
<1>9. NavigationLists'
  <2>1. P!Indexed' = P!Indexed
    BY <1>1 DEF P!Indexed
  <2> QED BY <1>1, <1>3, <2>1 DEF ScenesKept, NavigationLists
<1> QED BY <1>6, <1>7, <1>8, <1>9 DEF ScenesKept

LEMMA SyncKeepsScenes ==
  ASSUME PersonaTypes, ScenesKept, P!L2Syncs, ~L3Active
  PROVE  ScenesKept'
<1>1. /\ l2.phase = "llm" /\ files' = P!Cleaned /\ index' = P!SyncedIndex
      /\ l2' = [l2 EXCEPT !.phase = "nav", !.seen = persona]
      /\ UNCHANGED <<backup, persona, cp, clock, local, l3>>
  BY DEF P!L2Syncs, P!L2Keeps
<1>2. l2'.phase = "nav" /\ l2'.stamp = l2.stamp /\ l2'.seen = persona
  BY <1>1 DEF PersonaTypes, L2Types, L2Runs
<1>3. \A s \in Scenes : /\ index'[s] = files'[s].updated
                        /\ files'[s] = IF files[s].facts = {} THEN P!NoFile ELSE files[s]
  BY <1>1 DEF P!SyncedIndex, P!Cleaned
<1>4. P!NoFile.facts = {} /\ ~P!NoFile.there /\ P!NoFile.updated = 0 /\ clock \in Nat
  BY NumbersAre DEF P!NoFile
<1>5. \A s \in Scenes : /\ files'[s].updated <= clock /\ Agrees(files, s)' /\ Told(files, s)'
                        /\ files'[s].facts # {} => files'[s].there /\ files'[s].updated # 0
  <2> SUFFICES ASSUME NEW s \in Scenes
               PROVE  /\ files'[s].updated <= clock /\ Agrees(files, s)' /\ Told(files, s)'
                      /\ files'[s].facts # {} => files'[s].there /\ files'[s].updated # 0
    OBVIOUS
  <2>1. CASE files[s].facts = {}
    BY <1>3, <1>4, <2>1 DEF Agrees, Told
  <2>2. CASE files[s].facts # {}
    <3>1. /\ files'[s] = files[s] /\ files[s].there /\ files[s].updated # 0 /\ files[s].updated <= clock
          /\ Told(files, s)
      BY <1>3, <2>2 DEF ScenesKept, FilesAgree, PersonaKnows
    <3>2. Agrees(files, s)'
      BY <1>3, <2>2, <3>1 DEF Agrees
    <3>3. Told(files, s)'
      BY <1>1, <3>1 DEF Told
    <3> QED BY <3>1, <3>2, <3>3
  <2> QED BY <2>1, <2>2
<1>6. FilesAgree'
  BY <1>1, <1>5 DEF FilesAgree
<1>7. BackupAgrees'
  <2>1. P!NoBackup' = P!NoBackup
    BY DEF P!NoBackup, P!NoFile
  <2>2. (\E s \in Scenes : files[s].facts # {}) => (\E s \in Scenes : files'[s].facts # {})
    BY <1>3
  <2> QED BY <1>1, <1>2, <2>1, <2>2 DEF ScenesKept, BackupAgrees
<1>8. PersonaKnows'
  BY <1>1, <1>2, <1>5 DEF ScenesKept, PersonaKnows, L2Active, L3Active
<1>9. NavigationLists'
  BY <1>1, <1>2 DEF NavigationLists, L3Active
<1> QED BY <1>6, <1>7, <1>8, <1>9 DEF ScenesKept

LEMMA NavigationKeepsScenes ==
  ASSUME PersonaTypes, ScenesKept, P!L2Navigates, ~L3Active
  PROVE  ScenesKept'
<1>1. PICK signal \in BOOLEAN : cp' = [cp EXCEPT !.request = @ \/ signal]
  BY DEF P!L2Navigates
<1>2. /\ l2.phase = "nav" /\ persona' = P!Navigated
      /\ l2' = P!IdleL2 \/ l2' = [l2 EXCEPT !.phase = "check"]
      /\ UNCHANGED <<files, index, backup, clock, local, l3>>
  BY DEF P!L2Navigates, P!L2Keeps
<1>3. /\ l2'.phase \in {"idle", "check"} /\ (L2Active' => L2Active /\ l2'.stamp = l2.stamp)
  <2>1. CASE l2' = P!IdleL2
    BY <2>1, IdleRunsAre DEF L2Active
  <2>2. CASE l2' = [l2 EXCEPT !.phase = "check"]
    BY <1>2, <2>2 DEF PersonaTypes, L2Types, L2Runs, L2Active
  <2> QED BY <1>2, <2>1, <2>2
<1>4. cp'.time = cp.time
  BY <1>1 DEF PersonaTypes, CounterTypes, Counted, P!Counters
<1>5. /\ persona'.facts = persona.facts /\ persona'.body = persona.body
      /\ persona'.body => persona'.nav = P!Indexed
  <2>1. l2.seen = persona /\ persona \in P!Document
    BY <1>2 DEF ScenesKept, NavigationLists, PersonaTypes, SceneTypes
  <2> QED BY <1>2, <2>1 DEF P!Navigated, P!Document
<1>6. \A s \in Scenes : /\ Agrees(files, s)' <=> Agrees(files, s)
                        /\ Told(files, s)' <=> Told(files, s)
  BY <1>2, <1>4, <1>5 DEF Agrees, Told
<1>7. FilesAgree'
  BY <1>2, <1>3, <1>6 DEF ScenesKept, FilesAgree
<1>8. BackupAgrees'
  <2>1. P!NoBackup' = P!NoBackup
    BY DEF P!NoBackup, P!NoFile
  <2> QED BY <1>2, <1>3, <2>1 DEF ScenesKept, BackupAgrees
<1>9. PersonaKnows'
  BY <1>2, <1>3, <1>4, <1>6 DEF ScenesKept, PersonaKnows, L3Active
<1>10. NavigationLists'
  <2>1. P!Indexed' = P!Indexed
    BY <1>2 DEF P!Indexed
  <2> QED BY <1>2, <1>3, <1>5, <2>1 DEF NavigationLists, L3Active
<1> QED BY <1>7, <1>8, <1>9, <1>10 DEF ScenesKept

(* steps of L3 that leave the checkpoint alone and make the persona no poorer *)
LEMMA L3StepKeepsScenes ==
  ASSUME ScenesKept, P!L3Keeps, ~L2Active, UNCHANGED <<cp, clock>>,
         persona.facts \subseteq persona'.facts,
         l3'.phase = "llm" => persona'.facts \subseteq l3'.facts,
         \A s \in P!Indexed : /\ l3'.phase = "llm" => files[s].facts \subseteq l3'.facts
                              /\ l3'.phase \in {"navigate", "mark"} => files[s].facts \subseteq persona'.facts,
         persona'.body /\ l3'.phase # "navigate" => persona'.nav = P!Indexed,
         l3'.phase \in {"llm", "navigate"} => l3'.nav = P!Indexed
  PROVE  ScenesKept'
<1>1. UNCHANGED <<local, files, index, backup, memories, captures, cursor, l2, unreadable>>
  BY DEF P!L3Keeps
<1>2. P!Indexed' = P!Indexed /\ P!NoBackup' = P!NoBackup /\ l2'.phase = "idle" /\ l2.phase = "idle"
  BY <1>1 DEF P!Indexed, P!NoBackup, P!NoFile, L2Active
<1>3. \A s \in Scenes : /\ Agrees(files, s)' <=> Agrees(files, s)
                        /\ Told(files, s) => Told(files, s)'
  BY <1>1 DEF Agrees, Told
<1>4. FilesAgree'
  BY <1>1, <1>3 DEF ScenesKept, FilesAgree
<1>5. BackupAgrees'
  BY <1>1, <1>2 DEF ScenesKept, BackupAgrees
<1>6. PersonaKnows'
  BY <1>1, <1>2, <1>3 DEF ScenesKept, PersonaKnows, L2Active
<1>7. NavigationLists'
  BY <1>2 DEF NavigationLists
<1> QED BY <1>4, <1>5, <1>6, <1>7 DEF ScenesKept

LEMMA LoadKeepsScenes ==
  ASSUME PersonaTypes, ScenesKept, P!L3Loads, ~L2Active
  PROVE  ScenesKept'
<1>1. /\ l3' = [phase |-> IF P!Offered = {} /\ persona.body THEN "mark" ELSE "llm",
                facts |-> persona.facts \cup P!OfferedFacts, nav |-> P!Indexed]
      /\ UNCHANGED <<persona, cp, clock>> /\ P!L3Keeps /\ l3.phase = "load"
  BY DEF P!L3Loads
<1>2. \A s \in P!Indexed : s \in Scenes /\ files[s].there /\ Told(files, s) /\ files[s].updated # 0
                           /\ files[s].updated = index[s]
  BY DEF P!Indexed, ScenesKept, FilesAgree, PersonaKnows, Agrees, L2Active
<1>3. ASSUME NEW s \in P!Indexed
      PROVE  s \in P!Offered \/ files[s].facts \subseteq persona.facts
  <2>1. index[s] \in Nat /\ cp.time \in Nat
    <3>1. s \in Scenes /\ index[s] \in P!Time /\ cp \in P!Counters
      BY <1>2 DEF PersonaTypes, SceneTypes, CounterTypes, Counted
    <3> QED BY <3>1, CountersAre, PersonaBounds DEF P!Time
  <2>2. CASE s \in P!ChangedScenes
    BY <1>2, <2>2 DEF P!Offered
  <2>3. CASE s \notin P!ChangedScenes
    BY <1>2, <1>3, <2>1, <2>3 DEF P!ChangedScenes, Told
  <2> QED BY <2>2, <2>3
<1>4. \A s \in P!Offered : files[s].facts \subseteq P!OfferedFacts
  BY DEF P!OfferedFacts
<1>5. \A s \in P!Indexed : /\ files[s].facts \subseteq l3'.facts
                           /\ l3'.phase \in {"navigate", "mark"} => files[s].facts \subseteq persona.facts
  BY <1>1, <1>3, <1>4
<1>6. persona.body => persona.nav = P!Indexed
  BY <1>1 DEF ScenesKept, NavigationLists, L2Active
<1> QED BY <1>1, <1>5, <1>6, L3StepKeepsScenes

LEMMA WriteKeepsScenes ==
  ASSUME PersonaTypes, ScenesKept, P!L3Writes, ~L2Active
  PROVE  ScenesKept'
<1>1. /\ l3.phase = "llm" /\ l3' = [l3 EXCEPT !.phase = "navigate"]
      /\ persona' = [body |-> TRUE, facts |-> l3.facts, nav |-> {}]
      /\ UNCHANGED <<cp, clock>> /\ P!L3Keeps
  BY DEF P!L3Writes
<1>2. l3'.phase = "navigate" /\ l3'.nav = l3.nav /\ persona'.facts = l3.facts
  BY <1>1 DEF PersonaTypes, L3Runs
<1>3. /\ persona.facts \subseteq l3.facts /\ l3.nav = P!Indexed
      /\ \A s \in P!Indexed : files[s].facts \subseteq l3.facts
  BY <1>1 DEF ScenesKept, PersonaKnows, NavigationLists
<1> QED BY <1>1, <1>2, <1>3, L3StepKeepsScenes

LEMMA L3NavigationKeepsScenes ==
  ASSUME PersonaTypes, ScenesKept, P!L3Navigates, ~L2Active
  PROVE  ScenesKept'
<1>1. /\ l3.phase = "navigate" /\ l3' = [l3 EXCEPT !.phase = "mark"]
      /\ persona' = IF persona.body THEN [persona EXCEPT !.nav = l3.nav] ELSE persona
      /\ UNCHANGED <<cp, clock>> /\ P!L3Keeps
  BY DEF P!L3Navigates
<1>2. /\ l3'.phase = "mark" /\ persona'.facts = persona.facts
      /\ persona'.body => persona'.nav = l3.nav
  BY <1>1 DEF PersonaTypes, SceneTypes, L3Runs, P!Document
<1>3. /\ l3.nav = P!Indexed
      /\ \A s \in P!Indexed : files[s].facts \subseteq persona.facts
  BY <1>1 DEF ScenesKept, PersonaKnows, NavigationLists
<1> QED BY <1>1, <1>2, <1>3, L3StepKeepsScenes

LEMMA MarkKeepsScenes ==
  ASSUME PersonaTypes, ScenesKept, P!L3Marks, ~L2Active
  PROVE  ScenesKept'
<1>1. /\ l3.phase = "mark" /\ l3' = P!IdleL3 /\ cp' = P!MarkPersonaGenerated(cp, clock)
      /\ UNCHANGED <<persona, clock>>
      /\ UNCHANGED <<local, files, index, backup, memories, captures, cursor, l2, unreadable>>
  BY DEF P!L3Marks, P!L3Keeps
<1>2. P!Indexed' = P!Indexed /\ P!NoBackup' = P!NoBackup /\ l2'.phase = "idle" /\ l2.phase = "idle"
  BY <1>1 DEF P!Indexed, P!NoBackup, P!NoFile, L2Active
<1>3. l3'.phase = "idle"
  BY <1>1, IdleRunsAre
<1>4. \A s \in Scenes : Agrees(files, s) /\ Told(files, s)'
  <2>1. \A s \in Scenes : Agrees(files, s)
    BY <1>2 DEF ScenesKept, FilesAgree
  <2>2. \A s \in Scenes : files[s].updated # 0 => files[s].facts \subseteq persona.facts
    BY <1>1, <2>1 DEF ScenesKept, PersonaKnows, P!Indexed, Agrees
  <2> QED BY <1>1, <2>1, <2>2 DEF Told
<1>5. FilesAgree'
  BY <1>1, <1>4 DEF ScenesKept, FilesAgree, Agrees
<1>6. BackupAgrees'
  BY <1>1, <1>2 DEF ScenesKept, BackupAgrees
<1>7. PersonaKnows'
  BY <1>2, <1>3, <1>4 DEF PersonaKnows, L2Active
<1>8. NavigationLists'
  BY <1>1, <1>2, <1>3 DEF ScenesKept, NavigationLists
<1> QED BY <1>5, <1>6, <1>7, <1>8 DEF ScenesKept


LEMMA ScenesStep ==
  ASSUME PersonaTypes, PersonaTypes', CountersKept, CountersKept', TakeTurns, TakeTurns',
         Clean => ScenesKept, Clean', P!Next
  PROVE  ScenesKept'
<1>1. P!Step /\ Clean
  <2>1. incidents \subseteq incidents'
    <3>1. P!Step
      BY DEF P!Next
    <3>2. (\E v \in {cp, P!DefaultCheckpoint} : P!Reads(v)) => incidents \subseteq incidents'
      BY DEF P!Reads
    <3> QED BY <3>1, <3>2
            DEF P!Step, P!Capture, P!L1Extracts, P!L2Begin, P!L2Edits, P!L2Fails, P!L2Proceeds, P!L2Syncs,
                P!L2Navigates, P!L2Checks, P!L2Repairs, P!L2Counts, P!L3Proceeds, P!L3Decides,
                P!L3Misses, P!L3Loads, P!L3Writes, P!L3WritesNothing, P!L3Fails, P!L3Navigates, P!L3Marks, P!Notes
  <2>2. overlapped => overlapped'
    BY DEF P!Next, P!Remembers
  <2> QED BY <2>1, <2>2 DEF P!Next, Clean
<1>2. ScenesKept /\ (~L2Active \/ ~L3Active) /\ (~L2Active' \/ ~L3Active') /\ incidents' = {}
  BY <1>1 DEF TakeTurns, Clean
<1>3. cp \in P!Counters /\ l2 \in L2Runs
  BY DEF PersonaTypes, CounterTypes, Counted, L2Types
<1>4. CASE P!Capture \/ P!L1Extracts
  <2>1. /\ UNCHANGED <<local, files, index, backup, persona, clock, l2, l3>>
        /\ \/ cp' = [cp EXCEPT !.total = @ + 1, !.cursors = @ + 1]
           \/ cp' = [cp EXCEPT !.since = @ + 1]
    BY <1>4 DEF P!Capture, P!L1Extracts
  <2>2. cp'.time = cp.time
    BY <1>3, <2>1 DEF P!Counters
  <2> QED BY <1>2, <2>1, <2>2, QuietStep
<1>5. CASE P!L2Begin
  <2>1. UNCHANGED l3 /\ l2'.phase = "llm"
    BY <1>5 DEF P!L2Begin, P!L2Keeps, P!IdleL2
  <2>2. ~L3Active
    BY <1>2, <2>1 DEF L2Active, L3Active
  <2> QED BY <1>2, <1>5, <2>1, <2>2, BeginKeepsScenes
<1>6. CASE P!L2Edits
  <2>1. ~L3Active
    BY <1>2, <1>6 DEF P!L2Edits, L2Active
  <2> QED BY <1>2, <1>6, <2>1, EditsKeepScenes
<1>7. CASE P!L2Fails
  <2>1. ~L3Active
    BY <1>2, <1>7 DEF P!L2Fails, L2Active
  <2> QED BY <1>2, <1>7, <2>1, FailureKeepsScenes
<1>8. CASE P!L2Syncs
  <2>1. ~L3Active
    BY <1>2, <1>8 DEF P!L2Syncs, L2Active
  <2> QED BY <1>2, <1>8, <2>1, SyncKeepsScenes
<1>9. CASE P!L2Navigates
  <2>1. ~L3Active
    BY <1>2, <1>9 DEF P!L2Navigates, L2Active
  <2> QED BY <1>2, <1>9, <2>1, NavigationKeepsScenes
<1>10. CASE P!L2Checks
  <2>1. /\ l2.phase = "check" /\ UNCHANGED <<local, files, index, backup, persona, cp, clock, l3>>
        /\ \/ \E c : l2' = [l2 EXCEPT !.phase = "repair", !.post = c]
           \/ l2' = [l2 EXCEPT !.phase = "count"]
    BY <1>10 DEF P!L2Checks, P!L2Keeps
  <2>2. l2'.phase \in {"repair", "count"} /\ l2'.stamp = l2.stamp
    BY <1>3, <2>1 DEF L2Runs
  <2> QED BY <1>2, <2>1, <2>2, QuietStep DEF L2Active
<1>11. CASE P!L2Repairs
  BY <1>2, <1>11, <1>1 DEF P!L2Repairs, CountersKept, Clean
<1>12. CASE P!L2Counts
  <2>1. /\ l2.phase = "count" /\ UNCHANGED <<local, files, index, backup, persona, clock, l3>>
        /\ cp' = [cp EXCEPT !.scenes = @ + 1] /\ l2'.phase = "idle"
    BY <1>12, IdleRunsAre DEF P!L2Counts, P!L2Keeps
  <2>2. cp'.time = cp.time
    BY <1>3, <2>1 DEF P!Counters
  <2> QED BY <1>2, <2>1, <2>2, QuietStep DEF L2Active
<1>13. CASE P!L3Decides
  <2>1. /\ l3.phase = "idle" /\ l3'.phase \in {"idle", "load"}
        /\ UNCHANGED <<local, files, index, backup, persona, clock, cp, l2>>
    BY <1>13, IdleRunsAre DEF P!L3Decides, P!L3Keeps, P!IdleL3
  <2> QED BY <1>2, <2>1, QuietStep
<1>14. CASE P!L3Loads
  BY <1>2, <1>14, LoadKeepsScenes DEF P!L3Loads, L3Active
<1>15. CASE P!L3Writes
  BY <1>2, <1>15, WriteKeepsScenes DEF P!L3Writes, L3Active
<1>16. CASE P!L3WritesNothing \/ P!L3Fails
  BY <1>2, <1>16 DEF P!L3WritesNothing, P!L3Fails, P!Notes
<1>17. CASE P!L3Navigates
  BY <1>2, <1>17, L3NavigationKeepsScenes DEF P!L3Navigates, L3Active
<1>18. CASE P!L3Marks
  BY <1>2, <1>18, MarkKeepsScenes DEF P!L3Marks, L3Active
<1>19. CASE P!L3Misses
  BY <1>2, <1>19 DEF P!L3Misses
<1> QED BY <1>1, <1>4, <1>5, <1>6, <1>7, <1>8, <1>9, <1>10, <1>11, <1>12, <1>13, <1>14, <1>15, <1>16,
           <1>17, <1>18, <1>19 DEF P!Step, P!L2Proceeds, P!L3Proceeds

LEMMA PersonaInit ==
  ASSUME P!Init
  PROVE  PersonaInv
<1>1. PersonaTypes
  BY PersonaTypesInit
<1>2. /\ ~L2Active /\ ~L3Active /\ l2.phase = "idle" /\ l3.phase = "idle"
  BY IdleRunsAre DEF P!Init, L2Active, L3Active
<1>3. CountersKept
  BY <1>2 DEF P!Init, CountersKept, P!DefaultCheckpoint, L2Active
<1>4. /\ \A s \in Scenes : files[s] = P!NoFile /\ index[s] = 0
      /\ backup = P!NoBackup /\ P!Indexed = {} /\ persona = P!NoDocument /\ clock = 0
  BY DEF P!Init, P!NoBackup, P!Indexed
<1>5. P!NoFile.facts = {} /\ ~P!NoFile.there /\ P!NoFile.updated = 0 /\ ~P!NoDocument.body
  BY DEF P!NoFile, P!NoDocument
<1>6. ScenesKept
  <2>1. FilesAgree
    BY <1>4, <1>5 DEF FilesAgree, Agrees
  <2>2. BackupAgrees
    BY <1>4 DEF BackupAgrees
  <2>3. PersonaKnows
    BY <1>2, <1>4, <1>5 DEF PersonaKnows, Told
  <2>4. NavigationLists
    BY <1>2, <1>4, <1>5 DEF NavigationLists
  <2> QED BY <2>1, <2>2, <2>3, <2>4 DEF ScenesKept
<1> QED BY <1>1, <1>2, <1>3, <1>6 DEF PersonaInv, TakeTurns

LEMMA PersonaStep ==
  ASSUME PersonaInv, P!Next
  PROVE  PersonaInv'
<1>1. PersonaTypes /\ CountersKept /\ TakeTurns /\ (Clean => ScenesKept) /\ P!Step /\ P!Remembers
  BY DEF PersonaInv, P!Next
<1>2. PersonaTypes'
  BY <1>1, PersonaTypesStep
<1>3. CountersKept'
  BY <1>1, CountersStep
<1>4. TakeTurns'
  BY <1>1, TurnsStep
<1>5. Clean' => ScenesKept'
  BY <1>1, <1>2, <1>3, <1>4, ScenesStep
<1> QED BY <1>2, <1>3, <1>4, <1>5 DEF PersonaInv

LEMMA PersonaStutters ==
  ASSUME PersonaInv, UNCHANGED personaVars
  PROVE  PersonaInv'
<1>1. UNCHANGED <<local, files, index, backup, persona, cp, memories, captures, cursor, asked, l2, l3,
                  clock, incidents, overlapped, unreadable>>
  BY DEF personaVars
<1>2. L2Active' = L2Active /\ L3Active' = L3Active /\ Rounds' = Rounds /\ Clean' = Clean
  BY <1>1 DEF L2Active, L3Active, Rounds, Clean
<1>3. PersonaTypes'
  BY <1>1, <1>2 DEF PersonaInv, PersonaTypes, SceneTypes, ProgressTypes, CounterTypes, L2Types
<1>4. CountersKept' /\ TakeTurns'
  BY <1>1, <1>2 DEF PersonaInv, CountersKept, TakeTurns
<1>5. ScenesKept => ScenesKept'
  BY <1>1, QuietStep
<1> QED BY <1>2, <1>3, <1>4, <1>5 DEF PersonaInv

(* what the invariant says of a persona that waits *)
LEMMA ScenesKeptKnow ==
  ASSUME PersonaInv
  PROVE  P!PersonaKnowsOldScenes
<1> SUFFICES ASSUME incidents = {}, ~overlapped, l2.phase = "idle", l3.phase = "idle"
             PROVE  /\ cp.time # 0 =>
                         \A s \in P!Indexed : index[s] <= cp.time => files[s].facts \subseteq persona.facts
                    /\ persona.body => persona.nav = P!Indexed
  BY DEF P!PersonaKnowsOldScenes
<1>1. ScenesKept
  BY DEF PersonaInv, Clean
<1>2. ASSUME NEW s \in P!Indexed, cp.time # 0, index[s] <= cp.time
      PROVE  files[s].facts \subseteq persona.facts
  BY <1>1, <1>2 DEF P!Indexed, ScenesKept, FilesAgree, PersonaKnows, Agrees, Told
<1>3. persona.body => persona.nav = P!Indexed
  BY <1>1 DEF ScenesKept, NavigationLists
<1> QED BY <1>2, <1>3

-----------------------------------------------------------------------------
(* The theorems *)

IInv ==
  /\ focus \in {"persona", "sync"}
  /\ focus = "persona" => PersonaInv
  /\ focus = "sync" => SyncInv

LEMMA InvariantHolds == FairSpec => []IInv
<1>1. Init => IInv
  BY PersonaInit, SyncInit DEF Init, IInv
<1>2. IInv /\ [Next]_vars => IInv'
  <2> SUFFICES ASSUME IInv, [Next]_vars
               PROVE  IInv'
    OBVIOUS
  <2>1. CASE OnlyPersona /\ P!Next
    BY <2>1, PersonaStep DEF IInv, OnlyPersona
  <2>2. CASE focus = "sync" /\ S!Next /\ UNCHANGED <<focus, personaVars>>
    BY <2>2, SyncStep DEF IInv
  <2>3. CASE UNCHANGED vars
    BY <2>3, PersonaStutters, SyncStutters DEF IInv, vars
  <2> QED BY <2>1, <2>2, <2>3 DEF Next
<1> QED BY <1>1, <1>2, PTL DEF FairSpec

\* Every variable of scenes, persona and profiles has its type: the checkpoint's
\* counters, which a repair may set back, stay within what has been counted, and
\* versions within the runs there were.
THEOREM TypeCorrect == FairSpec => []TypeOK
<1>1. IInv => TypeOK
  BY PersonaTyped, SyncTyped DEF IInv, PersonaInv, TypeOK
<1> QED BY <1>1, InvariantHolds, PTL

\* No update of the checkpoint's counters is lost by the L2 runner's repair as long
\* as the file can be read, however L2, L3 and captures interleave.
THEOREM CountersAreTrue == FairSpec => []CountersTrue
<1>1. IInv => CountersTrue
  BY PersonaCounts DEF IInv, PersonaInv, CountersTrue
<1> QED BY <1>1, InvariantHolds, PTL

\* The persona tells every scene that it will not be offered again, and its
\* navigation lists the scenes there are, after any sequence of L2 and L3 runs that
\* take turns, failed L2 runs that restore their backup among them.
THEOREM PersonaIsComplete == FairSpec => []PersonaKnowsOldScenes
<1>1. IInv => PersonaKnowsOldScenes
  BY ScenesKeptKnow DEF IInv, PersonaKnowsOldScenes
<1> QED BY <1>1, InvariantHolds, PTL

\* No run's push replaces a readable profile whose text the run has not seen, and no
\* user's push a version his request has not probed, for any number of hosts, unless
\* two pushed the profile at once or it was removed before.  That the user knew what
\* the probed version says is not claimed.
THEOREM PushesHaveSeen == FairSpec => NoBlindOverwrite
<1>1. IInv /\ [Next]_vars => [focus = "sync" => S!SeenBeforeReplaced]_vars
  <2> SUFFICES ASSUME IInv, Next, focus = "sync"
               PROVE  S!SeenBeforeReplaced
    OBVIOUS
  <2>1. SyncInv /\ S!Next
    BY DEF IInv, Next, OnlyPersona
  <2> QED BY <2>1, SyncStep
<1>2. Init /\ [][Next]_vars /\ []IInv => NoBlindOverwrite
  BY <1>1, PTL DEF NoBlindOverwrite
<1> QED BY <1>2, InvariantHolds, PTL DEF FairSpec

=============================================================================
