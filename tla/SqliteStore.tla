---------------------------- MODULE SqliteStore ----------------------------
(***************************************************************************)
(* The SQLite store of messages (L0) and memories (L1): for each layer a   *)
(* table of rows, one of vectors and one for keyword search, which have to *)
(* agree.  A write is a transaction, but its embedding is computed before  *)
(* (L1) or after (L0) it, with the model of the running process, and a     *)
(* restart may bring another model, or none.  Writes come from the L1      *)
(* writer, from captures and from the v2 API; rows leave by id or because  *)
(* they have expired.                                                      *)
(*                                                                         *)
(* A text is the number of the write it came with; what else a memory has  *)
(* (type, priority, metadata) is named after the memory it was given to.   *)
(***************************************************************************)
EXTENDS Integers, FiniteSets

CONSTANTS
  L0Ids, L1Ids,  \* record ids, each generated once
  Models,        \* embedding models: provider, model and dimensions
  None,          \* no model, no vector, no row
  Requests,      \* v2 requests under way
  MinRetain,     \* MIN_RETAIN_L0, MIN_RETAIN_L1 of the cleaner
  MaxWrites,     \* bound: texts
  MaxTime,       \* bound: days
  MaxStarts,     \* bound: starts of the process
  MaxFaults      \* bound: keyword-index writes that fail

Ids == L0Ids \cup L1Ids
Texts == 1..MaxWrites
Time == 0..MaxTime
Row == [text : Texts, kind : Ids, time : Time]
Vector == [model : Models, text : Texts, time : Time]

\* what the constants must be
StoreAssumption ==
  /\ L0Ids \cap L1Ids = {} /\ None \notin Models \cup Ids \cup Row \cup Vector
  /\ MinRetain \in Nat /\ MaxWrites \in Nat \ {0} /\ MaxTime \in Nat
  /\ MaxStarts \in Nat \ {0} /\ MaxFaults \in Nat

LayerOf(id) == IF id \in L0Ids THEN L0Ids ELSE L1Ids

VARIABLES
  model,    \* getProviderInfo() of the running process, None for provider "none"
  meta,     \* embedding_meta
  schema,   \* the keyword tables: "none", "v1" (raw text) or "v2" (segmented)
  row,      \* row[id]: l0_conversations, l1_records
  vec,      \* vec[id]: l0_vec, l1_vec
  fts,      \* fts[id]: the text in l0_fts, l1_fts, 0 if there is none
  waiting,  \* rows whose background embedding is under way
  update,   \* update[r]: the /atomic/update that waits for its embedding
  used,     \* ids generated so far
  writes, clock, starts, faults,
  expired,  \* history: ids that the retention removed
  unmatched,\* history: ids written without a vector, or removed while there was no model
  unindexed \* history: ids whose keyword row was not written

vars == <<model, meta, schema, row, vec, fts, waiting, update, used, writes, clock,
          starts, faults, expired, unmatched, unindexed>>

Idle == [id |-> None, text |-> 0, kind |-> None]

\* A new database, or one that an earlier version left.
Init ==
  /\ model = None /\ meta = None /\ schema \in {"none", "v1"}
  /\ \E old \in SUBSET Ids :
       /\ Cardinality(old) <= 1 /\ used = old
       /\ row = [id \in Ids |-> IF id \in old THEN [text |-> 1, kind |-> id, time |-> 0] ELSE None]
  /\ vec = [id \in Ids |-> None] /\ fts = [id \in Ids |-> 0]
  /\ waiting = {} /\ update = [r \in Requests |-> Idle]
  /\ writes = 1 /\ clock = 0 /\ starts = 0 /\ faults = 0
  /\ expired = {} /\ unmatched = {} /\ unindexed = {}

Running == starts > 0
Rows(ids) == {id \in ids : row[id] # None}
-----------------------------------------------------------------------------
(* Start: initSchema().                                                    *)

ConfigChanged(m) == m # None /\ meta # None /\ meta # m
LegacyVectors(m) == m # None /\ meta = None /\ Rows(Ids) # {}

VectorsAtStart(m) ==
  IF ConfigChanged(m) \/ LegacyVectors(m) THEN [id \in Ids |-> None] ELSE vec

NeedsFtsRebuild == schema = "v1" \/ (schema = "none" /\ Rows(L1Ids) # {})
RebuiltFts == [id \in Ids |-> IF row[id] = None THEN 0 ELSE row[id].text]

\* init() also says whether the rows need new vectors: nobody asks.
Start(m) ==
  /\ starts < MaxStarts /\ starts' = starts + 1
  /\ model' = m /\ meta' = IF m = None THEN meta ELSE m
  /\ vec' = VectorsAtStart(m)
  /\ schema' = "v2" /\ fts' = IF NeedsFtsRebuild THEN RebuiltFts ELSE fts
  /\ unindexed' = IF NeedsFtsRebuild \/ schema = "v2" THEN unindexed ELSE unindexed \cup Rows(Ids)
  /\ waiting' = {} /\ update' = [r \in Requests |-> Idle]
  /\ UNCHANGED <<row, used, writes, clock, faults, expired, unmatched>>
-----------------------------------------------------------------------------
(* Writes.                                                                 *)

NextText == Running /\ writes < MaxWrites /\ writes' = writes + 1

\* The keyword row is deleted and inserted in the transaction of the row, but
\* its failure does not undo that.
IndexesText(id, text) ==
  \/ fts' = [fts EXCEPT ![id] = text] /\ unindexed' = unindexed \ {id} /\ UNCHANGED faults
  \/ /\ faults < MaxFaults /\ faults' = faults + 1
     /\ fts' \in {fts, [fts EXCEPT ![id] = 0]} /\ unindexed' = unindexed \cup {id}

EmbeddingOf(text) == [model |-> model, text |-> text, time |-> clock]

\* upsertL1(): without an embedding the vector of an earlier text stays.
UpsertL1(id, text, kind) ==
  /\ row' = [row EXCEPT ![id] = [text |-> text, kind |-> kind, time |-> clock]]
  /\ \/ model # None /\ vec' = [vec EXCEPT ![id] = EmbeddingOf(text)] /\ unmatched' = unmatched \ {id}
     \/ UNCHANGED vec /\ unmatched' = unmatched \cup {id}
  /\ IndexesText(id, text)

WriteMemory(id) ==
  /\ NextText /\ id \notin used /\ used' = used \cup {id}
  /\ UpsertL1(id, writes + 1, id)
  /\ UNCHANGED <<model, meta, schema, waiting, update, clock, starts, expired>>

\* upsertL0() of a captured message; its embedding follows in the background.
CaptureMessage(id) ==
  /\ NextText /\ id \notin used /\ used' = used \cup {id}
  /\ row' = [row EXCEPT ![id] = [text |-> writes + 1, kind |-> id, time |-> clock]]
  /\ IndexesText(id, writes + 1)
  /\ waiting' = IF model = None THEN waiting ELSE waiting \cup {id}
  /\ UNCHANGED <<model, meta, schema, vec, update, clock, starts, expired, unmatched>>

\* updateL0Embedding(): the row may be gone by now; the call may have failed.
MessageEmbedded(id) ==
  /\ id \in waiting /\ waiting' = waiting \ {id}
  /\ \/ row[id] # None /\ vec' = [vec EXCEPT ![id] = EmbeddingOf(row[id].text)]
     \/ UNCHANGED vec
  /\ UNCHANGED <<model, meta, schema, row, fts, update, used, writes, clock, starts,
                 faults, expired, unmatched, unindexed>>

\* queryL1Records({recordIds}): this store knows no such filter, and answers
\* with all rows, least recently updated first.
FirstOfQuery == {f \in Rows(L1Ids) : \A g \in Rows(L1Ids) : row[f].time <= row[g].time}

BeginUpdate(r, id) ==
  /\ NextText /\ update[r] = Idle /\ id \in used
  /\ \E first \in FirstOfQuery :
       update' = [update EXCEPT ![r] = [id |-> id, text |-> writes + 1, kind |-> row[first].kind]]
  /\ UNCHANGED <<model, meta, schema, row, vec, fts, waiting, used, clock, starts,
                 faults, expired, unmatched, unindexed>>

EndUpdate(r) ==
  /\ update[r] # Idle /\ update' = [update EXCEPT ![r] = Idle]
  /\ UpsertL1(update[r].id, update[r].text, update[r].kind)
  /\ UNCHANGED <<model, meta, schema, waiting, used, writes, clock, starts, expired>>
-----------------------------------------------------------------------------
(* Removals.                                                               *)

FtsWithout(ids) == [id \in Ids |-> IF id \in ids THEN 0 ELSE fts[id]]
FtsWithoutL1(ids) == [id \in Ids |-> IF id \in ids \cap L1Ids THEN 0 ELSE fts[id]]  \* mutant

FtsAfterDelete(ids) == FtsWithout(ids)

\* deleteL1(), deleteL1Batch(), deleteL0(), deleteL0BySession(): vectors are out
\* of reach of a process without a model.
Delete(ids) ==
  /\ Running /\ ids # {} /\ ids \subseteq Rows(Ids)
  /\ row' = [id \in Ids |-> IF id \in ids THEN None ELSE row[id]]
  /\ vec' = [id \in Ids |-> IF id \in ids /\ model # None THEN None ELSE vec[id]]
  /\ fts' = FtsAfterDelete(ids) /\ unindexed' = unindexed \ ids /\ expired' = expired \ ids
  /\ unmatched' = IF model = None THEN unmatched \cup ids ELSE unmatched \ ids
  /\ UNCHANGED <<model, meta, schema, waiting, update, used, writes, clock, starts, faults>>

Older(ids, cutoff) == {id \in Rows(ids) : row[id].time < cutoff}

\* The cleaner keeps a small table, deleteL0Expired() and deleteL1Expired() one
\* of which more than 80% would go.
MayExpire(ids, cutoff) ==
  /\ Cardinality(Rows(ids)) > MinRetain /\ Older(ids, cutoff) # {}
  /\ 10 * Cardinality(Older(ids, cutoff)) <= 8 * Cardinality(Rows(ids))

\* The keyword rows stay.
Expire(ids, cutoff) ==
  /\ Running /\ MayExpire(ids, cutoff)
  /\ row' = [id \in Ids |-> IF id \in Older(ids, cutoff) THEN None ELSE row[id]]
  /\ vec' = [id \in Ids |-> IF id \in ids /\ model # None /\ vec[id] # None /\ vec[id].time < cutoff
                              THEN None ELSE vec[id]]
  /\ expired' = expired \cup Older(ids, cutoff)
  /\ unmatched' = IF model = None THEN unmatched \cup Older(ids, cutoff) ELSE unmatched
  /\ UNCHANGED <<model, meta, schema, fts, waiting, update, used, writes, clock, starts,
                 faults, unindexed>>

Tick ==
  /\ clock < MaxTime /\ clock' = clock + 1
  /\ UNCHANGED <<model, meta, schema, row, vec, fts, waiting, update, used, writes,
                 starts, faults, expired, unmatched, unindexed>>
-----------------------------------------------------------------------------
Next ==
  \/ \E m \in Models \cup {None} : Start(m)
  \/ \E id \in L1Ids : WriteMemory(id)
  \/ \E id \in L0Ids : CaptureMessage(id) \/ MessageEmbedded(id)
  \/ \E r \in Requests : EndUpdate(r) \/ \E id \in L1Ids : BeginUpdate(r, id)
  \/ \E id \in Ids : Delete({id})
  \/ Delete(Rows(L0Ids)) \/ Delete(Rows(L1Ids))
  \/ \E ids \in {L0Ids, L1Ids}, cutoff \in Time : Expire(ids, cutoff)
  \/ Tick

Spec == Init /\ [][Next]_vars
-----------------------------------------------------------------------------
(* What a search finds: vector hits without a row are skipped, keyword     *)
(* hits are answered from the keyword table.                               *)

VectorHits(ids) == {id \in ids : model # None /\ vec[id] # None /\ row[id] # None}
KeywordHits(ids) == {id \in ids : Running /\ fts[id] # 0}

TypeOK ==
  /\ model \in Models \cup {None} /\ meta \in Models \cup {None} /\ schema \in {"none", "v1", "v2"}
  /\ \A id \in Ids : /\ row[id] # None => row[id] \in Row
                     /\ vec[id] # None => vec[id] \in Vector
                     /\ fts[id] \in 0..MaxWrites
  /\ waiting \subseteq L0Ids /\ used \subseteq Ids
  /\ \A r \in Requests : update[r] # Idle => update[r] \in [id : L1Ids, text : Texts, kind : L1Ids]
  /\ writes \in Texts /\ clock \in Time /\ starts \in 0..MaxStarts /\ faults \in 0..MaxFaults
  /\ expired \subseteq Ids /\ unmatched \subseteq Ids /\ unindexed \subseteq Ids

\* Whatever models come and go with restarts, a query is compared with vectors of
\* its own model only, and with those of the text that the row has: but for rows
\* that were written without a vector, or removed by a process without a model.
VectorHitsTrue ==
  \A id \in VectorHits(Ids) :
    vec[id].model = model /\ (vec[id].text = row[id].text \/ id \in unmatched)

\* A keyword search finds the rows there are, with their texts: but for expired
\* ones, which it still finds, and those whose keyword row was never written.
KeywordHitsTrue ==
  Running => \A id \in Ids \ (expired \cup unindexed) :
               /\ id \in KeywordHits(Ids) <=> row[id] # None
               /\ row[id] # None => fts[id] = row[id].text

\* What a search finds is there and what is there is found, through upserts, deletes,
\* expiry, restarts with other models and rebuilds of an index, in three tables.
SearchesTrue == VectorHitsTrue /\ KeywordHitsTrue

\* /atomic/update reads the record by its primary key: it changes the text, and
\* keeps the type, the priority and the metadata the memory had.
UpdateKeepsKind ==
  [][\A id \in L1Ids : row[id] # None /\ row'[id] # None => row'[id].kind = row[id].kind]_vars
=============================================================================
