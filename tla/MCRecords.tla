----------------------------- MODULE MCRecords -----------------------------
(* The extraction of memories from captured rows (Records) and the database  *)
(* both are in (SqliteStore), checked on small instances.  Records sees the  *)
(* database only as the rows it has: the two share no variable, the initial  *)
(* state chooses one, the variables of the other are off.                    *)
EXTENDS Integers, FiniteSets, TLC

CONSTANTS Sessions, L1_BATCH_PROCESS, MaxNew, MaxPerCapture, MaxRows, MaxMemories, MaxTime, MaxFaults
CONSTANTS L0Ids, L1Ids, Models, None, Requests, MinRetain, MaxWrites, MaxDays, MaxStarts

VARIABLES focus
VARIABLES degraded, row, rows, memory, memories, cursor, l2cursor, l1, l2, clock, faults,
          processed, late, told, lost, seen, twins
VARIABLES model, meta, schema, table, vec, fts, waiting, update, used, writes, day, starts,
          failures, expired, unmatched, unindexed

R == INSTANCE Records
S == INSTANCE SqliteStore
       WITH row <- table, clock <- day, faults <- failures, MaxTime <- MaxDays

ASSUME Assumption == R!RecordsAssumption /\ S!StoreAssumption

recordVars == <<degraded, row, rows, memory, memories, cursor, l2cursor, l1, l2, clock,
                faults, processed, late, told, lost, seen, twins>>
storeVars == <<model, meta, schema, table, vec, fts, waiting, update, used, writes, day,
               starts, failures, expired, unmatched, unindexed>>
vars == <<focus, recordVars, storeVars>>

Off == "off"
RecordsOff ==
  /\ degraded = Off /\ row = Off /\ rows = Off /\ memory = Off /\ memories = Off /\ cursor = Off
  /\ l2cursor = Off /\ l1 = Off /\ l2 = Off /\ clock = Off /\ faults = Off /\ processed = Off
  /\ late = Off /\ told = Off /\ lost = Off /\ seen = Off /\ twins = Off
StoreOff ==
  /\ model = Off /\ meta = Off /\ schema = Off /\ table = Off /\ vec = Off /\ fts = Off
  /\ waiting = Off /\ update = Off /\ used = Off /\ writes = Off /\ day = Off /\ starts = Off
  /\ failures = Off /\ expired = Off /\ unmatched = Off /\ unindexed = Off

Init ==
  \/ focus = "records" /\ R!Init /\ StoreOff
  \/ focus = "store" /\ S!Init /\ RecordsOff

Next ==
  \/ focus = "records" /\ R!Next /\ UNCHANGED <<focus, storeVars>>
  \/ focus = "store" /\ S!Next /\ UNCHANGED <<focus, recordVars>>

Spec == Init /\ [][Next]_vars

MCSymmetry == Permutations(Sessions)
-----------------------------------------------------------------------------
\* The variables of the component that runs have their types.
TypeOK == (focus = "records" => R!TypeOK) /\ (focus = "store" => S!TypeOK)

\* Records: the L1 cursor passes no row that no L1 run has processed, the L2 cursor
\* no memory that no L2 run has read.
CursorsSkipNothing == focus = "records" => R!CursorsSkipNothing

\* Records: deduplication loses nothing that memories told, but for what a decision
\* deletes without a text that takes it over and for what could not be written.
MemoriesKeepFacts == focus = "records" => R!MemoriesKeepFacts

\* SqliteStore: a search finds what there is, and nothing else.
SearchesTrue == focus = "store" => S!SearchesTrue
=============================================================================
