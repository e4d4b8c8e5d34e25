---------------------------- MODULE ProfileSync ----------------------------
(***************************************************************************)
(* Scene files and persona as profiles of a remote store (TCVDB) that      *)
(* several hosts share.  A run pulls all profiles over the local files and *)
(* keeps their versions as its baseline, edits the files, and pushes what  *)
(* differs; the store takes a change only if the version is still the one  *)
(* of the baseline, in a query followed by an upsert.  The v2 API writes   *)
(* and removes single files the same way, but what it writes is its        *)
(* caller's own text: it probes the version only to pass that check.       *)
(*                                                                         *)
(* A text is the set of edits its author had seen.  A host's files are its *)
(* own: a data directory, or the objects of a gateway's storage.           *)
(***************************************************************************)
EXTENDS Integers, FiniteSets

CONSTANTS
  Hosts, Profiles,
  PersonaFile, \* the profile that is the persona
  MaxEdits,  \* bound: edits by LLMs and users
  MaxRuns,   \* bound: runs and requests begun
  MaxFaults  \* bound: failed calls to the store and corrupted records

\* what the constants must be
ProfileAssumption ==
  /\ MaxEdits \in Nat /\ MaxRuns \in Nat /\ MaxFaults \in Nat

Edits == 1..MaxEdits

VARIABLES
  remote,   \* remote[p]: the document of p in the profiles collection
  local,    \* local[h][p]: the file of p
  baseline, \* baseline[h][p]: what the last pull of h found, from the run's Map
  run,      \* run[h]: the run or request h is busy with
  edits,    \* edits so far
  runs,     \* runs and requests so far
  faults,   \* faults so far
  exempt    \* history: profiles changed between a query and its upsert, or removed

vars == <<remote, local, baseline, run, edits, runs, faults, exempt>>

Doc == [there : BOOLEAN, text : SUBSET Edits, version : 0..(MaxRuns + 1), intact : BOOLEAN]
NoDoc == [there |-> FALSE, text |-> {}, version |-> 0, intact |-> TRUE]
FileOf == [there : BOOLEAN, text : SUBSET Edits]
Missing == [there |-> FALSE, text |-> {}]
Idle == [phase |-> "idle", only |-> {}, byUser |-> FALSE,
         upserts |-> [p \in Profiles |-> NoDoc]]

Init ==
  /\ remote = [p \in Profiles |-> NoDoc]
  /\ local = [h \in Hosts |-> [p \in Profiles |-> Missing]]
  /\ baseline = [h \in Hosts |-> [p \in Profiles |-> NoDoc]]
  /\ run = [h \in Hosts |-> Idle]
  /\ edits = 0 /\ runs = 0 /\ faults = 0 /\ exempt = {}
-----------------------------------------------------------------------------
Fault == faults < MaxFaults /\ faults' = faults + 1

\* What a pull makes of a file: a record that fails its MD5 check leaves the
\* local copy alone, a profile that is not among the records is deleted.
Pulled(record, file) ==
  IF ~record.there THEN Missing
  ELSE IF record.intact THEN [there |-> TRUE, text |-> record.text]
  ELSE IF file.there THEN file ELSE Missing

\* pullProfiles() answers a failed query with no records.
PullProfiles(records) ==
  \/ records = remote /\ UNCHANGED faults
  \/ records = [p \in Profiles |-> NoDoc] /\ Fault

Begin(h) ==
  /\ run[h].phase = "idle" /\ runs < MaxRuns /\ runs' = runs + 1
  /\ \E records \in {remote, [p \in Profiles |-> NoDoc]} :
       /\ PullProfiles(records)
       /\ baseline' = [baseline EXCEPT ![h] = records]
       /\ local' = [local EXCEPT ![h] = [p \in Profiles |-> Pulled(records[p], local[h][p])]]
  /\ run' = [run EXCEPT ![h] = [Idle EXCEPT !.phase = "llm", !.only = Profiles]]
  /\ UNCHANGED <<remote, edits, exempt>>

\* A tool call of the LLM: it writes a file, or merges one into another.  It has
\* seen what it removes, should it write that file again.
LlmEdits(h) ==
  /\ run[h].phase = "llm"
  /\ \/ /\ edits < MaxEdits /\ edits' = edits + 1
        /\ \E p \in Profiles :
             local' = [local EXCEPT ![h][p] = [there |-> TRUE, text |-> @.text \cup {edits + 1}]]
     \/ /\ UNCHANGED edits
        /\ \E p, q \in Profiles :
             /\ p # q /\ local[h][p].there /\ local[h][q].there
             /\ local' = [local EXCEPT ![h][p].there = FALSE, ![h][q].text = @ \cup local[h][p].text]
  /\ UNCHANGED <<remote, baseline, run, runs, faults, exempt>>

\* The extraction fails: nothing is pushed.
RunFails(h) ==
  /\ run[h].phase = "llm" /\ Fault /\ run' = [run EXCEPT ![h] = Idle]
  /\ UNCHANGED <<remote, local, baseline, edits, runs, exempt>>

\* /v2/scenario/write of a file that exists, /v2/core/write of the persona: the
\* content is the caller's, who may or may not have read the host's file.  The
\* remote version is probed to pass the optimistic check; a failed probe is no
\* baseline.
UserWrites(h, p) ==
  /\ run[h].phase = "idle" /\ runs < MaxRuns /\ runs' = runs + 1
  /\ local[h][p].there \/ p = PersonaFile
  /\ edits < MaxEdits /\ edits' = edits + 1
  /\ \E records \in {remote, [q \in Profiles |-> NoDoc]} :
       /\ PullProfiles(records)
       /\ baseline' = [baseline EXCEPT ![h][p] = records[p]]
  /\ \E known \in {{}, local[h][p].text} :
       local' = [local EXCEPT ![h][p] = [there |-> TRUE, text |-> known \cup {edits + 1}]]
  /\ run' = [run EXCEPT ![h] = [Idle EXCEPT !.phase = "query", !.only = {p}, !.byUser = TRUE]]
  /\ UNCHANGED <<remote, exempt>>

\* /v2/scenario/rm
UserRemoves(h, p) ==
  /\ run[h].phase = "idle" /\ runs < MaxRuns /\ runs' = runs + 1
  /\ local' = [local EXCEPT ![h][p] = Missing]
  /\ \/ remote' = [remote EXCEPT ![p] = NoDoc] /\ exempt' = exempt \cup {p} /\ UNCHANGED faults
     \/ Fault /\ UNCHANGED <<remote, exempt>>
  /\ UNCHANGED <<baseline, run, edits>>
-----------------------------------------------------------------------------
Changed(h) ==
  {p \in run[h].only : /\ local[h][p].there
                       /\ ~baseline[h][p].there \/ baseline[h][p].text # local[h][p].text}

VersionNotOlder(h, p) == baseline[h][p].version <= remote[p].version  \* mutant

VersionHeld(h, p) == baseline[h][p].version = remote[p].version

\* syncProfiles(): a new document, no change, a conflict that is skipped, or
\* the next version of the one there is.
Accepted(h) ==
  {p \in Changed(h) : \/ ~remote[p].there
                      \/ remote[p].text # local[h][p].text /\ VersionHeld(h, p)}

NextDoc(h, p) ==
  [there |-> TRUE, text |-> local[h][p].text, version |-> remote[p].version + 1, intact |-> TRUE]

Queries(h) ==
  /\ run[h].phase \in {"llm", "query"}
  /\ \/ /\ UNCHANGED faults
        /\ run' = [run EXCEPT
             ![h].phase = "upsert",
             ![h].upserts = [p \in Profiles |-> IF p \in Accepted(h) THEN NextDoc(h, p) ELSE NoDoc]]
     \/ Fault /\ run' = [run EXCEPT ![h].phase = "delete"]
  /\ UNCHANGED <<remote, local, baseline, edits, runs, exempt>>

\* Queries that are still to be followed by their upsert.
StaleAfter(h, changed) ==
  {p \in changed : \E g \in Hosts \ {h} : run[g].upserts[p].there}

Upserts(h) ==
  LET new == run[h].upserts
      changed == {p \in Profiles : new[p].there} IN
  /\ run[h].phase = "upsert"
  /\ \/ /\ remote' = [p \in Profiles |-> IF p \in changed THEN new[p] ELSE remote[p]]
        /\ exempt' = exempt \cup StaleAfter(h, changed)
        /\ UNCHANGED faults
     \/ Fault /\ UNCHANGED <<remote, exempt>>
  /\ run' = [run EXCEPT ![h] = [Idle EXCEPT !.phase = "delete", !.only = run[h].only]]
  /\ UNCHANGED <<local, baseline, edits, runs>>

\* deleteProfiles(): whatever the baseline lists and the files do not, at
\* whatever version it is by now.
Stale(h) == {p \in run[h].only : baseline[h][p].there /\ ~local[h][p].there}

Deletes(h) ==
  /\ run[h].phase = "delete"
  /\ \/ /\ remote' = [p \in Profiles |-> IF p \in Stale(h) THEN NoDoc ELSE remote[p]]
        /\ exempt' = exempt \cup Stale(h) /\ UNCHANGED faults
     \/ Fault /\ UNCHANGED <<remote, exempt>>
  /\ run' = [run EXCEPT ![h] = Idle]
  /\ UNCHANGED <<local, baseline, edits, runs>>

Corrupted(p) ==
  /\ remote[p].there /\ remote[p].intact /\ Fault
  /\ remote' = [remote EXCEPT ![p].intact = FALSE]
  /\ UNCHANGED <<local, baseline, run, edits, runs, exempt>>

HostStep(h) ==
  \/ Begin(h) \/ LlmEdits(h) \/ RunFails(h)
  \/ \E p \in Profiles : UserWrites(h, p) \/ UserRemoves(h, p)
  \/ Queries(h) \/ Upserts(h) \/ Deletes(h)

Next == (\E h \in Hosts : HostStep(h)) \/ (\E p \in Profiles : Corrupted(p))

Spec == Init /\ [][Next]_vars
-----------------------------------------------------------------------------
TypeOK ==
  /\ remote \in [Profiles -> Doc] /\ local \in [Hosts -> [Profiles -> FileOf]]
  /\ baseline \in [Hosts -> [Profiles -> Doc]]
  /\ run \in [Hosts -> [phase : {"idle", "llm", "query", "upsert", "delete"}, only : SUBSET Profiles,
                        byUser : BOOLEAN, upserts : [Profiles -> Doc]]]
  /\ edits \in 0..MaxEdits /\ runs \in 0..MaxRuns /\ faults \in 0..MaxFaults
  /\ exempt \subseteq Profiles

\* What a user replaces is what his request probed.
Probed(h, p) == IF run[h].byUser THEN baseline[h][p].text ELSE {}
Pushing == {h \in Hosts : run[h].phase = "upsert" /\ run'[h].phase # "upsert"}

\* A readable document is replaced only on the strength of what it says: by a run
\* whose new text comes of it, or by a user's request that probed this very version
\* (whether the user knew it is not asked), through whatever pulls, failed calls,
\* conflicts and merges, unless two pushed the profile at once (the version check
\* and the upsert are two calls) or it was removed before (the next document of
\* that name starts at version 1 again).
SeenBeforeReplaced ==
  \A p \in Profiles :
    (remote[p].there /\ remote[p].intact /\ remote'[p].there /\ p \notin exempt')
      => remote[p].text \subseteq remote'[p].text \cup UNION {Probed(h, p) : h \in Pushing}

NoBlindOverwrite == [][SeenBeforeReplaced]_vars
=============================================================================
