----------------------------- MODULE MCProfiles -----------------------------
(* The scene and persona files of one host with their checkpoint (Persona),   *)
(* and the profiles that several hosts share (ProfileSync), checked on small  *)
(* instances.  The two share no state: the initial state chooses one, the     *)
(* variables of the other are off.                                            *)
EXTENDS Integers, FiniteSets

CONSTANTS Scenes, Interval, MaxCaptures, MaxMemories, MaxTime, MaxUnreadable
CONSTANTS Hosts, Profiles, PersonaFile, MaxEdits, MaxRuns, MaxFaults

VARIABLES focus
VARIABLES local, files, index, backup, persona, cp, memories, captures, cursor, asked,
          l2, l3, clock, incidents, overlapped, unreadable
VARIABLES remote, copies, baseline, run, edits, runs, faults, exempt

P == INSTANCE Persona
S == INSTANCE ProfileSync WITH local <- copies

ASSUME ProfilesAssumption == P!PersonaAssumption /\ S!ProfileAssumption

personaVars == <<local, files, index, backup, persona, cp, memories, captures, cursor,
                 asked, l2, l3, clock, incidents, overlapped, unreadable>>
syncVars == <<remote, copies, baseline, run, edits, runs, faults, exempt>>
vars == <<focus, personaVars, syncVars>>

Off == "off"
PersonaOff ==
  /\ local = Off /\ files = Off /\ index = Off /\ backup = Off /\ persona = Off /\ cp = Off
  /\ memories = Off /\ captures = Off /\ cursor = Off /\ asked = Off /\ l2 = Off /\ l3 = Off
  /\ clock = Off /\ incidents = Off /\ overlapped = Off /\ unreadable = Off
SyncOff ==
  /\ remote = Off /\ copies = Off /\ baseline = Off /\ run = Off
  /\ edits = Off /\ runs = Off /\ faults = Off /\ exempt = Off

Init ==
  \/ focus = "persona" /\ P!Init /\ SyncOff
  \/ focus = "sync" /\ S!Init /\ PersonaOff

OnlyPersona == focus = "persona" /\ UNCHANGED <<focus, syncVars>>

Next ==
  \/ OnlyPersona /\ P!Next
  \/ focus = "sync" /\ S!Next /\ UNCHANGED <<focus, personaVars>>

\* the fairness of Persona's FairSpec: runs that have begun go on
FairSpec ==
  /\ Init /\ [][Next]_vars
  /\ WF_vars(OnlyPersona /\ P!L2Proceeds /\ P!Remembers)
  /\ WF_vars(OnlyPersona /\ P!L3Proceeds /\ P!Remembers)
-----------------------------------------------------------------------------
\* The variables of the component that runs have their types.
TypeOK == (focus = "persona" => P!TypeOK) /\ (focus = "sync" => S!TypeOK)

\* Persona: the persona knows every scene it will not be offered again.
PersonaKnowsOldScenes == focus = "persona" => P!PersonaKnowsOldScenes

\* Persona: no update of the checkpoint's counters is lost while it is readable.
CountersTrue == focus = "persona" => P!CountersTrue

\* Persona: a request for a new persona that meets no run under way starts one.
RequestStartsPersona ==
  (focus = "persona" /\ P!Requested) ~> (focus = "persona" /\ P!Begun)

\* ProfileSync: no push replaces a profile it does not come of or has not probed.
NoBlindOverwrite == [][focus = "sync" => S!SeenBeforeReplaced]_vars
=============================================================================
