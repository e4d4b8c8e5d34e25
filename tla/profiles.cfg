\* Two scenes with two memories; two hosts with two profiles.  The bounds run out,
\* so the system may stop.
SPECIFICATION FairSpec
CONSTANTS
  Scenes = {s1, s2}
  Interval = 2
  MaxCaptures = 1
  MaxMemories = 2
  MaxTime = 2
  MaxUnreadable = 1
  Hosts = {h1, h2}
  Profiles = {p1, p2}
  PersonaFile = p1
  MaxEdits = 3
  MaxRuns = 3
  MaxFaults = 1
INVARIANTS TypeOK PersonaKnowsOldScenes CountersTrue
PROPERTIES RequestStartsPersona 
CHECK_DEADLOCK FALSE
