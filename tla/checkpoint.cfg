\* Captures of two sessions, L1 runs and saves in every interleaving; failed
\* reads and writes of the file and crashes of the process; the lock is fair.
\* The bounds run out, so the system may stop.
SPECIFICATION MCSpec
CONSTANTS
    a = a
    b = b
    Sessions = {a, b}
    MaxMessages = 3
    MaxSaves = 2
    Noise = {2}
    MaxChain = 3
    MaxRedeliveries = 1
    MaxFaults = 1
    MaxCrashes = 1
INVARIANTS TypeOK RetakenOnlyPerFault NothingSkipped NoUpdateLost
PROPERTIES AtomicFile L1MarkReturns
CHECK_DEADLOCK FALSE
