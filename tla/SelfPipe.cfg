\* Two threads, three calls, three runs of the loop.
CONSTANTS
    Threads = {t1, t2}
    t1 = t1
    t2 = t2
    MaxCalls = 3
    MaxRuns = 3
SPECIFICATION FairSpec
INVARIANTS
    NoLostWakeup
    OneReader
PROPERTIES
    WorkRuns
CHECK_DEADLOCK FALSE
