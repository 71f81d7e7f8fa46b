\* Four threads on two permits, each with any number of runs, nested once.
SPECIFICATION FairSpec
CONSTANTS
    Threads = {t1, t2, t3, t4}
    MaxConcurrent = 2
    MaxDepth = 2
INVARIANTS
    PermitsMatchRuns
    FreePermitsSpokenFor
PROPERTIES
    PermitsKeepMoving
