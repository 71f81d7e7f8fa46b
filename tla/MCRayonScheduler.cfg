\* Tiles that fail and panic, sinks that refuse, a token that is cancelled.
SPECIFICATION FairSpec
CONSTANTS
    NumWorkers = 3
    Plans <- MCPlans
    TileSteps = {"ok", "err", "panic"}
    SinkSteps = {"ok", "err"}
    MayCancel = TRUE
INVARIANTS
    EachTileHeldOnce
    NoTileDropped
    OkMeansAllStored
    ConcurrentWritesDisjoint
    StopsAtTileBoundary
PROPERTIES
    RunReturns
\* The run is over.
CHECK_DEADLOCK FALSE
