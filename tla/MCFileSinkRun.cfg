SPECIFICATION FairSpec
CONSTANTS
    NumWorkers = 3
    Plans <- AllPlans
    TileSteps = {"ok", "err"}
    MayCancel = TRUE
    Width = 10001
    Height = 5
    QueueCapacity = 2
    EncoderSteps = {"ok", "err"}
    NoRegion = NoRegion
INVARIANTS
    SavedImageComplete
    NextTileReachable
PROPERTIES
    CleanRunReturns
\* The run is over, or stuck: see the README.
CHECK_DEADLOCK FALSE
