SPECIFICATION FairSpec
CONSTANTS
    NumWorkers = 2
    Plans <- PoolPlans
    TileSteps = {"ok"}
    MayCancel = TRUE
    Width = 10001
    Height = 5
    QueueCapacity = 2
    EncoderSteps = {"ok"}
    NoRegion = NoRegion
PROPERTIES
    CancelledRunStops
\* The run is over, or stuck: see the README.
CHECK_DEADLOCK FALSE
