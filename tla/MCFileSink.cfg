\* Every outcome of the encoder, callers that submit anything at any time.
SPECIFICATION FairSpec
CONSTANTS
    NoRegion = NoRegion
    Workers = {w1, w2, w3}
    Regions <- MCRegions
    Width = 4
    Height = 2
    QueueCapacity = 2
    EncoderSteps = {"ok", "err", "panic"}
INVARIANTS
    FinishOkMeansAllWritten
PROPERTIES
    WaitersReleased
    FinishReturns
    ImplementsRasterWriter
\* The callers may stop calling, and a region whose turn never comes waits.
CHECK_DEADLOCK FALSE
