SPECIFICATION FairSpec
CONSTANTS
    Workers = {w1, w2}
    Plans <- AllPlans
    Width = 2
    Height = 5
    RowsPerBuffer = 2
    EncoderSteps = {"ok", "err", "panic"}
    NoMessage = NoMessage
INVARIANTS
    StripsComplete
    FinishOkMeansImageWritten
    BuffersConserved
PROPERTIES
    FlushCompletes
    ImplementsRasterWriter
\* The sink is closed, or stuck: see the README.
CHECK_DEADLOCK FALSE
