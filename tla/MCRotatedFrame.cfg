CONSTANTS
    Files <- MCRotated
    Factors <- MCFactors
    Targets <- MCTargets
    ProbedWith = {1}
    Empty = Empty
    Failed = Failed
SPECIFICATION DecoderSpec
CHECK_DEADLOCK FALSE
INVARIANTS
    FrameServed
