SPECIFICATION LineFairSpec
CONSTANTS
    ImageHeight = 8
    Windows <- Roomy
    Requests <- MCRequests
    NoRequest = NoRequest
INVARIANTS
    ServedRowsRight
    ForwardNeverRefused
PROPERTIES
    ReadReturns
