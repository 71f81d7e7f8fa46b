\* Two threads; a budget that two tiles fill exactly and the third is over.
SPECIFICATION CacheSpec
CONSTANTS
    t1 = t1
    t2 = t2
    small = small
    middle = middle
    large = large
    None = None
    Threads <- MCThreads
    Keys <- MCKeys
    Bytes <- MCBytes
    MaxBytes = 3
    MaxStamps = 5
SYMMETRY ThreadSymmetry
INVARIANTS
    BytesAccounted
PROPERTIES
    EvictsLeastRecent
    FirstTileStays
\* The calls run out with the stamps.
CHECK_DEADLOCK FALSE
