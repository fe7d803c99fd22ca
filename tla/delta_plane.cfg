SPECIFICATION FairSpec
CONSTANTS
    k1 = k1  k2 = k2
    Keys = {k1, k2}
    Updates <- MCUpdates
    flush_batch_size = 2
    MaxRing = 2
    MaxErrors = 1
    MaxCompactions = 1
    MaxTotal = 3
INVARIANTS BatchKept ClosedSegmentsFinal
PROPERTIES EventuallyRead
