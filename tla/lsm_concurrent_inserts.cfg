SPECIFICATION LsmSpec
CONSTANTS
    Ids = {1, 2}
    Inserters = {i1, i2}
    Jobs = {j1, j2}
    CompactCallers = {}
    Readers = {}
    max_deltas = 2
    max_delta_size = 1
    CounterLimit = 3
    MaxCounter = 4
INVARIANT NoLostInsert
