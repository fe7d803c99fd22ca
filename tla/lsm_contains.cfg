SPECIFICATION LsmSpec
CONSTANTS
    Ids = {1, 2}
    Inserters = {i1}
    Jobs = {j1}
    CompactCallers = {c1}
    Readers = {r1}
    max_deltas = 2
    max_delta_size = 1
    CounterLimit = 3
    MaxCounter = 4
INVARIANT EveryLookupFinds
