SPECIFICATION MCSpec
CONSTANTS
    Pubkeys = {p1, p2}
    Encoded = {p1}
    Commitments = {processed, finalized}
    Hashes = {h1, h2}
    Workers = {t1, t2}
    MaxEntries = 1
    TtlOf <- MCTtlOf
    DefaultTtl = 1
    MaxVersion = 2
    MaxJobs = 4
    MaxFaults = 1
    processed = processed
    finalized = finalized
INVARIANTS L1FreshUnlessOverlapped L2FreshUnlessLost FreshUnlessOverlapped CachedIsTracked
PROPERTIES L2StaleExpires
CHECK_DEADLOCK FALSE
