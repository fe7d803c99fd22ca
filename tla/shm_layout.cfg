SPECIFICATION MCSpec
CONSTANTS
    Parts = {"regions"}
    Workers = {w1, w2}
    Callers = {w1, w2}
    MaxJobs = 6
    None = None
    tok = tok
    prog = prog
    head = head
    mint = mint
    tail = tail
    h1 = h1
    h2 = h2
    Accounts = {a1, a2}
    Contents <- MCContents
    TokenProgram = tok
    Enabled <- Kinds
    MaxCalls = 3
    QueryKeys = {a1, a2}
    Ttls = {1}
    DiskTtl = 3
    L1Size = 1
    L2Size = 2
    MaxNow = 2
    MaxFaults = 1
    DictKeys = {1, 2}
    DictIds = {a1, a2}
    WarmSize = 1
    Programs = {prog}
    TierIds = {a1}
    NewSlots = {1}
    HotSlots = 1
    WarmSlots = 2
    AdaptiveKeys = {1, 2, 5}
    KeyRange = 4
    AdaptiveIds = {a1}
    FewEntries = 1
    FewKeys = 2
    ManyEntries = 1
    ManyKeys = 1
    AccelPrograms = {prog}
    AccelIds = {a1, a2}
    FieldBytes = {head, tail}
    DataLengths = {64, 96}
    Samples <- MCSamples
    OffsetLists <- MCOffsetLists
    MaxAccelCalls = 6
    RegionNames = {h1}
    Capacity = 6
    Results = {1, 2}
    Counts = {0, 1}
    Clients = {h1}
    limit = 2
    Second = 2
    BatchLimit = 1
    MaxClock = 4
    TrackedSlots = {1, 3}
    Finality = 2
    LeafData <- MCLeafData
    MaxLeaves = 7
    WordBits = 3
    MaxWords = 2
    StoreKeys = {1, 2}
    MaxStored = 8
    num_nodes = 2
    PreferredNodes = {0, 2}
    NodeCores = 8
    Cores = {0, 9}
    PoolSize = 1
    InitialCells = 1
    Offsets = {0, 2}
    NumaValues = {1}
INVARIANTS HeaderApartFromData
CHECK_DEADLOCK FALSE
SYMMETRY Symmetry
