SPECIFICATION MCSpec
CONSTANTS
    Ids = {1, 2}
    Inserters = {i1}
    Jobs = {j1, j2}
    CompactCallers = {}
    Readers = {r1}
    max_deltas = 2
    max_delta_size = 1
    CounterLimit = 3
    MaxCounter = 4
    p1 = p1
    p2 = p2
    Pubkeys = {p1, p2}
    U32 = 128
    Creators = {t1, t2}
    Names <- MCNames
    FileContents <- MCFileContents
    MaxIds = 3
    MaxScans = 2
    MaxLost = 1
    Accounts = {a1, a2}
    Contents <- MCContents
    TokenProgram = tok
    Callers = {t1}
    Enabled <- MCEnabled
    None = None
    MaxCalls = 3
    Queriers = {q1}
    Refreshers = {r1}
    Queries <- MCQueries
    PageLimit = 1
    MaxQueries = 1
    MaxRefreshes = 1
    tok = tok
    prog = prog
    other = other
    x = x
INVARIANTS NoLostInsert NewestLocated LocatedReadsBack IdsAgree QueryComplete QuerySound PagesExact
PROPERTIES MissOnlyInWindow 
CHECK_DEADLOCK FALSE
SYMMETRY MCSymmetry
