SPECIFICATION FairSpec
CONSTANTS
    Accounts = {a1, a2}
    Contents <- MCContents
    TokenProgram = tok
    Callers = {t1}
    Enabled <- MCEnabled
    None = None
    MaxCalls = 1
    Queriers = {q1}
    Refreshers = {r1}
    Queries <- MCQueries
    PageLimit = 1
    MaxQueries = 1
    MaxRefreshes = 1
    tok = tok
    prog = prog
    other = other
    x = x
PROPERTIES PlansReturn
CHECK_DEADLOCK FALSE
