SPECIFICATION FairSpec
CONSTANTS
    Tokens = {t1}
    Clients = {a}
    Expiries = {0}
    TicksPerSecond = 1
    NoRow = NoRow
    Callers = {p, q}
    NoRequest = NoRequest
    PoolSize = 1
    MaxClock = 1
    Reissue = TRUE
    MigrateOnline = TRUE
INVARIANT RevokeComplete
PROPERTY EveryCallReturns
