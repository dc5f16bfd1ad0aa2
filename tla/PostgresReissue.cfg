SPECIFICATION Spec
CONSTANTS
    Tokens = {t1}
    Clients = {a}
    Expiries = {0, 1}
    TicksPerSecond = 1
    NoRow = NoRow
    Callers = {p, q}
    NoRequest = NoRequest
    PoolSize = 2
    MaxClock = 1
    Reissue = TRUE
    MigrateOnline = FALSE
INVARIANT DropsOnlyExpired
