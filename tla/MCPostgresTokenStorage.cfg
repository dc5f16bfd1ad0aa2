SPECIFICATION MCSpec
CONSTANTS
    Tokens = {t1}
    Clients = {a, b}
    Expiries = {0}
    TicksPerSecond = 1
    NoRow = NoRow
    Callers = {p, q}
    NoRequest = NoRequest
    PoolSize = 1
    MaxClock = 1
    Reissue = FALSE
    MigrateOnline = FALSE
INVARIANTS TypeOK DropsOnlyExpired RevokeComplete LoadAnswerWasTrue
PROPERTY Contract
SYMMETRY Symmetry
