SPECIFICATION Spec
CONSTANTS
    Tokens = {t1}
    Clients = {a, b}
    Expiries = {0, 1}
    TicksPerSecond = 2
    NoRow = NoRow
    Callers = {p, q}
    NoRequest = NoRequest
    MaxClock = 4
INVARIANTS TypeOK EmptyUnlessInitialized
PROPERTIES ServedToTheSecond Contract
