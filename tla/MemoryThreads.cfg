SPECIFICATION Spec
CONSTANTS
    Keys = {a}
    Callers = {p, q, r}
    Threaded = TRUE
    Limit = 1
    Window = 2
    TicksPerSecond = 1
    None = None
    MaxClock = 1
INVARIANT TwiceTheLimit
