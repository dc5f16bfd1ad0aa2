SPECIFICATION Spec
CONSTANTS
    Keys = {a, b}
    Callers = {p}
    Threaded = FALSE
    Limit = 2
    Window = 1
    TicksPerSecond = 2
    None = None
    MaxClock = 8
INVARIANTS TypeOK NeverOverLimit PromiseKept IdleKeysGo
