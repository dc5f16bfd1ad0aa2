SPECIFICATION Spec
CONSTANTS
    Callers = {p, q, r}
    Suffixes = {w, x, y, z}
    Limit = 2
    Window = 1
    TicksPerSecond = 2
    Regimes <- Steady
    None = None
    MaxClock = 7
INVARIANTS TypeOK SetBounded AdmittedRemembered KeyNeverLeaks PromiseKept
SYMMETRY Symmetry
