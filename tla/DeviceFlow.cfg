SPECIFICATION Spec
CONSTANTS
    Own = {p, q}
    Strangers = {x}
    Lifetime = 4
    Interval = 2
    Regimes <- MCRegimes
    None = None
    MaxClock = 6
INVARIANTS TypeOK PoliteKeepsPace TokensBounded
PROPERTY Served
CHECK_DEADLOCK FALSE
