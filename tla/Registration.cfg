SPECIFICATION Spec
CONSTANTS
    Requests = {r, s, t}
    IPs = {i, j}
    URIs <- MCURIs
    Payloads <- MCPayloads
    Rewrite <- MCRewrite
    Defaults <- MCDefaults
    Valid <- MCValid
    Hooks = {g}
    Limit = 1
    Window = 1
    TicksPerSecond = 2
    None = None
    MaxClock = 3
INVARIANTS TypeOK AnsweredAsStored ClientsPaced RefusedJustly
SYMMETRY Symmetry
CHECK_DEADLOCK FALSE
