SPECIFICATION Spec
CONSTANTS
    Assertions <- MCAssertions
    KeySets <- MCKeySets
    None = None
    Regimes <- AllRegimes
    Callers = {p, q}
    Skew = 2
    Lifetime = 1
    CleanupInterval = 1
    NoEntry = NoEntry
    NoAssertion = NoAssertion
    MaxClock = 5
INVARIANT AgeCheckTakesOver
SYMMETRY Symmetry
