SPECIFICATION Spec
CONSTANTS
    Closers = {"sigterm", "telegram"}
    MaxCoins = 2
    Faults = TRUE
INVARIANTS TypeOK CoveredUntilLeft CloseFlattens MarginIsShort
