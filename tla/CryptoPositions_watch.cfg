\* The cycle alone, every call answered or refused.
SPECIFICATION Spec
CONSTANTS
    Closers = {}
    MaxCoins = 1
    Faults = FALSE
PROPERTY ProtectedIsCovered
