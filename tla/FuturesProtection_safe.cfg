\* Two signals in a cycle, two orders given up and still live; everything fails as it likes.
SPECIFICATION Spec
CONSTANTS
    Signals = 2
    Tries = 2
    Numbers = 1
    MaxGroups = 1
    MaxAdrift = 2
INVARIANTS TypeOK CapUnlessUntold TurnsOnlyCrossed
\* The behaviour ends when the position has turned or doubled.
CHECK_DEADLOCK FALSE
