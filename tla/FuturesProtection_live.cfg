\* One signal in a cycle, no order is executed late; everything else fails as it likes.
SPECIFICATION FairSpec
CONSTANTS
    Signals = 1
    Tries = 2
    Numbers = 1
    MaxGroups = 1
    MaxAdrift = 0
PROPERTIES NakedGetsStop TwinsGetCancelled
\* The behaviour ends when the position has turned or doubled.
CHECK_DEADLOCK FALSE
