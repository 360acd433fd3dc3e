SPECIFICATION FairSpec
CONSTANTS
    Answers = {"raw", "wrapped"}
    MaxCoins = 2
    Faults = TRUE
INVARIANTS
    TypeOK
    OneAndRecorded
PROPERTIES
    SellsItsOwn
    KillEndsSleeve
    OneBuyADay
    SleeveSpec
    SaleIsRetried
