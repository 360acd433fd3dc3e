\* One day follows another; transfers, mistakes, gaps, bad readings.
SPECIFICATION Spec
CONSTANTS
    Levels = {300, 880, 985, 1000}
    Volatile = {0, 120}
    Nominal = 1100
    Periods = {"day", "week"}
    MaxDate = 1
    Faults = TRUE
INVARIANTS TypeOK TradesNearPeak LimitsNeverDecide
PROPERTIES PeakSurvives
