\* One cycle of the worker at a time, the bot at any time; crashes, failing saves and closings.
SPECIFICATION FairSpec
CONSTANTS
    Armers = {"risk", "bot"}
    Overlap = FALSE
    Faults = TRUE
INVARIANTS
    TypeOK
    SerialInv
PROPERTIES
    EntryNeedsOffOrBot
    LiftedForCause
    LossIsFlattened
