SPECIFICATION Spec
CONSTANTS
    Answers = {"wrapped"}
    MaxCoins = 2
    Faults = FALSE
INVARIANTS
    MaxOnePosition
