SPECIFICATION Spec
CONSTANTS
    Ceiling <- Heights
    Cycle <- Cycles
    Deadline = 2
    Budgets <- Rolled
CHECK_DEADLOCK FALSE
PROPERTIES
    StoppedConfirmed
