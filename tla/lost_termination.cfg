SPECIFICATION FairSpec
CONSTANTS
    MaxPods = 2
    Budgets <- Resumed
CHECK_DEADLOCK FALSE
PROPERTIES
    StopConfirmed
