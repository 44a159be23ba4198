SPECIFICATION Spec
CONSTANTS
    Policies = {1, 2}
    MaxSent = 2
    Budgets <- PausedEdit
CHECK_DEADLOCK FALSE
INVARIANTS
    PausePreservesProcess
