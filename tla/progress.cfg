SPECIFICATION MCSpec
CONSTANTS
    None = None
    MaxPods = 2
    Budgets <- Endings
CHECK_DEADLOCK FALSE
PROPERTIES
    ActorStops
    FaucetServed
    FaucetReported
