SPECIFICATION Spec
CONSTANTS
    None = None
    ActorPods = 2
    ActorCases <- Troubles
    ProcessPods = 2
    ProcessSets = 2
    ProcessEpochs = 2
    ProcessCases <- Disposals
    Target = 1
    Mature = 1
    ScheduleNodes = {1, 2}
    ScheduleCeilings <- TwoGates
    ScheduleBatch = 2
    ScheduleOffers = 3
    ScheduleHeight = 3
    ScheduleCases <- Schedules
    OverrideNodes = {1}
    OverrideRequests = {1}
    OverrideCeilings <- OneGate
    OverrideBatch = 1
    OverrideOffers = 1
    OverrideHeight = 2
    OverrideCases <- Overrides
    ActionRequests = {1, 2}
    ActionBase = 1
    ActionBlocks = 6
    ActionCeiling = 9
    ActionCases <- Requested
CHECK_DEADLOCK FALSE
INVARIANTS
    TypesOK
    ActorEvidence
    ProcessesGone
    ProductionCounted
    OverrideRetained
    ActionOutcomeTrue
    ReservationKept
PROPERTIES
    ActorDrainedFirst
