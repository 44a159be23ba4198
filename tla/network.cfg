SPECIFICATION Spec
CHECK_DEADLOCK FALSE
CONSTANTS
    WorkerPods = 2
    WorkerSent = 1
    WorkerCases <- Ends
    PolicyIds = {1, 2}
    AuthoritySent = 2
    AuthorityCases <- Outages
    LockCycles = 2
    Renew = 1
    Target4 = 2
    Target5 = 5
    Enrolment = 4
    Epoch3 = 4
    Epoch4 = 4
    MaxCycle = 6
    StackerTx = 5
    StackerCases <- Cohort
    SourceNames <- PinnedSources
    ContractTx = 5
    ContractCases <- Deployments
    Ceiling <- Heights
    Cycle <- Cycles
    Deadline = 2
    RuntimeCases <- Lives
    Miners = {1, 2}
    Boundary = 2
    Window = 2
    HealthCases <- Conditions
    Members = {1, 2}
    Requires <- Dependencies
    Last <- Releases
    GateCount = 2
    MaxUid = 4
    Definitions = {0, 1, 2, 3, 4, 5}
    FoundationCases <- Changes
INVARIANTS
    TypesOK
    WorkerEndTrue
    SubmissionsAuthorised
    NoncesExact
    LockBounded
    RoleOutcomesJustified
    SamplesTrue
    RestIsConverged
    CaptureKept
PROPERTIES
    GateDecisionsEarned
    PhasesTrue
    OperationEarned
    CaptureTrue
