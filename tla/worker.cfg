SPECIFICATION MCSpec
CONSTANTS
    Procs = {p1, p2}
    None = None
    Edits = {}
    Ceiling = 2
    Batch = 1
    MaxOffer = 2
    MaxArms = 1
    MaxGen = 1
    MaxActor = 0
    MaxExternal = 0
SYMMETRY Symmetry
CHECK_DEADLOCK FALSE
INVARIANTS
    TypeOK
    SlotHoldsOutstanding
    OfferSentOnce
    ProductionExact
    PauseAcknowledgedIsQuiet
    DrainedIsQuiet
PROPERTIES
    ImplementsArmedSlot
