SPECIFICATION LiveSpec
CONSTANTS
    Procs = {p1, p2}
    None = None
    Edits = {"Select", "NetworkStopped"}
    Ceiling = 0
    Batch = 1
    MaxOffer = 0
    MaxArms = 1
    MaxGen = 4
    MaxActor = 0
    MaxExternal = 0
CHECK_DEADLOCK FALSE
PROPERTIES
    DrainEventually
