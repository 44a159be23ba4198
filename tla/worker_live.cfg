SPECIFICATION LiveSpec
CONSTANTS
    Procs = {p1, p2}
    None = None
    Edits = {"NetworkStopped"}
    Ceiling = 0
    Batch = 1
    MaxOffer = 0
    MaxArms = 1
    MaxGen = 2
    MaxActor = 0
    MaxExternal = 0
CHECK_DEADLOCK FALSE
PROPERTIES
    DrainEventually
    ReceiptCounted
