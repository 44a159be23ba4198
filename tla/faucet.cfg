SPECIFICATION Spec
CONSTANTS
    None = None
    Environments <- Situations
CHECK_DEADLOCK FALSE
INVARIANTS
    TypeOK
    PaidOnce
    StatusTrue
    SettledIsQuiet
    NonceHeld
    PlacesKept
PROPERTIES
    OutcomeFinal
