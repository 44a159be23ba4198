SPECIFICATION FairSpec
CONSTANTS
    None = None
    Requests = {1}
    Base = 1
    MaxBlock = 5
    Ceiling = 9
    Cases <- Expiring
CHECK_DEADLOCK FALSE
PROPERTIES
    ActionEnds
