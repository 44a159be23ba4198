SPECIFICATION FairSpec
CONSTANTS
    None = None
    Environments <- Orphans
PROPERTIES
    QueueServed
