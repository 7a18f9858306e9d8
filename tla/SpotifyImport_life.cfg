SPECIFICATION FairSpec
CONSTANTS
    a1 = a1  a2 = a2
    Albums = {a1, a2}
    Unknown = {a2}
    Visitors = {"v"}
    Concurrency = 1
    MaxScans = 2
    Scenarios <- Situations
INVARIANTS
    ImportConsistent
    OnePlaylist
    CancelSticks
PROPERTY
    SettlesInTheEnd
CHECK_DEADLOCK FALSE
