SPECIFICATION FairSpec
CONSTANTS
    t1 = t1
    t2 = t2
    Tracks = {t1, t2}
    Embedded = {t2}
    MaxRetries = 1
    Threshold = 1
    IdleCycles = 1
    QueueDepth = 2
    ScanDepth = 2
    MaxFaults = 1
    MaxRestarts = 1
INVARIANTS TracksConsistent OneAnalysis
PROPERTIES CompletedStays EveryTrackSettles
