SPECIFICATION FairSpec
CONSTANTS
    Jobs = {j1}
    Callers = {c1}
    Generator = generator
    Sweeper = sweeper
    ScanRetryTimeout = 0
    ScanFailTimeout = 1
    TimeoutWithCompletions = 1
    TimeoutNoCompletions = 2
    StaleThreshold = 2
    AbsoluteTimeout = 3
    MaxAge = 4
    MaxEmptyChecks = 1
    Requests = {"stale", "cancel"}
    MaxTroubles = 1
INVARIANTS PlaylistAtMostOnce NoEmptyWeek
PROPERTIES ImplementsLifecycle RunningCleanerCloses
CHECK_DEADLOCK FALSE
