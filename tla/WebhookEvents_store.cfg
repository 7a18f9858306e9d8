SPECIFICATION FairEventSpec
CONSTANTS
    e1 = e1
    e2 = e2
    d1 = d1
    d2 = d2
    d3 = d3
    Events = {e1, e2}
    Downloads = {e1}
    Deliveries = {d1, d2, d3}
    EventOf <- Redelivered
    Reconciler = reconciler
    NoEvent = NoEvent
    MaxRetries = 3
    MaxFaults = 2
    MaxCrashes = 1
INVARIANT FollowedUpOnce
PROPERTIES AnsweredIsApplied CompletedIsScanned
CHECK_DEADLOCK FALSE
