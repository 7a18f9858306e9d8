SPECIFICATION Spec
CONSTANTS
    r1 = r1
    r2 = r2
    r3 = r3
    r4 = r4
    r5 = r5
    r6 = r6
    Nobody = Nobody
    Requests = {r1, r2, r3, r4, r5, r6}
    KindOf <- EveryEndpoint
SYMMETRY SameEndpoint
INVARIANT OneWaitingPerLock
 
CHECK_DEADLOCK FALSE
