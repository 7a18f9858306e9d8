SPECIFICATION FairLockSpec
CONSTANTS
    p1 = p1
    p2 = p2
    s1 = s1
    s2 = s2
    s3 = s3
    NoOne = NoOne
    Processes = {p1, p2}
    Sections = {s1, s2, s3}
    ProcessOf <- TwoAndOne
    TTL = 2
    MaxHold = 4
    MaxLosses = 2
    MaxDeaths = 1
INVARIANT MutualExclusion
PROPERTIES ReleasesOwnKey KeyAlwaysFreed
