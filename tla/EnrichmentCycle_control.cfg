SPECIFICATION FairSpec
CONSTANTS
    c1 = c1  c2 = c2
    Chains = {c1, c2}
    First = c1
    Admin = Admin
    Scanner = Scanner
    None = None
    Phases <- FewPhases
    Scenarios <- Situations
INVARIANT
    ChainConsistent
PROPERTIES
    ChainLives
    FollowsStatus
    StopCarriedOut
CHECK_DEADLOCK FALSE
