SPECIFICATION FairVibeSpec
CONSTANTS
    t1 = t1  t2 = t2
    VibeTracks = {t1, t2}
    Scenarios <- Situations
INVARIANT
    VibeConsistent
PROPERTY
    EmbeddedInTheEnd
CHECK_DEADLOCK FALSE
