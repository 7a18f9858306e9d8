SPECIFICATION FairSpec
CONSTANTS
    j1 = j1  j2 = j2
    a1 = a1  a2 = a2  a3 = a3
    d1 = d1  d2 = d2
    Jobs = {j1, j2}
    Albums = {a1, a2, a3}
    LooksLike <- Namesakes
    Downloads = {d1, d2}
    AlbumOf <- Each
    Cleaner = Cleaner
    Cycle = Cycle
    Scanner = Scanner
    None = None
    MaxMissing = 2
    Scenarios <- Situations
INVARIANT
    JobsConsistent
PROPERTIES
    OnlyLateTasksUndo
    ArrivedSettles
    BatchJobSettles
