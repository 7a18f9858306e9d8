SPECIFICATION Spec
CONSTANTS
    u1 = u1  u2 = u2  a1 = a1  a2 = a2
    Users = {u1, u2}
    Albums = {a1, a2}
    Scenarios <- Situations
PROPERTIES
    LikedKeepsFiles
    LibraryKeepsFiles
    KeptStaysInLibrary
    NoVerdictOverturned
CHECK_DEADLOCK FALSE
