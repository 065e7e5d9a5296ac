SPECIFICATION Spec
CONSTANTS
    Sockets = {s1, s2}
    Requests = {r1, r2}
    Joiners = {}
    NoSocket = NoSocket
    NoRequest = NoRequest
    Mixed = Mixed
    IdModulus = 3
    OwnerListens = TRUE
    SplitFrames = TRUE
SYMMETRY Symmetry
CHECK_DEADLOCK FALSE
INVARIANTS
    AnswersMatch
