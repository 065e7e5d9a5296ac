SPECIFICATION FairSpec
CONSTANTS
    Sockets = {s1, s2}
    Requests = {r1}
    Joiners = {}
    NoSocket = NoSocket
    NoRequest = NoRequest
    Mixed = Mixed
    IdModulus = 3
    OwnerListens = TRUE
    SplitFrames = FALSE
CHECK_DEADLOCK FALSE
PROPERTIES
    ConnectSettles
