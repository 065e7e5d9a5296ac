SPECIFICATION Spec
CONSTANTS
    Sockets = {s1, s2}
    Requests = {r1, r2}
    Joiners = {j1}
    NoSocket = NoSocket
    NoRequest = NoRequest
    Mixed = Mixed
    IdModulus = 3
    OwnerListens = FALSE
    SplitFrames = TRUE
SYMMETRY Symmetry
CHECK_DEADLOCK FALSE
INVARIANTS
    TypeOK
    InFlightExact
    InFlightIsTimed
    CurrentSocketLive
    LiveIdsDistinct
    DisconnectedIsClean
