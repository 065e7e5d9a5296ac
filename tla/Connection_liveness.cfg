SPECIFICATION FairSpec
CONSTANTS
    Sockets = {s1}
    Requests = {r1, r2}
    Joiners = {j1}
    NoSocket = NoSocket
    NoRequest = NoRequest
    Mixed = Mixed
    IdModulus = 3
    OwnerListens = TRUE
    SplitFrames = FALSE
CHECK_DEADLOCK FALSE
INVARIANTS
    AnswersMatch
PROPERTIES
    ChannelSpec
    RequestsSettle
    ConnectSettles
