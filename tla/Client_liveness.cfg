SPECIFICATION FairSpec
CONSTANTS
    Nodes = {n1}
    Requests = {q1}
    Connectors = {c1}
    NumSeeds = 2
    AutoRefresh = TRUE
    Timer = Timer
    NoNode = NoNode
    Nobody = Nobody
CHECK_DEADLOCK FALSE
PROPERTIES
    RequestsSettle
    RefreshEnds
    ConnectSettles
