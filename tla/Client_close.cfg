SPECIFICATION Spec
CONSTANTS
    Nodes = {n1}
    Requests = {q1}
    Connectors = {c1}
    NumSeeds = 1
    AutoRefresh = TRUE
    Timer = Timer
    NoNode = NoNode
    Nobody = Nobody
CHECK_DEADLOCK FALSE
INVARIANTS
    ClosedHasNoConnection
