SPECIFICATION Spec
CONSTANTS
    Nodes = {n1, n2}
    Requests = {q1}
    Connectors = {c1, c2}
    NumSeeds = 1
    AutoRefresh = TRUE
    Timer = Timer
    NoNode = NoNode
    Nobody = Nobody
SYMMETRY Symmetry
CHECK_DEADLOCK FALSE
INVARIANTS
    TypeOK
    RefreshIsOwned
    SentOnLiveConnection
    OneConnectionPerNode
    TimerSurvives
