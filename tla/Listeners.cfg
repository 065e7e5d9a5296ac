SPECIFICATION MCSpec
CONSTANTS
    Topics = {t1, t2}
    MaxCalls = 8
    MaxDepth = 2
    MaxRecords = 2
    TopicNames = {m1, m2}
    Nodes = {1, 2}
    Partitions <- MCPartitions
    MaxPartitions = 2
    Absent = Absent
    NoEvent = NoEvent
SYMMETRY Symmetry
CHECK_DEADLOCK FALSE
INVARIANTS
    TypeOK
    ListenerInStep
    SubscriptionIsServed
    IntervalIsOwned
    ClosedIsQuiet
    CloseReleases
    MetadataTypeOK
    UpdateListenerInStep
PROPERTIES
    AnnouncedIsChange
    NewLeaderIsKnown
