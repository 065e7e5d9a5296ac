SPECIFICATION MCSpec
CONSTANTS
    NumFrames = 3
    MaxSize = 5
    NoBuffer = NoBuffer
    Null = Null
    Numbers <- MCNumbers
    Sends = {s1, s2}
    Connects = {c1}
    Flushes = {f1}
    Closes = {x1}
    Ops = {o1}
    AdminConnects = {ac1}
    AdminCloses = {ax1}
    TopicNames = {t1}
    BrokerNames = {b1}
    OtherNames = {l1}
    Brokers = {r1, r2}
    numPartitions = 2
    MaxRows = 2
    Lengths = {0, 1, 126, 127}
    ArrayLengths = {0, 1, 2}
    TooLong = {40000}
    Versions = {1, 2}
    MaxFields = 2
    MaxBody = 1
    MaxCut = 1
    Texts = {0, 2}
    Counts = {0, 2}
    MetadataMax = {0, 8}
INVARIANTS
    TypeOK
    DeliveredInOrder
    BufferIsTheRest
    CallbackAgrees
    FlushWaits
    PartitionRowsAreOfLastCall
    DecodingUndoesEncoding
    ShortMessageIsNoticed
    MessagesAreUnderstood
PROPERTIES
    ClosedSendsNothing
    CallsSettle
    AdminCallsSettle
CHECK_DEADLOCK FALSE
