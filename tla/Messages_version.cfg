SPECIFICATION MessagesSpec
CONSTANTS
    Null = Null
    Texts = {0, 2}
    Counts = {0, 2}
    MetadataMax = {0, 8}
INVARIANTS
    AnswersUnderstood
CHECK_DEADLOCK FALSE
