SPECIFICATION ProducerSpec
CONSTANTS
    Sends = {s1}
    Connects = {}
    Flushes = {}
    Closes = {}
INVARIANTS
    CallbackCalledOnce
CHECK_DEADLOCK FALSE
