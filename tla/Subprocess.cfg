CONSTANTS
    Inputs = {1, 3}
    HighWater = 1
    PipeSize = 1
    Limit = 1
    Buffer = 2
    MaxOutput = 5
    MaxCancels = 2
SPECIFICATION Spec
INVARIANTS
    ChildIsReaped
    OutputIsWhole
PROPERTIES
    ExchangeEnds
    EndsWhenCancelled
CHECK_DEADLOCK FALSE
