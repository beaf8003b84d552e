CONSTANTS
    Inputs = {3}
    HighWater = 1
    PipeSize = 1
    Buffer = 2
    Limit = 1
    MaxOutput = 4
    MaxCancels = 1
SPECIFICATION Spec
PROPERTIES
    EndsByDeadline
CHECK_DEADLOCK FALSE
