CONSTANTS
    t1 = t1
    t2 = t2
    t3 = t3
    Tasks = {t1, t2, t3}
    Handlers = 2
    SyncOnes = {2}
    MaxEmits = 1
    Free = Free
SPECIFICATION Spec
INVARIANTS
    EventsInOrder
    NoEventIsLost
    CoroutinesOneAtATime
    NobodyIsStranded
PROPERTIES
    EmitsEnd
CHECK_DEADLOCK FALSE
