CONSTANTS
    Processes = {p1, p2, p3}
    Readers = {p3}
    NoProcess = NoProcess
    Foreign = TRUE
SPECIFICATION Spec
INVARIANTS
    DatabaseIsSound
    RefusalIsJustified
PROPERTIES
    ContentStays
    OpensAtLast
