CONSTANTS
    p = p
    q = q
    r = r
    Batch = {p, q, r}
    Sync = {q, r}
    Retries <- RetryPQ
    MaxConcurrency = 2
    Hosts <- SomeHosts
SPECIFICATION Spec
INVARIANTS
    NoOverlap
    AsyncWorkIsOver
PROPERTIES
    NothingStartsLate
    ImplementsBatch
    BatchEnds
    ResultsAreSaved
CHECK_DEADLOCK FALSE
