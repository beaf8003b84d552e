CONSTANTS
    a = a
    b = b
    c = c
    d = d
    e = e
    f = f
    Steps = {a, b, c, d, e}
    Deps <- Diamond
    Gated = {b, c}
    Compensable = {a, b, c, e}
    Version = 3
    Outputs = {"x"}
    NoOutput = "none"
    FailFast = TRUE
    MaxConcurrency = 2
SPECIFICATION Spec
INVARIANTS
    EveryCheckpointResumes
