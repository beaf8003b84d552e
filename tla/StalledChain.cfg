CONSTANTS
    a = a
    b = b
    c = c
    d = d
    e = e
    f = f
    Steps = {a, b, c, d, e}
    Deps <- Chain
    Gated = {}
    Compensable = {}
    Version = 1
    Outputs = {"x"}
    NoOutput = "none"
    FailFast = FALSE
    MaxConcurrency = 2
SPECIFICATION Spec
INVARIANTS
    NeverStalls
