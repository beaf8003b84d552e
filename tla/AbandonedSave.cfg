CONSTANTS
    a = a
    b = b
    c = c
    g = g
    w1 = w1
    w2 = w2
    Steps = {a, g}
    Deps <- TwoSteps
    Gated = {g}
    Compensable = {}
    Version = 2
    Outputs = {"x", "y"}
    NoOutput = "none"
    Writers = {w1, w2}
    Stores = {"json"}
    Patient = FALSE
    MaxAbandoned = 1
SPECIFICATION Spec
PROPERTIES
    DecisionsAreFinal
