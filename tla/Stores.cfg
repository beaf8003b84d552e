CONSTANTS
    a = a
    b = b
    c = c
    g = g
    w1 = w1
    w2 = w2
    Steps = {a, b, c, g}
    Deps <- FourSteps
    Gated = {g}
    Compensable = {}
    Version = 2
    Outputs = {"x", "y"}
    NoOutput = "none"
    Writers = {w1, w2}
    Stores = {"sqlite", "json"}
    Patient = TRUE
    MaxAbandoned = 1
SPECIFICATION Spec
INVARIANTS
    ViewIsDurable
    OneDecisionCounts
    StartsAreJustified
PROPERTIES
    DecisionsAreFinal
SYMMETRY Alike
