CONSTANTS
    a = a
    b = b
    c = c
    d = d
    Steps = {a, b, c, d}
    Unknown = Unknown
    Definitions <- WithFlaws
SPECIFICATION Spec
INVARIANTS
    VerdictIsRight
    PlanIsNeverStuck
    WavesAreChains
SYMMETRY Alike
CHECK_DEADLOCK FALSE
