CONSTANTS
    a = a
    b = b
    c = c
    d = d
    e = e
    f = f
    Steps = {a, b, c, d, e, f}
    Deps <- Fork
    Gated = {b, c}
    Compensable = {}
    Version = 2
    Outputs = {"x", "y"}
    NoOutput = "none"
    FailFast = FALSE
    MaxConcurrency = 2
SPECIFICATION Spec
INVARIANTS
    DurableApprovalBeforeHandler
    HandlerSeesApprovedOutputs
    ApprovalBarrier
PROPERTIES
    NoHandlerAfterRejection
