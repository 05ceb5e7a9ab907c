\* Two jobs, two operators with two requests, crashes anywhere. All jobs may be done.
CONSTANTS
    j1 = j1
    j2 = j2
    p1 = p1
    p2 = p2
    r1 = r1
    r2 = r2
    Jobs = {j1, j2}
    Operators = {p1, p2}
    RequestIds = {r1, r2}
    Overlap = FALSE
    MaxBlocks = 2
    MaxLimits = 1
    MaxAttempts = 3
SPECIFICATION Spec
INVARIANTS BlockedHoldsGate
PROPERTIES OpensAfterPreflight
SYMMETRY GateSymmetry
CHECK_DEADLOCK FALSE
