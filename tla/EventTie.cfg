SPECIFICATION Spec
CONSTANTS
    Items = {i1}
    Workers = {w1}
    Parent = parent
    Idle = idle
    Ties = {TRUE, FALSE}
SYMMETRY DocumentSymmetry
CHECK_DEADLOCK FALSE
INVARIANT LatestEventCurrent
