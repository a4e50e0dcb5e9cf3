SPECIFICATION Spec
CONSTANTS
    Attempts = {a1, a2}
    Workers = {w1, w2}
    None = none
    MaxRevision = 4
SYMMETRY RequestSymmetry
CHECK_DEADLOCK FALSE
INVARIANT GrantsAccounted
