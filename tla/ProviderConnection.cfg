SPECIFICATION Spec
CONSTANTS
    Attempts = {a1, a2}
    Workers = {w1, w2, w3}
    None = none
    MaxRevision = 4
SYMMETRY RequestSymmetry
CHECK_DEADLOCK FALSE
INVARIANTS
    PendingGrantsOwed
    ConnectionCoherent
PROPERTIES
    ConnectionUndisturbed
