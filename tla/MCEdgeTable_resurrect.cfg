\* A late connect after the tombstone was collected for another edge.
SPECIFICATION Spec
CONSTANTS
    a = a
    b = b
    c = c
    Entity = {a, b, c}
    Pair <- Siblings
    MaxTimestamp = 2
    MaxOps = 3
INVARIANTS
    EdgesConverge
