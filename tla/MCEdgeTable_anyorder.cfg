\* Three edges, operations in any order.
SPECIFICATION Spec
CONSTANTS
    a = a
    b = b
    c = c
    Entity = {a, b, c}
    Pair <- Triangle
    MaxTimestamp = 2
    MaxOps = 4
INVARIANTS
    NewestConnectWins
    ResurrectionNeedsNewerForeignOp
