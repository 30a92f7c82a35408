\* A replica disconnects the edge it drew.
SPECIFICATION SessionSpec
CONSTANTS
    s1 = s1
    s2 = s2
    u1 = u1
    Replica = {r1, r2}
    Document = {d1}
    NodeId = {u1, s1}
    Kind <- Mixed
    Value = {1}
    Drawable <- Downward
    Calls = {"create", "connect", "disconnect"}
    Failures = FALSE
    Ordered = TRUE
    MaxTime = 4
INVARIANTS
    EdgesConverge
