\* Two replicas and a peer that disconnects, messages in any order.
SPECIFICATION SessionSpec
CONSTANTS
    s1 = s1
    s2 = s2
    u1 = u1
    Replica = {r1, r2}
    Document = {d1}
    NodeId = {s1, s2}
    Kind <- Spheres
    Value = {1, 2}
    Drawable <- OneEdge
    Calls = {"create", "update", "connect", "peer"}
    Failures = FALSE
    Ordered = FALSE
    MaxTime = 4
SYMMETRY Swap
INVARIANTS
    TablesConverge
