\* One replica updates one of two spheres.
SPECIFICATION Spec
CONSTANTS
    s1 = s1
    s2 = s2
    u1 = u1
    Replica = {r1}
    Document = {d1}
    NodeId = {s1, s2}
    Kind <- Spheres
    Value = {1, 2}
    Drawable <- OneEdge
    Calls = {"create", "update"}
    Failures = FALSE
    Ordered = TRUE
    MaxTime = 3
INVARIANTS
    AttributesMatchTables
