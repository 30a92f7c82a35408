\* One replica, every call but updates, any transaction may fail.
SPECIFICATION Spec
CONSTANTS
    s1 = s1
    s2 = s2
    u1 = u1
    Replica = {r1}
    Document = {d1, d2}
    NodeId = {u1, s1, s2}
    Kind <- Mixed
    Value = {1}
    Drawable <- Chain
    Calls = {"create", "remove", "connect", "disconnect"}
    Failures = TRUE
    Ordered = TRUE
    MaxTime = 7
INVARIANTS
    TypeOK
    ReopenShowsTheSame
    ForestIsComplete
    NeverCrashes
    OpenedIffCreated
