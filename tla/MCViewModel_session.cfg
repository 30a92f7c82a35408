\* Two replicas that follow one document, messages in order.
\* Both may stop: a connect that meets a removal of its node stops a replica.
SPECIFICATION SessionSpec
CONSTANTS
    s1 = s1
    s2 = s2
    u1 = u1
    Replica = {r1, r2}
    Document = {d1}
    NodeId = {u1, s1, s2}
    Kind <- Mixed
    Value = {1}
    Drawable <- Downward
    Calls = {"create", "connect", "remove"}
    Failures = FALSE
    Ordered = TRUE
    MaxTime = 6
INVARIANTS
    RemovalArrives
    GraphsConverge
    ConnectsFindTheirNodes
CHECK_DEADLOCK FALSE
