----------------------------- MODULE MCMeshTasks -----------------------------
(* A small instance of MeshTasks. *)
EXTENDS MeshTasks

MCThread == 1 .. 2
MCAddr == 1 .. 10
MCSphere == {"s1", "s2", "s3"}
MCCoord == {"origin", "away"}
MCRadius == {1, 2}

(* x - 0 is x: a sphere at the origin is one operation lower. *)
MCRank == [c \in MCCoord |-> IF c = "origin" THEN 1 ELSE 2]
MCOp == {MinOp}

At1(c, r) == [coord |-> c, radius |-> r]
MCUpdates == {<<"s3", At1("away", 1)>>}

(* An update asked of s3 goes to the first sphere: to s1, which is read as  *)
(* a second s2 while it is half written, or to s2 once s1 is removed.       *)
MCInitialAttr ==
    {[s1 |-> At1("origin", 2), s2 |-> At1("away", 2), s3 |-> At1("origin", 1)]}
MCInitialForest == <<"s1", "s2", "s3">>
=============================================================================
