-------------------------------- MODULE Graph --------------------------------
(***************************************************************************)
(* The scene graph of an open document (Graph.cpp).  A graph is a record   *)
(* of a sequence of nodes, each [id, kind, attr], and a set of edges,      *)
(* <<from, to>> by node id; parallel edges are one edge.  The handlers     *)
(* that dereference a pointer have a condition, ...Safe, that the pointer  *)
(* is there.                                                               *)
(***************************************************************************)
EXTENDS Selection

EmptyGraph == [nodes |-> <<>>, edges |-> {}]

Ids(g) == {g.nodes[i].id : i \in DOMAIN g.nodes}

create(g, node) == [g EXCEPT !.nodes = Append(@, node)]

(* Mutant of remove: the edges that enter the node stay. *)
RemoveKeepsIncoming(g, id) ==
    [nodes |-> Selected(g.nodes, {i \in DOMAIN g.nodes : g.nodes[i].id # id}),
     edges |-> {e \in g.edges : e[1] # id}]

remove(g, id) ==
    [nodes |-> Selected(g.nodes, {i \in DOMAIN g.nodes : g.nodes[i].id # id}),
     edges |-> {e \in g.edges : e[1] # id /\ e[2] # id}]

(* connect() looks up both ends; one that is missing, and the second of two *)
(* equal ones, is a null pointer that the constructor of Edge dereferences. *)
ConnectSafe(g, from, to) == from # to /\ {from, to} \subseteq Ids(g)

connect(g, from, to) == [g EXCEPT !.edges = @ \cup {<<from, to>>}]

disconnect(g, from, to) == [g EXCEPT !.edges = @ \ {<<from, to>>}]

(* access() looks for the node and hands the first node of the graph to the *)
(* action, which casts it to the kind it expects and writes attributes.     *)
AccessSafe(g, id, kind) == id \in Ids(g) => g.nodes[1].kind = kind

access(g, id, attrs) ==
    LET written(old) == [a \in DOMAIN old \cup DOMAIN attrs |->
                            IF a \in DOMAIN attrs THEN attrs[a] ELSE old[a]]
    IN  IF id \in Ids(g) THEN [g EXCEPT !.nodes[1].attr = written(@)] ELSE g

-----------------------------------------------------------------------------
(* Mutant of roots: the nodes that no edge leaves. *)
Leaves(g) == {id \in Ids(g) : \A e \in g.edges : e[1] # id}

roots(g) == {id \in Ids(g) : \A e \in g.edges : e[2] # id}

(* edges_in.at(to) throws for an edge whose target is not a node. *)
RootsSafe(g) == \A e \in g.edges : e[2] \in Ids(g)

(* subTreeOf() recurses along the edges from every root.  It comes back     *)
(* unless some set of nodes has a root and can be walked for ever.          *)
TreesTerminate(g) ==
    ~ \E walk \in SUBSET Ids(g) :
          /\ walk \cap roots(g) # {}
          /\ \A x \in walk : \E e \in g.edges : e[1] = x /\ e[2] \in walk

(* The nodes that appear in some tree and so in the mesh. *)
InTrees(g) ==
    {id \in Ids(g) : \A closed \in SUBSET Ids(g) :
        (/\ roots(g) \subseteq closed
         /\ \A e \in g.edges : e[1] \in closed => e[2] \in closed)
            => id \in closed}
=============================================================================
