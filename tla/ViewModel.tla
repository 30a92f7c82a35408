------------------------------ MODULE ViewModel ------------------------------
(***************************************************************************)
(* Replicas of the editor: a ViewModelImpl with its database, the document *)
(* it has open, the document interactor that the user's calls go through   *)
(* and the network interactor that the peers' messages go through.         *)
(*                                                                         *)
(* A call runs on one thread to its end, but its database work is several  *)
(* transactions: any of them may fail, and the exception leaves the call   *)
(* there.  A null pointer that is dereferenced, an exception out of        *)
(* Graph::roots() or a recursion without end stops the replica.            *)
(*                                                                         *)
(* External: the transport.  ClientImpl::send and the server are stubs;    *)
(* here what one replica sends reaches the inbox of every other.           *)
(***************************************************************************)
EXTENDS DatabaseTables, Graph, SequencesExt, FiniteSetsExt

CONSTANTS
    Replica,
    Document,       \* document ids
    NodeId,         \* node ids, fresh for every node created
    Kind,           \* NodeId -> "Sphere" or "SetOperation"
    Value,          \* values of attributes: magnitudes, distances, 0 is Union
    Drawable,       \* the edges a user may draw
    Calls,          \* the calls that are made, see UserCall and PeerDisconnect
    Failures,       \* whether a transaction may fail
    Ordered,        \* whether messages arrive in the order they are sent
    MaxTime         \* bound on the clock, so on the number of calls

Attributes(kind) == IF kind = "Sphere" THEN <<"radius", "coord">>
                                       ELSE <<"type">>

Attribute == {"radius", "coord", "type"}

NoDocument == "none"

ASSUME KindAssumption == Kind \in [NodeId -> {"Sphere", "SetOperation"}]

ASSUME ViewModelAssumption ==
    /\ Value \subseteq Nat
    /\ Drawable \subseteq NodeId \X NodeId
    /\ Calls \subseteq {"create", "remove", "connect", "disconnect", "update",
                        "peer"}
    /\ Failures \in BOOLEAN /\ Ordered \in BOOLEAN
    /\ MaxTime \in Nat
    /\ NoDocument \notin Document

VARIABLES
    db,         \* db[r]: its tables, document, edge and store.<attribute>
    open,       \* open[r]: the document that is open, or NoDocument
    graph,      \* graph[r]: the graph of that document
    crashed,    \* the replicas that have stopped
    inbox,      \* inbox[r]: the messages on their way to r
    clock,      \* the time, another millisecond for every call
    stage       \* history: how far the life of a node has come

vars == <<db, open, graph, crashed, inbox, clock, stage>>

Nodes == UNION {[id: {n}, kind: {Kind[n]},
                 attr: [ToSet(Attributes(Kind[n])) -> Value]] : n \in NodeId}

(* The nodes that users hand over.  A call writes all attributes of a node, *)
(* so one value for all of them tells one call from another.                *)
Handed == {n \in Nodes : \A a, b \in DOMAIN n.attr : n.attr[a] = n.attr[b]}

-----------------------------------------------------------------------------
(* Transactions of the database, and the sequences of them that the         *)
(* database interactor runs for one call.                                   *)

NodeTx(n, kind, d, t, deleted) ==
    [table |-> "document", entity |-> n.id, val |-> kind, to |-> d,
     timestamp |-> t, deleted |-> deleted]

EdgeTx(from, to, t, deleted) ==
    [table |-> "edge", entity |-> from, val |-> 0, to |-> to,
     timestamp |-> t, deleted |-> deleted]

AttributeTxs(n, t, deleted) ==
    LET names == Attributes(n.kind)
    IN  [i \in DOMAIN names |->
            [table |-> names[i], entity |-> n.id, val |-> n.attr[names[i]],
             to |-> n.id, timestamp |-> t, deleted |-> deleted]]

CreateTxs(n, d, t) ==
    <<NodeTx(n, n.kind, d, t, FALSE)>> \o AttributeTxs(n, t, FALSE)

(* Mutants of RemoveTxs: the attributes are retracted before the node, or   *)
(* the node is not retracted at all.                                        *)
RemoveAttributesFirst(n, d, t) ==
    AttributeTxs(n, t, TRUE) \o <<NodeTx(n, "Sphere", d, t, TRUE)>>

RetractAttributesOnly(n, d, t) == AttributeTxs(n, t, TRUE)

(* DatabaseImpl::remove writes a tombstone of type Sphere for any node. *)
RemoveTxs(n, d, t) ==
    <<NodeTx(n, "Sphere", d, t, TRUE)>> \o AttributeTxs(n, t, TRUE)

ApplyTx(tables, tx) ==
    LET e == tx.entity  v == tx.val  t == tx.timestamp
    IN  CASE tx.table = "document" ->
                [tables EXCEPT !.document =
                    createI(@, e, v, tx.to, t, tx.deleted)]
          [] tx.table = "edge" ->
                [tables EXCEPT !.edge = connectI(@, e, tx.to, t, tx.deleted)]
          [] tx.table = "radius" ->
                [tables EXCEPT !.store.radius =
                    upsertRadiusI(@, e, v, t, tx.deleted)]
          [] tx.table = "coord" ->
                [tables EXCEPT !.store.coord =
                    IF tx.deleted THEN retractCoord(@, e, v, t)
                                  ELSE upsertI(@, e, v, t, FALSE)]
          [] OTHER ->
                [tables EXCEPT !.store.type = upsertI(@, e, v, t, tx.deleted)]

Commit(tables, txs) == FoldLeft(ApplyTx, tables, txs)

-----------------------------------------------------------------------------
(* open(): the graph that the tables hold for a document. *)

(* Of rows with the same timestamp the largest radius and the farthest      *)
(* coordinate are taken; no two writes of a type have the same timestamp.   *)
AttributeOf(tables, id, a) ==
    Max({r.val : r \in Latest(tables.store[a], id)})

(* sphere() and setop() find nothing while an attribute is missing. *)
HasNode(tables, row) ==
    \A a \in ToSet(Attributes(row.type)) :
        Latest(tables.store[a], row.entity) # {}

Opened(tables, d) ==
    LET live  == entities(tables.document, d)
        rows  == Selected(live, {i \in DOMAIN live : HasNode(tables, live[i])})
        ids   == {rows[i].entity : i \in DOMAIN rows}
    IN  [nodes |-> [i \in DOMAIN rows |->
                       [id |-> rows[i].entity, kind |-> rows[i].type,
                        attr |-> [a \in ToSet(Attributes(rows[i].type)) |->
                                    AttributeOf(tables, rows[i].entity, a)]]],
         edges |-> {p \in ids \X ids : p[2] \in edges(tables.edge, p[1])}]

-----------------------------------------------------------------------------
(* Messages *)

CreateDelete(n, d, change, t) ==
    [type |-> "CreateDelete", node |-> n, document |-> d, change |-> change,
     timestamp |-> t]

ConnectDisconnect(from, to, change, t) ==
    [type |-> "ConnectDisconnect", from |-> from, to |-> to,
     change |-> change, timestamp |-> t]

Update(n, a, t) ==
    [type |-> "Update", uid |-> n.id, kind |-> n.kind, attribute |-> a,
     val |-> n.attr[a], timestamp |-> t]

(* What the document interactor sends for a call.  It announces a           *)
(* disconnect as an assertion, and the attributes of a node one by one.     *)
AnnounceCreate(n, d, t) == <<CreateDelete(n, d, "Assert", t)>>

AnnounceRemove(n, d, t) == <<CreateDelete(n, d, "Retract", t)>>

AnnounceConnect(from, to, t) == <<ConnectDisconnect(from, to, "Assert", t)>>

AnnounceDisconnect(from, to, t) == <<ConnectDisconnect(from, to, "Assert", t)>>

AnnounceUpdate(n, t) ==
    LET names == Attributes(n.kind)
    IN  [i \in DOMAIN names |-> Update(n, names[i], t)]

(* A message is sent when the transactions before it have committed: the    *)
(* message of a node after all k of them, that of an attribute after its    *)
(* own.                                                                     *)
SentAfterAll(messages, txs, k) == IF k = Len(txs) THEN messages ELSE <<>>

SentOneByOne(messages, k) == SubSeq(messages, 1, k)

(* External: what a replica sends reaches the inbox of every other.         *)
Post(boxes, r, messages) ==
    [q \in Replica |-> IF q = r THEN boxes[q] ELSE boxes[q] \o messages]

-----------------------------------------------------------------------------
(* How many of its transactions a call completes. *)
Progress(txs) == IF Failures THEN 0 .. Len(txs) ELSE {Len(txs)}

(* regenMesh() walks the whole graph before it starts its task. *)
MeshSafe(g) == RootsSafe(g) /\ TreesTerminate(g)

(* What replica r has done when k of the transactions of a call committed:  *)
(* the first failure skips the rest and the graph.                          *)
Outcome(r, txs, k, boxes, g, safe) ==
    LET done == k = Len(txs)
    IN  /\ db' = [db EXCEPT ![r] = Commit(@, SubSeq(txs, 1, k))]
        /\ inbox' = boxes
        /\ graph' = IF done /\ safe THEN [graph EXCEPT ![r] = g] ELSE graph
        /\ crashed' = IF done /\ ~safe THEN crashed \cup {r} ELSE crashed
        /\ UNCHANGED open

(* A call of the user goes to the document that is open, at a time of its   *)
(* own.                                                                     *)
UserCall(name, r) ==
    /\ name \in Calls
    /\ open[r] # NoDocument
    /\ clock < MaxTime
    /\ clock' = clock + 1

UserCreate(r, n) ==
    LET txs == CreateTxs(n, open[r], clock + 1)
        g   == create(graph[r], n)
        sent == AnnounceCreate(n, open[r], clock + 1)
    IN  /\ UserCall("create", r)
        /\ stage[n.id] = "unused"
        /\ \E k \in Progress(txs) :
              /\ Outcome(r, txs, k,
                         Post(inbox, r, SentAfterAll(sent, txs, k)),
                         g, MeshSafe(g))
              /\ stage' = [stage EXCEPT ![n.id] =
                              IF k = Len(txs) THEN "created" ELSE "partial"]

(* The document removes the node it is handed, as it is in its graph. *)
UserRemove(r, n) ==
    LET txs == RemoveTxs(n, open[r], clock + 1)
        g   == remove(graph[r], n.id)
        sent == AnnounceRemove(n, open[r], clock + 1)
    IN  /\ UserCall("remove", r)
        /\ \E k \in Progress(txs) :
              /\ Outcome(r, txs, k,
                         Post(inbox, r, SentAfterAll(sent, txs, k)),
                         g, MeshSafe(g))
              /\ stage' = [stage EXCEPT ![n.id] =
                              IF k > 0 THEN "removed" ELSE @]

UserConnect(r, from, to) ==
    LET txs == <<EdgeTx(from, to, clock + 1, FALSE)>>
        g   == connect(graph[r], from, to)
        sent == AnnounceConnect(from, to, clock + 1)
    IN  /\ UserCall("connect", r)
        /\ <<from, to>> \in Drawable
        /\ \E k \in Progress(txs) :
              Outcome(r, txs, k,
                      Post(inbox, r, SentAfterAll(sent, txs, k)),
                      g, ConnectSafe(graph[r], from, to) /\ MeshSafe(g))
        /\ UNCHANGED stage

UserDisconnect(r, from, to) ==
    LET txs == <<EdgeTx(from, to, clock + 1, TRUE)>>
        g   == disconnect(graph[r], from, to)
        sent == AnnounceDisconnect(from, to, clock + 1)
    IN  /\ UserCall("disconnect", r)
        /\ <<from, to>> \in graph[r].edges
        /\ \E k \in Progress(txs) :
              Outcome(r, txs, k,
                      Post(inbox, r, SentAfterAll(sent, txs, k)),
                      g, MeshSafe(g))
        /\ UNCHANGED stage

(* Each attribute is stored and announced before the next; update() of a    *)
(* SetOp then dereferences the sphere that the node is not.                 *)
UserUpdate(r, n) ==
    LET txs == AttributeTxs(n, clock + 1, FALSE)
        sent == AnnounceUpdate(n, clock + 1)
        g   == access(graph[r], n.id, n.attr)
    IN  /\ UserCall("update", r)
        /\ n.id \in Ids(graph[r])
        /\ \E k \in Progress(txs) :
              Outcome(r, txs, k, Post(inbox, r, SentOneByOne(sent, k)), g,
                      /\ n.kind = "Sphere"
                      /\ AccessSafe(graph[r], n.id, n.kind)
                      /\ MeshSafe(g))
        /\ UNCHANGED stage

(* open() replaces the current document by what the tables hold of it. *)
Open(r, d) ==
    /\ open' = [open EXCEPT ![r] = d]
    /\ graph' = [graph EXCEPT ![r] = Opened(db[r], d)]
    /\ UNCHANGED <<db, crashed, inbox, clock, stage>>

-----------------------------------------------------------------------------
(* ClientImpl::process hands a message to the network interactor.  Only its *)
(* create looks whether a document is open, and which one.                  *)

Receive(r, i, m, type, change) ==
    /\ i \in DOMAIN inbox[r]
    /\ Ordered => i = 1
    /\ m = inbox[r][i]
    /\ m.type = type
    /\ type # "Update" => m.change = change

Taken(r, i) == [inbox EXCEPT ![r] = RemoveAt(@, i)]

IsOpen(r) == open[r] # NoDocument

ReceiveCreate(r, i) == \E m \in ToSet(inbox[r]) :
    LET txs == CreateTxs(m.node, m.document, m.timestamp)
        g   == IF open[r] = m.document THEN create(graph[r], m.node)
                                       ELSE graph[r]
    IN  /\ Receive(r, i, m, "CreateDelete", "Assert")
        /\ \E k \in Progress(txs) : Outcome(r, txs, k, Taken(r, i), g, TRUE)
        /\ UNCHANGED <<clock, stage>>

ReceiveConnect(r, i) == \E m \in ToSet(inbox[r]) :
    LET txs == <<EdgeTx(m.from, m.to, m.timestamp, FALSE)>>
    IN  /\ Receive(r, i, m, "ConnectDisconnect", "Assert")
        /\ \E k \in Progress(txs) :
              Outcome(r, txs, k, Taken(r, i), connect(graph[r], m.from, m.to),
                      IsOpen(r) /\ ConnectSafe(graph[r], m.from, m.to))
        /\ UNCHANGED <<clock, stage>>

ReceiveUpdate(r, i) == \E m \in ToSet(inbox[r]) :
    LET txs == <<[table |-> m.attribute, entity |-> m.uid, val |-> m.val,
                  to |-> m.uid, timestamp |-> m.timestamp,
                  deleted |-> FALSE]>>
    IN  /\ Receive(r, i, m, "Update", "Assert")
        /\ \E k \in Progress(txs) :
              Outcome(r, txs, k, Taken(r, i),
                      access(graph[r], m.uid, [a \in {m.attribute} |-> m.val]),
                      IsOpen(r) /\ AccessSafe(graph[r], m.uid, m.kind))
        /\ UNCHANGED <<clock, stage>>

(* Mutant of ReceiveRemove: the document is not told. *)
ReceiveRemoveUntold(r, i) == \E m \in ToSet(inbox[r]) :
    LET txs == RemoveTxs(m.node, m.document, m.timestamp)
    IN  /\ Receive(r, i, m, "CreateDelete", "Retract")
        /\ clock < MaxTime
        /\ clock' = clock + 1
        /\ \E k \in Progress(txs) :
              Outcome(r, txs, k, Taken(r, i), graph[r], IsOpen(r))
        /\ UNCHANGED stage

(* The network interactor removes the node from the tables and then through *)
(* the document, as if its user had: a second removal, now, from the open   *)
(* document, and a message of its own.                                      *)
ReceiveRemove(r, i) == \E m \in ToSet(inbox[r]) :
    LET now  == clock + 1
        txs  == RemoveTxs(m.node, m.document, m.timestamp)
                \o IF IsOpen(r) THEN RemoveTxs(m.node, open[r], now) ELSE <<>>
        g    == remove(graph[r], m.node.id)
        echo == AnnounceRemove(m.node, open[r], now)
    IN  /\ Receive(r, i, m, "CreateDelete", "Retract")
        /\ clock < MaxTime
        /\ clock' = now
        /\ \E k \in Progress(txs) :
              Outcome(r, txs, k,
                      Post(Taken(r, i), r,
                           IF IsOpen(r) THEN SentAfterAll(echo, txs, k)
                                        ELSE <<>>),
                      g, IsOpen(r) /\ MeshSafe(g))
        /\ UNCHANGED stage

ReceiveDisconnect(r, i) == \E m \in ToSet(inbox[r]) :
    LET txs == <<EdgeTx(m.from, m.to, m.timestamp, TRUE)>>
    IN  /\ Receive(r, i, m, "ConnectDisconnect", "Retract")
        /\ \E k \in Progress(txs) :
              Outcome(r, txs, k, Taken(r, i),
                      disconnect(graph[r], m.from, m.to), IsOpen(r))
        /\ UNCHANGED <<clock, stage>>

-----------------------------------------------------------------------------
(* External: a peer of another build announces that an edge is gone the way *)
(* ClientImpl expects it; no document interactor of this code does.         *)
PeerDisconnect(from, to) ==
    /\ "peer" \in Calls
    /\ clock < MaxTime
    /\ clock' = clock + 1
    /\ \E r \in Replica : <<from, to>> \in graph[r].edges
    /\ inbox' = [q \in Replica |->
            Append(inbox[q], ConnectDisconnect(from, to, "Retract", clock'))]
    /\ UNCHANGED <<db, open, graph, crashed, stage>>

-----------------------------------------------------------------------------
EmptyTables == [document |-> <<>>, edge |-> {},
                store |-> [radius |-> {}, coord |-> {}, type |-> {}]]

Init ==
    /\ db = [r \in Replica |-> EmptyTables]
    /\ open = [r \in Replica |-> NoDocument]
    /\ graph = [r \in Replica |-> EmptyGraph]
    /\ crashed = {}
    /\ inbox = [r \in Replica |-> <<>>]
    /\ clock = 0
    /\ stage = [n \in NodeId |-> "unused"]

Next ==
    \/ \E from, to \in NodeId : PeerDisconnect(from, to)
    \/ \E r \in Replica \ crashed :
           \/ \E d \in Document : Open(r, d)
           \/ \E n \in Handed : UserCreate(r, n) \/ UserUpdate(r, n)
           \/ \E n \in ToSet(graph[r].nodes) : UserRemove(r, n)
           \/ \E from, to \in NodeId :
                 /\ {from, to} \subseteq Ids(graph[r])
                 /\ UserConnect(r, from, to) \/ UserDisconnect(r, from, to)
           \/ \E i \in DOMAIN inbox[r] :
                 \/ ReceiveCreate(r, i) \/ ReceiveRemove(r, i)
                 \/ ReceiveConnect(r, i) \/ ReceiveDisconnect(r, i)
                 \/ ReceiveUpdate(r, i)

Spec == Init /\ [][Next]_vars

(* A session: every replica has a document open when it starts.             *)
SessionInit ==
    /\ db = [r \in Replica |-> EmptyTables]
    /\ open \in [Replica -> Document]
    /\ graph = [r \in Replica |-> EmptyGraph]
    /\ crashed = {}
    /\ inbox = [r \in Replica |-> <<>>]
    /\ clock = 0
    /\ stage = [n \in NodeId |-> "unused"]

SessionSpec == SessionInit /\ [][Next]_vars

-----------------------------------------------------------------------------
(* Properties *)

AttributeRow == [entity: NodeId, val: Value, timestamp: 0 .. MaxTime,
                 deleted: BOOLEAN]

TypeOK ==
    /\ \A r \in Replica :
        /\ ToSet(db[r].document) \subseteq
              [entity: NodeId, type: {"Sphere", "SetOperation"},
               document: Document, timestamp: 0 .. MaxTime, deleted: BOOLEAN]
        /\ db[r].edge \subseteq
              [entity: NodeId, entity_to: NodeId, timestamp: 0 .. MaxTime,
               deleted: BOOLEAN]
        /\ \A a \in Attribute : db[r].store[a] \subseteq AttributeRow
        /\ ToSet(graph[r].nodes) \subseteq Nodes
        /\ graph[r].edges \subseteq NodeId \X NodeId
    /\ open \in [Replica -> Document \cup {NoDocument}]
    /\ crashed \subseteq Replica
    /\ clock \in 0 .. MaxTime
    /\ stage \in [NodeId -> {"unused", "partial", "created", "removed"}]

SameGraph(g, h) == ToSet(g.nodes) = ToSet(h.nodes) /\ g.edges = h.edges

Running(r) == r \notin crashed /\ IsOpen(r)

(* A graph without some of its nodes. *)
Without(g, ids) ==
    [nodes |-> Selected(g.nodes, {i \in DOMAIN g.nodes : g.nodes[i].id \notin ids}),
     edges |-> {e \in g.edges : {e[1], e[2]} \cap ids = {}}]

(* The graph on the screen and the tables do not drift apart: closing the   *)
(* document and opening it again shows the same nodes with the same         *)
(* attributes and the same edges, but for the nodes whose removal failed    *)
(* after its first transaction: they stay on the screen until then.         *)
ReopenShowsTheSame ==
    \A r \in Replica : Running(r) =>
        SameGraph(Without(graph[r], {n \in NodeId : stage[n] = "removed"}),
                  Opened(db[r], open[r]))

(* A call whose third transaction failed leaves no half of a node: a node   *)
(* shows after opening exactly when its creation ran to the end and its     *)
(* removal did not begin.                                                   *)
OpenedIffCreated ==
    \A r \in Replica :
        UNION {Ids(Opened(db[r], d)) : d \in Document}
            = {n \in NodeId : stage[n] = "created"}

(* No call meets a null pointer, an exception or a recursion without end. *)
NeverCrashes == crashed = {}

(* A connect never arrives before the nodes it joins, as long as messages   *)
(* keep their order, every replica has the document open and nobody removes *)
(* a node: only then does Graph::connect find both ends.                    *)
ConnectsFindTheirNodes ==
    (\A n \in NodeId : stage[n] # "removed") => crashed = {}

(* The edges of the graph join nodes of the graph, which is what keeps      *)
(* roots() from throwing, and every node is in a tree of the forest that    *)
(* goes to the mesh.                                                        *)
ForestIsComplete ==
    \A r \in Replica : Running(r) =>
        RootsSafe(graph[r]) /\ InTrees(graph[r]) = Ids(graph[r])

(* Once every message about a node that was removed has arrived at a        *)
(* replica, the node is gone there, from the graph and from the tables,     *)
(* whatever else the replicas did to it meanwhile.                          *)
About(m, n) == CASE m.type = "CreateDelete" -> m.node.id = n
                 [] m.type = "Update" -> m.uid = n
                 [] OTHER -> FALSE

RemovalArrives ==
    \A r \in Replica \ crashed, n \in NodeId :
        (stage[n] = "removed" /\ ~ \E m \in ToSet(inbox[r]) : About(m, n))
            => /\ n \notin Ids(graph[r])
               /\ \A d \in Document : n \notin Ids(Opened(db[r], d))

(* A removal goes round for ever: every replica that takes it sends it      *)
(* again.  So once a node was removed there is always a message on its way, *)
(* but one about a node that its receiver no longer has changes nothing.    *)
Spent(r, m) ==
    /\ m.type = "CreateDelete" /\ m.change = "Retract"
    /\ \A d \in Document : m.node.id \notin Ids(Opened(db[r], d))

(* All that was done has arrived at all replicas, and none has stopped.     *)
AllArrived ==
    /\ crashed = {}
    /\ \A r \in Replica : \A m \in ToSet(inbox[r]) : Spent(r, m)

(* When all that was done has arrived, all replicas would open the same     *)
(* graph of every document.                                                 *)
TablesConverge ==
    AllArrived => \A r, q \in Replica, d \in Document :
                      SameGraph(Opened(db[r], d), Opened(db[q], d))

(* A replica that follows a document sees, without opening it again, what   *)
(* each replica, it or another, would see of it after opening it: removals  *)
(* and the edges that went with them have left no trace.                    *)
GraphsConverge ==
    AllArrived => \A r, q \in Replica :
                      SameGraph(graph[r], Opened(db[q], open[r]))

(* unit_client.cpp: a disconnect travels as Change::Retract.  So when it    *)
(* has arrived the edge is gone at the receiver too.                        *)
EdgesConverge ==
    AllArrived => \A r, q \in Replica, n \in NodeId :
                      edges(db[r].edge, n) = edges(db[q].edge, n)

(* interaction_through_document.cpp: a removal sends one message.  Taking a *)
(* message from the inbox sends none.                                       *)
ReceivingIsSilent ==
    [][(\E r \in Replica : Len(inbox'[r]) < Len(inbox[r]))
          => \A q \in Replica : Len(inbox'[q]) <= Len(inbox[q])]_vars

(* interaction_through_document.cpp: after update(sphere) the graph holds   *)
(* the sphere's new attributes, as do the tables.                           *)
AttributesMatchTables ==
    \A r \in Replica : Running(r) =>
        \A i \in DOMAIN graph[r].nodes :
            \E n \in ToSet(Opened(db[r], open[r]).nodes) :
                n = graph[r].nodes[i]
=============================================================================
