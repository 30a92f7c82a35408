------------------------------ MODULE EdgeTable ------------------------------
(***************************************************************************)
(* The edge table of DatabaseImpl under connects and disconnects of many   *)
(* edges, from this replica and from the network.  Unlike an attribute, an *)
(* edge is hidden by its tombstone, so it matters who collects it.         *)
(***************************************************************************)
EXTENDS DatabaseTables, FiniteSets

CONSTANTS
    Entity,         \* node ids
    Pair,           \* the edges in use, as <<from, to>>
    MaxTimestamp,   \* bound on the timestamps
    MaxOps          \* bound on the distinct operations applied

ASSUME PairAssumption == Pair \subseteq Entity \X Entity

ASSUME BoundsAssumption == MaxTimestamp \in Nat /\ MaxOps \in Nat

VARIABLES
    edge,           \* the table
    applied         \* history: every operation applied so far, as its row

vars == <<edge, applied>>

Timestamp == 0 .. MaxTimestamp

Row == [entity: Entity, entity_to: Entity,
        timestamp: Timestamp, deleted: BOOLEAN]

TypeOK ==
    /\ edge \subseteq Row
    /\ applied \subseteq Row

-----------------------------------------------------------------------------
Apply(e, to, t, deleted) ==
    LET row == [entity |-> e, entity_to |-> to, timestamp |-> t,
                deleted |-> deleted]
    IN  /\ Cardinality(applied \cup {row}) <= MaxOps
        /\ edge' = connectI(edge, e, to, t, deleted)
        /\ applied' = applied \cup {row}

connect(e, to, t) == Apply(e, to, t, FALSE)

disconnect(e, to, t) == Apply(e, to, t, TRUE)

Init == edge = {} /\ applied = {}

Next == \E p \in Pair, t \in Timestamp :
            connect(p[1], p[2], t) \/ disconnect(p[1], p[2], t)

Spec == Init /\ [][Next]_vars

(* A replica that nobody else writes to, with a clock that never goes back. *)
InOrder(t) == \A r \in applied : r.timestamp <= t

LocalNext == \E p \in Pair, t \in Timestamp :
                 InOrder(t) /\ (connect(p[1], p[2], t)
                                \/ disconnect(p[1], p[2], t))

LocalSpec == Init /\ [][LocalNext]_vars

-----------------------------------------------------------------------------
(* Properties *)

Between(rows, e, to) == {r \in rows : r.entity = e /\ r.entity_to = to}

(* A concurrent connect wins over the disconnects of the same instant and   *)
(* is never lost: when the newest operations on an edge include a connect,  *)
(* edges() lists it, whatever else happened to this and to other edges.     *)
NewestConnectWins ==
    \A p \in Pair :
        Live(Newest(Between(applied, p[1], p[2]))) # {}
            => p[2] \in edges(edge, p[1])

(* What goes wrong, goes wrong in one way only: an edge that edges() lists  *)
(* although its newest operations are disconnects has lost its tombstone to *)
(* a newer operation on another edge.                                       *)
ResurrectionNeedsNewerForeignOp ==
    \A p \in Pair :
        LET newest == Newest(Between(applied, p[1], p[2]))
        IN  newest # {} /\ Live(newest) = {} /\ p[2] \in edges(edge, p[1])
                => \E q \in applied \ Between(applied, p[1], p[2]) :
                       \A r \in newest : q.timestamp > r.timestamp

(* ConnectDisconnectCRDTProperty of properties.cpp: edges() lists an edge   *)
(* exactly when a connect is among its newest operations, in whatever order *)
(* they arrive.  So the rows agree on every replica.                        *)
EdgesConverge ==
    \A p \in Pair :
        p[2] \in edges(edge, p[1])
            <=> Live(Newest(Between(applied, p[1], p[2]))) # {}

(* The strengthening of the above: what was applied is in the table or was  *)
(* replaced by a newer operation on its edge, or, a tombstone, by a newer   *)
(* operation on any edge.                                                   *)
CollectedIsOutdated ==
    \A r \in applied \ edge :
        \E q \in applied :
            /\ q.timestamp > r.timestamp
            /\ (q.entity = r.entity /\ q.entity_to = r.entity_to) \/ r.deleted
=============================================================================
