--------------------------- MODULE DatabaseTables ---------------------------
(***************************************************************************)
(* The statements and queries of DatabaseImpl.cpp as operators on tables.  *)
(* A table is a set of rows, except the document table, whose rows are in  *)
(* a sequence because entities() returns one element per row.              *)
(***************************************************************************)
EXTENDS Rows, Selection

(* The rows of an entity stamped with its LastWriterWinsTimestamp. *)
Latest(table, e) == Newest(Live({r \in table : r.entity = e}))

(* Mutant of CRDTCollectGarbage: rows go whatever their age. *)
CollectAnyAge(table, e, t) ==
    {r \in table : ~(r.entity = e \/ (r.timestamp < t /\ r.deleted))}

CRDTCollectGarbage(table, e, t) ==
    {r \in table : ~(r.timestamp < t /\ (r.entity = e \/ r.deleted))}

(* upsertI of Coord, SetOperationType and Name. *)
upsertI(table, e, v, t, deleted) ==
    CRDTCollectGarbage(table, e, t)
    \cup {[entity |-> e, val |-> v, timestamp |-> t, deleted |-> deleted]}

(* upsertI of Radius: the statement that collects the garbage is built and  *)
(* never executed.                                                          *)
upsertRadiusI(table, e, v, t, deleted) ==
    table \cup {[entity |-> e, val |-> v, timestamp |-> t,
                 deleted |-> deleted]}

(* retract of Coord passes deleted = false. *)
retractCoord(table, e, v, t) == upsertI(table, e, v, t, FALSE)

-----------------------------------------------------------------------------
(* Edges *)

(* Mutants of connectI: the row is stamped later, or the timestamps are     *)
(* compared with <=.                                                        *)
ConnectStampsLater(edge, e, to, t, deleted) ==
    edge \cup {[entity |-> e, entity_to |-> to, timestamp |-> t + 1,
                deleted |-> deleted]}

ConnectDropsTies(edge, e, to, t, deleted) ==
    {r \in edge : ~(/\ r.timestamp <= t
                    /\ (r.entity = e /\ r.entity_to = to) \/ r.deleted)}
    \cup {[entity |-> e, entity_to |-> to, timestamp |-> t,
           deleted |-> deleted]}

(* connect and disconnect: the older rows of the edge go, and the older     *)
(* tombstones of every edge.                                                *)
connectI(edge, e, to, t, deleted) ==
    {r \in edge : ~(/\ r.timestamp < t
                    /\ (r.entity = e /\ r.entity_to = to) \/ r.deleted)}
    \cup {[entity |-> e, entity_to |-> to, timestamp |-> t,
           deleted |-> deleted]}

(* Mutant of edges: a target is listed if any of its rows lives. *)
EdgesEverConnected(edge, e) ==
    {r.entity_to : r \in Live({q \in edge : q.entity = e})}

(* The targets of e: per target the newest rows, of which one must live.    *)
edges(edge, e) ==
    {to \in {r.entity_to : r \in edge} :
        Live(Newest({r \in edge : r.entity = e /\ r.entity_to = to})) # {}}

-----------------------------------------------------------------------------
(* Documents *)

(* Mutant of createI: the node is not compared. *)
CreateDropsDocument(document, e, type, d, t, deleted) ==
    Append(
        Selected(document,
                 {i \in DOMAIN document :
                     LET r == document[i]
                     IN  ~((r.document = d /\ r.timestamp < t) \/ r.deleted)}),
        [entity |-> e, type |-> type, document |-> d, timestamp |-> t,
         deleted |-> deleted])

(* create and remove: the node's older rows go, and every tombstone of the  *)
(* table whatever its timestamp.                                            *)
createI(document, e, type, d, t, deleted) ==
    Append(
        Selected(document,
                 {i \in DOMAIN document :
                     LET r == document[i]
                     IN  ~(\/ /\ r.entity = e /\ r.document = d
                              /\ r.timestamp < t
                           \/ r.deleted)}),
        [entity |-> e, type |-> type, document |-> d, timestamp |-> t,
         deleted |-> deleted])

(* The nodes of a document, in row order, one for each live row.            *)
entities(document, d) ==
    Selected(document, {i \in DOMAIN document :
                           ~document[i].deleted /\ document[i].document = d})
=============================================================================
