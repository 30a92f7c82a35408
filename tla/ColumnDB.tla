------------------------------ MODULE ColumnDB ------------------------------
(***************************************************************************)
(* The column store: one table of timestamped rows shared by every column  *)
(* (include/db/column/Column.h, include/db/utils/crdt_utils.h).  Upserts   *)
(* and retractions arrive in any order and any number of times, from the   *)
(* user of this replica and from the network; each is one transaction, so  *)
(* one action.  A row is a record and the table a set: an identical second *)
(* row changes no query.                                                   *)
(***************************************************************************)
EXTENDS Rows, FiniteSets

CONSTANTS
    Column,         \* the values of ColumnAttribute, the table's colid
    Entity,         \* entity ids
    Thing,          \* the attribute values, serialized in the row
    Rank,           \* what preferred() compares: magnitude, distance from
                    \* the origin, place in the alphabet, 0 for Union
    MaxTimestamp,   \* bound on the timestamps
    MaxOps          \* bound on the distinct operations applied

ASSUME RankAssumption == Rank \in [Thing -> Nat]

ASSUME BoundsAssumption == MaxTimestamp \in Nat /\ MaxOps \in Nat

VARIABLES
    attribute,      \* the table
    applied         \* history: every operation applied so far, as its row

vars == <<attribute, applied>>

Timestamp == 0 .. MaxTimestamp

Row == [colid: Column, entity: Entity, thing: Thing,
        timestamp: Timestamp, deleted: BOOLEAN]

TypeOK ==
    /\ attribute \subseteq Row
    /\ applied \subseteq Row

-----------------------------------------------------------------------------
(* Rows of one register. *)
Of(rows, c, e) == {r \in rows : r.colid = c /\ r.entity = e}

-----------------------------------------------------------------------------
(* Mutants of Garbage: the entity is not compared, the timestamps are       *)
(* compared with <=, or the two last conditions are joined with &&.         *)
GarbageOfAnyEntity(c, e, t) ==
    {r \in attribute : r.colid = c /\ r.timestamp < t}

GarbageNotNewer(c, e, t) ==
    {r \in attribute : /\ r.colid = c
                       /\ r.timestamp <= t
                       /\ r.entity = e \/ r.deleted}

GarbageTombstonesOnly(c, e, t) ==
    {r \in attribute : /\ r.colid = c
                       /\ r.timestamp < t
                       /\ r.entity = e /\ r.deleted}

(* The rows an operation on (c, e) at t deletes: the register's older rows, *)
(* and the older tombstones of every entity of the column.                  *)
Garbage(c, e, t) ==
    {r \in attribute : /\ r.colid = c
                       /\ r.timestamp < t
                       /\ r.entity = e \/ r.deleted}

CRDTCollectGarbage(c, e, t) == attribute \ Garbage(c, e, t)

RowOf(c, e, v, t, deleted) ==
    [colid |-> c, entity |-> e, thing |-> v, timestamp |-> t,
     deleted |-> deleted]

Apply(row) ==
    /\ Cardinality(applied \cup {row}) <= MaxOps
    /\ attribute' = CRDTCollectGarbage(row.colid, row.entity, row.timestamp)
                    \cup {row}
    /\ applied' = applied \cup {row}

Upsert(c, e, v, t) == Apply(RowOf(c, e, v, t, FALSE))

Retract(c, e, v, t) == Apply(RowOf(c, e, v, t, TRUE))

Init == attribute = {} /\ applied = {}

Next == \E c \in Column, e \in Entity, v \in Thing, t \in Timestamp :
            Upsert(c, e, v, t) \/ Retract(c, e, v, t)

Spec == Init /\ [][Next]_vars

-----------------------------------------------------------------------------
(* The queries.  latest() folds the values of the rows it selects with      *)
(* preferred(); Candidates is that selection: the live rows stamped with    *)
(* LastWriterWinsTimestamp.                                                 *)
Candidates(c, e) == Newest(Live(Of(attribute, c, e)))

(* Mutant of preferred: the last value read wins. *)
PreferredLast(left, right) == right

preferred(left, right) == IF Rank[left] < Rank[right] THEN left ELSE right

(* The values std::reduce may return.  The rows come in no stated order and *)
(* are combined in no stated grouping, so any value that preferred() keeps  *)
(* when it stands on the right of each of the others can be the result;     *)
(* the set is empty when latest() is nullopt.                               *)
latest(c, e) ==
    LET results == {r.thing : r \in Candidates(c, e)}
    IN  {v \in results : \A w \in results : preferred(w, v) = v}

(* Mutant of newer_than: >= for >. *)
NotOlderThan(c, e, t) ==
    {r \in Live(Of(attribute, c, e)) : r.timestamp >= t}

(* The rows whose values newer_than returns. *)
newer_than(c, e, t) ==
    {r \in Live(Of(attribute, c, e)) : r.timestamp > t}

-----------------------------------------------------------------------------
(* Properties *)

(* Whatever the order and the duplication of the deliveries, when the       *)
(* newest operations on a register include an upsert, latest() selects      *)
(* exactly the upserts among them: concurrent retractions lose, older       *)
(* upserts are hidden, and no collection for another entity or column has   *)
(* taken one away.  Two replicas with the same operations then agree.       *)
NewestUpsertWins ==
    \A c \in Column, e \in Entity :
        LET newest == Newest(Of(applied, c, e))
        IN  Live(newest) # {} => Candidates(c, e) = Live(newest)

(* The garbage collector only drops what is outdated: a row that has been   *)
(* applied and is gone from the table is older than another operation on    *)
(* its register or, for a tombstone, on its column.                         *)
CollectedIsOutdated ==
    \A r \in applied \ attribute :
        \E q \in applied : /\ q.colid = r.colid
                           /\ q.timestamp > r.timestamp
                           /\ q.entity = r.entity \/ r.deleted

(* Two replicas that applied the same operations show the same value: if    *)
(* the newest operations include an upsert, latest() can only return one    *)
(* thing, a function of the operations and not of their order, the one of   *)
(* least rank among the newest upserts.  It needs ranks that tell the       *)
(* values apart.                                                            *)
ReplicasAgree ==
    \A c \in Column, e \in Entity :
        LET winners == Live(Newest(Of(applied, c, e)))
        IN  winners # {} =>
                \E w \in winners :
                    /\ \A o \in winners : Rank[w.thing] <= Rank[o.thing]
                    /\ latest(c, e) = {w.thing}

(* Whatever the order of the deliveries, the newest rows that newer_than    *)
(* selects are the newest upserts of all if these are newer than t, and it  *)
(* selects nothing if they are not: no collection has taken one away, and   *)
(* no upsert that came too late is passed off as news.  Retractions are not *)
(* selected (deleted = false), so nothing is said of a register whose       *)
(* newest operations are only these.                                        *)
NewsIsTheNewest ==
    \A c \in Column, e \in Entity, t \in Timestamp :
        LET winners == Live(Newest(Of(applied, c, e)))
        IN  winners # {} =>
                Newest(newer_than(c, e, t)) = {w \in winners : w.timestamp > t}

(* The tombstones are never seen: the store, with its shared table and its  *)
(* collection of the tombstones of foreign entities, implements registers   *)
(* that keep no tombstone at all.                                           *)
Abstract == INSTANCE AddWinsRegister
    WITH live <- {[colid |-> r.colid, entity |-> r.entity,
                   thing |-> r.thing, timestamp |-> r.timestamp] :
                  r \in Live(attribute)}

ImplementsRegister == Abstract!Spec
=============================================================================
