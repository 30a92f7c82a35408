--------------------------- MODULE AddWinsRegister ---------------------------
(***************************************************************************)
(* What a column of the store promises to its callers, with no table and   *)
(* no tombstone in it: every register (a column of an entity) holds the    *)
(* set of values written to it that nothing newer has arrived to replace.  *)
(* A retraction removes the older values and leaves no trace.              *)
(***************************************************************************)
EXTENDS Naturals

CONSTANTS Column, Entity, Thing, Timestamp

VARIABLE live

Write == [colid: Column, entity: Entity, thing: Thing, timestamp: Timestamp]

Init == live = {}

(* The writes that survive the arrival of an operation stamped t.          *)
Unreplaced(c, e, t) ==
    {w \in live : ~(w.colid = c /\ w.entity = e /\ w.timestamp < t)}

Upsert(c, e, v, t) ==
    live' = Unreplaced(c, e, t)
            \cup {[colid |-> c, entity |-> e, thing |-> v, timestamp |-> t]}

Retract(c, e, t) == live' = Unreplaced(c, e, t)

Next == \E c \in Column, e \in Entity, t \in Timestamp :
            \/ \E v \in Thing : Upsert(c, e, v, t)
            \/ Retract(c, e, t)

Spec == Init /\ [][Next]_live
=============================================================================
