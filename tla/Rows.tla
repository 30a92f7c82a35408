-------------------------------- MODULE Rows --------------------------------
(***************************************************************************)
(* Timestamped rows, the common vocabulary of both stores: every table has *)
(* a deleted flag and a timestamp.                                         *)
(***************************************************************************)
EXTENDS Naturals

(* The rows no query passes over: WHERE deleted = 0. *)
Live(rows) == {r \in rows : ~r.deleted}

(* The rows stamped with max(timestamp). *)
Newest(rows) == {r \in rows : \A q \in rows : q.timestamp <= r.timestamp}
=============================================================================
