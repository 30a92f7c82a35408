----------------------------- MODULE MCColumnDB -----------------------------
(***************************************************************************)
(* Instances of ColumnDB for TLC.                                          *)
(***************************************************************************)
EXTENDS ColumnDB

(* Values that all compare differently, as names and radii do. *)
DistinctRank == [v \in Thing |-> v]
=============================================================================
