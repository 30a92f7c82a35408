----------------------------- MODULE MCViewModel -----------------------------
(***************************************************************************)
(* Instances of ViewModel for TLC.                                         *)
(***************************************************************************)
EXTENDS ViewModel

CONSTANTS s1, s2, u1

Spheres == [n \in NodeId |-> "Sphere"]

(* u1 is a set operation, the other nodes are spheres. *)
Mixed == [n \in NodeId |-> IF n = u1 THEN "SetOperation" ELSE "Sphere"]

(* The edges that users draw: a set operation over two spheres, an  *)
(* edge between two nodes, a chain of three.                                *)
Downward == {<<u1, s1>>, <<u1, s2>>} \cap (NodeId \X NodeId)
OneEdge == {<<s1, s2>>}
Chain == {<<u1, s1>>, <<s1, s2>>}

(* Replicas only differ by name. *)
Swap == Permutations(Replica)
=============================================================================
