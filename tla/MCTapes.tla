------------------------------- MODULE MCTapes -------------------------------
(***************************************************************************)
(* An instance of Tapes: a ball and two half lines, combined by three min  *)
(* and max clauses in which operands are shared or even equal.             *)
(***************************************************************************)
EXTENDS Tapes, TLC

CONSTANTS a1, a2, a3, a4, a5, a6

(* Ids: 1-3 set operations, 4 ball, 5 and 6 half lines, 7 square,           *)
(* 8 difference, 9 X, 10 and 11 center and size, 12 and 13 ends.            *)
Shapes ==
    <<[op |-> "sub", id |-> 4, a |-> 7, b |-> 11],
      [op |-> "sub", id |-> 5, a |-> 9, b |-> 12],
      [op |-> "sub", id |-> 6, a |-> 13, b |-> 9],
      [op |-> "square", id |-> 7, a |-> 8, b |-> 0],
      [op |-> "sub", id |-> 8, a |-> 9, b |-> 10]>>

Constants ==
    {10 :> c[1] @@ 11 :> c[2] @@ 12 :> c[3] @@ 13 :> c[4] :
        c \in {<<5, 2, 3, 5>>, <<7, 1, 3, 12>>, <<2, 1, 5, 8>>}}

SetOp(j, a, b) == [op: Selective, id: {j}, a: a, b: b]

Combinations ==
    SetOp(1, {2}, {2, 3, 6}) \X SetOp(2, {3, 5}, {4}) \X SetOp(3, {5}, {6})

MCDecks ==
    {[clauses |-> <<c[1], c[2], c[3]>> \o Shapes, constant |-> k, x |-> 9, count |-> 13] :
        c \in {s \in Combinations : 3 \in {s[1].b, s[2].a}}, k \in Constants}

(* Workers only differ by name. *)
Swap == Permutations(Evaluator)
=============================================================================
