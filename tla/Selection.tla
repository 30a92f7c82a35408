------------------------------ MODULE Selection ------------------------------
(***************************************************************************)
(* Some of the elements of a sequence.  It is SelectSeq with a set of      *)
(* places where that has an operator: facts about it can be lemmas.        *)
(***************************************************************************)
EXTENDS Naturals, Sequences

(* The elements of s that are at the places, in their order. *)
Selected(s, places) ==
    LET upTo[n \in 0 .. Len(s)] ==
            IF n = 0 THEN <<>>
            ELSE IF n \in places THEN Append(upTo[n - 1], s[n])
            ELSE upTo[n - 1]
    IN  upTo[Len(s)]
=============================================================================
