---------------------------- MODULE MCEdgeTable ----------------------------
(***************************************************************************)
(* Instances of EdgeTable for TLC.                                         *)
(***************************************************************************)
EXTENDS EdgeTable

CONSTANTS a, b, c

Siblings == {<<a, b>>, <<a, c>>}
Triangle == {<<a, b>>, <<a, c>>, <<b, c>>}
=============================================================================
