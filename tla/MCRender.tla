------------------------------- MODULE MCRender -------------------------------
(* A small instance of Render: a line of four cells in two levels. *)
EXTENDS Render

MCWorker == {"w1", "w2"}

(* A cell that is empty and one that is filled share no corner. *)
Line(a, b, c, d) ==
    [l \in Leaves |-> CASE l = <<1, 1>> -> a [] l = <<1, 2>> -> b
                        [] l = <<2, 1>> -> c [] l = <<2, 2>> -> d]
MCShape ==
    {Line("empty", "empty", "empty", "empty"),
     Line("empty", "empty", "mixed", "filled"),
     Line("mixed", "filled", "mixed", "mixed"),
     Line("mixed", "filled", "filled", "mixed")}
=============================================================================
