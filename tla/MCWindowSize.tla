---------------------------- MODULE MCWindowSize ----------------------------
(* WindowSize with three sizes, so that a stale report can differ both from *)
(* the size of the canvas and from the size on the screen, in one dimension *)
(* or in both.                                                              *)
EXTENDS WindowSize

MCSize == {[width |-> 1, height |-> 2],
           [width |-> 2, height |-> 1],
           [width |-> 2, height |-> 2]}

=============================================================================
