------------------------------ MODULE MCStroke ------------------------------
(* Strokes over a small canvas and a border of a pixel above and left of it.*)
EXTENDS Stroke

CONSTANT Reach

MCCoord == -1 .. Reach

=============================================================================
