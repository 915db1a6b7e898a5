-------------------------- MODULE MCFilterManager --------------------------
(* Filters on small canvases that are neither square nor all wider than high. *)
EXTENDS FilterManager

MCDimensions == {<<3, 2>>, <<1, 3>>}

MCColour == {0, One}

=============================================================================
