--------------------------- MODULE MCStateManager ---------------------------
(* StateManager on a heap that has room for five snapshots.                *)
EXTENDS StateManager

CONSTANTS s1, s2, s3, s4, s5, p1, p2

MCSnapshot == {s1, s2, s3, s4, s5}

MCPicture == {p1, p2}

=============================================================================
