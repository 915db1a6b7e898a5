-------------------------- MODULE MCDocumentedUndo --------------------------
(* DocumentedUndo on a heap that has room for five snapshots.              *)
EXTENDS DocumentedUndo

CONSTANTS s1, s2, s3, s4, s5, p1

MCSnapshot == {s1, s2, s3, s4, s5}

MCPicture == {p1}

=============================================================================
