--------------------------- MODULE MCFlashPhotoApp ---------------------------
(* The application on a disk with one PNG file, with three snapshots.      *)
EXTENDS FlashPhotoApp, TLC

CONSTANTS home, png1, small, large, s1, s2, s3, p1, p2, b0, b1, b2

MCDir == {home}

MCPng == {png1}

MCJpeg == {}

MCOther == {NoName}

MCBuffer == {b1, b2}

MCSize == {small, large}

MCSnapshot == {s1, s2, s3}

MCPicture == {p1, p2}

Symmetry == Permutations(MCSnapshot) \cup Permutations(MCBuffer)
                \cup Permutations(MCPicture)

=============================================================================
