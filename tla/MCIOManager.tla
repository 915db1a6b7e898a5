----------------------------- MODULE MCIOManager -----------------------------
(* IOManager with two directories, a PNG name and a JPEG name.              *)
EXTENDS IOManager, TLC

CONSTANTS home, sub, png1, jpg1, typo, small, b1, b2, b3

MCDir == {home, sub}

MCOneDir == {home}

MCPng == {png1}

MCJpeg == {jpg1}

MCOther == {typo, NoName}

MCBuffer == {b1, b2, b3}

MCSize == {small}

Symmetry == Permutations(MCBuffer)

=============================================================================
