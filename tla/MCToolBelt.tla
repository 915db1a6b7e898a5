------------------------------ MODULE MCToolBelt ------------------------------
(* The real tools on two small canvases, clicked in the middle and at such    *)
(* distances that the edges of all masks come to lie on the canvas.           *)
EXTENDS ToolBelt

\* Rows are stored bottom up; no two pixels have the same colour.
MCCanvas == {
    [width |-> 3, height |-> 2, background |-> 100,
     pixels |-> [i \in 0 .. 5 |-> <<0, 100, 40, 80, 20, 60>>[i + 1]]],
    [width |-> 1, height |-> 3, background |-> 0,
     pixels |-> [i \in 0 .. 2 |-> <<100, 0, 50>>[i + 1]]]}

MCPpmColour(col, row) == (7 * col + 13 * row) % 101

Image(w, h, colours) == [width |-> w, height |-> h, colours |->
    [p \in (0 .. w - 1) \X (0 .. h - 1) |-> colours[p[2] * w + p[1] + 1]]]

\* An odd one with a transparent pixel, wider than high, and an even one.
MCStampImage == {Image(3, 1, <<100, -1, 0>>), Image(2, 2, <<0, 100, 30, 70>>)}

MCBeginning == {
    [dirty |-> {}, file |-> PpmFile(400, 300)],
    [dirty |-> {17}, file |-> MissingFile],
    [dirty |-> {4, 40}, file |-> PpmFile(255, 10)]}

MCMouse == {<<1, 0>>, <<3, 1>>, <<-9, -1>>, <<1, 8>>, <<-18, 1>>, <<-12, -13>>, <<101, 75>>}

=============================================================================
