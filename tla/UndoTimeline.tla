---------------------------- MODULE UndoTimeline ----------------------------
(***************************************************************************)
(* What a user is promised by Undo and Redo, with no stacks, no heap and   *)
(* no buttons: the pictures the canvas has gone through since it was last  *)
(* loaded lie on a line, and a cursor points at the current one.  Undo and *)
(* Redo move the cursor; an edit cuts the line after the cursor and adds   *)
(* the new picture at its end; loading an image starts a new line.         *)
(*                                                                         *)
(* StateManager is shown to implement this specification.                  *)
(***************************************************************************)
EXTENDS Integers, Sequences

CONSTANT Picture

VARIABLES timeline, cursor

vars == <<timeline, cursor>>

TypeOK ==
    /\ timeline \in Seq(Picture)
    /\ cursor \in 0 .. Len(timeline)

Init ==
    /\ timeline = <<>>
    /\ cursor = 0

Edit(p) ==
    /\ timeline' = Append(SubSeq(timeline, 1, cursor), p)
    /\ cursor' = cursor + 1

Load(p) ==
    /\ timeline' = <<p>>
    /\ cursor' = 1

Undo ==
    /\ cursor > 1
    /\ cursor' = cursor - 1
    /\ UNCHANGED timeline

Redo ==
    /\ cursor < Len(timeline)
    /\ cursor' = cursor + 1
    /\ UNCHANGED timeline

Next ==
    \/ \E p \in Picture : Edit(p) \/ Load(p)
    \/ Undo
    \/ Redo

Spec == Init /\ [][Next]_vars

=============================================================================
