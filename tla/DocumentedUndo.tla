--------------------------- MODULE DocumentedUndo ---------------------------
(***************************************************************************)
(* StateManager with a history variable, to compare it with what the       *)
(* comment of state_manager.h says of undos, then edits, then more undos.  *)
(***************************************************************************)
EXTENDS StateManager

VARIABLE floor      \* how many states there were when edits followed undos

docVars == <<managerVars, floor>>

DocInit ==
    /\ Init
    /\ floor = 0

EditAfterUndos(p) ==
    /\ RegisterNewCanvasState(p)
    /\ floor' = IF redo_stack_ # <<>> THEN Len(undo_stack_) ELSE floor

NewCanvas(p) ==
    /\ ClearAndRegister(p)
    /\ floor' = 0

DocNext ==
    \/ \E p \in Picture : EditAfterUndos(p) \/ NewCanvas(p)
    \/ (UndoClicked \/ RedoClicked) /\ UNCHANGED floor

DocSpec == DocInit /\ [][DocNext]_docVars

\* state_manager.h says of undos, then edits, then more undos that they get
\* back to the state before the edits and no further.
NoFurtherThanTheEdits == Len(undo_stack_) >= floor

=============================================================================
