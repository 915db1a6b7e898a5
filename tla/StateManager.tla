---------------------------- MODULE StateManager ----------------------------
(***************************************************************************)
(* The undo/redo manager (state_manager.cc, state_manager.h).              *)
(*                                                                         *)
(* The code keeps two std::stack's of raw pointers to heap arrays of       *)
(* colours.  A pointer comes from PixelBuffer::GetAllPixels and is from    *)
(* then on owned by the stacks, which delete it when they are cleared.  So *)
(* the model keeps the heap too: an address of Snapshot is either Freed or *)
(* holds the Picture copied into it, and the allocator may hand out any    *)
(* freed address again.                                                    *)
(*                                                                         *)
(* The event loop is single threaded and each GLUI callback runs to its    *)
(* end, so one callback is one action.                                     *)
(***************************************************************************)
EXTENDS Integers, Sequences, SequencesExt

CONSTANTS
    Snapshot,   \* addresses the allocator can return for a colour array
    Picture,    \* what such an array can hold
    Freed       \* content of an address that is not allocated

ASSUME FreedAssumption == Freed \notin Picture

VARIABLES
    undo_stack_,    \* top of the stack last
    redo_stack_,
    undo_btn_,      \* is the GLUI button enabled?
    redo_btn_,
    heap            \* [Snapshot -> Picture \cup {Freed}]

managerVars == <<undo_stack_, redo_stack_, undo_btn_, redo_btn_, heap>>

-----------------------------------------------------------------------------
(* The heap                                                                *)

Live == {s \in Snapshot : heap[s] # Freed}

Owned(stack) == {stack[i] : i \in DOMAIN stack}

\* GetAllPixels copies p into the array at s; the arrays of gone were deleted.
HeapAfter(gone, s, p) ==
    [a \in Snapshot |-> IF a = s THEN p
                        ELSE IF a \in gone THEN Freed ELSE heap[a]]

-----------------------------------------------------------------------------
(* The operations.  ToggleStateButtons ends every one of them.             *)

\* Mistake: Undo is allowed down to the last state.
ToggleOffByOne ==
    /\ redo_btn_' = (Len(redo_stack_') > 0)
    /\ undo_btn_' = (Len(undo_stack_') > 0)

ToggleStateButtons ==
    /\ redo_btn_' = (Len(redo_stack_') > 0)
    /\ undo_btn_' = (Len(undo_stack_') > 1)

UndoOperation ==
    /\ redo_stack_' = Append(redo_stack_, Last(undo_stack_))
    /\ undo_stack_' = Front(undo_stack_)
    /\ ToggleStateButtons
    /\ UNCHANGED heap

RedoOperation ==
    /\ undo_stack_' = Append(undo_stack_, Last(redo_stack_))
    /\ redo_stack_' = Front(redo_stack_)
    /\ ToggleStateButtons
    /\ UNCHANGED heap

\* Mistake: ClearRedoStack pops the arrays without deleting them.
RegisterAndLeak(p) ==
    \E s \in Snapshot \ Live :
        /\ undo_stack_' = Append(undo_stack_, s)
        /\ redo_stack_' = <<>>
        /\ heap' = HeapAfter({}, s, p)
        /\ ToggleStateButtons

\* Mistake: ClearRedoStack is not called.
RegisterAndKeepRedo(p) ==
    \E s \in Snapshot \ Live :
        /\ undo_stack_' = Append(undo_stack_, s)
        /\ UNCHANGED redo_stack_
        /\ heap' = HeapAfter({}, s, p)
        /\ ToggleStateButtons

\* Mistake: the colours are pushed, and not the array they were copied to.
RegisterColours(p) ==
    \E s \in Snapshot \ Live :
        /\ undo_stack_' = Append(undo_stack_, p)
        /\ redo_stack_' = <<>>
        /\ heap' = HeapAfter(Owned(redo_stack_), s, p)
        /\ ToggleStateButtons

\* The caller's GetAllPixels() is evaluated before the redo stack is cleared,
\* so the new array cannot reuse the address of one the call is to delete.
RegisterNewCanvasState(p) ==
    \E s \in Snapshot \ Live :
        /\ undo_stack_' = Append(undo_stack_, s)
        /\ redo_stack_' = <<>>
        /\ heap' = HeapAfter(Owned(redo_stack_), s, p)
        /\ ToggleStateButtons

\* ClearUndoAndRedoStacks() and then RegisterNewCanvasState(GetAllPixels()):
\* here both stacks are deleted first, and their addresses may come back.
ClearAndRegister(p) ==
    LET gone == Owned(undo_stack_) \cup Owned(redo_stack_) IN
    \E s \in (Snapshot \ Live) \cup gone :
        /\ undo_stack_' = <<s>>
        /\ redo_stack_' = <<>>
        /\ heap' = HeapAfter(gone, s, p)
        /\ ToggleStateButtons

-----------------------------------------------------------------------------
(* The manager under any client: an edit or a load at any time, Undo and   *)
(* Redo when GLUI lets the click through.                                  *)

Init ==
    /\ undo_stack_ = <<>>
    /\ redo_stack_ = <<>>
    /\ undo_btn_ = FALSE
    /\ redo_btn_ = FALSE
    /\ heap = [s \in Snapshot |-> Freed]

UndoClicked == undo_btn_ /\ UndoOperation

RedoClicked == redo_btn_ /\ RedoOperation

Next ==
    \/ \E p \in Picture : RegisterNewCanvasState(p)
    \/ \E p \in Picture : ClearAndRegister(p)
    \/ UndoClicked
    \/ RedoClicked

Spec == Init /\ [][Next]_managerVars

-----------------------------------------------------------------------------
(* Properties                                                              *)

TypeOK ==
    /\ undo_stack_ \in Seq(Snapshot)
    /\ redo_stack_ \in Seq(Snapshot)
    /\ undo_btn_ \in BOOLEAN
    /\ redo_btn_ \in BOOLEAN
    /\ heap \in [Snapshot -> Picture \cup {Freed}]

NoAliasIn(stack) ==
    \A i, j \in DOMAIN stack : stack[i] = stack[j] => i = j

\* Each array belongs to one place of one stack, so that clearing the stacks
\* never deletes one twice; no stacked pointer dangles, so that Undo and Redo
\* never copy freed memory; and no live array is unreachable, so that a long
\* session leaks none of the full-canvas copies.
SnapshotOwnership ==
    /\ NoAliasIn(undo_stack_)
    /\ NoAliasIn(redo_stack_)
    /\ Owned(undo_stack_) \cap Owned(redo_stack_) = {}
    /\ Owned(undo_stack_) \cup Owned(redo_stack_) = Live

\* UndoOperation and RedoOperation have no guard of their own: a pop of an
\* empty stack, or a top() after the last pop, is undefined.  What protects
\* them is that the buttons are enabled exactly when the stacks are deep
\* enough, after any sequence of operations.
ButtonsGuardStacks ==
    /\ undo_btn_ = (Len(undo_stack_) > 1)
    /\ redo_btn_ = (Len(redo_stack_) > 0)
    /\ Len(redo_stack_) > 0 => Len(undo_stack_) > 0

\* The line of pictures an UndoTimeline would hold: the undo stack from its
\* bottom, then the redo stack from its top.
Timeline ==
    [i \in 1 .. Len(undo_stack_) + Len(redo_stack_) |->
        IF i <= Len(undo_stack_)
        THEN heap[undo_stack_[i]]
        ELSE heap[redo_stack_[Len(undo_stack_) + Len(redo_stack_) + 1 - i]]]

Abstract == INSTANCE UndoTimeline
                WITH timeline <- Timeline, cursor <- Len(undo_stack_)

\* Every behaviour of the two stacks is a behaviour of one line of pictures
\* and a cursor: Undo and Redo never lose, swap or alter a picture, and only
\* an edit or a load drops any.
ImplementsTimeline == Abstract!Spec

=============================================================================
