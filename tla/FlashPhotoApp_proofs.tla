------------------------ MODULE FlashPhotoApp_proofs ------------------------
(***************************************************************************)
(* Proofs about FlashPhotoApp, for every heap, disk and set of images.     *)
(* What is proved of the undo manager on its own is used here, through     *)
(* Manager, for the manager inside the application.                        *)
(***************************************************************************)
EXTENDS FlashPhotoApp, TLAPS

Manager == INSTANCE StateManager_proofs WITH Picture <- Image

Address == Buffer \cup {FirstBuffer}

-----------------------------------------------------------------------------
(* What the manager's operations mean to the application                   *)

\* The manager of the application is the one the proofs are about.
LEMMA SameManager ==
    /\ \A p : StateManager!RegisterNewCanvasState(p) => Manager!RegisterNewCanvasState(p)
    /\ \A p : StateManager!ClearAndRegister(p) => Manager!ClearAndRegister(p)
    /\ StateManager!UndoClicked => Manager!UndoClicked
    /\ StateManager!RedoClicked => Manager!RedoClicked
    /\ \A stack : StateManager!Owned(stack) = Manager!Owned(stack)
  BY DEF StateManager!RegisterNewCanvasState, Manager!RegisterNewCanvasState,
         StateManager!ClearAndRegister, Manager!ClearAndRegister,
         StateManager!UndoClicked, Manager!UndoClicked,
         StateManager!RedoClicked, Manager!RedoClicked,
         StateManager!UndoOperation, Manager!UndoOperation,
         StateManager!RedoOperation, Manager!RedoOperation,
         StateManager!ToggleStateButtons, Manager!ToggleStateButtons,
         StateManager!HeapAfter, Manager!HeapAfter,
         StateManager!Live, Manager!Live, StateManager!Owned, Manager!Owned,
         StateManager!Last, Manager!Last, StateManager!Front, Manager!Front

HistoryInv == Manager!StackInv /\ Len(undo_stack_) > 0

LEMMA HistoryFacts ==
    ASSUME HistoryInv
    PROVE  /\ undo_stack_ \in Seq(Snapshot)
           /\ Len(undo_stack_) \in Nat
           /\ Last(undo_stack_) \in Manager!Live
           /\ Manager!Owned(undo_stack_) \cup Manager!Owned(redo_stack_) = Manager!Live
           /\ \A s \in Manager!Live : s \in Snapshot /\ heap[s] \in Image
<1>1. undo_stack_ \in Seq(Snapshot) /\ Len(undo_stack_) \in Nat
  BY DEF HistoryInv, Manager!StackInv, Manager!TypeOK
<1>2. Manager!Owned(undo_stack_) \cup Manager!Owned(redo_stack_) = Manager!Live
  BY DEF HistoryInv, Manager!StackInv, Manager!SnapshotOwnership
<1>3. Last(undo_stack_) \in Manager!Owned(undo_stack_)
  BY <1>1 DEF HistoryInv, Last, Manager!Owned
<1>4. \A s \in Manager!Live : s \in Snapshot /\ heap[s] \in Image
  BY DEF HistoryInv, Manager!StackInv, Manager!TypeOK, Manager!Live
<1> QED
  BY <1>1, <1>2, <1>3, <1>4

LEMMA Registered ==
    ASSUME HistoryInv, NEW p \in Image, StateManager!RegisterNewCanvasState(p)
    PROVE  /\ HistoryInv'
           /\ heap'[Last(undo_stack_')] = p
           /\ \A a \in Manager!Live' :
                \/ heap'[a] = p
                \/ a \in Manager!Live /\ heap'[a] = heap[a]
<1>1. Manager!RegisterNewCanvasState(p)
  BY SameManager
<1>2. Manager!StackInv'
  BY <1>1, Manager!RegisterStackInv, FreedAssumption DEF HistoryInv
<1>3. PICK s \in Snapshot :
        /\ undo_stack_' = Append(undo_stack_, s)
        /\ heap' = Manager!HeapAfter(Manager!Owned(redo_stack_), s, p)
  BY <1>1 DEF Manager!RegisterNewCanvasState
<1>4. Len(undo_stack_') > 0 /\ Last(undo_stack_') = s
  BY <1>3, HistoryFacts DEF Last
<1>5. \A a \in Snapshot : heap'[a] = IF a = s THEN p
                                     ELSE IF a \in Manager!Owned(redo_stack_) THEN Freed
                                     ELSE heap[a]
  BY <1>3 DEF Manager!HeapAfter
<1> QED
  BY <1>2, <1>4, <1>5 DEF HistoryInv, Manager!Live

LEMMA ClearedAndRegistered ==
    ASSUME HistoryInv, NEW p \in Image, StateManager!ClearAndRegister(p)
    PROVE  /\ HistoryInv'
           /\ heap'[Last(undo_stack_')] = p
           /\ \A a \in Manager!Live' : heap'[a] = p
<1>1. Manager!ClearAndRegister(p)
  BY SameManager
<1>2. Manager!StackInv'
  BY <1>1, Manager!ClearAndRegisterStackInv, FreedAssumption DEF HistoryInv
<1> DEFINE gone == Manager!Owned(undo_stack_) \cup Manager!Owned(redo_stack_)
<1>3. PICK s \in (Snapshot \ Manager!Live) \cup gone :
        /\ undo_stack_' = <<s>>
        /\ heap' = Manager!HeapAfter(gone, s, p)
  BY <1>1 DEF Manager!ClearAndRegister
<1>4. gone = Manager!Live /\ s \in Snapshot
  BY <1>3, HistoryFacts
<1>5. Len(undo_stack_') > 0 /\ Last(undo_stack_') = s
  BY <1>3 DEF Last
<1>6. \A a \in Snapshot : heap'[a] = IF a = s THEN p
                                     ELSE IF a \in Manager!Live THEN Freed ELSE heap[a]
  BY <1>3, <1>4 DEF Manager!HeapAfter
<1> QED
  BY <1>2, <1>4, <1>5, <1>6 DEF HistoryInv, Manager!Live

LEMMA Undone ==
    ASSUME HistoryInv, StateManager!UndoClicked
    PROVE  HistoryInv' /\ heap' = heap
<1>1. Manager!UndoClicked
  BY SameManager
<1>2. Manager!StackInv'
  BY <1>1, Manager!UndoStackInv, FreedAssumption DEF HistoryInv
<1>3. undo_stack_' = Front(undo_stack_) /\ heap' = heap
  BY <1>1 DEF Manager!UndoClicked, Manager!UndoOperation, Manager!Front, Front
<1>4. Len(undo_stack_) > 1
  BY <1>1 DEF Manager!UndoClicked, HistoryInv, Manager!StackInv, Manager!ButtonsGuardStacks
<1>5. Len(Front(undo_stack_)) = Len(undo_stack_) - 1
  BY <1>4, HistoryFacts DEF Front
<1> QED
  BY <1>2, <1>3, <1>4, <1>5, HistoryFacts DEF HistoryInv

LEMMA Redone ==
    ASSUME HistoryInv, StateManager!RedoClicked
    PROVE  HistoryInv' /\ heap' = heap
<1>1. Manager!RedoClicked
  BY SameManager
<1>2. Manager!StackInv'
  BY <1>1, Manager!RedoStackInv, FreedAssumption DEF HistoryInv
<1>3. undo_stack_' = Append(undo_stack_, Manager!Last(redo_stack_)) /\ heap' = heap
  BY <1>1 DEF Manager!RedoClicked, Manager!RedoOperation
<1>4. Len(undo_stack_') > 0
  BY <1>3, HistoryFacts
<1> QED
  BY <1>2, <1>3, <1>4 DEF HistoryInv

-----------------------------------------------------------------------------
(* The invariant.  That an undo keeps the canvas's size rests on the sizes *)
(* of all snapshots, and that it leaves the canvas registered rests on     *)
(* both, so the three are carried along together, with the stacks.         *)

CanvasInv ==
    /\ display_buffer_ \in Address
    /\ buffers \in [Address -> Image]
    /\ OneCanvas
    /\ \A a \in Manager!Live : heap[a].size = Canvas.size
    /\ CanvasIsRegistered

AppInv == HistoryInv /\ CanvasInv

LEMMA InitAppInv == Init => AppInv
<1> SUFFICES ASSUME Init PROVE AppInv
  OBVIOUS
<1>1. PICK p \in Picture, s \in Snapshot :
        LET first == [size |-> FirstSize, picture |-> p] IN
        /\ buffers = [b \in Buffer \cup {FirstBuffer} |-> first]
        /\ undo_stack_ = <<s>>
        /\ redo_stack_ = <<>>
        /\ undo_btn_ = FALSE
        /\ redo_btn_ = FALSE
        /\ heap = [a \in Snapshot |-> IF a = s THEN first ELSE Freed]
  BY DEF Init
<1> DEFINE first == [size |-> FirstSize, picture |-> p]
<1>2. first \in Image /\ first.size = FirstSize
  BY FirstAssumption DEF Image
<1> HIDE DEF first
<1>3. /\ buffers = [b \in Address |-> first]
      /\ heap = [a \in Snapshot |-> IF a = s THEN first ELSE Freed]
  BY <1>1 DEF Address, first
<1>4. Manager!Live = {s} /\ heap[s] = first
  BY <1>2, <1>3, FreedAssumption DEF Manager!Live
<1>5. Manager!Owned(undo_stack_) = {s} /\ Manager!NoAliasIn(undo_stack_)
  BY <1>1, Manager!OwnedOfOne, FreedAssumption
<1>6. Manager!Owned(redo_stack_) = {} /\ Manager!NoAliasIn(redo_stack_)
  BY <1>1, Manager!OwnedOfEmpty, FreedAssumption
<1>7. Manager!TypeOK
  <2>1. undo_stack_ \in Seq(Snapshot) /\ redo_stack_ \in Seq(Snapshot)
    BY <1>1
  <2>2. undo_btn_ \in BOOLEAN /\ redo_btn_ \in BOOLEAN
    BY <1>1, Zenon
  <2>3. heap \in [Snapshot -> Image \cup {Freed}]
    BY <1>2, <1>3
  <2> QED
    BY <2>1, <2>2, <2>3 DEF Manager!TypeOK
<1>8. Manager!SnapshotOwnership
  BY <1>4, <1>5, <1>6 DEF Manager!SnapshotOwnership
<1>9. Len(undo_stack_) = 1 /\ Len(redo_stack_) = 0 /\ Last(undo_stack_) = s
  BY <1>1 DEF Last
<1>10. Manager!ButtonsGuardStacks
  <2>1. undo_btn_ = FALSE /\ redo_btn_ = FALSE
    BY <1>1, Zenon
  <2>2. (Len(undo_stack_) > 1) = FALSE /\ (Len(redo_stack_) > 0) = FALSE
    BY <1>9
  <2> QED
    BY <2>1, <2>2, Zenon DEF Manager!ButtonsGuardStacks
<1>11. HistoryInv
  BY <1>7, <1>8, <1>9, <1>10 DEF HistoryInv, Manager!StackInv
<1>12. /\ display_buffer_ = FirstBuffer
       /\ belt_buffer_ = FirstBuffer
       /\ filter_buffer_ = FirstBuffer
       /\ window = FirstSize
  BY DEF Init
<1>13. display_buffer_ \in Address /\ Canvas = first
  BY <1>3, <1>12 DEF Address, Canvas
<1> QED
  BY <1>2, <1>3, <1>4, <1>9, <1>11, <1>12, <1>13
     DEF AppInv, CanvasInv, OneCanvas, CanvasIsRegistered

\* A tool or a filter changes a picture and no size.
LEMMA PaintFacts ==
    ASSUME buffers \in [Address -> Image], NEW b \in Address, Paint(b)
    PROVE  /\ buffers' \in [Address -> Image]
           /\ \A c \in Address : buffers'[c].size = buffers[c].size
<1>1. PICK p \in Picture : buffers' = [buffers EXCEPT ![b] = [buffers[b] EXCEPT !.picture = p]]
  BY DEF Paint, Repainted
<1>2. buffers[b] \in Image
  OBVIOUS
<1>3. /\ [buffers[b] EXCEPT !.picture = p] \in Image
      /\ [buffers[b] EXCEPT !.picture = p].size = buffers[b].size
  BY <1>2 DEF Image
<1> QED
  BY <1>1, <1>3

\* The handlers that leave the canvas and the history alone.
LEMMA OtherInv ==
    ASSUME AppInv, UNCHANGED <<managerVars, pointerVars, buffers, window, drag_>>,
           live' \subseteq live
    PROVE  AppInv'
<1>1. HistoryInv'
  BY DEF AppInv, HistoryInv, managerVars, Manager!StackInv, Manager!TypeOK,
         Manager!SnapshotOwnership, Manager!ButtonsGuardStacks, Manager!Live
<1>2. CanvasInv'
  BY DEF AppInv, CanvasInv, managerVars, pointerVars, OneCanvas, Canvas,
         CanvasIsRegistered, Usable, Manager!Live
<1> QED
  BY <1>1, <1>2 DEF AppInv

\* Painting in the middle of a stroke.
LEMMA StrokeInv ==
    ASSUME AppInv, Paint(belt_buffer_), drag_',
           UNCHANGED <<managerVars, pointerVars, window>>
    PROVE  AppInv'
<1>1. HistoryInv' /\ Manager!Live' = Manager!Live /\ heap' = heap
  BY DEF AppInv, HistoryInv, managerVars, Manager!StackInv, Manager!TypeOK,
         Manager!SnapshotOwnership, Manager!ButtonsGuardStacks, Manager!Live
<1>2. belt_buffer_ \in Address /\ display_buffer_ \in Address
  BY DEF AppInv, CanvasInv, OneCanvas
<1>3. /\ buffers' \in [Address -> Image]
      /\ Canvas'.size = Canvas.size
  BY <1>2, PaintFacts DEF AppInv, CanvasInv, Canvas, pointerVars
<1> QED
  BY <1>1, <1>3 DEF AppInv, CanvasInv, OneCanvas, CanvasIsRegistered, pointerVars

\* A handler that ends by registering the canvas.
LEMMA RegisterInv ==
    ASSUME AppInv, RegisterCanvas,
           buffers' \in [Address -> Image], Canvas'.size = Canvas.size,
           UNCHANGED <<pointerVars, window>>
    PROVE  AppInv'
<1>1. buffers'[display_buffer_] \in Image /\ Canvas' = buffers'[display_buffer_]
  BY DEF AppInv, CanvasInv, Canvas, pointerVars
<1>2. /\ HistoryInv'
      /\ heap'[Last(undo_stack_')] = Canvas'
      /\ \A a \in Manager!Live' :
            \/ heap'[a] = Canvas'
            \/ a \in Manager!Live /\ heap'[a] = heap[a]
  BY <1>1, Registered DEF RegisterCanvas, AppInv
<1>3. \A a \in Manager!Live' : heap'[a].size = Canvas'.size
  BY <1>2 DEF AppInv, CanvasInv
<1> QED
  BY <1>2, <1>3 DEF AppInv, CanvasInv, OneCanvas, CanvasIsRegistered, pointerVars

\* The snapshot an undo or a redo takes has the size of the canvas.
LEMMA RestoreInv ==
    ASSUME AppInv, HistoryInv', heap' = heap,
           SetAllPixels(heap[Last(undo_stack_')]),
           UNCHANGED <<pointerVars, window>>
    PROVE  AppInv'
<1> DEFINE image == heap[Last(undo_stack_')]
<1>1. Last(undo_stack_') \in Manager!Live /\ Manager!Live' = Manager!Live
  <2>1. (Last(undo_stack_) \in Manager!Live)'
    BY HistoryFacts, PTL
  <2> QED
    BY <2>1 DEF Manager!Live
<1>2. image \in Image /\ image.size = Canvas.size
  BY <1>1, HistoryFacts DEF AppInv, CanvasInv
<1>3. Canvas \in Image /\ display_buffer_ \in Address
  BY DEF AppInv, CanvasInv, Canvas
<1> HIDE DEF image
<1>4. buffers' = [buffers EXCEPT ![display_buffer_] = [Canvas EXCEPT !.picture = image.picture]]
  BY DEF SetAllPixels, Canvas, image
<1>5. [Canvas EXCEPT !.picture = image.picture] = image
  BY <1>2, <1>3 DEF Image
<1>6. buffers' \in [Address -> Image] /\ Canvas' = image
  BY <1>2, <1>3, <1>4, <1>5 DEF AppInv, CanvasInv, Canvas, pointerVars
<1> QED
  BY <1>1, <1>2, <1>3, <1>6
     DEF AppInv, CanvasInv, OneCanvas, CanvasIsRegistered, pointerVars, image

\* A load that succeeds moves every pointer to a new buffer and starts over.
LEMMA LoadInv ==
    ASSUME AppInv, LoadCanvas
    PROVE  AppInv'
<1>1. CASE loaded_pixel_buffer_' # loaded_pixel_buffer_
  <2> DEFINE b == loaded_pixel_buffer_'
  <2>1. b \in Buffer /\ files[cwd][file_name_] \in Size
    BY <1>1 DEF LoadCanvas, IOManager!LoadImageToCanvas, IOManager!LoadSucceeds,
                IOManager!Decodes, IOManager!LoadFails, IOManager!DoubleDelete,
                IOManager!ProcessEnds, IOManager!bufferVars
  <2>2. Loaded(b) /\ set_pixel_buffer(b) /\ drag_' = drag_
    BY <1>1 DEF LoadCanvas
  <2>3. buffers' \in [Address -> Image] /\ b \in Address
    <3>1. PICK p \in Picture :
            buffers' = [buffers EXCEPT ![b] = [size |-> files[cwd][file_name_], picture |-> p]]
      BY <2>2 DEF Loaded
    <3>2. [size |-> files[cwd][file_name_], picture |-> p] \in Image
      BY <2>1 DEF Image
    <3> HIDE DEF b
    <3> QED
      BY <2>1, <3>1, <3>2 DEF AppInv, CanvasInv, Address
  <2>4. /\ display_buffer_' = b
        /\ belt_buffer_' = b
        /\ filter_buffer_' = b
        /\ window' = buffers'[b].size
        /\ StateManager!ClearAndRegister(buffers'[b])
    BY <2>2 DEF set_pixel_buffer
  <2>5. /\ HistoryInv'
        /\ heap'[Last(undo_stack_')] = buffers'[b]
        /\ \A a \in Manager!Live' : heap'[a] = buffers'[b]
    BY <2>3, <2>4, ClearedAndRegistered DEF AppInv
  <2> QED
    BY <2>3, <2>4, <2>5 DEF AppInv, CanvasInv, OneCanvas, Canvas, CanvasIsRegistered
<1>2. CASE loaded_pixel_buffer_' = loaded_pixel_buffer_
  <2>1. live' \subseteq live
    BY <1>2 DEF LoadCanvas, IOManager!LoadImageToCanvas, IOManager!LoadSucceeds,
                IOManager!LoadFails, IOManager!DoubleDelete,
                IOManager!ProcessEnds, IOManager!bufferVars
  <2>2. UNCHANGED <<managerVars, pointerVars, buffers, window, drag_>>
    BY <1>2 DEF LoadCanvas
  <2> QED
    BY <2>1, <2>2, OtherInv
<1> QED
  BY <1>1, <1>2

LEMMA NextAppInv == ASSUME AppInv, [Next]_vars PROVE AppInv'
<1>1. CASE LeftMouseDown
  BY <1>1, StrokeInv DEF LeftMouseDown
<1>2. CASE MouseDragged
  BY <1>2, StrokeInv DEF MouseDragged
<1>3. CASE LeftMouseUp
  <2>1. buffers' = buffers /\ pointerVars' = pointerVars /\ window' = window
    BY <1>3 DEF LeftMouseUp
  <2>2. buffers' \in [Address -> Image] /\ Canvas' = Canvas
    BY <2>1 DEF AppInv, CanvasInv, Canvas, pointerVars
  <2> QED
    BY <1>3, <2>1, <2>2, RegisterInv DEF LeftMouseUp
<1>4. CASE ApplyFilter
  <2>1. Paint(filter_buffer_) /\ pointerVars' = pointerVars /\ window' = window
    BY <1>4 DEF ApplyFilter
  <2>2. buffers' \in [Address -> Image] /\ Canvas'.size = Canvas.size
    BY <2>1, PaintFacts DEF AppInv, CanvasInv, OneCanvas, Canvas, pointerVars
  <2> QED
    BY <1>4, <2>1, <2>2, RegisterInv DEF ApplyFilter
<1>5. CASE UndoClicked
  BY <1>5, Undone, RestoreInv DEF UndoClicked, AppInv
<1>6. CASE RedoClicked
  BY <1>6, Redone, RestoreInv DEF RedoClicked, AppInv
<1>7. CASE LoadCanvas
  BY <1>7, LoadInv
<1>8. CASE LoadStamp
  BY <1>8, OtherInv DEF LoadStamp, appUnchanged, IOManager!LoadImageToStamp,
     IOManager!StampSucceeds, IOManager!StampFails, IOManager!ProcessEnds,
     IOManager!ioVars, IOManager!bufferVars
<1>9. CASE SaveCanvas
  BY <1>9, OtherInv DEF SaveCanvas, appUnchanged, IOManager!SaveCanvasToFile, IOManager!bufferVars
<1>10. CASE ChooseFile
  BY <1>10, OtherInv DEF ChooseFile, appUnchanged, IOManager!SelectFile,
     IOManager!SelectDirectory, IOManager!EnterFileName, IOManager!bufferVars
<1>11. CASE OtherProgramWrites
  BY <1>11, OtherInv DEF OtherProgramWrites, appUnchanged, IOManager!OtherProgramWrites,
     IOManager!bufferVars
<1>12. CASE Quit
  BY <1>12, OtherInv DEF Quit, appUnchanged, IOManager!Quit, IOManager!ProcessEnds,
     IOManager!bufferVars
<1>13. CASE UseAfterDelete
  BY <1>13, OtherInv DEF UseAfterDelete, appUnchanged
<1>14. CASE UNCHANGED vars
  BY <1>14, OtherInv DEF vars, ioVars
<1> QED
  BY <1>1, <1>2, <1>3, <1>4, <1>5, <1>6, <1>7, <1>8, <1>9, <1>10, <1>11, <1>12, <1>13, <1>14
     DEF Next

LEMMA AppInvHolds == Spec => []AppInv
  BY InitAppInv, NextAppInv, PTL DEF Spec

-----------------------------------------------------------------------------
(* What follows from it                                                    *)

\* The display, the tools and the filters always work on one canvas, and the
\* window has its size.
THEOREM OneCanvasHolds == Spec => []OneCanvas
<1>1. AppInv => OneCanvas
  BY DEF AppInv, CanvasInv
<1> QED
  BY <1>1, AppInvHolds, PTL

\* Outside of a stroke no change of the canvas has escaped the history.
THEOREM RegisteredHolds == Spec => []CanvasIsRegistered
<1>1. AppInv => CanvasIsRegistered
  BY DEF AppInv, CanvasInv
<1> QED
  BY <1>1, AppInvHolds, PTL

\* Undo and Redo never read past the end of a snapshot of another size.
THEOREM SnapshotsFit == Spec => []SnapshotsFitCanvas
<1>1. AppInv => SnapshotsFitCanvas
  BY HistoryFacts, SameManager DEF AppInv, CanvasInv, SnapshotsFitCanvas
<1> QED
  BY <1>1, AppInvHolds, PTL

-----------------------------------------------------------------------------
(* The files                                                               *)

Files == INSTANCE IOManager_proofs

\* The file dialog of the application is the one the proofs are about.
LEMMA SameFiles ==
    /\ IOManager!Init => Files!Init
    /\ \A n : IOManager!SelectFile(n) => Files!SelectFile(n)
    /\ \A d : IOManager!SelectDirectory(d) => Files!SelectDirectory(d)
    /\ \A n, how, leave :
            IOManager!EnterFileName(n, how, leave) => Files!EnterFileName(n, how, leave)
    /\ IOManager!LoadImageToCanvas => Files!LoadImageToCanvas
    /\ IOManager!LoadImageToStamp => Files!LoadImageToStamp
    /\ \A size : IOManager!SaveCanvasToFile(size) => Files!SaveCanvasToFile(size)
    /\ \A d, n, f : IOManager!OtherProgramWrites(d, n, f) => Files!OtherProgramWrites(d, n, f)
    /\ IOManager!Quit => Files!Quit
    /\ Files!TypeOK => IOManager!TypeOK
    /\ IOManager!Name = Files!Name /\ IOManager!ImageName = Files!ImageName
    /\ IOManager!File = Files!File /\ IOManager!Entrance = Files!Entrance
    /\ IOManager!Departure = Files!Departure
<1>1. IOManager!Init => Files!Init
  BY DEF IOManager!Init, Files!Init, IOManager!ImageName, Files!ImageName,
         IOManager!File, Files!File, IOManager!ListedIn, Files!ListedIn, IOManager!Name,
         Files!Name
<1>2. \A n : IOManager!SelectFile(n) => Files!SelectFile(n)
  BY DEF IOManager!SelectFile, Files!SelectFile, IOManager!Running, Files!Running,
         IOManager!set_image_file, Files!set_image_file, IOManager!ImageName,
         Files!ImageName, IOManager!is_valid_image_file, Files!is_valid_image_file,
         IOManager!Openable, Files!Openable, IOManager!diskVars, Files!diskVars,
         IOManager!bufferVars, Files!bufferVars
<1>3. \A d : IOManager!SelectDirectory(d) => Files!SelectDirectory(d)
  BY DEF IOManager!SelectDirectory, Files!SelectDirectory, IOManager!Running,
         Files!Running, IOManager!ListedIn, Files!ListedIn, IOManager!ImageName,
         Files!ImageName, IOManager!set_image_file, Files!set_image_file,
         IOManager!is_valid_image_file, Files!is_valid_image_file, IOManager!Openable,
         Files!Openable, IOManager!bufferVars, Files!bufferVars
<1>4. \A n, how, leave :
        IOManager!EnterFileName(n, how, leave) => Files!EnterFileName(n, how, leave)
  BY DEF IOManager!EnterFileName, Files!EnterFileName, IOManager!Activated,
         Files!Activated, IOManager!Running, Files!Running, IOManager!CallsBack,
         Files!CallsBack, IOManager!set_image_file, Files!set_image_file,
         IOManager!ImageName, Files!ImageName, IOManager!is_valid_image_file,
         Files!is_valid_image_file, IOManager!Openable, Files!Openable,
         IOManager!Remembered, Files!Remembered, IOManager!diskVars, Files!diskVars,
         IOManager!bufferVars, Files!bufferVars
<1>5. IOManager!LoadImageToCanvas => Files!LoadImageToCanvas
  BY DEF IOManager!LoadImageToCanvas, Files!LoadImageToCanvas, IOManager!Running,
         Files!Running, IOManager!LoadedIsDeletable, Files!LoadedIsDeletable,
         IOManager!LoadSucceeds, Files!LoadSucceeds, IOManager!Decodes, Files!Decodes,
         IOManager!ImageName, Files!ImageName, IOManager!diskVars, Files!diskVars,
         IOManager!choiceVars, Files!choiceVars, IOManager!LoadFails, Files!LoadFails,
         IOManager!DecoderExits, Files!DecoderExits, IOManager!DoubleDelete,
         Files!DoubleDelete, IOManager!Free, Files!Free, IOManager!bufferVars, Files!bufferVars,
         IOManager!ProcessEnds, Files!ProcessEnds
<1>6. IOManager!LoadImageToStamp => Files!LoadImageToStamp
  BY DEF IOManager!LoadImageToStamp, Files!LoadImageToStamp, IOManager!Running,
         Files!Running, IOManager!DecoderExits, Files!DecoderExits, IOManager!Cardinality,
         Files!Cardinality,
         IOManager!StampSucceeds, Files!StampSucceeds, IOManager!StampFails,
         Files!StampFails, IOManager!Decodes, Files!Decodes, IOManager!ImageName,
         Files!ImageName, IOManager!Free, Files!Free, IOManager!ioVars,
         Files!ioVars, IOManager!diskVars, Files!diskVars, IOManager!choiceVars,
         Files!choiceVars, IOManager!bufferVars, Files!bufferVars,
         IOManager!ProcessEnds, Files!ProcessEnds
<1>7. \A size : IOManager!SaveCanvasToFile(size) => Files!SaveCanvasToFile(size)
  BY DEF IOManager!SaveCanvasToFile, Files!SaveCanvasToFile, IOManager!Running,
         Files!Running, IOManager!SaveToImageFile, Files!SaveToImageFile,
         IOManager!ImageName, Files!ImageName, IOManager!SavedAs, Files!SavedAs,
         IOManager!choiceVars, Files!choiceVars, IOManager!bufferVars, Files!bufferVars
<1>8. \A d, n, f : IOManager!OtherProgramWrites(d, n, f) => Files!OtherProgramWrites(d, n, f)
  BY DEF IOManager!OtherProgramWrites, Files!OtherProgramWrites, IOManager!Running,
         Files!Running, IOManager!choiceVars,
         Files!choiceVars, IOManager!bufferVars, Files!bufferVars
<1>9. IOManager!Quit => Files!Quit
  BY DEF IOManager!Quit, Files!Quit, IOManager!Running, Files!Running,
         IOManager!ProcessEnds, Files!ProcessEnds, IOManager!diskVars, Files!diskVars,
         IOManager!choiceVars, Files!choiceVars, IOManager!bufferVars, Files!bufferVars
<1>10. /\ Files!TypeOK => IOManager!TypeOK
      /\ IOManager!Name = Files!Name /\ IOManager!ImageName = Files!ImageName
      /\ IOManager!File = Files!File /\ IOManager!Entrance = Files!Entrance
      /\ IOManager!Departure = Files!Departure
  BY DEF IOManager!TypeOK, Files!TypeOK, IOManager!ImageName, Files!ImageName,
         IOManager!File, Files!File, IOManager!Name, Files!Name, IOManager!Entrance,
         Files!Entrance, IOManager!Departure, Files!Departure
<1> QED
  BY <1>1, <1>2, <1>3, <1>4, <1>5, <1>6, <1>7, <1>8, <1>9, <1>10

FilesInv == Files!ChoiceInv /\ drag_ \in BOOLEAN

\* What IOManager assumes of its constants.
LEMMA FilesAssumptions ==
    /\ StartDir \in Dir
    /\ NoName \in OtherName
    /\ Files!ImageName \cap OtherName = {}
    /\ PngName \cap JpegName = {}
    /\ Size \cap {Absent, Unreadable, Corrupt} = {}
    /\ Absent # Unreadable /\ Absent # Corrupt /\ Unreadable # Corrupt
    /\ Null \notin Buffer
  BY NamesAssumption, FilesAssumption, NullAssumption DEF Files!ImageName


\* The handlers that at most end the process, as far as the files go.
LEMMA FilesKept ==
    ASSUME FilesInv, drag_' \in BOOLEAN, process' \in {process, "exited", "undefined"},
           UNCHANGED <<files, cwd, listing, file_name_, orig_text, save_label_,
                       load_label_, save_canvas_btn_, load_canvas_btn_,
                       load_stamp_btn_, loaded_pixel_buffer_, live, stamp_images>>
    PROVE  FilesInv'
<1>1. process' \in {"running", "exited", "undefined"}
  BY DEF FilesInv, Files!ChoiceInv, Files!TypeOK
<1> QED
  BY <1>1, Files!EndInv, FilesAssumptions
     DEF FilesInv, Files!diskVars, Files!choiceVars, Files!bufferVars

LEMMA ChosenInv == ASSUME FilesInv, ChooseFile PROVE FilesInv'
<1>1. drag_' \in BOOLEAN
  BY DEF ChooseFile, appUnchanged, FilesInv
<1>2. ASSUME NEW n \in IOManager!Name, IOManager!SelectFile(n) PROVE Files!ChoiceInv'
  <2>1. n \in Files!Name /\ Files!SelectFile(n)
    BY <1>2, SameFiles
  <2>2. [Files!Next]_(Files!ioVars)
    BY <2>1 DEF Files!Next
  <2> QED
    BY <2>2, Files!NextInv, FilesAssumptions DEF FilesInv
<1>3. ASSUME NEW d \in Dir, IOManager!SelectDirectory(d) PROVE Files!ChoiceInv'
  <2>1. Files!SelectDirectory(d)
    BY <1>3, SameFiles
  <2>2. [Files!Next]_(Files!ioVars)
    BY <2>1 DEF Files!Next
  <2> QED
    BY <2>2, Files!NextInv, FilesAssumptions DEF FilesInv
<1>4. ASSUME NEW n \in IOManager!Name, NEW how \in IOManager!Entrance,
             NEW leave \in IOManager!Departure, IOManager!EnterFileName(n, how, leave)
      PROVE  Files!ChoiceInv'
  <2>1. /\ n \in Files!Name /\ how \in Files!Entrance /\ leave \in Files!Departure
        /\ Files!EnterFileName(n, how, leave)
    BY <1>4, SameFiles
  <2> QED
    BY <2>1, Files!EnterFileNameInv, FilesAssumptions DEF FilesInv
<1> QED
  BY <1>1, <1>2, <1>3, <1>4 DEF ChooseFile, FilesInv

LEMMA NextFilesInv == ASSUME AppInv, FilesInv, [Next]_vars PROVE FilesInv'
<1>1. CASE LeftMouseDown \/ MouseDragged \/ LeftMouseUp \/ ApplyFilter
           \/ UndoClicked \/ RedoClicked \/ UNCHANGED vars
  <2>1. UNCHANGED ioVars /\ drag_' \in BOOLEAN
    BY <1>1 DEF LeftMouseDown, MouseDragged, LeftMouseUp, ApplyFilter, UndoClicked,
                RedoClicked, vars, FilesInv
  <2> QED
    BY <2>1, FilesKept DEF ioVars
<1>2. CASE LoadCanvas
  BY <1>2, SameFiles, Files!LoadInv, FilesAssumptions DEF FilesInv, LoadCanvas
<1>3. CASE LoadStamp
  BY <1>3, SameFiles, Files!StampInv, FilesAssumptions
     DEF FilesInv, LoadStamp, appUnchanged
<1>4. CASE SaveCanvas
  <2>1. Canvas.size \in Size
    BY DEF AppInv, CanvasInv, Canvas, Image
  <2>2. Files!SaveCanvasToFile(Canvas.size) /\ drag_' = drag_
    BY <1>4, SameFiles DEF SaveCanvas, appUnchanged
  <2> QED
    BY <2>1, <2>2, Files!SaveInv, FilesAssumptions DEF FilesInv
<1>5. CASE ChooseFile
  BY <1>5, ChosenInv
<1>6. CASE OtherProgramWrites
  <2>1. PICK d \in Dir, n \in Files!ImageName, f \in Files!File :
            Files!OtherProgramWrites(d, n, f)
    BY <1>6, SameFiles DEF OtherProgramWrites
  <2>2. drag_' = drag_
    BY <1>6 DEF OtherProgramWrites, appUnchanged
  <2> QED
    BY <2>1, <2>2, Files!OtherWritesInv, FilesAssumptions DEF FilesInv
<1>7. CASE Quit
  <2>1. drag_' \in BOOLEAN
    BY <1>7 DEF Quit, appUnchanged, FilesInv
  <2> QED
    BY <1>7, <2>1, FilesKept
       DEF Quit, IOManager!Quit, IOManager!ProcessEnds,
           IOManager!diskVars, IOManager!choiceVars, IOManager!bufferVars
<1>8. CASE UseAfterDelete
  BY <1>8, FilesKept DEF UseAfterDelete, appUnchanged, FilesInv
<1> QED
  BY <1>1, <1>2, <1>3, <1>4, <1>5, <1>6, <1>7, <1>8 DEF Next

LEMMA BothInvHold == Spec => [](AppInv /\ FilesInv)
<1>1. Init => AppInv /\ FilesInv
  BY InitAppInv, SameFiles, Files!InitInv, FilesAssumptions DEF Init, FilesInv
<1>2. AppInv /\ FilesInv /\ [Next]_vars => (AppInv /\ FilesInv)'
  BY NextAppInv, NextFilesInv
<1> QED
  BY <1>1, <1>2, PTL DEF Spec

\* The canvas, the history and the files keep their types.
THEOREM TypeCorrect == Spec => []TypeOK
<1>1. ASSUME AppInv, FilesInv PROVE TypeOK
  <2>1. StateManager!TypeOK
    BY <1>1 DEF AppInv, HistoryInv, Manager!StackInv, Manager!TypeOK, StateManager!TypeOK
  <2>2. IOManager!TypeOK /\ drag_ \in BOOLEAN
    BY <1>1, SameFiles DEF FilesInv, Files!ChoiceInv
  <2>3. /\ {display_buffer_, belt_buffer_, filter_buffer_} \subseteq Address
        /\ buffers \in [Address -> Image]
        /\ window \in Size
    BY <1>1 DEF AppInv, CanvasInv, OneCanvas, Canvas, Image
  <2> QED
    BY <2>1, <2>2, <2>3 DEF TypeOK, Address
<1> QED
  BY <1>1, BothInvHold, PTL

-----------------------------------------------------------------------------
(* What a step of the application may do                                   *)

\* The canvas goes only when a load of a file that does not decode deletes it.
LEMMA LostInLoad ==
    ASSUME Next, Usable(display_buffer_), ~Usable(display_buffer_)'
    PROVE  ~IOManager!Decodes(file_name_)
<1>1. SUFFICES ASSUME IOManager!Decodes(file_name_) PROVE FALSE
  OBVIOUS
<1>2. CASE LoadCanvas
  <2>1. CASE loaded_pixel_buffer_' # loaded_pixel_buffer_
    <3>1. PICK b \in Buffer : IOManager!LoadSucceeds(b)
      BY <1>2, <2>1 DEF LoadCanvas, IOManager!LoadImageToCanvas, IOManager!LoadFails,
         IOManager!DoubleDelete, IOManager!ProcessEnds, IOManager!bufferVars
    <3>2. b \in live' /\ display_buffer_' = b
      BY <1>2, <2>1, <3>1 DEF LoadCanvas, set_pixel_buffer, IOManager!LoadSucceeds
    <3> QED
      BY <3>2 DEF Usable
  <2>2. CASE loaded_pixel_buffer_' = loaded_pixel_buffer_
    <3>1. display_buffer_' = display_buffer_
      BY <1>2, <2>2 DEF LoadCanvas, pointerVars
    <3>2. live' = live
      BY <1>1, <1>2, <2>2, NullAssumption
         DEF LoadCanvas, IOManager!LoadImageToCanvas, IOManager!LoadedIsDeletable,
             IOManager!LoadSucceeds, IOManager!Free, IOManager!LoadFails,
             IOManager!DoubleDelete, IOManager!ProcessEnds, IOManager!bufferVars
    <3> QED
      BY <3>1, <3>2 DEF Usable
  <2> QED
    BY <2>1, <2>2
<1>3. ASSUME UNCHANGED <<live, display_buffer_>> PROVE FALSE
  BY <1>3 DEF Usable
<1>4. CASE LeftMouseDown \/ MouseDragged \/ LeftMouseUp \/ ApplyFilter
           \/ UndoClicked \/ RedoClicked
  BY <1>3, <1>4 DEF LeftMouseDown, MouseDragged, LeftMouseUp, ApplyFilter, UndoClicked,
                    RedoClicked, ioVars, pointerVars
<1>5. CASE LoadStamp \/ SaveCanvas \/ OtherProgramWrites \/ Quit \/ UseAfterDelete
  BY <1>3, <1>5
     DEF LoadStamp, SaveCanvas, OtherProgramWrites, Quit, UseAfterDelete, appUnchanged,
         IOManager!LoadImageToStamp, IOManager!StampSucceeds, IOManager!StampFails,
         IOManager!SaveCanvasToFile,
         IOManager!OtherProgramWrites, IOManager!Quit, IOManager!ProcessEnds,
         IOManager!ioVars, IOManager!bufferVars, pointerVars
<1>6. CASE ChooseFile
  BY <1>3, <1>6
     DEF ChooseFile, appUnchanged, IOManager!SelectFile, IOManager!SelectDirectory,
         IOManager!EnterFileName, IOManager!bufferVars, pointerVars
<1> QED
  BY <1>2, <1>4, <1>5, <1>6 DEF Next

\* As long as what is loaded decodes, no pointer is left to a deleted canvas.
THEOREM LostOnlyToBadFile == Spec => CanvasLostOnlyToBadFile
<1>1. [Next]_vars => [Usable(display_buffer_) /\ ~Usable(display_buffer_)'
                        => ~IOManager!Decodes(file_name_)]_vars
  BY LostInLoad
<1> QED
  BY <1>1, PTL DEF Spec, CanvasLostOnlyToBadFile

\* The application changes the history only through operations of the manager.
LEMMA ManagerSteps ==
    ASSUME AppInv, AppInv', [Next]_vars
    PROVE  [StateManager!Next]_(StateManager!managerVars)
<1>1. ASSUME UNCHANGED managerVars PROVE UNCHANGED StateManager!managerVars
  BY <1>1 DEF managerVars, StateManager!managerVars
<1>2. ASSUME RegisterCanvas, UNCHANGED display_buffer_ PROVE StateManager!Next
  <2>1. buffers'[display_buffer_] \in Image
    BY <1>2 DEF AppInv, CanvasInv
  <2> QED
    BY <1>2, <2>1 DEF RegisterCanvas, StateManager!Next
<1>3. CASE LeftMouseUp \/ ApplyFilter
  BY <1>2, <1>3 DEF LeftMouseUp, ApplyFilter, pointerVars
<1>4. CASE UndoClicked \/ RedoClicked
  BY <1>4 DEF UndoClicked, RedoClicked, StateManager!Next
<1>5. CASE LoadCanvas
  <2>1. CASE loaded_pixel_buffer_' # loaded_pixel_buffer_
    <3> DEFINE b == loaded_pixel_buffer_'
    <3>1. display_buffer_' = b /\ StateManager!ClearAndRegister(buffers'[b])
      BY <1>5, <2>1 DEF LoadCanvas, set_pixel_buffer
    <3>2. buffers'[b] \in Image
      BY <3>1 DEF AppInv, CanvasInv
    <3> QED
      BY <3>1, <3>2 DEF StateManager!Next
  <2>2. CASE loaded_pixel_buffer_' = loaded_pixel_buffer_
    BY <1>1, <1>5, <2>2 DEF LoadCanvas
  <2> QED
    BY <2>1, <2>2
<1>6. CASE LeftMouseDown \/ MouseDragged \/ LoadStamp \/ SaveCanvas \/ ChooseFile
           \/ OtherProgramWrites \/ Quit \/ UseAfterDelete \/ UNCHANGED vars
  BY <1>1, <1>6 DEF LeftMouseDown, MouseDragged, LoadStamp, SaveCanvas, ChooseFile,
     OtherProgramWrites, Quit, UseAfterDelete, vars, appUnchanged
<1> QED
  BY <1>3, <1>4, <1>5, <1>6 DEF Next

\* So what is proved of the undo manager for any client holds in the application.
THEOREM ManagerUsed == Spec => UsesStateManager
<1>1. AppInv /\ AppInv' /\ [Next]_vars => [StateManager!Next]_(StateManager!managerVars)
  BY ManagerSteps
<1> QED
  BY <1>1, AppInvHolds, PTL DEF Spec, UsesStateManager

=============================================================================
