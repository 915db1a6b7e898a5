---------------------------- MODULE FlashPhotoApp ----------------------------
(***************************************************************************)
(* The application (flashphoto_app.cc, base_gfx_app.cc): the canvas, the   *)
(* mouse, and the GLUI callbacks that tie StateManager and IOManager to it.*)
(*                                                                         *)
(* GLUT runs one event handler at a time to its end, so a handler is an    *)
(* action.  Drawing on the screen is not part of the handlers: they post a *)
(* redisplay, and Display runs at some later time.                         *)
(*                                                                         *)
(* A canvas is its dimensions and a picture.  What a tool or a filter does *)
(* to the picture is any change of it; that the dimensions stay, and which *)
(* of the three pointers to the buffer each of them goes through, is not   *)
(* abstracted.  A handler that reads or writes a deleted buffer has        *)
(* undefined behaviour, and nothing is said of what follows.               *)
(***************************************************************************)
EXTENDS Integers, Sequences, SequencesExt

CONSTANTS
    Picture, Size, FirstSize,
    FirstBuffer,    \* the PixelBuffer that InitializeBuffers makes
    Buffer, Null, Snapshot, Freed,
    Dir, StartDir, PngName, JpegName, OtherName, NoName,
    Absent, Unreadable, Corrupt, MaxStampImages

ASSUME FirstAssumption == FirstBuffer \notin Buffer /\ FirstSize \in Size

Image == [size : Size, picture : Picture]

ASSUME FreedAssumption == Freed \notin Image

ASSUME NullAssumption == Null \notin Buffer

ASSUME NamesAssumption ==
    /\ StartDir \in Dir
    /\ NoName \in OtherName
    /\ (PngName \cup JpegName) \cap OtherName = {}
    /\ PngName \cap JpegName = {}

ASSUME FilesAssumption ==
    /\ Size \cap {Absent, Unreadable, Corrupt} = {}
    /\ Absent # Unreadable /\ Absent # Corrupt /\ Unreadable # Corrupt

VARIABLES
    \* state_manager_
    undo_stack_, redo_stack_, undo_btn_, redo_btn_, heap,
    \* io_manager_, the disk and the process
    process, files, cwd, listing, file_name_, orig_text, save_label_,
    load_label_, save_canvas_btn_, load_canvas_btn_, load_stamp_btn_,
    loaded_pixel_buffer_, live, stamp_images,
    \* the application
    display_buffer_,        \* the pointers of FlashPhotoApp,
    belt_buffer_,           \* of ToolBelt (my_pixel_buffer_)
    filter_buffer_,         \* and of FilterManager (pixel_buffer_)
    buffers,                \* what the PixelBuffer at an address holds
    window,                 \* width_ and height_ of the graphics window
    drag_                   \* is the left button down, as far as we know?

StateManager == INSTANCE StateManager WITH Picture <- Image

IOManager == INSTANCE IOManager

managerVars == <<undo_stack_, redo_stack_, undo_btn_, redo_btn_, heap>>

ioVars == <<process, files, cwd, listing, file_name_, orig_text, save_label_,
            load_label_, save_canvas_btn_, load_canvas_btn_, load_stamp_btn_,
            loaded_pixel_buffer_, live, stamp_images>>

pointerVars == <<display_buffer_, belt_buffer_, filter_buffer_>>

vars == <<managerVars, ioVars, pointerVars, buffers, window, drag_>>

Running == process = "running"

\* A buffer the program has not deleted.  A deleted one does not become usable
\* again when a stamp's image gets its address.
Usable(b) == b = FirstBuffer \/ b \in live

Canvas == buffers[display_buffer_]

\* What a write through pointer b may make of the picture there.
Repainted(b) == {[buffers[b] EXCEPT !.picture = p] : p \in Picture}

\* Mistake: the canvas is pushed without a look at the buttons.
RegisterSilently ==
    \E s \in Snapshot \ StateManager!Live :
        /\ undo_stack_' = Append(undo_stack_, s)
        /\ redo_stack_' = <<>>
        /\ heap' = StateManager!HeapAfter(StateManager!Owned(redo_stack_), s,
                                         buffers'[display_buffer_])
        /\ UNCHANGED <<undo_btn_, redo_btn_>>

\* display_buffer_->GetAllPixels() after the buffers changed, then Register.
RegisterCanvas == StateManager!RegisterNewCanvasState(buffers'[display_buffer_])

-----------------------------------------------------------------------------
(* The mouse.  The active tool paints through the tool belt's pointer.     *)

Paint(b) == \E image \in Repainted(b) : buffers' = [buffers EXCEPT ![b] = image]

LeftMouseDown ==
    /\ Running
    /\ Usable(belt_buffer_)
    /\ Paint(belt_buffer_)
    /\ drag_' = TRUE
    /\ UNCHANGED <<managerVars, ioVars, pointerVars, window>>

\* Any motion event while drag_ is set draws, also one with no button held:
\* s_mousemotion is installed for passive motion too.
MouseDragged ==
    /\ Running
    /\ drag_
    /\ Usable(belt_buffer_)
    /\ Paint(belt_buffer_)
    /\ UNCHANGED <<managerVars, ioVars, pointerVars, window, drag_>>

\* A release registers the canvas whether or not drag_ is set.
LeftMouseUp ==
    /\ Running
    /\ Usable(display_buffer_)
    /\ UNCHANGED buffers
    /\ RegisterCanvas
    /\ drag_' = FALSE
    /\ UNCHANGED <<ioVars, pointerVars, window>>

-----------------------------------------------------------------------------
(* GluiControl.  The callbacks may come while drag_ is set: the release of *)
(* the button can be lost to another window.                               *)

\* Mistake: one of the callbacks forgets to register the canvas.
ApplyUnregistered ==
    /\ Running
    /\ Usable(filter_buffer_)
    /\ Usable(display_buffer_)
    /\ Paint(filter_buffer_)
    /\ UNCHANGED <<managerVars, ioVars, pointerVars, window, drag_>>

\* The UI_APPLY_... callbacks: the filter manager changes the picture through
\* its own pointer, and the application registers the canvas.
ApplyFilter ==
    /\ Running
    /\ Usable(filter_buffer_)
    /\ Usable(display_buffer_)
    /\ Paint(filter_buffer_)
    /\ RegisterCanvas
    /\ UNCHANGED <<ioVars, pointerVars, window, drag_>>

\* Mistake: a snapshot is taken for the picture alone.
SetWholeImage(image) ==
    buffers' = [buffers EXCEPT ![display_buffer_].picture = image]

\* SetAllPixels copies as many pixels as the canvas has out of the snapshot.
SetAllPixels(image) ==
    buffers' = [buffers EXCEPT ![display_buffer_].picture = image.picture]

UndoClicked ==
    /\ Running
    /\ Usable(display_buffer_)
    /\ StateManager!UndoClicked
    /\ SetAllPixels(heap[Last(undo_stack_')])
    /\ UNCHANGED <<ioVars, pointerVars, window, drag_>>

RedoClicked ==
    /\ Running
    /\ Usable(display_buffer_)
    /\ StateManager!RedoClicked
    /\ SetAllPixels(heap[Last(undo_stack_')])
    /\ UNCHANGED <<ioVars, pointerVars, window, drag_>>

\* Mistake: the filter manager keeps the old canvas.
SetBufferButNotOfFilters(b) ==
    /\ display_buffer_' = b
    /\ belt_buffer_' = b
    /\ window' = buffers'[b].size
    /\ StateManager!ClearAndRegister(buffers'[b])
    /\ UNCHANGED filter_buffer_

\* Mistake: set_pixel_buffer(b, false), the history of the old canvas stays.
SetBufferKeepHistory(b) ==
    /\ display_buffer_' = b
    /\ belt_buffer_' = b
    /\ filter_buffer_' = b
    /\ window' = buffers'[b].size
    /\ StateManager!RegisterNewCanvasState(buffers'[b])

\* set_pixel_buffer(b, true): every pointer follows, the window takes the new
\* dimensions and the history starts over.
set_pixel_buffer(b) ==
    /\ display_buffer_' = b
    /\ belt_buffer_' = b
    /\ filter_buffer_' = b
    /\ window' = buffers'[b].size
    /\ StateManager!ClearAndRegister(buffers'[b])

\* The decoder has put the file's picture in a new buffer.
Loaded(b) ==
    \E p \in Picture :
        buffers' = [buffers EXCEPT
                        ![b] = [size |-> files[cwd][file_name_], picture |-> p]]

LoadCanvas ==
    /\ IOManager!LoadImageToCanvas
    /\ \/ /\ loaded_pixel_buffer_' # loaded_pixel_buffer_
          /\ Loaded(loaded_pixel_buffer_')
          /\ set_pixel_buffer(loaded_pixel_buffer_')
       \/ /\ loaded_pixel_buffer_' = loaded_pixel_buffer_
          /\ UNCHANGED <<managerVars, pointerVars, buffers, window>>
    /\ UNCHANGED drag_

appUnchanged == <<managerVars, pointerVars, buffers, window, drag_>>

\* What the stamp's image holds is not recorded: no pointer to it is left.
LoadStamp == IOManager!LoadImageToStamp /\ UNCHANGED appUnchanged

SaveCanvas ==
    /\ Usable(display_buffer_)
    /\ IOManager!SaveCanvasToFile(Canvas.size)
    /\ UNCHANGED appUnchanged

ChooseFile ==
    /\ \/ \E n \in IOManager!Name :
            \/ IOManager!SelectFile(n)
            \/ \E how \in IOManager!Entrance, leave \in IOManager!Departure :
                    IOManager!EnterFileName(n, how, leave)
       \/ \E d \in Dir : IOManager!SelectDirectory(d)
    /\ UNCHANGED appUnchanged

-----------------------------------------------------------------------------
(* The surroundings                                                        *)

OtherProgramWrites ==
    /\ \E d \in Dir, n \in IOManager!ImageName, f \in IOManager!File :
            IOManager!OtherProgramWrites(d, n, f)
    /\ UNCHANGED appUnchanged

Quit == IOManager!Quit /\ UNCHANGED appUnchanged

\* Display, or any handler above, comes across a deleted buffer.
UseAfterDelete ==
    /\ Running
    /\ \E b \in {display_buffer_, belt_buffer_, filter_buffer_} : ~Usable(b)
    /\ process' = "undefined"
    /\ UNCHANGED <<files, cwd, listing, file_name_, orig_text, save_label_,
                   load_label_, save_canvas_btn_, load_canvas_btn_, load_stamp_btn_,
                   loaded_pixel_buffer_, live, stamp_images, appUnchanged>>

\* The state in which Init leaves the program to glutMainLoop.
Init ==
    /\ IOManager!Init
    /\ display_buffer_ = FirstBuffer
    /\ belt_buffer_ = FirstBuffer
    /\ filter_buffer_ = FirstBuffer
    /\ window = FirstSize
    /\ drag_ = FALSE
    /\ \E p \in Picture, s \in Snapshot :
         LET first == [size |-> FirstSize, picture |-> p] IN
         /\ buffers = [b \in Buffer \cup {FirstBuffer} |-> first]
         /\ undo_stack_ = <<s>>
         /\ redo_stack_ = <<>>
         /\ undo_btn_ = FALSE
         /\ redo_btn_ = FALSE
         /\ heap = [a \in Snapshot |-> IF a = s THEN first ELSE Freed]

Next ==
    \/ LeftMouseDown
    \/ MouseDragged
    \/ LeftMouseUp
    \/ ApplyFilter
    \/ UndoClicked
    \/ RedoClicked
    \/ LoadCanvas
    \/ LoadStamp
    \/ SaveCanvas
    \/ ChooseFile
    \/ OtherProgramWrites
    \/ Quit
    \/ UseAfterDelete

Spec == Init /\ [][Next]_vars

-----------------------------------------------------------------------------
(* Properties                                                              *)

TypeOK ==
    /\ StateManager!TypeOK
    /\ IOManager!TypeOK
    /\ {display_buffer_, belt_buffer_, filter_buffer_}
            \subseteq Buffer \cup {FirstBuffer}
    /\ buffers \in [Buffer \cup {FirstBuffer} -> Image]
    /\ window \in Size
    /\ drag_ \in BOOLEAN

\* The tools, the filters and the display go through three pointers of three
\* objects: none of them ever works on a canvas the others do not see, and the
\* window is the size of that canvas.
OneCanvas ==
    /\ belt_buffer_ = display_buffer_
    /\ filter_buffer_ = display_buffer_
    /\ window = Canvas.size

\* Outside of a stroke the canvas is the top of the undo stack, so no change
\* of it has escaped the history: whatever mix of strokes, filters, undos,
\* redos and loads came before, and also when callbacks came mid-stroke.
CanvasIsRegistered ==
    (Usable(display_buffer_) /\ ~drag_) => heap[Last(undo_stack_)] = Canvas

\* SetAllPixels reads the canvas's number of pixels from a snapshot that does
\* not know its own size: all the snapshots Undo and Redo can reach have the
\* dimensions of the canvas, after any series of loads.
SnapshotsFitCanvas ==
    \A s \in StateManager!Owned(undo_stack_) \cup StateManager!Owned(redo_stack_) :
        heap[s].size = Canvas.size

\* The application is a client StateManager allows: it leaves the stacks, the
\* buttons and the snapshots to it.  Hence what is proved of the manager holds
\* here.
UsesStateManager == [][StateManager!Next]_(StateManager!managerVars)

\* The canvas is deleted only by the load that replaces it.
CanvasStaysUsable == process # "undefined"

\* Only a file that the decoder rejects can cost the canvas: through any
\* series of loads that decode, edits and saves, no pointer is left to a buffer
\* that IOManager has deleted.
CanvasLostOnlyToBadFile ==
    [][Usable(display_buffer_) /\ ~Usable(display_buffer_)'
        => ~IOManager!Decodes(file_name_)]_vars

=============================================================================
