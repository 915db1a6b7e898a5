------------------------------ MODULE IOManager ------------------------------
(***************************************************************************)
(* Choosing, loading and saving image files (io_manager.cc, io_manager.h). *)
(*                                                                         *)
(* The chosen name lives in file_name_, which the edit box writes directly *)
(* (a GLUI live variable), sometimes without a callback; two labels tell   *)
(* the user what a click on Load and on Save would use, and three buttons  *)
(* say whether it is allowed.                                              *)
(* Names are relative, so what they denote also depends on the working     *)
(* directory, which the file browser changes, and on the disk, which other *)
(* programs change.  GLUI drops the clicks on a disabled button.           *)
(*                                                                         *)
(* Loads put the image in a new PixelBuffer.  That of a canvas belongs to  *)
(* the manager, until the next load deletes it; that of a stamp belongs to *)
(* nobody and stays.  Buffers are addresses: the allocator may hand out a  *)
(* deleted one again.  That there is none left (std::bad_alloc) is left    *)
(* out.                                                                    *)
(***************************************************************************)
EXTENDS EditText, FiniteSets, Naturals

CONSTANTS
    Dir,            \* directories
    StartDir,       \* the one the program is started in
    PngName,        \* file names that end in .png
    JpegName,       \* file names that end in .jpg or .jpeg
    OtherName,      \* any other text the edit box can hold
    NoName,         \* the empty text, and the "none" of the labels
    Size,           \* the dimensions an image can have
    Absent,         \* there is no such file
    Unreadable,     \* there is one, but fopen(name, "r") fails
    Corrupt,        \* it opens, but the decoder gives up on it
    Buffer,         \* addresses for the buffers of loaded images
    Null,
    MaxStampImages  \* bound on how many images are loaded to stamps

ImageName == PngName \cup JpegName

Name == ImageName \cup OtherName

File == Size \cup {Absent, Unreadable, Corrupt}

ASSUME NamesAssumption ==
    /\ StartDir \in Dir
    /\ NoName \in OtherName
    /\ ImageName \cap OtherName = {}
    /\ PngName \cap JpegName = {}

ASSUME FilesAssumption ==
    /\ Size \cap {Absent, Unreadable, Corrupt} = {}
    /\ Absent # Unreadable /\ Absent # Corrupt /\ Unreadable # Corrupt

ASSUME NullAssumption == Null \notin Buffer

VARIABLES
    process,                \* "running", "exited", or "undefined" behaviour
    files,                  \* the image files of each directory
    cwd,                    \* the working directory
    listing,                \* the image files the file browser shows
    file_name_,
    orig_text,              \* the text file_name_box_ remembers
    save_label_,            \* "Will save image: ..."
    load_label_,            \* "Will load: ..."
    save_canvas_btn_,       \* is the button enabled?
    load_canvas_btn_,
    load_stamp_btn_,
    loaded_pixel_buffer_,
    live,                   \* the canvases' buffers that are not deleted
    stamp_images            \* the stamps' buffers, none of them ever deleted

diskVars == <<files, cwd, listing>>

choiceVars == <<file_name_, orig_text, save_label_, load_label_,
                save_canvas_btn_, load_canvas_btn_, load_stamp_btn_>>

bufferVars == <<loaded_pixel_buffer_, live, stamp_images>>

ioVars == <<process, diskVars, choiceVars, bufferVars>>

Running == process = "running"

-----------------------------------------------------------------------------
(* Choosing a file                                                         *)

Openable(d, n) == files[d][n] \notin {Absent, Unreadable}

is_valid_image_file(d, n) == n \in ImageName /\ Openable(d, n)

\* Mistake: the label of Save shows any text, image name or not.
SetImageFileAnyLabel(selected, current, d) ==
    LET image_file == IF selected \in ImageName THEN selected ELSE current
        loadable   == is_valid_image_file(d, image_file)
    IN  /\ save_label_' = image_file
        /\ save_canvas_btn_' = (image_file \in ImageName)
        /\ load_label_' = IF loadable THEN image_file ELSE NoName
        /\ load_stamp_btn_' = loadable
        /\ load_canvas_btn_' = loadable
        /\ file_name_' = IF loadable THEN image_file ELSE current

\* Mistake: the edit box, and with it file_name_, does not follow the browser.
SetImageFileLabelsOnly(selected, current, d) ==
    LET image_file == IF selected \in ImageName THEN selected ELSE current
        named      == image_file \in ImageName
        loadable   == is_valid_image_file(d, image_file)
    IN  /\ save_label_' = IF named THEN image_file ELSE NoName
        /\ save_canvas_btn_' = named
        /\ load_label_' = IF loadable THEN image_file ELSE NoName
        /\ load_stamp_btn_' = loadable
        /\ load_canvas_btn_' = loadable
        /\ file_name_' = current

\* set_image_file(selected) in directory d, when file_name_ holds current.
\* A selection that is not an image name falls back on the current name.  The
\* edit box, and with it file_name_, follows only if the file can be opened.
set_image_file(selected, current, d) ==
    LET image_file == IF selected \in ImageName THEN selected ELSE current
        named      == image_file \in ImageName
        loadable   == is_valid_image_file(d, image_file)
    IN  /\ save_label_' = IF named THEN image_file ELSE NoName
        /\ save_canvas_btn_' = named
        /\ load_label_' = IF loadable THEN image_file ELSE NoName
        /\ load_stamp_btn_' = loadable
        /\ load_canvas_btn_' = loadable
        /\ file_name_' = IF loadable THEN image_file ELSE current

ListedIn(d) == {n \in ImageName : files[d][n] # Absent}

\* A click on a file in the browser, which shows what was there when it last
\* read the directory: an image file, or a file of any other name.
SelectFile(n) ==
    /\ Running
    /\ n \in listing \cup (OtherName \ {NoName})
    /\ set_image_file(n, file_name_, cwd)
    /\ UNCHANGED <<process, diskVars, orig_text, bufferVars>>

\* Mistake: a change of directory does not call back.
SelectDirectorySilently(d) ==
    /\ Running
    /\ cwd' = d
    /\ listing' = ListedIn(d)
    /\ UNCHANGED <<process, files, choiceVars, bufferVars>>

\* A click on a directory: chdir, fbreaddir("."), file = "" and the callback.
SelectDirectory(d) ==
    /\ Running
    /\ cwd' = d
    /\ listing' = ListedIn(d)
    /\ set_image_file(NoName, file_name_, d)
    /\ UNCHANGED <<process, files, orig_text, bufferVars>>

\* The edit box is entered, edited to hold n, and left: it stores n in
\* file_name_ and then calls back, or it does not.
EnterFileName(n, how, leave) ==
    LET remembered == Activated(how, orig_text, file_name_) IN
    /\ Running
    /\ \/ /\ CallsBack(remembered, n)
          /\ set_image_file(n, n, cwd)
       \/ /\ ~CallsBack(remembered, n)
          /\ file_name_' = n
          /\ UNCHANGED <<save_label_, load_label_, save_canvas_btn_,
                         load_canvas_btn_, load_stamp_btn_>>
    /\ orig_text' = Remembered(leave, remembered, file_name_')
    /\ UNCHANGED <<process, diskVars, bufferVars>>

-----------------------------------------------------------------------------
(* Loading and saving                                                      *)

\* A file that opens and that the decoder reads to its end.
Decodes(n) == n \in ImageName /\ files[cwd][n] \in Size

\* libjpeg's standard error manager ends the process.
DecoderExits(n) == n \in JpegName /\ files[cwd][n] = Corrupt

\* Where new PixelBuffer can put the next image.
Free == Buffer \ (live \cup stamp_images)

\* Mistake: the buffer loaded before is not deleted.
LoadAndLeak(b) ==
    /\ Decodes(file_name_)
    /\ b \in Free
    /\ loaded_pixel_buffer_' = b
    /\ live' = live \cup {b}
    /\ UNCHANGED <<process, diskVars, choiceVars, stamp_images>>

\* Mistake: the pointer is set first, and then what it points to is deleted.
LoadAndDeleteNew(b) ==
    /\ Decodes(file_name_)
    /\ b \in Free
    /\ loaded_pixel_buffer_' = b
    /\ UNCHANGED <<process, diskVars, choiceVars, live, stamp_images>>

\* LoadImageDataFromFile has made a buffer at b; the one loaded before goes.
LoadSucceeds(b) ==
    /\ Decodes(file_name_)
    /\ b \in Free
    /\ loaded_pixel_buffer_' = b
    /\ live' = (live \cup {b}) \ {loaded_pixel_buffer_}
    /\ UNCHANGED <<process, diskVars, choiceVars, stamp_images>>

\* The one loaded before is deleted all the same, and still pointed to.
LoadFails ==
    /\ ~Decodes(file_name_)
    /\ ~DecoderExits(file_name_)
    /\ live' = live \ {loaded_pixel_buffer_}
    /\ UNCHANGED <<process, diskVars, choiceVars, loaded_pixel_buffer_,
                   stamp_images>>

\* The buffer of the previous load is deleted a second time, or its address,
\* which a stamp's image may have got since, is taken for that image.
DoubleDelete ==
    /\ ~DecoderExits(file_name_)
    /\ process' = "undefined"
    /\ UNCHANGED <<diskVars, choiceVars, bufferVars>>

ProcessEnds ==
    /\ process' = "exited"
    /\ UNCHANGED <<diskVars, choiceVars, bufferVars>>

LoadedIsDeletable == loaded_pixel_buffer_ \in live \cup {Null}

LoadImageToCanvas ==
    /\ Running
    /\ load_canvas_btn_
    /\ \/ LoadedIsDeletable /\ \E b \in Buffer : LoadSucceeds(b)
       \/ LoadedIsDeletable /\ LoadFails
       \/ ~LoadedIsDeletable /\ DoubleDelete
       \/ DecoderExits(file_name_) /\ ProcessEnds

\* LoadImageDataFromFile has made a buffer at b.  set_buffer_stamp_mask copies
\* its pixels, and after that nothing points to it any more.
StampSucceeds(b) ==
    /\ Cardinality(stamp_images) < MaxStampImages
    /\ Decodes(file_name_)
    /\ b \in Free
    /\ stamp_images' = stamp_images \cup {b}
    /\ UNCHANGED <<process, diskVars, choiceVars, loaded_pixel_buffer_, live>>

StampFails ==
    /\ ~Decodes(file_name_)
    /\ ~DecoderExits(file_name_)
    /\ UNCHANGED ioVars

LoadImageToStamp ==
    /\ Running
    /\ load_stamp_btn_
    /\ \/ \E b \in Buffer : StampSucceeds(b)
       \/ StampFails
       \/ DecoderExits(file_name_) /\ ProcessEnds

\* What a save of a canvas of a size can leave on the disk: the image, the
\* old file if fopen(name, "wb") fails, or the beginning of the image.
SavedAs(size) == {size, files[cwd][file_name_], Corrupt}

\* A failing write to a PNG file is a longjmp back; to a JPEG file, an exit,
\* unless only the last fclose fails.
SaveToImageFile(size) ==
    /\ file_name_ \in ImageName
    /\ \E f \in SavedAs(size) :
         /\ files' = [files EXCEPT ![cwd][file_name_] = f]
         /\ process' \in IF f = Corrupt /\ file_name_ \in JpegName
                         THEN {"running", "exited"} ELSE {"running"}

\* Nothing is saved under a name with no image suffix.  The browser reads the
\* directory in any case.
SaveCanvasToFile(size) ==
    /\ Running
    /\ save_canvas_btn_
    /\ \/ SaveToImageFile(size)
       \/ file_name_ \notin ImageName /\ UNCHANGED <<process, files>>
    /\ listing' = {n \in ImageName : files'[cwd][n] # Absent}
    /\ UNCHANGED <<cwd, choiceVars, bufferVars>>

-----------------------------------------------------------------------------
(* The surroundings                                                        *)

\* What happens on the disk once the process has ended is of no interest here.
OtherProgramWrites(d, n, f) ==
    /\ Running
    /\ files' = [files EXCEPT ![d][n] = f]
    /\ UNCHANGED <<process, cwd, listing, choiceVars, bufferVars>>

Quit == Running /\ ProcessEnds

\* The user of the loaded buffer reads or writes it after it was deleted.
ClientUsesDeleted ==
    /\ Running
    /\ loaded_pixel_buffer_ \notin live \cup {Null}
    /\ process' = "undefined"
    /\ UNCHANGED <<diskVars, choiceVars, bufferVars>>

Init ==
    /\ process = "running"
    /\ files \in [Dir -> [ImageName -> File]]
    /\ cwd = StartDir
    /\ listing = ListedIn(StartDir)
    /\ file_name_ = NoName
    /\ orig_text = NoName
    /\ save_label_ = NoName
    /\ load_label_ = NoName
    /\ save_canvas_btn_ = FALSE
    /\ load_canvas_btn_ = FALSE
    /\ load_stamp_btn_ = FALSE
    /\ loaded_pixel_buffer_ = Null
    /\ live = {}
    /\ stamp_images = {}

Next ==
    \/ \E n \in Name : SelectFile(n)
    \/ \E d \in Dir : SelectDirectory(d)
    \/ \E n \in Name, how \in Entrance, leave \in Departure :
            EnterFileName(n, how, leave)
    \/ LoadImageToCanvas
    \/ LoadImageToStamp
    \/ \E size \in Size : SaveCanvasToFile(size)
    \/ \E d \in Dir, n \in ImageName, f \in File : OtherProgramWrites(d, n, f)
    \/ Quit
    \/ ClientUsesDeleted

Spec == Init /\ [][Next]_ioVars

-----------------------------------------------------------------------------
(* Properties                                                              *)

TypeOK ==
    /\ process \in {"running", "exited", "undefined"}
    /\ files \in [Dir -> [ImageName -> File]]
    /\ cwd \in Dir
    /\ listing \subseteq ImageName
    /\ file_name_ \in Name
    /\ orig_text \in Name
    /\ save_label_ \in ImageName \cup {NoName}
    /\ load_label_ \in ImageName \cup {NoName}
    /\ save_canvas_btn_ \in BOOLEAN
    /\ load_canvas_btn_ \in BOOLEAN
    /\ load_stamp_btn_ \in BOOLEAN
    /\ loaded_pixel_buffer_ \in Buffer \cup {Null}
    /\ live \subseteq Buffer
    /\ stamp_images \subseteq Buffer

\* A Load reads file_name_, the user reads the labels.  Whatever was typed,
\* browsed, saved or loaded before: while a Load button is enabled, all three
\* are, both labels show the same image name, and the only way for file_name_
\* to be another one is an edit box left with the text it remembered.
LabelsBehindEditBoxOnly ==
    (load_canvas_btn_ \/ load_stamp_btn_) =>
        /\ load_canvas_btn_ /\ load_stamp_btn_ /\ save_canvas_btn_
        /\ load_label_ \in ImageName
        /\ save_label_ = load_label_
        /\ file_name_ \in {load_label_, orig_text}

\* The edit box's own comment, "Now do callbacks if value changed", would make
\* the labels true: an enabled Load reads the name its label shows.
LoadUsesItsLabel ==
    load_canvas_btn_ => load_label_ = file_name_

Loadable == (Running /\ load_canvas_btn_) => Openable(cwd, load_label_)

\* The Load buttons keep up with the disk as far as this program alone changes
\* it: through every chdir, save and edit, the file on the label of an enabled
\* Load goes on opening until another program touches it.  This is about the
\* label; Load opens file_name_, and LabelsBehindEditBoxOnly relates the two.
OnlyOthersBreakLoad ==
    [][Loadable /\ ~Loadable' =>
        \E n \in ImageName, f \in {Absent, Unreadable} : OtherProgramWrites(cwd, n, f)]_ioVars

\* What the comment in set_image_file asks of Save: "if there is a file name,
\* then allow file to be saved to that name".
SaveUsesItsLabel ==
    save_canvas_btn_ => save_label_ = file_name_

\* Each Load Stamp leaves an image in memory that nothing deletes.  Nothing else
\* does: however many canvas loads there were, and however some of them failed,
\* and wherever stamps were loaded in between, the only other image in memory is
\* that of the last canvas, and it is not one of the stamps'.
OnlyStampImagesPileUp ==
    /\ live \subseteq {loaded_pixel_buffer_}
    /\ live \cap stamp_images = {}

=============================================================================
