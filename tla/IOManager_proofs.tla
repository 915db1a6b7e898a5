-------------------------- MODULE IOManager_proofs --------------------------
(***************************************************************************)
(* Proofs about IOManager, for all directories, names, files and buffers.  *)
(***************************************************************************)
EXTENDS IOManager, TLAPS

ChoiceTypeOK ==
    /\ file_name_ \in Name
    /\ orig_text \in Name
    /\ save_label_ \in ImageName \cup {NoName}
    /\ load_label_ \in ImageName \cup {NoName}
    /\ save_canvas_btn_ \in BOOLEAN
    /\ load_canvas_btn_ \in BOOLEAN
    /\ load_stamp_btn_ \in BOOLEAN

DiskTypeOK ==
    /\ files \in [Dir -> [ImageName -> File]]
    /\ cwd \in Dir
    /\ listing \subseteq ImageName

BufferTypeOK ==
    /\ loaded_pixel_buffer_ \in Buffer \cup {Null}
    /\ live \subseteq Buffer
    /\ stamp_images \subseteq Buffer

\* The invariant of the proofs: its parts are preserved together.
ChoiceInv ==
    /\ TypeOK
    /\ LabelsBehindEditBoxOnly
    /\ OnlyStampImagesPileUp

-----------------------------------------------------------------------------
(* What the helpers do                                                     *)

\* Whatever is selected, the buttons, labels and name that set_image_file leaves
\* belong together, and Load is enabled only for a file that opens.
LEMMA SetImageFileConsistent ==
    ASSUME NEW selected \in Name, NEW current \in Name, NEW d,
           set_image_file(selected, current, d)
    PROVE  /\ file_name_' \in Name
           /\ save_label_' \in ImageName \cup {NoName}
           /\ load_label_' \in ImageName \cup {NoName}
           /\ save_canvas_btn_' \in BOOLEAN
           /\ load_canvas_btn_' \in BOOLEAN
           /\ load_stamp_btn_' \in BOOLEAN
           /\ load_canvas_btn_' <=> load_stamp_btn_'
           /\ load_canvas_btn_' =>
                /\ save_canvas_btn_'
                /\ load_label_' \in ImageName
                /\ save_label_' = load_label_'
                /\ file_name_' = load_label_'
                /\ Openable(d, load_label_')
<1> DEFINE image_file == IF selected \in ImageName THEN selected ELSE current
           loadable   == is_valid_image_file(d, image_file)
<1>1. /\ save_label_' = IF image_file \in ImageName THEN image_file ELSE NoName
      /\ save_canvas_btn_' = (image_file \in ImageName)
      /\ load_label_' = IF loadable THEN image_file ELSE NoName
      /\ load_stamp_btn_' = loadable
      /\ load_canvas_btn_' = loadable
      /\ file_name_' = IF loadable THEN image_file ELSE current
  BY DEF set_image_file
<1>2. loadable \in BOOLEAN /\ (loadable => image_file \in ImageName /\ Openable(d, image_file))
  BY DEF is_valid_image_file
<1>3. image_file \in Name /\ ImageName \subseteq Name
  BY DEF Name
<1> HIDE DEF image_file, loadable
<1>4. CASE loadable
  BY <1>1, <1>2, <1>3, <1>4
<1>5. CASE ~loadable
  BY <1>1, <1>2, <1>3, <1>5
<1> QED
  BY <1>4, <1>5

LEMMA NoNameIsName == NoName \in Name
  BY NamesAssumption DEF Name

-----------------------------------------------------------------------------
(* One lemma per group of actions                                          *)

LEMMA ChooseInv ==
    ASSUME ChoiceInv,
           NEW selected \in Name, NEW current \in Name, NEW d \in Dir,
           set_image_file(selected, current, d),
           orig_text' \in Name, cwd' = d, files' = files,
           listing' \subseteq ImageName,
           UNCHANGED <<process, bufferVars>>
    PROVE  ChoiceInv'
<1>1. ChoiceTypeOK' /\ LabelsBehindEditBoxOnly'
  BY SetImageFileConsistent DEF ChoiceTypeOK, LabelsBehindEditBoxOnly
<1>2. DiskTypeOK' /\ BufferTypeOK' /\ process' \in {"running", "exited", "undefined"}
  BY DEF ChoiceInv, TypeOK, DiskTypeOK, BufferTypeOK, bufferVars
<1>3. OnlyStampImagesPileUp'
  BY DEF ChoiceInv, OnlyStampImagesPileUp, bufferVars
<1> QED
  BY <1>1, <1>2, <1>3 DEF ChoiceInv, TypeOK, ChoiceTypeOK, DiskTypeOK, BufferTypeOK

\* A step that leaves the choice alone need only respect disk and buffers.
LEMMA ChoiceKept ==
    ASSUME ChoiceInv, UNCHANGED choiceVars,
           DiskTypeOK', BufferTypeOK', OnlyStampImagesPileUp',
           process' \in {"running", "exited", "undefined"}
    PROVE  ChoiceInv'
  BY DEF ChoiceInv, TypeOK, DiskTypeOK, BufferTypeOK, LabelsBehindEditBoxOnly, choiceVars

LEMMA EnterFileNameInv ==
    ASSUME ChoiceInv, NEW n \in Name, NEW how \in Entrance, NEW leave \in Departure,
           EnterFileName(n, how, leave)
    PROVE  ChoiceInv'
<1> DEFINE remembered == Activated(how, orig_text, file_name_)
<1>1. remembered \in Name
  BY DEF Activated, ChoiceInv, TypeOK
<1>2. /\ orig_text' = IF leave = "return" THEN file_name_' ELSE remembered
      /\ UNCHANGED <<process, diskVars, bufferVars>>
  BY DEF EnterFileName, Remembered
<1>3. CASE CallsBack(remembered, n) /\ set_image_file(n, n, cwd)
  <2>1. cwd \in Dir /\ listing' \subseteq ImageName /\ cwd' = cwd /\ files' = files
    BY <1>2 DEF ChoiceInv, TypeOK, diskVars
  <2>2. file_name_' \in Name
    BY <1>3, SetImageFileConsistent
  <2>3. orig_text' \in Name
    BY <1>1, <1>2, <2>2
  <2> QED
    BY <1>2, <1>3, <2>1, <2>3, ChooseInv
<1>4. CASE /\ remembered = n
           /\ file_name_' = n
           /\ UNCHANGED <<save_label_, load_label_, save_canvas_btn_,
                          load_canvas_btn_, load_stamp_btn_>>
  <2>1. orig_text' = n /\ file_name_' = n
    BY <1>2, <1>4
  <2>2. ChoiceTypeOK' /\ LabelsBehindEditBoxOnly'
    BY <1>4, <2>1 DEF ChoiceInv, TypeOK, ChoiceTypeOK, LabelsBehindEditBoxOnly
  <2>3. DiskTypeOK' /\ BufferTypeOK' /\ OnlyStampImagesPileUp'
        /\ process' \in {"running", "exited", "undefined"}
    BY <1>2 DEF ChoiceInv, TypeOK, DiskTypeOK, BufferTypeOK, OnlyStampImagesPileUp, diskVars, bufferVars
  <2> QED
    BY <2>2, <2>3 DEF ChoiceInv, TypeOK, ChoiceTypeOK, DiskTypeOK, BufferTypeOK
<1> QED
  BY <1>3, <1>4 DEF EnterFileName, CallsBack

LEMMA LoadInv == ASSUME ChoiceInv, LoadImageToCanvas PROVE ChoiceInv'
<1>1. BufferTypeOK /\ DiskTypeOK /\ OnlyStampImagesPileUp /\ process \in {"running", "exited", "undefined"}
  BY DEF ChoiceInv, TypeOK, BufferTypeOK, DiskTypeOK
<1>2. ASSUME NEW b \in Buffer, LoadSucceeds(b) PROVE ChoiceInv'
  <2>1. /\ loaded_pixel_buffer_' = b
        /\ live' = (live \cup {b}) \ {loaded_pixel_buffer_}
        /\ b \notin stamp_images
        /\ UNCHANGED <<process, diskVars, choiceVars, stamp_images>>
    BY <1>2 DEF LoadSucceeds, Free
  <2>2. BufferTypeOK' /\ OnlyStampImagesPileUp'
    BY <1>1, <2>1 DEF BufferTypeOK, OnlyStampImagesPileUp
  <2>3. DiskTypeOK' /\ process' \in {"running", "exited", "undefined"}
    BY <1>1, <2>1 DEF DiskTypeOK, diskVars
  <2> QED
    BY <2>1, <2>2, <2>3, ChoiceKept
<1>3. CASE LoadFails
  <2>1. /\ live' = live \ {loaded_pixel_buffer_}
        /\ UNCHANGED <<process, diskVars, choiceVars, loaded_pixel_buffer_, stamp_images>>
    BY <1>3 DEF LoadFails
  <2>2. BufferTypeOK' /\ OnlyStampImagesPileUp'
    BY <1>1, <2>1 DEF BufferTypeOK, OnlyStampImagesPileUp
  <2>3. DiskTypeOK' /\ process' \in {"running", "exited", "undefined"}
    BY <1>1, <2>1 DEF DiskTypeOK, diskVars
  <2> QED
    BY <2>1, <2>2, <2>3, ChoiceKept
<1>4. CASE DoubleDelete \/ ProcessEnds
  <2>1. /\ process' \in {"running", "exited", "undefined"}
        /\ UNCHANGED <<diskVars, choiceVars, bufferVars>>
    BY <1>4 DEF DoubleDelete, ProcessEnds
  <2>2. BufferTypeOK' /\ OnlyStampImagesPileUp' /\ DiskTypeOK'
    BY <1>1, <2>1 DEF BufferTypeOK, OnlyStampImagesPileUp, DiskTypeOK, diskVars, bufferVars
  <2> QED
    BY <2>1, <2>2, ChoiceKept
<1> QED
  BY <1>2, <1>3, <1>4 DEF LoadImageToCanvas

\* The image of a stamp gets a buffer of its own.
LEMMA StampInv == ASSUME ChoiceInv, LoadImageToStamp PROVE ChoiceInv'
<1>1. BufferTypeOK /\ DiskTypeOK /\ OnlyStampImagesPileUp
      /\ process \in {"running", "exited", "undefined"}
  BY DEF ChoiceInv, TypeOK, BufferTypeOK, DiskTypeOK
<1>2. ASSUME NEW b \in Buffer, StampSucceeds(b) PROVE ChoiceInv'
  <2>1. /\ b \notin live
        /\ stamp_images' = stamp_images \cup {b}
        /\ UNCHANGED <<process, diskVars, choiceVars, loaded_pixel_buffer_, live>>
    BY <1>2 DEF StampSucceeds, Free
  <2>2. BufferTypeOK' /\ OnlyStampImagesPileUp'
    BY <1>1, <2>1 DEF BufferTypeOK, OnlyStampImagesPileUp
  <2>3. DiskTypeOK' /\ process' \in {"running", "exited", "undefined"}
    BY <1>1, <2>1 DEF DiskTypeOK, diskVars
  <2> QED
    BY <2>1, <2>2, <2>3, ChoiceKept
<1>3. CASE StampFails \/ ProcessEnds
  <2>1. /\ process' \in {"running", "exited", "undefined"}
        /\ UNCHANGED <<diskVars, choiceVars, bufferVars>>
    BY <1>1, <1>3 DEF StampFails, ProcessEnds, ioVars
  <2>2. BufferTypeOK' /\ OnlyStampImagesPileUp' /\ DiskTypeOK'
    BY <1>1, <2>1 DEF BufferTypeOK, OnlyStampImagesPileUp, DiskTypeOK, diskVars, bufferVars
  <2> QED
    BY <2>1, <2>2, ChoiceKept
<1> QED
  BY <1>2, <1>3 DEF LoadImageToStamp

\* What a save leaves of the disk.
LEMMA SavedFiles ==
    ASSUME ChoiceInv, NEW size \in Size, SaveCanvasToFile(size)
    PROVE  /\ files' \in [Dir -> [ImageName -> File]]
           /\ process' \in {"running", "exited", "undefined"}
           /\ \A n \in ImageName :
                Openable(cwd, n) => files'[cwd][n] \notin {Absent, Unreadable}
<1>1. files \in [Dir -> [ImageName -> File]] /\ cwd \in Dir
      /\ process \in {"running", "exited", "undefined"}
  BY DEF ChoiceInv, TypeOK
<1>2. CASE SaveToImageFile(size)
  <2>1. PICK f \in SavedAs(size) :
            /\ files' = [files EXCEPT ![cwd][file_name_] = f]
            /\ process' \in IF f = Corrupt /\ file_name_ \in JpegName
                            THEN {"running", "exited"} ELSE {"running"}
    BY <1>2 DEF SaveToImageFile
  <2>2. file_name_ \in ImageName
    BY <1>2 DEF SaveToImageFile
  <2>3. f \in File
    BY <1>1, <2>1, <2>2 DEF SavedAs, File
  <2>4. files' \in [Dir -> [ImageName -> File]]
    BY <1>1, <2>1, <2>2, <2>3
  <2>5. Openable(cwd, file_name_) => f \notin {Absent, Unreadable}
    <3>1. size \notin {Absent, Unreadable}
      BY FilesAssumption
    <3>2. Corrupt \notin {Absent, Unreadable}
      BY FilesAssumption
    <3> QED
      BY <2>1, <3>1, <3>2 DEF SavedAs, Openable
  <2> QED
    BY <1>1, <2>1, <2>2, <2>4, <2>5 DEF Openable
<1>3. CASE UNCHANGED <<process, files>>
  BY <1>1, <1>3 DEF Openable
<1> QED
  BY <1>2, <1>3 DEF SaveCanvasToFile

LEMMA SaveInv ==
    ASSUME ChoiceInv, NEW size \in Size, SaveCanvasToFile(size)
    PROVE  ChoiceInv'
<1>1. /\ listing' = {n \in ImageName : files'[cwd][n] # Absent}
      /\ UNCHANGED <<cwd, choiceVars, bufferVars>>
  BY DEF SaveCanvasToFile
<1>2. DiskTypeOK' /\ process' \in {"running", "exited", "undefined"}
  BY <1>1, SavedFiles DEF DiskTypeOK, ChoiceInv, TypeOK
<1>3. BufferTypeOK' /\ OnlyStampImagesPileUp'
  BY <1>1 DEF ChoiceInv, TypeOK, BufferTypeOK, OnlyStampImagesPileUp, bufferVars
<1> QED
  BY <1>1, <1>2, <1>3, ChoiceKept

LEMMA OtherWritesInv ==
    ASSUME ChoiceInv, NEW d \in Dir, NEW n \in ImageName, NEW f \in File,
           OtherProgramWrites(d, n, f)
    PROVE  ChoiceInv'
<1>1. /\ files' = [files EXCEPT ![d][n] = f]
      /\ UNCHANGED <<process, cwd, listing, choiceVars, bufferVars>>
  BY DEF OtherProgramWrites
<1>2. DiskTypeOK' /\ process' \in {"running", "exited", "undefined"}
  BY <1>1 DEF DiskTypeOK, ChoiceInv, TypeOK
<1>3. BufferTypeOK' /\ OnlyStampImagesPileUp'
  BY <1>1 DEF ChoiceInv, TypeOK, BufferTypeOK, OnlyStampImagesPileUp, bufferVars
<1> QED
  BY <1>1, <1>2, <1>3, ChoiceKept

\* A step that at most ends the process.
LEMMA EndInv ==
    ASSUME ChoiceInv, process' \in {"running", "exited", "undefined"},
           UNCHANGED <<diskVars, choiceVars, bufferVars>>
    PROVE  ChoiceInv'
<1>1. DiskTypeOK' /\ BufferTypeOK' /\ OnlyStampImagesPileUp'
  BY DEF ChoiceInv, TypeOK, DiskTypeOK, BufferTypeOK, OnlyStampImagesPileUp, diskVars, bufferVars
<1> QED
  BY <1>1, ChoiceKept

-----------------------------------------------------------------------------
(* The invariant                                                           *)

LEMMA InitInv == Init => ChoiceInv
  BY NoNameIsName, NamesAssumption
     DEF Init, ChoiceInv, TypeOK, LabelsBehindEditBoxOnly, OnlyStampImagesPileUp, ListedIn

LEMMA NextInv == ChoiceInv /\ [Next]_ioVars => ChoiceInv'
<1> SUFFICES ASSUME ChoiceInv, [Next]_ioVars PROVE ChoiceInv'
  OBVIOUS
<1>1. /\ file_name_ \in Name /\ orig_text \in Name /\ cwd \in Dir
      /\ listing \subseteq ImageName
      /\ process \in {"running", "exited", "undefined"}
  BY DEF ChoiceInv, TypeOK
<1>2. ASSUME NEW n \in Name, SelectFile(n) PROVE ChoiceInv'
  BY <1>1, <1>2, ChooseInv DEF SelectFile, diskVars
<1>3. ASSUME NEW d \in Dir, SelectDirectory(d) PROVE ChoiceInv'
  <2>1. listing' \subseteq ImageName
    BY <1>3 DEF SelectDirectory, ListedIn
  <2> QED
    BY <1>1, <1>3, <2>1, NoNameIsName, ChooseInv DEF SelectDirectory
<1>4. ASSUME NEW n \in Name, NEW how \in Entrance, NEW leave \in Departure,
             EnterFileName(n, how, leave)
      PROVE  ChoiceInv'
  BY <1>4, EnterFileNameInv
<1>5. CASE LoadImageToCanvas
  BY <1>5, LoadInv
<1>6. CASE LoadImageToStamp
  BY <1>6, StampInv
<1>7. ASSUME NEW size \in Size, SaveCanvasToFile(size) PROVE ChoiceInv'
  BY <1>7, SaveInv
<1>8. ASSUME NEW d \in Dir, NEW n \in ImageName, NEW f \in File,
             OtherProgramWrites(d, n, f)
      PROVE  ChoiceInv'
  BY <1>8, OtherWritesInv
<1>9. CASE Quit \/ ClientUsesDeleted
  <2>1. process' \in {"running", "exited", "undefined"}
        /\ UNCHANGED <<diskVars, choiceVars, bufferVars>>
    BY <1>9 DEF Quit, ProcessEnds, ClientUsesDeleted
  <2> QED
    BY <2>1, EndInv
<1>10. CASE UNCHANGED ioVars
  BY <1>1, <1>10, EndInv DEF ioVars
<1> QED
  BY <1>2, <1>3, <1>4, <1>5, <1>6, <1>7, <1>8, <1>9, <1>10 DEF Next

LEMMA ChoiceInvHolds == Spec => []ChoiceInv
  BY InitInv, NextInv, PTL DEF Spec

\* The state of the file dialog, the disk and the loaded buffer keep their types.
THEOREM TypeCorrect == Spec => []TypeOK
<1>1. ChoiceInv => TypeOK
  BY DEF ChoiceInv
<1> QED
  BY <1>1, ChoiceInvHolds, PTL

\* Enabled Load buttons come with labels that agree with one another, and with
\* the name, unless the edit box was left with the text it remembered.
THEOREM LabelsAgree == Spec => []LabelsBehindEditBoxOnly
<1>1. ChoiceInv => LabelsBehindEditBoxOnly
  BY DEF ChoiceInv
<1> QED
  BY <1>1, ChoiceInvHolds, PTL

\* However many images are loaded to the canvas and to stamps, and whether or not
\* they decode: what is in memory is the last canvas and the stamps' images, and
\* no buffer is both.
THEOREM OnlyStampsLeak == Spec => []OnlyStampImagesPileUp
<1>1. ChoiceInv => OnlyStampImagesPileUp
  BY DEF ChoiceInv
<1> QED
  BY <1>1, ChoiceInvHolds, PTL

-----------------------------------------------------------------------------
(* The buttons and the disk                                                *)

LEMMA ChosenIsLoadable ==
    ASSUME NEW selected \in Name, NEW current \in Name, NEW d,
           set_image_file(selected, current, d), files' = files, cwd' = d
    PROVE  Loadable'
  BY SetImageFileConsistent DEF Loadable, Openable

\* The program's own steps keep the file on Load's label one that opens.
LEMMA ProgramKeepsLoadable ==
    ASSUME ChoiceInv, Next, Loadable, ~Loadable'
    PROVE  \E n \in ImageName, f \in {Absent, Unreadable} : OtherProgramWrites(cwd, n, f)
<1>1. /\ file_name_ \in Name /\ cwd \in Dir
      /\ files \in [Dir -> [ImageName -> File]]
      /\ load_canvas_btn_ => load_label_ \in ImageName
  BY DEF ChoiceInv, TypeOK, LabelsBehindEditBoxOnly
<1>2. ASSUME NEW n \in Name, SelectFile(n) PROVE FALSE
  BY <1>1, <1>2, ChosenIsLoadable DEF SelectFile, diskVars
<1>3. ASSUME NEW d \in Dir, SelectDirectory(d) PROVE FALSE
  BY <1>1, <1>3, NoNameIsName, ChosenIsLoadable DEF SelectDirectory
<1>4. ASSUME NEW n \in Name, NEW how \in Entrance, NEW leave \in Departure,
             EnterFileName(n, how, leave)
      PROVE  FALSE
  <2>1. files' = files /\ cwd' = cwd /\ process' = process
    BY <1>4 DEF EnterFileName, diskVars
  <2>2. CASE set_image_file(n, n, cwd)
    BY <2>1, <2>2, ChosenIsLoadable
  <2>3. CASE UNCHANGED <<load_label_, load_canvas_btn_>>
    BY <2>1, <2>3 DEF Loadable, Running, Openable
  <2> QED
    BY <1>4, <2>2, <2>3 DEF EnterFileName
<1>5. ASSUME Running => UNCHANGED <<files, cwd, choiceVars>>, Running' => Running
      PROVE  FALSE
  BY <1>5 DEF Loadable, Openable, choiceVars
<1>6. CASE LoadImageToCanvas \/ LoadImageToStamp \/ Quit \/ ClientUsesDeleted
  <2>1. Running /\ UNCHANGED <<files, cwd, choiceVars>>
    BY <1>6 DEF LoadImageToCanvas, LoadSucceeds, LoadFails, DoubleDelete, ProcessEnds,
                LoadImageToStamp, StampSucceeds, StampFails, Quit, ClientUsesDeleted,
                ioVars, diskVars
  <2> QED
    BY <1>5, <2>1
<1>7. ASSUME NEW size \in Size, SaveCanvasToFile(size) PROVE FALSE
  <2>1. Running /\ cwd' = cwd /\ UNCHANGED choiceVars
    BY <1>7 DEF SaveCanvasToFile
  <2>2. \A n \in ImageName : Openable(cwd, n) => files'[cwd][n] \notin {Absent, Unreadable}
    BY <1>7, SavedFiles
  <2> QED
    BY <1>1, <2>1, <2>2 DEF Loadable, Openable, choiceVars
<1>8. ASSUME NEW d \in Dir, NEW n \in ImageName, NEW f \in File,
             OtherProgramWrites(d, n, f)
      PROVE  d = cwd /\ f \in {Absent, Unreadable}
  <2>1. /\ files' = [files EXCEPT ![d][n] = f]
        /\ UNCHANGED <<process, cwd, choiceVars>>
    BY <1>8 DEF OtherProgramWrites
  <2>2. /\ load_canvas_btn_ /\ load_label_ \in ImageName
        /\ files[cwd][load_label_] \notin {Absent, Unreadable}
        /\ files'[cwd][load_label_] \in {Absent, Unreadable}
    BY <1>1, <2>1 DEF Loadable, Openable, Running, choiceVars
  <2>3. d = cwd /\ n = load_label_
    BY <1>1, <2>1, <2>2
  <2>4. files'[cwd][load_label_] = f
    BY <1>1, <2>1, <2>3
  <2> QED
    BY <2>2, <2>3, <2>4
<1> QED
  BY <1>2, <1>3, <1>4, <1>6, <1>7, <1>8 DEF Next

\* Once Load is enabled and the file on its label opens, only another program can
\* make that file fail to open: not a chdir, a save, an edit or a load of this one.
THEOREM LoadStaysGood == Spec => OnlyOthersBreakLoad
<1>1. ChoiceInv /\ [Next]_ioVars =>
        [Loadable /\ ~Loadable' =>
            \E n \in ImageName, f \in {Absent, Unreadable} :
                OtherProgramWrites(cwd, n, f)]_ioVars
  BY ProgramKeepsLoadable
<1> QED
  BY <1>1, ChoiceInvHolds, PTL DEF Spec, OnlyOthersBreakLoad

=============================================================================
