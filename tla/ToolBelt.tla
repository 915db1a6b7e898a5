------------------------------ MODULE ToolBelt ------------------------------
(***************************************************************************)
(* The tools and the control panel that chooses them (toolbelt.cc,         *)
(* brush.cc, stamper.cc, blur_tool.cc, and the callbacks of                *)
(* flashphoto_app.cc that set the tool and the colour).                    *)
(*                                                                         *)
(* A click applies the active tool: a walk over the pixels of the canvas   *)
(* under its mask, each written before the next is computed.  Brushes and  *)
(* stamps read the canvas itself, the blur tool a copy.                    *)
(*                                                                         *)
(* The panel's choices are GLUI live variables, which the widgets write by *)
(* themselves; the belt has its own copies, which the end of every         *)
(* callback brings up to date.  A widget that changes its variable without *)
(* a callback leaves the belt behind.                                      *)
(*                                                                         *)
(* One colour channel and its spinner are modelled; luminance is that of a *)
(* grey pixel.  Nothing else runs during a click.                          *)
(***************************************************************************)
EXTENDS FilterKernel, Sequences, EditText

CONSTANTS
    PpmColour(_, _),    \* the picture in the PPM file
    Canvas,             \* [width, height, background, pixels]
    Shade,              \* colours the panel can set
    StampImage,         \* images that can be loaded as a stamp
    Beginning,          \* [dirty, file]: the entries of the array of kernels that
                        \* new finds not null, and the PPM file
    Mouse,              \* positions of a click
    MaxClicks           \* bound on the number of clicks

NoValue == -1

NoImage == [width |-> 0, height |-> 0, colours |-> <<>>]

\* A PPM file of some size, by its first lines: P3, a comment, the size, and 255.
PpmFile(width, height) ==
    [opens |-> TRUE, width |-> width, height |-> height,
     header |-> << <<>>, <<>>, <<width, height>>, <<255>> >>]

MissingFile == [opens |-> FALSE, header |-> <<>>]

\* The colours of every picture are in the gamut; an image can be transparent.
ASSUME ToolsAssumption ==
    /\ Shade \subseteq 0 .. One
    /\ 0 \in Shade
    /\ Mouse \subseteq Int \X Int
    /\ MaxClicks \in Nat
    /\ \A c \in Canvas :
        /\ c.width \in Nat \ {0} /\ c.height \in Nat \ {0}
        /\ c.pixels \in [0 .. c.width * c.height - 1 -> 0 .. One]
        /\ c.background \in 0 .. One
    /\ \A i \in StampImage :
        /\ i.width \in Nat \ {0} /\ i.height \in Nat \ {0}
        /\ i.colours \in [(0 .. i.width - 1) \X (0 .. i.height - 1) -> -1 .. One]
    /\ \A b \in Beginning :
        /\ b.dirty \subseteq 0 .. 41
        /\ b.file = MissingFile \/
                /\ b.file.width \in Nat \ {0} /\ b.file.height \in Nat \ {0}
                /\ b.file = PpmFile(b.file.width, b.file.height)
                /\ \A col \in 0 .. b.file.width - 1, row \in 0 .. b.file.height - 1 :
                        PpmColour(col, row) \in 0 .. One

VARIABLES
    process,                \* "running" or "undefined"
    my_pixel_buffer_,       \* the canvas, and its
    background_color_,
    cur_tool_, cur_color_,  \* live variables of the radio group and the spinner
    orig_text,              \* what the spinner's edit box remembers
    last_float_val,         \* the value of the spinner's last callback
    active_tool_, active_color_,
    stamp_image,            \* auxiliary: the image last loaded as a stamp
    stamp_mask_,            \* of the Stamp
    special_mask_file,      \* the file the Stamper's mask was made from
    filter_kernel_array_,   \* of the Blur tool: is there a kernel of a size?
    click,                  \* is a click under way?
    mouse,                  \* where the last click was
    visited,                \* how many pixels of the canvas the walk has passed
    buffer_copy,
    clicks

choiceVars == <<cur_tool_, cur_color_, orig_text, last_float_val>>

beltVars == <<active_tool_, active_color_>>

stampVars == <<stamp_image, stamp_mask_>>

builtVars == <<special_mask_file, filter_kernel_array_>>

clickVars == <<click, mouse, visited, buffer_copy, clicks>>

vars == <<process, my_pixel_buffer_, background_color_, choiceVars, beltVars, stampVars, builtVars, clickVars>>

Masks == INSTANCE Masks

Brush(mask, uses_luminance) ==
    [class |-> "Brush", mask |-> mask, uses_luminance |-> uses_luminance]

\* The tools in the order of the radio buttons.  The masks of the stamps are
\* made later, or from a file.
tools_ ==
    [i \in 0 .. 7 |->
        CASE i = 0 -> Brush(Masks!mask_circle(3, 100, 100), FALSE)
          [] i = 1 -> Brush(Masks!mask_circle(21, -100, -100), FALSE)
          [] i = 2 -> Brush(Masks!mask_circle(41, 20, 0), FALSE)
          [] i = 3 -> Brush(Masks!mask_rectangle(5, 15, 100), FALSE)
          [] i = 4 -> Brush(Masks!mask_rectangle(5, 15, 40), TRUE)
          [] i = 5 -> [class |-> "Stamp", intensity |-> 100]
          [] i = 6 -> [class |-> "BlurTool", mask |-> Masks!blur_mask(41)]
          [] i = 7 -> [class |-> "Stamper", intensity |-> 50]]

active_tool == tools_[active_tool_]

Mask ==
    CASE active_tool.class = "Stamp"   -> stamp_mask_
      [] active_tool.class = "Stamper" -> Masks!ppm_stamp_mask(200, 150, special_mask_file)
      [] OTHER                         -> active_tool.mask

Idle == process = "running" /\ ~click /\ clicks < MaxClicks

-----------------------------------------------------------------------------
(* The control panel                                                       *)

\* Mistake: the end of the callback forgets the tool.
SynchronizeColour == active_color_' = cur_color_' /\ UNCHANGED active_tool_

\* The last lines of GluiControl.
Synchronize == active_color_' = cur_color_' /\ active_tool_' = cur_tool_'

panelUnchanged == <<process, my_pixel_buffer_, background_color_, builtVars, clickVars>>

\* A radio button calls back only if it was not selected before.
ChooseTool(i) ==
    /\ Idle
    /\ i # cur_tool_
    /\ cur_tool_' = i
    /\ UNCHANGED <<cur_color_, orig_text, last_float_val>>
    /\ Synchronize
    /\ UNCHANGED <<panelUnchanged, stampVars>>

\* A button for a colour: update_colors sets the spinner, which does not call
\* back and does not note the value as that of a callback.
PresetColour(v) ==
    /\ Idle
    /\ cur_color_' = v
    /\ UNCHANGED <<cur_tool_, orig_text, last_float_val>>
    /\ Synchronize
    /\ UNCHANGED <<panelUnchanged, stampVars>>

\* The edit box of the spinner is entered, edited to hold v, and left.
TypeColour(v, how, leave) ==
    LET remembered == Activated(how, orig_text, cur_color_) IN
    /\ Idle
    /\ cur_color_' = v
    /\ orig_text' = Remembered(leave, remembered, v)
    /\ UNCHANGED <<cur_tool_, last_float_val>>
    /\ IF CallsBack(remembered, v) THEN Synchronize ELSE UNCHANGED beltVars
    /\ UNCHANGED <<panelUnchanged, stampVars>>

\* The arrows of the spinner, or a drag of them, set v: GLUI_Spinner::do_callbacks
\* compares v with the value of its last callback.
SpinColour(v) ==
    /\ Idle
    /\ cur_color_' = v
    /\ last_float_val' = v
    /\ UNCHANGED <<cur_tool_, orig_text>>
    /\ IF v # last_float_val THEN Synchronize ELSE UNCHANGED beltVars
    /\ UNCHANGED <<panelUnchanged, stampVars>>

\* Load Stamp, with an image that decodes.
LoadStamp(image) ==
    /\ Idle
    /\ stamp_image' = image
    /\ stamp_mask_' = Masks!buffer_stamp_mask(image)
    /\ UNCHANGED choiceVars
    /\ Synchronize
    /\ UNCHANGED panelUnchanged

\* A callback of any other control.
OtherCallback ==
    /\ Idle
    /\ UNCHANGED choiceVars
    /\ Synchronize
    /\ UNCHANGED <<panelUnchanged, stampVars>>

-----------------------------------------------------------------------------
(* A click                                                                 *)

\* Two colours mixed in the ratio of n to 100 * One - n.
Blend(painted, beneath, n) == (painted * n + beneath * (100 * One - n)) \div (100 * One)

AbsValue(n) == IF n < 0 THEN -n ELSE n

\* Mistake: a negative intensity keeps its sign.
BrushedSigned(strength, c) ==
    LET intensity == strength * IF active_tool.uses_luminance THEN c ELSE One
    IN  IF intensity > 0 THEN Blend(active_color_, c, intensity)
                         ELSE Blend(background_color_, c, intensity)

\* Brush::ApplyClick on a pixel of colour c, for an entry of the mask.
Brushed(strength, c) ==
    LET intensity == strength * IF active_tool.uses_luminance THEN c ELSE One
    IN  IF intensity > 0 THEN Blend(active_color_, c, intensity)
                         ELSE Blend(background_color_, c, AbsValue(intensity))

\* Stamper::ApplyClick
Stamped(mask_color, c) ==
    IF mask_color = Masks!Transparent THEN c
    ELSE Blend(mask_color, c, active_tool.intensity * One)

kernels == [k \in 1 .. 20 |-> KernelInit(2 * k, "BLUR")]

\* BlurTool::ApplyClick.  The kernel at index k is made for an amount of k, so
\* its radius is k.
Blurred(kernel_size, c, x, y) ==
    IF kernel_size = 0 THEN c ELSE Apply(kernels[kernel_size], buffer_copy, x, y, 0)

\* The entry of the mask that lies over pixel p.
MaskPosition(mask, p) ==
    <<p[1] - mouse[1] + mask.size \div 2, p[2] - mouse[2] + mask.size \div 2>>

\* What the walk makes of pixel p, which has the colour c.
NewColour(mask, p, c) ==
    LET entry == mask.at[MaskPosition(mask, p)]
    IN  IF MaskPosition(mask, p) \notin DOMAIN mask.at THEN c
        ELSE CASE active_tool.class = "Brush"              -> Brushed(entry, c)
               [] active_tool.class = "BlurTool"           -> Blurred(entry, c, p[1], p[2])
               [] active_tool.class \in {"Stamp", "Stamper"} -> Stamped(entry, c)

\* The kernel the pixel needs is not one: a null pointer, or whatever was in the
\* memory of the array.
MissesKernel(mask, p) ==
    /\ active_tool.class = "BlurTool"
    /\ MaskPosition(mask, p) \in DOMAIN mask.at
    /\ mask.at[MaskPosition(mask, p)] # 0
    /\ filter_kernel_array_[mask.at[MaskPosition(mask, p)]] # "kernel"

Position == <<visited % my_pixel_buffer_.width, visited \div my_pixel_buffer_.width>>

PixelCount == my_pixel_buffer_.width * my_pixel_buffer_.height

PixelAtPosition == get_valid_pixel(my_pixel_buffer_, Position[1], Position[2])

SetPixel(v) ==
    my_pixel_buffer_' = set_valid_pixel(my_pixel_buffer_, Position[1], Position[2], v)

clickUnchanged == <<background_color_, choiceVars, beltVars, stampVars, builtVars>>

\* A stamp with no mask ignores the click.
IgnoreClick(at) ==
    /\ Idle
    /\ Mask.size = 0
    /\ mouse' = at
    /\ clicks' = clicks + 1
    /\ UNCHANGED <<clickUnchanged, process, my_pixel_buffer_, click, visited, buffer_copy>>

ApplyClick(at) ==
    /\ Idle
    /\ Mask.size # 0
    /\ click' = TRUE
    /\ mouse' = at
    /\ visited' = 0
    /\ buffer_copy' = IF active_tool.class = "BlurTool" THEN my_pixel_buffer_ ELSE NoBuffer
    /\ clicks' = clicks + 1
    /\ UNCHANGED <<clickUnchanged, process, my_pixel_buffer_>>

\* Mistake: the kernels are applied to the canvas that is being painted.
PaintPixelInPlace ==
    /\ process = "running"
    /\ click
    /\ visited < PixelCount
    /\ ~MissesKernel(Mask, Position)
    /\ LET mask == Mask
           entry == mask.at[MaskPosition(mask, Position)]
       IN  SetPixel(IF /\ active_tool.class = "BlurTool"
                       /\ MaskPosition(mask, Position) \in DOMAIN mask.at
                       /\ entry # 0
                    THEN Apply(kernels[entry], my_pixel_buffer_, Position[1], Position[2], 0)
                    ELSE NewColour(mask, Position, PixelAtPosition))
    /\ visited' = visited + 1
    /\ UNCHANGED <<clickUnchanged, process, click, mouse, buffer_copy, clicks>>

PaintPixel ==
    /\ process = "running"
    /\ click
    /\ visited < PixelCount
    /\ ~MissesKernel(Mask, Position)
    /\ SetPixel(NewColour(Mask, Position, PixelAtPosition))
    /\ visited' = visited + 1
    /\ UNCHANGED <<clickUnchanged, process, click, mouse, buffer_copy, clicks>>

UseNoKernel ==
    /\ process = "running"
    /\ click
    /\ visited < PixelCount
    /\ MissesKernel(Mask, Position)
    /\ process' = "undefined"
    /\ UNCHANGED <<clickUnchanged, my_pixel_buffer_, clickVars>>

Return ==
    /\ process = "running"
    /\ click
    /\ visited = PixelCount
    /\ click' = FALSE
    /\ buffer_copy' = NoBuffer
    /\ UNCHANGED <<clickUnchanged, process, my_pixel_buffer_, mouse, visited, clicks>>

-----------------------------------------------------------------------------

BlurSizes == {Masks!BlurSize(41, p) : p \in Masks!Square(41)} \ {0}

\* Mistake: the kernels are shelved from index 0 on.
ShelvedFromZero(memory) ==
    [k \in 0 .. 41 |->
        IF memory[k] = "null" /\ k + 1 \in BlurSizes THEN "kernel" ELSE memory[k]]

\* set_blur_mask makes a kernel of each size for which it finds none.
Shelved(memory) ==
    [k \in 0 .. 41 |->
        IF memory[k] = "null" /\ k \in BlurSizes THEN "kernel" ELSE memory[k]]

Init ==
    /\ process = "running"
    /\ \E c \in Canvas :
         /\ my_pixel_buffer_ = [width |-> c.width, height |-> c.height, pixels |-> c.pixels]
         /\ background_color_ = c.background
    /\ cur_tool_ = 0
    /\ cur_color_ = 0
    /\ orig_text = NoValue
    /\ last_float_val = NoValue
    /\ active_tool_ = cur_tool_
    /\ active_color_ = cur_color_
    /\ stamp_image = NoImage
    /\ stamp_mask_ = Masks!NoMask
    /\ \E b \in Beginning :
         /\ special_mask_file = b.file
         /\ filter_kernel_array_ =
                Shelved([k \in 0 .. 41 |-> IF k \in b.dirty THEN "garbage" ELSE "null"])
    /\ click = FALSE
    /\ mouse = <<0, 0>>
    /\ visited = 0
    /\ buffer_copy = NoBuffer
    /\ clicks = 0

Next ==
    \/ \E i \in DOMAIN tools_ : ChooseTool(i)
    \/ \E v \in Shade : PresetColour(v) \/ SpinColour(v)
    \/ \E v \in Shade, how \in Entrance, leave \in Departure : TypeColour(v, how, leave)
    \/ \E image \in StampImage : LoadStamp(image)
    \/ OtherCallback
    \/ \E at \in Mouse : IgnoreClick(at) \/ ApplyClick(at)
    \/ PaintPixel
    \/ UseNoKernel
    \/ Return

Spec == Init /\ [][Next]_vars

-----------------------------------------------------------------------------
(* Properties                                                              *)

\* Besides the types: no tool clamps what it stores, and still no intensity,
\* however negative, and no kernel takes a pixel out of the gamut.
TypeOK ==
    /\ process \in {"running", "undefined"}
    /\ InGamut(my_pixel_buffer_)
    /\ cur_tool_ \in DOMAIN tools_ /\ active_tool_ \in DOMAIN tools_
    /\ cur_color_ \in Shade /\ active_color_ \in Shade
    /\ {orig_text, last_float_val} \subseteq Shade \cup {NoValue}
    /\ stamp_image \in StampImage \cup {NoImage}
    /\ filter_kernel_array_ \in [0 .. 41 -> {"null", "garbage", "kernel"}]
    /\ click \in BOOLEAN
    /\ mouse \in Mouse \cup {<<0, 0>>}
    /\ visited \in 0 .. PixelCount
    /\ buffer_copy = NoBuffer \/ InGamut(buffer_copy)
    /\ clicks \in 0 .. MaxClicks

\* A blur takes effect when its click returns, the other tools when it begins:
\* the picture is what the canvas will be when the walk is through with it.
Blurring == click /\ active_tool.class = "BlurTool"

Picture ==
    LET mask == Mask
        Now(p) == get_valid_pixel(my_pixel_buffer_, p[1], p[2])
    IN  [p \in Positions(my_pixel_buffer_) |->
            IF Blurring THEN get_valid_pixel(buffer_copy, p[1], p[2])
            ELSE IF ~click \/ Before(p, Position[1], Position[2]) THEN Now(p)
            ELSE NewColour(mask, p, Now(p))]

Applied == IF Blurring THEN clicks - 1 ELSE clicks

Painting == INSTANCE PaintedPicture WITH
    picture <- Picture,
    applied <- Applied,
    tool <- active_tool_,
    colour <- active_color_,
    background <- background_color_,
    stamp <- stamp_image,
    file <- special_mask_file

\* Every click does to the picture just what its tool is said to do, at the place
\* of the click: the masks have their shape and their centre, on the edges of the
\* canvas too, and reading the canvas while it is painted does no harm.
ImplementsPaintedPicture == [][Painting!Click]_<<Picture, Applied>>

\* The tools paint with the tool and the colour the panel shows, except that the
\* colour can be behind after a spinner was set back to a value of before: the
\* one its edit box remembers, or the one of its last callback.
BeltFollowsPanel ==
    /\ active_tool_ = cur_tool_
    /\ active_color_ # cur_color_ => cur_color_ \in {orig_text, last_float_val}

\* The Blur tool misses a kernel only where the memory of its array, which the
\* constructor does not initialize, happened not to be null.
BlurMissesOnlyGarbage ==
    process = "undefined" => \E k \in DOMAIN filter_kernel_array_ : filter_kernel_array_[k] = "garbage"

=============================================================================
