# FlashPhoto in TLA+

Models, model-checking runs and machine-checked proofs for FlashPhoto, the
paint program in `src/src`. The models are written from the C++ code. TLC checks
them on small instances; TLAPS proves the central results for all instances.

Contents: [inventory](#1-the-program) - [modules](#2-modules-and-the-code) -
[runs](#3-runs) - [fairness](#4-fairness) - [proofs](#5-proofs) -
[disagreements with the documentation](#6-where-code-and-documentation-disagree) -
[not modelled](#7-not-modelled) - [plan](#8-plan)

## 1. The program

FlashPhoto is one process with one thread. GLUT's main loop calls mouse, window
and display handlers; GLUI turns clicks on the control panel into calls of one
callback, `GluiControl(id)`. A handler runs to its end before the next starts.
There are no threads, no network and no persistent state other than image files.
What makes the program hard is therefore not preemption. It is the *order* in
which handlers run; raw pointers that several objects share; facts that are
cached in buttons and labels; widgets that write the program's variables with or
without calling back; files that change behind the program; window events that
arrive late; and loops that overwrite the pixels they still have to read.

| Component | State | Operations | Talks to | What makes it correct |
|---|---|---|---|---|
| `StateManager` | two stacks of `ColorData*`, two buttons | register, undo, redo, clear | app (callbacks) | undo and redo are exact inverses; each array owned once; pops only when safe |
| `IOManager` | `file_name_`, two labels, three buttons, `loaded_pixel_buffer_` | select, type, load to canvas or stamp, save | file browser, disk, app | what is shown is what is read or written; one canvas image in memory; no deleted canvas |
| `FlashPhotoApp` | `display_buffer_`, tool and colour choice | mouse handlers, `GluiControl`, `set_pixel_buffer`, `InterpolateToPoint` | every component | one canvas for all; every change registered; snapshots fit the canvas; strokes without gaps |
| `BaseGfxApp` | `drag_`, `width_`, `height_` | GLUT callbacks, `Reshape`, `SetWindowDimensions` | GLUT, app | the window ends at the size of the canvas; the drag state survives lost events |
| `PixelBuffer` | pixels, dimensions, background | get, set, copy all, `Copy` | all of the above | copies are whole and independent; no pixel outside |
| `ToolBelt`, `Tool` | canvas pointer, tools, active tool and colour | `set_pixel_buffer`, `set_active_*` | app, tools | tools work on the canvas on display |
| `Brush`, `BlurTool`, `Stamper` | a mask each; a kernel cache; a stamp | `ApplyClick`, mask constructors | `ToolBelt`, `PixelBuffer`, `FilterKernel` | masks are square, centred and rightly padded; no pixel outside |
| `FilterManager` | canvas pointer, slider values, a kernel | ten `Apply...` | `FilterKernel`, `PixelBuffer` | a filter reads the old picture and writes each pixel once |
| `FilterKernel` | kernel, size | `Init`, `Apply` | `PixelBuffer` | odd size; weights renormalised at the edges |
| `ColorData` | four floats | arithmetic, clamping | everywhere | clamped to [0, 1] where stored to a file |
| `UICtrl`, `main` | callback ids | start, toggling of buttons | GLUI | - |
| GLUI widgets | live variables, `orig_text`, `last_float_val`, a directory listing | callbacks, or none | app | the variable and the callback agree |
| GLUT, libjpeg, libpng | (external) | | | |

How they interact: `GluiControl` calls a manager, and afterwards often a second
one (load an image, *then* `set_pixel_buffer`, *then* clear and register). Three
objects hold their own copy of the pointer to the canvas (`FlashPhotoApp`,
`ToolBelt`, `FilterManager`); a fourth, `IOManager::loaded_pixel_buffer_`, owns
the canvas after the first load. `StateManager` owns copies of the pixels made by
`PixelBuffer::GetAllPixels`, which do not know their own dimensions.

The hazards that follow from this are listed, each with its line and the
properties that watch it, under `hazards` in `PROJECT.json`.

## 2. Modules and the code

A handler is one action, because the event loop is single threaded. Every action
contains all that the handler does, also what it does at its end
(`ToggleStateButtons`, the new listing after a save, the registration of the
canvas).

| Module | Models | Composition |
|---|---|---|
| `UndoTimeline` | what Undo and Redo promise: one line of pictures and a cursor | abstract specification |
| `StateManager` | `state_manager.cc`: the stacks, the buttons and the heap arrays | implements `UndoTimeline` |
| `DocumentedUndo` | `StateManager` with a history variable for the header's comment | extends `StateManager` |
| `EditText` | when a GLUI edit box calls back (`glui_edittext.cpp`) | used by `IOManager` and `ToolBelt` |
| `IOManager` | `io_manager.cc`, the file browser and the edit box, the disk | extends `EditText` |
| `FlashPhotoApp` | the callbacks of `flashphoto_app.cc` and the mouse of `base_gfx_app.cc` | instantiates `StateManager` and `IOManager` |
| `Stroke` | `InterpolateToPoint` and the mouse handlers, pixel by pixel | |
| `WindowSize` | `Reshape` and `SetWindowDimensions` against the window system | |
| `PixelBuffer` | a buffer: dimensions, array, order of rows, range of a colour | |
| `FilterKernel` | `filter_kernel.cc`: the eight kernels and their application at one pixel | extends `PixelBuffer` |
| `FilteredPicture` | what the filters promise: a picture is replaced at once and as a whole | abstract specification |
| `FilterManager` | `filter_manager.cc`, pixel by pixel | extends `FilterKernel`, implements `FilteredPicture` |
| `Masks` | the masks of `brush.cc`, `stamper.cc` and `blur_tool.cc` | instantiated by `ToolBelt` |
| `PaintedPicture` | what a click of each tool promises, as a function of the distance from it | abstract specification |
| `ToolBelt` | `toolbelt.cc`, the three `ApplyClick`s, the tool and colour callbacks of `flashphoto_app.cc` | extends `FilterKernel` and `EditText`, implements `PaintedPicture` |
| `..._proofs` | theorems about the module named | extend the module and TLAPS |
| `MC...` | constants for TLC | extend the module |

**StateManager.** `undo_stack_` and `redo_stack_` are sequences of addresses, top
last, and `heap` says what an address holds, or that it is `Freed`. The allocator
may return any freed address. `RegisterNewCanvasState(p)` takes a fresh address
*before* the redo stack is cleared, as the caller evaluates `GetAllPixels()`
first; `ClearAndRegister(p)` is `ClearUndoAndRedoStacks` followed by a
registration, where the freed addresses can come back. `UndoOperation` and
`RedoOperation` have no guard, as in the code; `UndoClicked` and `RedoClicked` are
guarded by the button, because GLUI drops a click on a disabled control. The
arrays are made by `new[]` and released by `delete`; the model takes that as a
release.

**EditText.** A GLUI edit box compares its text with `orig_text` to decide about a
callback. Entering it with Tab brings `orig_text` up to date; entering it with the
mouse does not (`glui_edittext.cpp:453`), and neither does a program that sets the
text. Return leaves the box and enters it again. The text itself is a live variable
and is written in any case. `Activated`, `CallsBack` and `Remembered` say this once,
for the file name box and for the edit box of the colour spinner.

**IOManager.** A file name is an element of `PngName`, `JpegName` or `OtherName`
(`has_suffix` is membership). A file is its dimensions, or `Absent`, `Unreadable`
or `Corrupt`. `set_image_file(selected, current, d)` is the whole function: the
fallback to the current name, both labels, three buttons, and the edit box, which
is a live variable and so also sets `file_name_`. `SelectFile` takes any file the
browser shows; `listing` is what it read last, so a shown file may be gone.
`SelectDirectory` is the browser's `chdir`, its new listing and the callback with
an empty name. `EnterFileName` is a visit to the edit box, which writes
`file_name_` and may or may not call back. `LoadImageToCanvas` has one disjunct per
outcome: decoded; rejected, after the old buffer was deleted; rejected or decoded
over a buffer that was deleted already, which is undefined behaviour
(`process = "undefined"`); or the exit libjpeg takes on a damaged file.
`LoadImageToStamp` also gets a new `PixelBuffer`, which the stamper copies and nobody
deletes (`stamp_images`). It may get the address of a canvas that a failed load deleted;
the pointers to that canvas do not become valid by this, so `live` and `stamp_images`
are kept apart, and using such a pointer stays undefined. `MaxStampImages` bounds how
many stamps are loaded.
`SaveCanvasToFile` may leave the new image, the old file, or a truncated one, and
saves nothing under a name with no image suffix, which the edit box can leave
behind an enabled button. Other programs may write any image file at any time.
`ClientUsesDeleted` lets whoever holds the loaded buffer run into a deleted one at
any time; `FlashPhotoApp` makes this precise with `UseAfterDelete`.

**FlashPhotoApp.** A canvas is its dimensions and a picture; tools and filters
change the picture in any way, each *through its own pointer*: the tools through
`belt_buffer_`, the filters through `filter_buffer_`, and registration, undo and
redo through `display_buffer_`. Callbacks are enabled while `drag_` is set, since
the release of the button can be lost. A release registers the canvas whether or
not a drag was on. `buffers` maps addresses to canvases; `Usable` tells if the
program has not deleted one. The canvas made at the start (`FirstBuffer`) is never
deleted by the code.

**Stroke.** `InterpolateToPoint` is walked one `DrawPixel` at a time, with the
loop variables and `pc` for the loop that runs. `error` is a double in the code but
only takes whole values, because `delta_error` is the quotient of two ints; the
model uses integers. `last_draw_location_` has no initial value in the code, and
any value in the model.

**WindowSize.** A size is a record of width and height, compared one by one as in
`Reshape`. `own` is `width_` and `height_`, `actual` the window on the screen;
`reports` are sizes on their way to the reshape callback; `request` is the last
`glutReshapeWindow` not carried out yet. Reports arrive in order, and one may be
sent also when the size did not change.

**PixelBuffer, FilterKernel, FilterManager.** A buffer is a record of its dimensions
and its array, whose rows are stored bottom up, as in the code (`Index`); the canvas is
one (`pixel_buffer_`, in `ToolBelt` `my_pixel_buffer_`), the copy a convolution reads
another. `KernelInit` fills the kernel from one of the
eight kernel functions, `Apply` is `FilterKernel::Apply` for one pixel, and each
filter is a `StartPass` followed by one step per pixel in the order of the loops
(`SetConvolved`, `SetPointwise`) and `Return`. One channel is modelled, since these
filters treat the three alike; alpha is left out. A colour is a whole multiple of
1 / `One`, and quotients are rounded down, where the code has floats; `One` is 2520
for the filters, which the sums of weights that occur divide, and 100 for the tools,
whose intensities are percents. `FilteredPicture` defines the same
filters with no arrays, kernels or loops: the weight of a neighbour is a function
of its distance, the bins of `Quantize` are the nearest levels. The mapping lets a
convolution take effect when it returns, and a filter without a kernel when it
starts: until its loops are through, the abstract picture is what they will leave.

**Masks, ToolBelt.** `Masks` computes the masks the constructors compute, from the
arguments `InitGlui` and the constructors of the tool belt give them: sizes made odd
or even, the padding of the shorter side, the fall-off of round masks (compared by
squares, so that no root is rounded), the kernel sizes of the blur tool, the stamp
of a loaded image, and the Stamper's PPM picture with the search for its header.
`ToolBelt` has the eight tools in the order of the radio buttons. A click is
`ApplyClick`, one `PaintPixel` per pixel of the canvas, and `Return`: the pixels are
visited one by one, each written before the next is computed. Brushes and stamps
read the canvas they write, the blur tool a copy. The code walks over the mask and
skips what is outside of the canvas; the model walks over the canvas and asks what
part of the mask lies on it, in the same order. `filter_kernel_array_` is allocated
without being initialized, and `Beginning` gives the entries that happen not to be
null; using one of these is undefined behaviour (`UseNoKernel`). The panel's
variables (`cur_tool_`, `cur_color_`) are live variables; the belt's copies
(`active_tool_`, `active_color_`) are brought up to date at the end of each callback
(`Synchronize`). One colour channel and its spinner are modelled: `TypeColour` is its
edit box and `SpinColour` its arrows, each with its own idea of the last value.
`PaintedPicture` defines every tool with no mask or loop, as a function of a pixel's
colour and its distance from the click; as with the filters, a blur takes effect
when it returns and the other tools when they begin.

Each module carries a few operators headed *Mistake:*. They are what a plausible
bug would make of the definition that follows them, and no specification uses
them. `PROJECT.json` pairs each with the property that has to catch it, so that
every property is known to be able to fail.

## 3. Runs

| Run | Instance | Distinct states | Checks |
|---|---|---|---|
| `undo` | 5 addresses, 2 pictures | 28 491 | types, `SnapshotOwnership`, `ButtonsGuardStacks`, `ImplementsTimeline` |
| `files` | 2 directories, 1 PNG, 1 JPEG, 1 misspelt name, no name, 3 buffers, 2 stamp images | 3 096 576 (with symmetry) | types, `LabelsBehindEditBoxOnly`, `OnlyStampImagesPileUp`, `OnlyOthersBreakLoad` |
| `app` | 3 snapshots, 2 pictures, 2 sizes, 2 loaded buffers, 1 stamp image, 1 PNG, other programs write | 1 044 480 (with symmetry) | types, `OneCanvas`, `CanvasIsRegistered`, `SnapshotsFitCanvas`, `UsesStateManager`, `CanvasLostOnlyToBadFile` |
| `stroke` | coordinates -1 .. 4 | 71 005 | types, `StaysBetween`, `StrokeIsConnected`, `StopsShort`, `EveryDragReturns` |
| `window` | 3 sizes, 3 resizes, 2 loads | 7 863 | types, `QuietWindowFits`, `WindowSettles` |
| `filters` | canvases of 3x2 and 1x3 pixels, black or full, radii 0 to 2, two filters | 106 397 | types and gamut, `UniformStaysUniform`, `ImplementsFilteredPicture` |
| `tools` | canvases of 3x2 and 1x3 pixels, eight tools, 7 positions, 2 stamps, 3 beginnings, one click | 173 712 | types and gamut, `BeltFollowsPanel`, `BlurMissesOnlyGarbage`, `ImplementsPaintedPicture` |
| `undo_floor`, `save_label`, `load_label`, `lost_canvas`, `stroke_slope` | | | violated: see section 6 |

What they show, and why the bounds suffice:

* `undo`. `SnapshotOwnership` is about double deletes, dangling pointers and leaks
  together. Five addresses allow stacks of depth five and both stacks non-empty in
  all proportions, and force addresses to be reused. When all five are live no
  edit is possible in the model; a load is. The proofs remove the bound.
* `files`. The labels and buttons depend on one current, one selected and one
  remembered name: two image names and two others cover all pairs of kinds. Two
  directories are needed because a name denotes another file after `chdir`. Three
  buffers let a canvas be replaced while the image of a stamp is in memory, and the
  address of a canvas that was deleted be given to a stamp; two stamps (`MaxStampImages`)
  let their images pile up. `LabelsBehindEditBoxOnly` says precisely how
  far the labels can be wrong, and `OnlyOthersBreakLoad` who is to blame when Load is
  enabled and the file on its label does not open: `fopen` is asked when the name is
  chosen and not again. (Load opens `file_name_`; how that can differ from the label is
  `load_label` in section 6.)
* `app`. Three snapshots allow an undo and a redo on both sides of a load; two
  sizes make a stale snapshot visible; two buffers the reuse of a deleted one, by a
  canvas or by a stamp's image.
  `UsesStateManager` is the link to the manager's proofs: the application only takes
  steps that `StateManager!Next` allows, so what is proved there holds here.
* `stroke`. Differences up to 5 in either direction include horizontal, vertical,
  diagonal, shallow and steep lines, the ones whose quotient leaves a rest, and
  positions beyond the edge.
* `window`. Three sizes let a stale report differ both from the canvas and from the
  screen, in one dimension or in both; the order of two loads and three resizes exceeds every chain of
  report, request and report that matters.
* `filters`. A canvas that is wider than high and one that is higher than wide tell
  width from height and rows from columns; radius 1 reaches over some edges and
  radius 2 over all of them, so that every pixel is also an edge and a corner. The
  second filter starts from whatever intensities the first one left. The weights
  of all kernels are seen alone on a canvas with one full pixel.
* `tools`. The tools have their real sizes, up to 201 pixels; the canvases are small
  and the positions chosen so that the middle and every edge of every mask comes to
  lie on one of them, corners of the canvas included, and clicks beside the canvas
  too. All pixels have different colours. One click is enough because a click reads
  nothing that the click before left except the picture, and any picture may be the
  first; before it comes any number of choices on the panel. The three beginnings
  have a clean array, one with garbage where the mask needs a kernel, and one where
  it needs none; and a readable, a missing and a misread PPM file. A mask taken one
  pixel off, and a kernel read from the wrong array, show as a different picture.

Deadlock is checked for `undo`, `undo_floor`, `stroke` and `stroke_slope`. It is
not for files and application (the process may exit), nor for the window, the
filters and the tools (once `MaxResizes` and `MaxLoads`, `MaxPasses` or `MaxClicks`
are used up and all is quiet, nothing happens).

## 4. Fairness

* `Stroke!FairSpec`: weak fairness of the loops. A handler that was entered goes on
  executing. Mouse events have none: the user need not do anything.
* `WindowSize!FairSpec`: weak fairness of `Reshape` (GLUT's main loop delivers each
  report) and of `GrantRequest` (the window system carries requests out). Resizes
  and loads have none.

All the other properties are safety properties.

## 5. Proofs

TLAPS checks every leaf. The results hold for every value of the constants.

**StateManager** (assumption: `Freed \notin Picture`).
`SnapshotOwnership` and `ButtonsGuardStacks` are not inductive alone: an undo
preserves the emptiness of the intersection of the stacks only because the undo
stack has no repetitions, and the buttons only because a non-empty redo stack
implies that an edit is left to stand on. The invariant `StackInv` conjoins the
types, the two properties, and so the facts each needs of the other.
`StackInvariant` proves it over the four operations, from lemmas about pushing on
and popping off a sequence without repetitions (`PushFacts`, `PopFacts`) and about
the heap (`HeapAfterFacts`). `TypeCorrect`, `OwnershipHolds` and
`ButtonsGuardHolds` follow.

`RefinesTimeline` proves the refinement. The mapping reads the undo stack from its
bottom and then the redo stack from its top, through the heap. Ownership is what
makes it work: an edit deletes the arrays of the redo stack and fills a fresh one,
and because none of these is on the undo stack, the pictures there do not change.
One lemma per operation shows the abstract step.

**Stroke** (assumption: coordinates are integers). `Connected` needs `TouchInv`:
what the next `DrawPixel` draws touches the last pixel, at each head of a loop and
also at its first turn. `BetweenHolds` needs `LineInv`, which bounds the rows drawn
so far by the columns times the slope (`SlopeFacts`: the quotient times
`delta_x` is at most `delta_y`). `StopsShortHolds` comes from the same invariant: when
the columns are drawn all but one, the rows drawn are the quotient for each, and what
is left of `delta_y` is the remainder (`RowsLeftOver`, `ReturnStopsShort`).

**WindowSize** (assumptions: bounds are naturals, a size is a width and a height,
`NoRequest` is not one).
`QuietWindow` needs `SizeInv`: a pending request is for the current size and never
for one that a load replaced, and the last report is of the window as it is.

**IOManager** (assumptions: the start directory is one, the kinds of names and the
kinds of files are disjoint, `Null` is not a buffer). The invariant `ChoiceInv`
conjoins the types, `LabelsBehindEditBoxOnly` and `OnlyStampImagesPileUp`.
`SetImageFileConsistent` is the central lemma: after a call the three buttons, both
labels and the name agree, and a file that is offered opens. `NextInv` has one lemma
per group of actions; `ChoiceKept` serves those that leave the choice alone.
`LoadStaysGood` is an action property: by `SavedFiles` a save never makes the file it
writes unreadable, a change of directory asks `fopen` again, and what remains is
another program.

**FlashPhotoApp** (assumptions: `Freed` is not an image, `FirstBuffer` is not one of
the loaded ones, `FirstSize` is a size, and those of `IOManager`). The invariant
`AppInv` is `HistoryInv` (the manager's `StackInv`, and an undo stack that is never
empty) and `CanvasInv` (the three pointers agree; every snapshot has the canvas's
size; outside of a stroke the canvas is the top of the stack). None of these is
inductive alone: that an undo keeps the size of the canvas rests on the sizes of all
snapshots, and that it leaves the canvas registered rests on both. The theorems of
`StateManager_proofs` and `IOManager_proofs` are not proved again but instantiated
(`Manager`, `Files`); `SameManager` and `SameFiles` show that the operations the
application calls are those the theorems are about. `TypeCorrect`, `OneCanvasHolds`,
`RegisteredHolds` and `SnapshotsFit` follow; `ManagerUsed` shows that every step is
one the manager allows, and `LostOnlyToBadFile` that a canvas on display is deleted
only by a load that does not decode.

**Sums, buffers and kernels** (`FilterKernel_proofs`; assumption: `One` is a positive
number). What the filters and the blur compute are sums over the pixels around a pixel.
The library's sum takes elements out of a set one after the other; its recursion is
shown to have exactly one solution (`AddsUpExists`, `AddsUpUnique`, both by induction
over the subsets of a finite set, `SubsetInduction`, which follows from the library's
facts about well-founded orders without their induction rule), and from `SumStep` come
the facts one expects of sums: the order does not matter (`SumRemove`), factors move out
(`SumScaled`), and so on. On these rest the facts about kernels of every size and canvases
of every size: `PositiveFactor` (at every edge and in every corner the weights of a
blur or of the sharpening that are left sum up to something positive; for the sharpening
because each -1 on one of its axes is outweighed by the middle, `CrossFacts`),
`UniformKept`, `ApplyInGamut`, and `BlurIsMean`. For arrays, `IndexFacts` says that two
positions never share an index, and so `WrittenFacts` that a store changes one pixel.

**FilterManager** (assumptions: `OneAssumption` and `SettingsAssumption`: dimensions are
positive, intensities and levels in the gamut, amounts whole numbers, at least two bins).
`FilteredAtOnceHolds` is about the loops alone, whatever the kernels compute: the picture
changes at one step of a pass, by the function of the filter applied to the old
picture. It needs `WalkInv`: behind the loops a convolution has stored what its kernel
makes of the copy, and the loops visit each position once (`NextPixelFacts`). The other
theorems add to it, as `PictureInv`, that every colour is in the gamut, that the kernel
is one that a filter chose, with its bias, that the setting fits the filter, and that
the copy is a picture of the canvas's size; without these the results of the next store
are not known. `TypeCorrect` follows from it. `UniformHolds` is `UniformKept` at each
store. `FilteredPictureImplemented` takes up the content of the filters: each
`KernelInit` is shown to have the weights `FilteredPicture` gives by distance
(`FilterOfFacts`), `Apply` at a pixel to be the convolution with them, and `rint` to
find the one nearest level (`NearestIsRint`).

**ToolBelt** (assumptions: `OneAssumption` and `ToolsAssumption`: colours of canvases,
stamps and of the PPM file are in the gamut, transparent pixels of a stamp excepted; the
PPM file has one of the two forms, readable or missing, that `Beginning` provides for).
`BeltFollows` is inductive by itself, with a case for each of the two ways the spinner
fails to call back. `OnlyGarbageMissed` needs `BlurInv`: where the mask asks for a
kernel, the array is not null. That the mask asks for no index beyond the array is
`BlurSizeBounded`, from the formula of the fall-off.

`TypeCorrect` contains that no tool leaves the gamut. The invariant `ToolsInv` adds to
the types what the next pixel is mixed from: the stamp's mask is that of the image last
loaded, the file is one of those assumed, and during a blur the copy is a picture of the
canvas's size. `NewColourInGamut` then goes through the masks: the entries of a brush
are percents between -100 and 100 (`BrushEntries`), those of stamps colours or
transparent (`StampEntries`, `PpmEntries`; stretching never reads beyond the picture of
the file, `QuotientBelow`), and mixing by percents stays between the two colours.

`PaintedPictureImplemented` is the refinement. One lemma per tool (`PenFacts` to
`StamperFacts`, and `BlurFacts`) says what the entry of its mask at a distance from the
click makes of a colour: that a round mask, which compares squares, is a disk and its
Max the percents that are left (`CircleUnder`, `DiskInSquare`), that the padding puts
stamps of odd and even sizes where `PaintedPicture` says (`PaddingFacts`), that the mask
of the blur tool, rounded and then made odd, is the radius (`RadiusFacts`) and its
kernel the mean over that radius (`BlurIsMean`). The walk adds that exactly the pixels
before `Position` are done, none at first and all at the end (`WalkFacts`). The invariant
`PaintingInv` is `ToolsInv` and `BlurOK`: behind a blur's walk the canvas has what the
kernels make of the copy, ahead of it what the copy has. No such clause is
needed for the other tools: they read the canvas, but only the pixel they write. One
lemma per action then shows a click of the abstract specification or a stutter
(`IgnoreStep`, `ApplyStep`, `PaintStep`, `ReturnStep`).

Only model-checked: the liveness properties (`EveryDragReturns`, `WindowSettles`),
which are out of the prover's reach, and the refutations of section 6. All invariants and
action properties of the passing runs are proved.

## 6. Where code and documentation disagree

* `undo_floor`. `state_manager.h:41-43` says of undos, edits and more undos: "until
  you get back to the state before you made the edits. You will not be able to go
  back any further". The code goes back to the first state.
* `save_label`. `io_manager.cc:120-122`: "If there is a file name, then allow file to
  be saved to that name". If the file selected in the browser cannot be opened,
  its name is shown beside Save, but `file_name_` keeps the old one, and Save
  writes there.
* `lost_canvas`. `io_manager.h:40-42`: the load validates "before the load will
  proceed". `LoadImageToCanvas` deletes the buffer of the previous load, the one on
  display, before it looks at the result; a damaged second file leaves all the
  pointers to the canvas dangling. `CanvasLostOnlyToBadFile` shows that nothing else
  does.
* `stroke_slope`. `flashphoto_app.cc:111`: "based on Bresenham's line algorithm". The
  slope is an integer quotient, so a drag by (3, 2) is drawn flat. `StopsShort`
  states exactly where a stroke ends instead.
* `load_label`. `glui_edittext.cpp:512`: "Now do callbacks if value changed". The box
  compares with `orig_text`, which is out of date when the box was entered with the
  mouse after the file browser set its text. A user who then empties it leaves Load
  enabled, with a label that shows a file it will not load.

Divergences that no run states:

* `filter_kernel.cc:40-43`: "to prevent darkening around the edges, we need to verify
  the value of the kernel's factor". The factor is only corrected for a positive sum.
  The kernel of the special filter sums up to 0 inside and to less at two edges, so a
  canvas of one bright colour comes out black there and grey inside.
  `UniformStaysUniform` is about the blurs and the sharpening, which keep the promise.
* `blur_tool.h`, on `filter_kernel_array_`: each kernel is "stored at the index number
  that is equal to the kernel size". The index is given to `Init` as an amount, so
  the kernel at index k has size 2k + 1.
* `stamper.cc:49-50`: the click is to be "at the center of the stamper's drawing
  application on the canvas". The mask of a loaded image has an even size, so an image of odd width or height lies
  half a pixel up or left; `PaintedPicture` states where exactly.
* `toolbelt.h:62`: `set_pixel_buffer` is declared to return a pointer and returns none,
  which is undefined in C++. The only caller ignores the result, and the build
  (`OPT = -O0` in the `Makefile`) compiles it to a plain return, as in the model.
* `state_manager.h:57` says that `UndoOperation` returns the array it popped; it
  returns the one below, which is what the caller needs.
* The callback for Dither applies the threshold (`flashphoto_app.cc:346`), as its own
  filter.

## 7. Not modelled

* The Saturate filter, which mixes the channels; alpha, other than transparent or not
  in a stamp; the rounding of floats. Luminance is that of a grey pixel.
* The memory a filter, a tool or a decoder takes. The code leaks in several places:
  `PixelBuffer::Copy` keeps the array of `GetAllPixels`, `BlurTool::ApplyClick` its whole
  `buffer_copy`, `FilterKernel::Init` the kernel before, and the loaders `jpeg_image`,
  `image_row` and libpng's structures. The one that is modelled is that of Load Stamp,
  whose `PixelBuffer` is never deleted (`stamp_images`). That a load finds no memory at
  all (`std::bad_alloc`) is not modelled.
* JPEG files with one component per pixel, which the loader reads as three.
* The text of the spinners and labels, the layout of the control panel, drawing to the
  screen, console output.
* `FlashPhotoApp` and `ToolBelt` are not composed: the first has any change of a picture
  for a tool, the second exactly one canvas. What joins them is `OneCanvas`, which says
  that the belt's canvas is the one on display.
* `Brush::ApplyDragged`: declared deprecated in `tool.h` and never called.
* `UICtrl` is a list of identifiers; `main` starts the program.
* Third-party code under `src/ext`, which is by far the largest part of the repository:
  libjpeg 9a, libpng 1.6.16, zlib, GLUI and cpplint are unchanged releases of other
  projects. FlashPhoto depends on the codecs only through four outcomes (decoded to
  some size, rejected, exit, partly written), all of which `IOManager` has; a model of
  their tables and transforms would say nothing about this program. Of GLUI, the widgets
  that decide about callbacks are modelled (`EditText`, the spinner, the radio group,
  the file browser), and their layout and drawing are not. `Makefile`, `config`, `doc`
  and images have no behaviour.

## 8. Plan

Done, in this order: `StateManager` with its abstract specification and proofs,
`IOManager`, `FlashPhotoApp` composing both, `Stroke` and `WindowSize` with proofs,
`FilterManager` with its abstract specification; then `EditText`, `Masks` and
`ToolBelt` with its abstract specification, and the proofs about `IOManager`,
`FlashPhotoApp`, the panel of `ToolBelt` and the passes of `FilterManager`.

Then the sums and kernels, the refinement of `FilteredPicture` by `FilterManager`, and
that of `PaintedPicture` by `ToolBelt`, proved.

Next:

1. Proofs: `WindowSize` against an abstract specification of the window, so that
   `QuietWindowFits` follows from a refinement.
2. `ToolBelt` inside `FlashPhotoApp`, with a picture of a few pixels: a stroke that is
   interrupted by a choice of tool, and a stamp loaded during one.
3. Three colour channels for `Saturate` and for the luminance of the highlighter.
