---------------------------- MODULE FilterManager ----------------------------
(***************************************************************************)
(* The filters (filter_manager.cc).                                        *)
(*                                                                         *)
(* A filter passes over the canvas pixel by pixel and writes each result   *)
(* back before it computes the next.  A convolution reads a copy; the      *)
(* other filters read the canvas itself.                                   *)
(***************************************************************************)
EXTENDS FilterKernel

CONSTANTS
    Dimensions,     \* the sizes <<width, height>> a canvas can have
    Colour,         \* what the pixels of a canvas can be at the start
    Amount,         \* settings of the spinners Blur, Sharpen and MotionBlur
    Level,          \* of Threshold
    Factor,         \* of Channels
    Bins,           \* of Quantize
    MaxPasses       \* bound on how many filters are applied

ASSUME SettingsAssumption ==
    /\ Dimensions \subseteq (Nat \ {0}) \X (Nat \ {0})
    /\ Colour \subseteq 0 .. One
    /\ Amount \subseteq Nat
    /\ Level \subseteq 0 .. One
    /\ Factor \subseteq Nat
    /\ Bins \subseteq 2 .. 256
    /\ MaxPasses \in Nat

VARIABLES
    pixel_buffer_,          \* the canvas
    kernel_,
    pass,           \* "none", "convolution", or the filter without a kernel
    setting,        \* the bias of a convolution, or the filter's spinner
    buffer_copy,
    buffer_x, buffer_y,                 \* the loops
    passes

vars == <<pixel_buffer_, kernel_, pass, setting, buffer_copy,
          buffer_x, buffer_y, passes>>

NoKernel == [function |-> "BLUR", size |-> 0, values |-> <<>>]

-----------------------------------------------------------------------------
(* The Apply callbacks                                                     *)

StartPass(filter, s, copy) ==
    /\ pass = "none"
    /\ passes < MaxPasses
    /\ passes' = passes + 1
    /\ pass' = filter
    /\ setting' = s
    /\ buffer_copy' = copy
    /\ buffer_x' = 0
    /\ buffer_y' = 0
    /\ UNCHANGED pixel_buffer_

ApplyConvolutionFilter(bias) == StartPass("convolution", bias, pixel_buffer_)

ApplyBlur(amount) ==
    kernel_' = KernelInit(2 * amount, "BLUR") /\ ApplyConvolutionFilter(0)

ApplySharpen(amount) ==
    kernel_' = KernelInit(2 * amount, "SHARPEN") /\ ApplyConvolutionFilter(0)

ApplyMotionBlur(amount) ==
    /\ \E direction \in {"BLUR_N_S", "BLUR_E_W", "BLUR_NE_SW", "BLUR_NW_SE"} :
            kernel_' = KernelInit(2 * amount, direction)
    /\ ApplyConvolutionFilter(0)

ApplyEdgeDetect ==
    kernel_' = KernelInit(3, "EDGE_DETECT") /\ ApplyConvolutionFilter(0)

ApplySpecial ==
    kernel_' = KernelInit(3, "EMBOSS") /\ ApplyConvolutionFilter(One \div 2)

\* ApplyNonConvolutionFilter.  The Dither callback applies the threshold.
ApplyThreshold(level) ==
    StartPass("threshold", level, NoBuffer) /\ UNCHANGED kernel_

ApplyChannel(factor) ==
    StartPass("channel", factor, NoBuffer) /\ UNCHANGED kernel_

ApplyQuantize(bins) ==
    bins > 1 /\ StartPass("quantize", bins, NoBuffer) /\ UNCHANGED kernel_

-----------------------------------------------------------------------------
(* The loops over the canvas                                               *)

Threshold(v, level) == IF v >= level THEN One ELSE 0

Channel(v, factor) == clamped_color(v * factor)

Quantize(v, bins) == (rint(v * (bins - 1), One) * One) \div (bins - 1)

NewColour(v) ==
    CASE pass = "threshold" -> Threshold(v, setting)
      [] pass = "channel"   -> Channel(v, setting)
      [] pass = "quantize"  -> Quantize(v, setting)

SetPixel(v) == pixel_buffer_' = set_valid_pixel(pixel_buffer_, buffer_x, buffer_y, v)

NextPixel ==
    /\ buffer_x' = (buffer_x + 1) % pixel_buffer_.width
    /\ buffer_y' = IF buffer_x + 1 = pixel_buffer_.width THEN buffer_y + 1 ELSE buffer_y
    /\ UNCHANGED <<kernel_, pass, setting, buffer_copy, passes>>

\* Mistake: the neighbours are read from the canvas.
SetConvolvedInPlace ==
    /\ pass = "convolution"
    /\ buffer_y < pixel_buffer_.height
    /\ SetPixel(Apply(kernel_, pixel_buffer_, buffer_x, buffer_y, setting))
    /\ NextPixel

SetConvolved ==
    /\ pass = "convolution"
    /\ buffer_y < pixel_buffer_.height
    /\ SetPixel(Apply(kernel_, buffer_copy, buffer_x, buffer_y, setting))
    /\ NextPixel

SetPointwise ==
    /\ pass \notin {"none", "convolution"}
    /\ buffer_y < pixel_buffer_.height
    /\ SetPixel(NewColour(get_valid_pixel(pixel_buffer_, buffer_x, buffer_y)))
    /\ NextPixel

\* The loops end, and the copy is deleted.
Return ==
    /\ pass # "none"
    /\ buffer_y = pixel_buffer_.height
    /\ pass' = "none"
    /\ buffer_copy' = NoBuffer
    /\ UNCHANGED <<pixel_buffer_, kernel_, setting, buffer_x, buffer_y, passes>>

-----------------------------------------------------------------------------

Init ==
    /\ \E d \in Dimensions : \E colours \in [0 .. d[1] * d[2] - 1 -> Colour] :
            pixel_buffer_ = [width |-> d[1], height |-> d[2], pixels |-> colours]
    /\ kernel_ = NoKernel
    /\ pass = "none"
    /\ setting = 0
    /\ buffer_copy = NoBuffer
    /\ buffer_x = 0
    /\ buffer_y = 0
    /\ passes = 0

Next ==
    \/ \E amount \in Amount :
            ApplyBlur(amount) \/ ApplySharpen(amount) \/ ApplyMotionBlur(amount)
    \/ ApplyEdgeDetect
    \/ ApplySpecial
    \/ \E level \in Level : ApplyThreshold(level)
    \/ \E factor \in Factor : ApplyChannel(factor)
    \/ \E bins \in Bins : ApplyQuantize(bins)
    \/ SetConvolved
    \/ SetPointwise
    \/ Return

Spec == Init /\ [][Next]_vars

-----------------------------------------------------------------------------
(* Properties                                                              *)

\* Besides the types: what is stored is a colour, although a kernel can sum up
\* to far more than full intensity, and to less than none.
TypeOK ==
    /\ <<pixel_buffer_.width, pixel_buffer_.height>> \in Dimensions
    /\ InGamut(pixel_buffer_)
    /\ kernel_ # NoKernel => kernel_.size % 2 = 1
    /\ pass \in {"none", "convolution", "threshold", "channel", "quantize"}
    /\ buffer_copy = NoBuffer \/ InGamut(buffer_copy)
    /\ buffer_x \in 0 .. pixel_buffer_.width - 1
    /\ buffer_y \in 0 .. pixel_buffer_.height
    /\ passes \in 0 .. MaxPasses

\* A convolution takes effect when it returns, since nobody else reads the
\* canvas before.  A filter without a kernel takes effect at its start: here
\* the picture is what the canvas will be when the loops are through with it.
Picture ==
    [p \in Positions(pixel_buffer_) |->
        LET v == get_valid_pixel(pixel_buffer_, p[1], p[2])
        IN  CASE pass = "none"        -> v
              [] pass = "convolution" -> get_valid_pixel(buffer_copy, p[1], p[2])
              [] OTHER                -> IF Before(p, buffer_x, buffer_y) THEN v ELSE NewColour(v)]

Filtered == INSTANCE FilteredPicture WITH picture <- Picture, Radius <- Amount

\* The passes over the array, in which later pixels are computed after earlier
\* ones have been overwritten, give the picture of the filter's definition:
\* each kernel has the shape it should, at the edges too, whatever the
\* dimensions of the canvas and the order of the rows in memory.
ImplementsFilteredPicture == [][Filtered!Next]_Picture

Uniform(buffer) ==
    \E v \in 0 .. One : \A i \in DOMAIN buffer.pixels : buffer.pixels[i] = v

\* The comment in Apply, "to prevent darkening around the edges", for the
\* filters whose weights sum up to a positive number: on a canvas of one colour
\* they change nothing, not at the edges and not at any time of the pass.
UniformStaysUniform ==
    (/\ pass = "convolution"
     /\ kernel_.function \notin {"EDGE_DETECT", "EMBOSS"}
     /\ Uniform(buffer_copy)) => pixel_buffer_ = buffer_copy

=============================================================================
