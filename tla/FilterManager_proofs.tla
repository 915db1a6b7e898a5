------------------------ MODULE FilterManager_proofs ------------------------
(***************************************************************************)
(* Proofs about FilterManager, for canvases of every size: that the walk   *)
(* over the array does not show, whatever a kernel makes of one pixel, and *)
(* then what the kernels make of it.                                       *)
(***************************************************************************)
EXTENDS FilterManager, FilterKernel_proofs

PointFilters == {"threshold", "channel", "quantize"}

\* What a filter without a kernel makes of a colour.
Recoloured(filter, s, v) ==
    CASE filter = "threshold" -> Threshold(v, s)
      [] filter = "channel"   -> Channel(v, s)
      [] filter = "quantize"  -> Quantize(v, s)

\* What the convolution under way makes of the picture it was given.
ConvolvedPicture ==
    [p \in Positions(pixel_buffer_) |-> Apply(kernel_, buffer_copy, p[1], p[2], setting)]

\* A step leaves the picture as it is, or replaces it at once: a convolution
\* when it returns, by what its kernel makes of each pixel of the copy, and a
\* filter without a kernel when it starts.
AtOnce ==
    \/ Picture' = Picture
    \/ /\ pass = "convolution" /\ pass' = "none"
       /\ Picture' = ConvolvedPicture
    \/ /\ pass = "none" /\ pass' \in PointFilters
       /\ Picture' = [p \in Positions(pixel_buffer_) |->
                        Recoloured(pass', setting', Picture[p])]

\* A property of the passes in ApplyConvolutionFilter and
\* ApplyNonConvolutionFilter: the loops never show.
FilteredAtOnce == [][AtOnce]_vars

-----------------------------------------------------------------------------
(* The loops.  Behind them a convolution has put what its kernel makes of  *)
(* the copy; that this stays so while the canvas is overwritten is what a  *)
(* read of the canvas would break.                                         *)

LoopsOK ==
    /\ buffer_x \in 0 .. pixel_buffer_.width - 1
    /\ buffer_y \in 0 .. pixel_buffer_.height

PassOK ==
    /\ pass \in {"none", "convolution"} \cup PointFilters
    /\ pass = "convolution" =>
        \A p \in Positions(pixel_buffer_) : Before(p, buffer_x, buffer_y) =>
            get_valid_pixel(pixel_buffer_, p[1], p[2])
                = Apply(kernel_, buffer_copy, p[1], p[2], setting)

WalkInv == IsBuffer(pixel_buffer_) /\ LoopsOK /\ PassOK

LEMMA InitWalkInv == Init => WalkInv
<1> SUFFICES ASSUME Init PROVE WalkInv
  OBVIOUS
<1>1. PICK d \in Dimensions : \E colours \in [0 .. d[1] * d[2] - 1 -> Colour] :
            pixel_buffer_ = [width |-> d[1], height |-> d[2], pixels |-> colours]
  BY DEF Init
<1>2. d[1] \in Nat \ {0} /\ d[2] \in Nat \ {0}
  BY SettingsAssumption
<1>3. IsBuffer(pixel_buffer_) /\ pixel_buffer_.width \in Nat \ {0} /\ pixel_buffer_.height \in Nat \ {0}
  BY <1>1, <1>2 DEF IsBuffer
<1> QED
  BY <1>3 DEF Init, WalkInv, LoopsOK, PassOK

\* The loops go on by one pixel.
LEMMA NextPixelFacts ==
    ASSUME WalkInv, NextPixel, buffer_y < pixel_buffer_.height,
           pixel_buffer_.width' = pixel_buffer_.width,
           pixel_buffer_.height' = pixel_buffer_.height
    PROVE  /\ LoopsOK'
           /\ <<buffer_x, buffer_y>> \in Positions(pixel_buffer_)
           /\ \A p \in Positions(pixel_buffer_) : Before(p, buffer_x, buffer_y)'
                <=> (Before(p, buffer_x, buffer_y) \/ p = <<buffer_x, buffer_y>>)
<1> DEFINE w == pixel_buffer_.width
           h == pixel_buffer_.height
<1>1. /\ w \in Nat /\ w > 0 /\ h \in Nat
      /\ buffer_x \in 0 .. w - 1 /\ buffer_y \in 0 .. h - 1
  BY DEF WalkInv, IsBuffer, LoopsOK
<1>2. <<buffer_x, buffer_y>> \in Positions(pixel_buffer_)
  BY <1>1 DEF Positions
<1>3. CASE buffer_x + 1 = w
  <2>1. buffer_x' = 0 /\ buffer_y' = buffer_y + 1
    BY <1>1, <1>3 DEF NextPixel
  <2> QED
    BY <1>1, <1>2, <1>3, <2>1 DEF LoopsOK, Positions, Before
<1>4. CASE buffer_x + 1 < w
  <2>1. buffer_x' = buffer_x + 1 /\ buffer_y' = buffer_y
    BY <1>1, <1>4 DEF NextPixel
  <2> QED
    BY <1>1, <1>2, <1>4, <2>1 DEF LoopsOK, Positions, Before
<1> QED
  BY <1>1, <1>3, <1>4

-----------------------------------------------------------------------------
(* The steps                                                               *)

LEMMA SetConvolvedFacts ==
    ASSUME WalkInv, SetConvolved
    PROVE  WalkInv' /\ AtOnce
<1> DEFINE at == <<buffer_x, buffer_y>>
<1>1. /\ pass = "convolution" /\ buffer_y < pixel_buffer_.height /\ NextPixel
      /\ pixel_buffer_' = set_valid_pixel(pixel_buffer_, at[1], at[2],
                            Apply(kernel_, buffer_copy, at[1], at[2], setting))
      /\ IsBuffer(pixel_buffer_)
  BY DEF SetConvolved, SetPixel, WalkInv
<1>2. at \in Positions(pixel_buffer_)
  BY <1>1 DEF WalkInv, LoopsOK, IsBuffer, Positions
<1> HIDE DEF at
<1>3. /\ IsBuffer(pixel_buffer_)'
      /\ pixel_buffer_.width' = pixel_buffer_.width
      /\ pixel_buffer_.height' = pixel_buffer_.height
      /\ Positions(pixel_buffer_)' = Positions(pixel_buffer_)
      /\ \A p \in Positions(pixel_buffer_) : get_valid_pixel(pixel_buffer_', p[1], p[2]) =
            IF p = at THEN Apply(kernel_, buffer_copy, at[1], at[2], setting)
            ELSE get_valid_pixel(pixel_buffer_, p[1], p[2])
  BY <1>1, <1>2, WrittenFacts
<1>4. /\ LoopsOK'
      /\ \A p \in Positions(pixel_buffer_) : Before(p, buffer_x, buffer_y)'
            <=> (Before(p, buffer_x, buffer_y) \/ p = at)
  BY <1>1, <1>3, NextPixelFacts DEF at
<1>5. pass' = pass /\ kernel_' = kernel_ /\ setting' = setting /\ buffer_copy' = buffer_copy
  BY <1>1 DEF NextPixel
<1>6. PassOK'
  BY <1>1, <1>3, <1>4, <1>5 DEF WalkInv, PassOK
<1>7. Picture' = Picture
  BY <1>1, <1>3, <1>5 DEF Picture
<1> QED
  BY <1>3, <1>4, <1>6, <1>7 DEF WalkInv, AtOnce

LEMMA SetPointwiseFacts ==
    ASSUME WalkInv, SetPointwise
    PROVE  WalkInv' /\ AtOnce
<1> DEFINE at == <<buffer_x, buffer_y>>
           Now(p) == get_valid_pixel(pixel_buffer_, p[1], p[2])
<1>1. /\ pass \notin {"none", "convolution"}
      /\ buffer_y < pixel_buffer_.height /\ NextPixel
      /\ pixel_buffer_' = set_valid_pixel(pixel_buffer_, at[1], at[2], NewColour(Now(at)))
      /\ IsBuffer(pixel_buffer_)
  BY DEF SetPointwise, SetPixel, WalkInv
<1>2. /\ at \in Positions(pixel_buffer_)
      /\ ~Before(at, buffer_x, buffer_y)
  BY <1>1 DEF WalkInv, LoopsOK, IsBuffer, Positions, Before
<1> HIDE DEF at
<1>3. /\ IsBuffer(pixel_buffer_)'
      /\ pixel_buffer_.width' = pixel_buffer_.width
      /\ pixel_buffer_.height' = pixel_buffer_.height
      /\ Positions(pixel_buffer_)' = Positions(pixel_buffer_)
      /\ \A p \in Positions(pixel_buffer_) : get_valid_pixel(pixel_buffer_', p[1], p[2]) =
            IF p = at THEN NewColour(Now(at)) ELSE Now(p)
  BY <1>1, <1>2, WrittenFacts
<1>4. /\ LoopsOK'
      /\ \A p \in Positions(pixel_buffer_) : Before(p, buffer_x, buffer_y)'
            <=> (Before(p, buffer_x, buffer_y) \/ p = at)
  BY <1>1, <1>3, NextPixelFacts DEF at
<1>5. pass' = pass /\ setting' = setting
  BY <1>1 DEF NextPixel
<1>6. PassOK'
  BY <1>1, <1>5 DEF WalkInv, PassOK
<1>7. \A v : NewColour(v)' = NewColour(v)
  BY <1>5 DEF NewColour
<1>8. Picture' = Picture
  <2>1. Picture = [p \in Positions(pixel_buffer_) |->
            IF Before(p, buffer_x, buffer_y) THEN Now(p) ELSE NewColour(Now(p))]
    BY <1>1 DEF Picture
  <2>2. Picture' = [p \in Positions(pixel_buffer_) |->
            IF Before(p, buffer_x, buffer_y)' THEN get_valid_pixel(pixel_buffer_', p[1], p[2])
            ELSE NewColour(get_valid_pixel(pixel_buffer_', p[1], p[2]))]
    BY <1>1, <1>3, <1>5, <1>7 DEF Picture
  <2>3. ASSUME NEW p \in Positions(pixel_buffer_)
        PROVE  (IF Before(p, buffer_x, buffer_y)' THEN get_valid_pixel(pixel_buffer_', p[1], p[2])
                ELSE NewColour(get_valid_pixel(pixel_buffer_', p[1], p[2])))
             = (IF Before(p, buffer_x, buffer_y) THEN Now(p) ELSE NewColour(Now(p)))
    BY <1>2, <1>3, <1>4
  <2> HIDE DEF Now
  <2> QED
    BY <2>1, <2>2, <2>3
<1> QED
  BY <1>3, <1>4, <1>6, <1>8 DEF WalkInv, AtOnce

\* When the loops end they have visited every position.
LEMMA ReturnFacts ==
    ASSUME WalkInv, Return
    PROVE  WalkInv' /\ AtOnce
<1>1. /\ pass # "none" /\ pass' = "none" /\ buffer_y = pixel_buffer_.height
      /\ UNCHANGED <<pixel_buffer_, kernel_, setting, buffer_x, buffer_y>>
  BY DEF Return
<1>2. WalkInv'
  BY <1>1 DEF WalkInv, LoopsOK, PassOK
<1>3. \A p \in Positions(pixel_buffer_) : Before(p, buffer_x, buffer_y)
  BY <1>1 DEF WalkInv, IsBuffer, Positions, Before
<1>4. Picture' = [p \in Positions(pixel_buffer_) |-> get_valid_pixel(pixel_buffer_, p[1], p[2])]
  BY <1>1 DEF Picture
<1>5. CASE pass = "convolution"
  <2>1. \A p \in Positions(pixel_buffer_) : get_valid_pixel(pixel_buffer_, p[1], p[2])
            = Apply(kernel_, buffer_copy, p[1], p[2], setting)
    BY <1>3, <1>5 DEF WalkInv, PassOK
  <2> QED
    BY <1>1, <1>2, <1>4, <1>5, <2>1 DEF AtOnce, ConvolvedPicture
<1>6. CASE pass # "convolution"
  <2>1. Picture = [p \in Positions(pixel_buffer_) |-> get_valid_pixel(pixel_buffer_, p[1], p[2])]
    BY <1>1, <1>3, <1>6 DEF Picture
  <2> QED
    BY <1>2, <1>4, <2>1 DEF AtOnce
<1> QED
  BY <1>5, <1>6

\* When a pass starts, its loops have visited nothing.
LEMMA StartPassFacts ==
    ASSUME WalkInv, NEW filter \in {"convolution"} \cup PointFilters, NEW s, NEW copy,
           StartPass(filter, s, copy), filter = "convolution" => copy = pixel_buffer_
    PROVE  WalkInv' /\ AtOnce
<1> DEFINE Now(p) == get_valid_pixel(pixel_buffer_, p[1], p[2])
<1>1. /\ pass = "none" /\ pass' = filter /\ setting' = s /\ buffer_copy' = copy
      /\ buffer_x' = 0 /\ buffer_y' = 0 /\ pixel_buffer_' = pixel_buffer_
  BY DEF StartPass
<1>2. \A p \in Positions(pixel_buffer_) : ~Before(p, 0, 0)
  BY DEF WalkInv, IsBuffer, Positions, Before
<1>3. WalkInv'
  <2>1. LoopsOK'
    BY <1>1 DEF WalkInv, IsBuffer, LoopsOK
  <2>2. PassOK'
    BY <1>1, <1>2 DEF PassOK
  <2> QED
    BY <1>1, <2>1, <2>2 DEF WalkInv
<1>4. Picture = [p \in Positions(pixel_buffer_) |-> Now(p)]
  BY <1>1 DEF Picture
<1>5. CASE filter = "convolution"
  <2>1. Picture' = [p \in Positions(pixel_buffer_) |-> Now(p)]
    BY <1>1, <1>5 DEF Picture
  <2> QED
    BY <1>3, <1>4, <2>1 DEF AtOnce
<1>6. CASE filter \in PointFilters
  <2>1. \A v : NewColour(v)' = Recoloured(pass', setting', v)
    BY DEF NewColour, Recoloured
  <2>2. Picture' = [p \in Positions(pixel_buffer_) |-> NewColour(Now(p))']
    <3>1. pass' # "none" /\ pass' # "convolution"
      BY <1>1, <1>6 DEF PointFilters
    <3> QED
      BY <1>1, <1>2, <3>1 DEF Picture
  <2>3. Picture' = [p \in Positions(pixel_buffer_) |-> Recoloured(pass', setting', Picture[p])]
    BY <1>1, <1>4, <2>1, <2>2
  <2> QED
    BY <1>1, <1>3, <1>6, <2>3 DEF AtOnce
<1> QED
  BY <1>5, <1>6

LEMMA NextFacts ==
    ASSUME WalkInv, Next
    PROVE  WalkInv' /\ AtOnce
<1>1. CASE \/ \E amount \in Amount :
                ApplyBlur(amount) \/ ApplySharpen(amount) \/ ApplyMotionBlur(amount)
           \/ ApplyEdgeDetect
           \/ ApplySpecial
  <2>1. \E bias : StartPass("convolution", bias, pixel_buffer_)
    BY <1>1 DEF ApplyBlur, ApplySharpen, ApplyMotionBlur, ApplyEdgeDetect,
                ApplySpecial, ApplyConvolutionFilter
  <2> QED
    BY <2>1, StartPassFacts
<1>2. CASE \/ \E level \in Level : ApplyThreshold(level)
           \/ \E factor \in Factor : ApplyChannel(factor)
           \/ \E bins \in Bins : ApplyQuantize(bins)
  <2>1. \E filter \in PointFilters : \E s : StartPass(filter, s, NoBuffer)
    BY <1>2 DEF ApplyThreshold, ApplyChannel, ApplyQuantize, PointFilters
  <2>2. "convolution" \notin PointFilters
    BY DEF PointFilters
  <2> QED
    BY <2>1, <2>2, StartPassFacts
<1> QED
  BY <1>1, <1>2, SetConvolvedFacts, SetPointwiseFacts, ReturnFacts DEF Next

\* The loops never show: on a canvas of any size the picture is replaced as a
\* whole, although it is overwritten pixel by pixel and every result is stored
\* where a later one might read.
THEOREM FilteredAtOnceHolds == Spec => FilteredAtOnce
<1>1. WalkInv /\ [Next]_vars => WalkInv' /\ [AtOnce]_vars
  <2> SUFFICES ASSUME WalkInv, [Next]_vars PROVE WalkInv' /\ [AtOnce]_vars
    OBVIOUS
  <2>1. CASE Next
    BY <2>1, NextFacts
  <2>2. CASE UNCHANGED vars
    BY <2>2 DEF vars, WalkInv, LoopsOK, PassOK
  <2> QED
    BY <2>1, <2>2
<1> QED
  BY <1>1, InitWalkInv, PTL DEF Spec, FilteredAtOnce

-----------------------------------------------------------------------------
(* The colours.  What is under way is one of the filters with a setting it *)
(* can have; a convolution has a copy of the whole canvas.                 *)

\* The kernels and biases of the convolutions.
Chosen(kernel, bias) ==
    \/ /\ \E amount \in Amount, function \in Averaging :
                kernel = KernelInit(2 * amount, function)
       /\ bias = 0
    \/ kernel = KernelInit(3, "EDGE_DETECT") /\ bias = 0
    \/ kernel = KernelInit(3, "EMBOSS") /\ bias = One \div 2

SettingOK ==
    /\ pass = "convolution" => Chosen(kernel_, setting)
    /\ pass = "threshold" => setting \in Level
    /\ pass = "channel" => setting \in Factor
    /\ pass = "quantize" => setting \in Bins

CopyOK ==
    /\ buffer_copy = NoBuffer \/ IsPicture(buffer_copy)
    /\ pass = "convolution" => /\ IsPicture(buffer_copy)
                               /\ buffer_copy.width = pixel_buffer_.width
                               /\ buffer_copy.height = pixel_buffer_.height

PictureInv ==
    /\ WalkInv
    /\ InGamut(pixel_buffer_)
    /\ <<pixel_buffer_.width, pixel_buffer_.height>> \in Dimensions
    /\ kernel_ = NoKernel \/ \E bias : Chosen(kernel_, bias)
    /\ SettingOK
    /\ CopyOK
    /\ passes \in 0 .. MaxPasses

LEMMA ChosenFacts ==
    ASSUME NEW kernel, NEW bias, Chosen(kernel, bias)
    PROVE  /\ \E n \in Nat, function \in KernelFunction : kernel = KernelInit(n, function)
           /\ bias \in Int
           /\ kernel.size % 2 = 1
<1>1. /\ \A amount \in Amount : 2 * amount \in Nat
      /\ 3 \in Nat
  BY SettingsAssumption
<1>2. Averaging \subseteq KernelFunction /\ {"EDGE_DETECT", "EMBOSS"} \subseteq KernelFunction
  BY DEF Averaging, KernelFunction
<1>3. \E n \in Nat, function \in KernelFunction : kernel = KernelInit(n, function)
  BY <1>1, <1>2 DEF Chosen
<1>4. bias \in Int
  <2>1. One \div 2 \in Int
    BY OneAssumption
  <2> QED
    BY <2>1 DEF Chosen
<1> QED
  BY <1>3, <1>4, KernelFacts

\* The nearest bin is one of the bins, and its colour a colour.
LEMMA NearestBin ==
    ASSUME NEW v \in 0 .. One, NEW b \in Nat, b > 0
    PROVE  rint(v * b, One) \in 0 .. b
<1> DEFINE n == v * b
           q == n \div One
<1>1. /\ n \in Nat /\ One * b \in Nat /\ n <= One * b
  <2>1. (One - v) * b \in Nat /\ n \in Nat
    BY OneAssumption
  <2>2. One * b = n + (One - v) * b
    BY OneAssumption
  <2> QED
    BY <2>1, <2>2
<1> HIDE DEF n
<1>2. n % One \in 0 .. One - 1 /\ q \in Nat /\ n = (n % One) + One * q
  BY <1>1, DivisionFacts, OneAssumption
<1> HIDE DEF q
<1>3. q <= b
  <2> SUFFICES ASSUME b < q PROVE FALSE
    BY <1>2
  <2>1. One * b + One <= One * q /\ One * q \in Nat
    BY <1>2, RowFacts, OneAssumption
  <2> QED
    BY <1>1, <1>2, <2>1, OneAssumption
<1>4. q = b => n % One = 0
  <2> SUFFICES ASSUME q = b PROVE n % One = 0
    OBVIOUS
  <2>1. n = (n % One) + One * b
    BY <1>2
  <2> QED
    BY <1>1, <1>2, <2>1
<1>5. rint(n, One) = IF 2 * (n % One) > One \/ (2 * (n % One) = One /\ q % 2 = 1)
                     THEN q + 1 ELSE q
  BY DEF rint, q
<1>6. rint(n, One) \in 0 .. b
  BY <1>2, <1>3, <1>4, <1>5, OneAssumption
<1> QED
  BY <1>6 DEF n

LEMMA QuantizeInGamut ==
    ASSUME NEW v \in 0 .. One, NEW bins \in Bins
    PROVE  Quantize(v, bins) \in 0 .. One
<1> DEFINE b == bins - 1
           m == rint(v * b, One)
           n == m * One
<1>1. b \in Nat /\ b > 0
  BY SettingsAssumption
<1>2. m \in 0 .. b
  BY <1>1, NearestBin
<1>3. Quantize(v, bins) = n \div b
  BY DEF Quantize
<1> HIDE DEF b, m
<1>4. n \in Nat /\ b * One \in Nat /\ n <= b * One
  <2>1. (b - m) * One \in Nat /\ n \in Nat
    BY <1>1, <1>2, OneAssumption
  <2>2. b * One = n + (b - m) * One
    BY <1>1, <1>2, OneAssumption
  <2> QED
    BY <2>1, <2>2
<1> DEFINE q == n \div b
<1> HIDE DEF n
<1>5. n % b \in 0 .. b - 1 /\ q \in Nat /\ n = (n % b) + b * q
  BY <1>1, <1>4, DivisionFacts
<1> HIDE DEF q
<1>6. q <= One
  <2> SUFFICES ASSUME One < q PROVE FALSE
    BY <1>5, OneAssumption
  <2>1. b * One + b <= b * q /\ b * q \in Nat
    BY <1>1, <1>5, RowFacts, OneAssumption
  <2> QED
    BY <1>1, <1>4, <1>5, <2>1
<1> QED
  BY <1>3, <1>5, <1>6, OneAssumption DEF q

LEMMA NewColourInGamut ==
    ASSUME pass \in PointFilters, SettingOK, NEW v \in 0 .. One
    PROVE  NewColour(v) \in 0 .. One
<1>1. CASE pass = "threshold"
  BY <1>1, OneAssumption DEF NewColour, Threshold
<1>2. CASE pass = "channel"
  <2>1. setting \in Factor
    BY <1>2 DEF SettingOK
  <2>2. v \in Int /\ setting \in Int
    BY <2>1, SettingsAssumption, OneAssumption
  <2>3. v * setting \in Int
    BY <2>2
  <2> QED
    BY <1>2, <2>3, ClampedInGamut DEF NewColour, Channel
<1>3. CASE pass = "quantize"
  BY <1>3, QuantizeInGamut DEF NewColour, SettingOK
<1> QED
  BY <1>1, <1>2, <1>3 DEF PointFilters

-----------------------------------------------------------------------------

LEMMA InitPictureInv == Init => PictureInv
<1> SUFFICES ASSUME Init PROVE PictureInv
  OBVIOUS
<1>1. PICK d \in Dimensions : \E colours \in [0 .. d[1] * d[2] - 1 -> Colour] :
            pixel_buffer_ = [width |-> d[1], height |-> d[2], pixels |-> colours]
  BY DEF Init
<1>2. d = <<d[1], d[2]>>
  BY SettingsAssumption
<1>3. InGamut(pixel_buffer_)
  <2> DEFINE D == 0 .. d[1] * d[2] - 1
  <2>1. PICK colours \in [D -> Colour] :
            pixel_buffer_ = [width |-> d[1], height |-> d[2], pixels |-> colours]
    BY <1>1
  <2>2. /\ 0 .. pixel_buffer_.width * pixel_buffer_.height - 1 = D
        /\ pixel_buffer_.pixels = colours
    BY <2>1
  <2> HIDE DEF D
  <2>3. pixel_buffer_.pixels \in [D -> 0 .. One]
    BY <2>1, <2>2, SettingsAssumption
  <2> QED
    BY <2>2, <2>3 DEF InGamut
<1> QED
  BY <1>1, <1>2, <1>3, InitWalkInv, SettingsAssumption
  DEF Init, PictureInv, SettingOK, CopyOK

\* A colour is written where the loops are.
LEMMA PaintedPictureInv ==
    ASSUME PictureInv, WalkInv', buffer_y < pixel_buffer_.height, NextPixel,
           NEW v \in 0 .. One, SetPixel(v)
    PROVE  PictureInv'
<1> DEFINE at == <<buffer_x, buffer_y>>
<1>1. at \in Positions(pixel_buffer_)
  BY DEF PictureInv, WalkInv, LoopsOK, IsBuffer, Positions
<1>2. pixel_buffer_' = set_valid_pixel(pixel_buffer_, at[1], at[2], v)
  BY DEF SetPixel
<1>3. IsPicture(pixel_buffer_)
  BY DEF PictureInv, WalkInv, IsPicture
<1> HIDE DEF at
<1>4. IsPicture(pixel_buffer_')
  BY <1>1, <1>2, <1>3, WrittenInGamut
<1>5. pixel_buffer_'.width = pixel_buffer_.width /\ pixel_buffer_'.height = pixel_buffer_.height
  BY <1>1, <1>2, <1>3, WrittenFacts DEF IsPicture
<1>6. UNCHANGED <<kernel_, pass, setting, buffer_copy, passes>>
  BY DEF NextPixel
<1> QED
  BY <1>4, <1>5, <1>6 DEF PictureInv, IsPicture, SettingOK, CopyOK

LEMMA NextPictureInv ==
    ASSUME PictureInv, Next
    PROVE  PictureInv'
<1>1. WalkInv'
  BY NextFacts DEF PictureInv
<1>2. CASE SetConvolved
  <2>1. PICK n \in Nat, function \in KernelFunction : kernel_ = KernelInit(n, function)
    BY <1>2, ChosenFacts DEF SetConvolved, PictureInv, SettingOK
  <2>2. IsPicture(buffer_copy) /\ setting \in Int /\ buffer_x \in Int /\ buffer_y \in Int
    BY <1>2, ChosenFacts DEF SetConvolved, PictureInv, SettingOK, CopyOK, WalkInv, LoopsOK, IsBuffer
  <2>3. Apply(kernel_, buffer_copy, buffer_x, buffer_y, setting) \in 0 .. One
    BY <2>1, <2>2, ApplyInGamut
  <2> QED
    BY <1>1, <1>2, <2>3, PaintedPictureInv DEF SetConvolved
<1>3. CASE SetPointwise
  <2> DEFINE at == <<buffer_x, buffer_y>>
  <2>1. at \in Positions(pixel_buffer_) /\ IsPicture(pixel_buffer_)
    BY <1>3 DEF SetPointwise, PictureInv, WalkInv, LoopsOK, IsBuffer, Positions, IsPicture
  <2>2. get_valid_pixel(pixel_buffer_, at[1], at[2]) \in 0 .. One
    BY <2>1, PixelInGamut
  <2>3. pass \in PointFilters /\ SettingOK
    BY <1>3 DEF SetPointwise, PictureInv, WalkInv, PassOK
  <2>4. NewColour(get_valid_pixel(pixel_buffer_, buffer_x, buffer_y)) \in 0 .. One
    BY <2>2, <2>3, NewColourInGamut
  <2> QED
    BY <1>1, <1>3, <2>4, PaintedPictureInv DEF SetPointwise
<1>4. CASE Return
  BY <1>1, <1>4 DEF Return, PictureInv, SettingOK, CopyOK
<1>5. ASSUME NEW bias, ApplyConvolutionFilter(bias), Chosen(kernel_', bias)
      PROVE  PictureInv'
  <2>1. IsPicture(pixel_buffer_)
    BY DEF PictureInv, WalkInv, IsPicture
  <2>2. passes' \in 0 .. MaxPasses
    BY <1>5, SettingsAssumption DEF ApplyConvolutionFilter, StartPass, PictureInv
  <2>3. /\ pixel_buffer_' = pixel_buffer_ /\ buffer_copy' = pixel_buffer_
        /\ pass' = "convolution" /\ setting' = bias
    BY <1>5 DEF ApplyConvolutionFilter, StartPass
  <2>4. SettingOK' /\ CopyOK'
    BY <1>5, <2>1, <2>3 DEF SettingOK, CopyOK, Chosen
  <2> QED
    BY <1>1, <1>5, <2>2, <2>3, <2>4 DEF PictureInv, Chosen
<1>6. CASE \/ \E amount \in Amount :
                ApplyBlur(amount) \/ ApplySharpen(amount) \/ ApplyMotionBlur(amount)
           \/ ApplyEdgeDetect
           \/ ApplySpecial
  <2>1. \E bias : ApplyConvolutionFilter(bias) /\ Chosen(kernel_', bias)
    BY <1>6 DEF ApplyBlur, ApplySharpen, ApplyMotionBlur, ApplyEdgeDetect, ApplySpecial,
                Chosen, Averaging, KernelFunction
  <2> QED
    BY <1>5, <2>1
<1>7. CASE \/ \E level \in Level : ApplyThreshold(level)
           \/ \E factor \in Factor : ApplyChannel(factor)
           \/ \E bins \in Bins : ApplyQuantize(bins)
  <2>1. passes' \in 0 .. MaxPasses
    BY <1>7, SettingsAssumption
    DEF ApplyThreshold, ApplyChannel, ApplyQuantize, StartPass, PictureInv
  <2>2. /\ UNCHANGED <<pixel_buffer_, kernel_>> /\ buffer_copy' = NoBuffer
        /\ \/ pass' = "threshold" /\ setting' \in Level
           \/ pass' = "channel" /\ setting' \in Factor
           \/ pass' = "quantize" /\ setting' \in Bins
    BY <1>7 DEF ApplyThreshold, ApplyChannel, ApplyQuantize, StartPass
  <2>3. SettingOK' /\ CopyOK'
    BY <2>2 DEF SettingOK, CopyOK
  <2> QED
    BY <1>1, <2>1, <2>2, <2>3 DEF PictureInv
<1> QED
  BY <1>2, <1>3, <1>4, <1>6, <1>7 DEF Next

LEMMA StutterPictureInv == PictureInv /\ UNCHANGED vars => PictureInv'
BY DEF vars, PictureInv, WalkInv, LoopsOK, PassOK, SettingOK, CopyOK

\* Whatever filters follow each other, no pixel leaves the gamut and the loops, the
\* kernel and the copy stay what a pass on this canvas can have.
THEOREM TypeCorrect == Spec => []TypeOK
<1>1. PictureInv => TypeOK
  <2> SUFFICES ASSUME PictureInv PROVE TypeOK
    OBVIOUS
  <2>1. kernel_ # NoKernel => kernel_.size % 2 = 1
    BY ChosenFacts DEF PictureInv
  <2> QED
    BY <2>1 DEF PictureInv, TypeOK, WalkInv, LoopsOK, PassOK, PointFilters, CopyOK, IsPicture
<1> QED
  BY <1>1, InitPictureInv, NextPictureInv, StutterPictureInv, PTL DEF Spec

-----------------------------------------------------------------------------
(* Canvases of one colour.  The sums over a kernel that is cut off at an   *)
(* edge are those of the neighbours that exist, and the weights of a blur  *)
(* or of Sharpen add up to a positive number however they are cut off.     *)

UniformInv == PictureInv /\ UniformStaysUniform

\* Writing the colour that is there.
LEMMA WriteSame ==
    ASSUME NEW b, IsBuffer(b), NEW at \in Positions(b)
    PROVE  set_valid_pixel(b, at[1], at[2], get_valid_pixel(b, at[1], at[2])) = b
<1> DEFINE i == Index(b, at[1], at[2])
<1>1. i \in DOMAIN b.pixels
  BY IndexFacts
<1> HIDE DEF i
<1>2. [b.pixels EXCEPT ![i] = b.pixels[i]] = b.pixels
  BY <1>1 DEF IsBuffer
<1>3. b = [width |-> b.width, height |-> b.height, pixels |-> b.pixels]
  BY DEF IsBuffer
<1>4. [b EXCEPT !.pixels[i] = b.pixels[i]] = b
  BY <1>2, <1>3
<1> QED
  BY <1>4 DEF set_valid_pixel, get_valid_pixel, i

LEMMA UniformPixels ==
    ASSUME NEW b, IsPicture(b), Uniform(b)
    PROVE  \E v \in 0 .. One : \A p \in Positions(b) : get_valid_pixel(b, p[1], p[2]) = v
<1>1. PICK v \in 0 .. One : \A i \in DOMAIN b.pixels : b.pixels[i] = v
  BY DEF Uniform
<1>2. \A p \in Positions(b) : Index(b, p[1], p[2]) \in DOMAIN b.pixels
  BY IndexFacts DEF IsPicture
<1> QED
  BY <1>1, <1>2 DEF get_valid_pixel

LEMMA ConvolvedUniform ==
    ASSUME UniformInv, SetConvolved
    PROVE  UniformStaysUniform'
<1> SUFFICES ASSUME kernel_.function \notin {"EDGE_DETECT", "EMBOSS"}, Uniform(buffer_copy)
             PROVE  pixel_buffer_' = buffer_copy
  BY DEF SetConvolved, NextPixel, UniformStaysUniform, Uniform
<1> DEFINE at == <<buffer_x, buffer_y>>
<1>1. /\ pass = "convolution" /\ IsPicture(buffer_copy) /\ pixel_buffer_ = buffer_copy
      /\ Chosen(kernel_, setting)
  BY DEF SetConvolved, UniformInv, UniformStaysUniform, PictureInv, SettingOK, CopyOK
<1>2. /\ at \in Positions(buffer_copy)
      /\ pixel_buffer_' = set_valid_pixel(buffer_copy, at[1], at[2],
                            Apply(kernel_, buffer_copy, at[1], at[2], setting))
  BY <1>1 DEF SetConvolved, SetPixel, UniformInv, PictureInv, WalkInv, LoopsOK, IsBuffer, Positions
<1>3. \E amount \in Amount, function \in Averaging : kernel_ = KernelInit(2 * amount, function)
  BY <1>1 DEF Chosen, KernelInit
<1>4. PICK n \in Nat, function \in Averaging : kernel_ = KernelInit(n, function)
  BY <1>3, SettingsAssumption
<1>5. setting = 0
  BY <1>1 DEF Chosen, KernelInit
<1>6. PICK v \in 0 .. One :
        \A p \in Positions(buffer_copy) : get_valid_pixel(buffer_copy, p[1], p[2]) = v
  BY <1>1, UniformPixels
<1> HIDE DEF at
<1>7. Apply(kernel_, buffer_copy, at[1], at[2], setting) = v
  BY <1>1, <1>2, <1>4, <1>5, <1>6, UniformKept
<1> QED
  BY <1>1, <1>2, <1>6, <1>7, WriteSame DEF IsPicture

\* On a canvas of one colour, of any size, the blurs and Sharpen change nothing,
\* neither at the edges nor at any time of the pass.
THEOREM UniformHolds == Spec => []UniformStaysUniform
<1>1. Init => UniformInv
  BY InitPictureInv DEF UniformInv, UniformStaysUniform, Init
<1>2. ASSUME UniformInv, [Next]_vars PROVE UniformInv'
  <2>1. CASE Next
    <3>1. PictureInv'
      BY <1>2, <2>1, NextPictureInv DEF UniformInv
    <3>2. CASE SetConvolved
      BY <1>2, <3>1, <3>2, ConvolvedUniform DEF UniformInv
    <3>3. CASE SetPointwise \/ Return
      <4>1. pass' # "convolution"
        BY <3>3 DEF SetPointwise, Return, NextPixel
      <4> QED
        BY <3>1, <4>1 DEF UniformInv, UniformStaysUniform
    <3>4. ASSUME NEW filter, NEW s, NEW copy, StartPass(filter, s, copy),
                 filter = "convolution" => copy = pixel_buffer_
          PROVE  UniformInv'
      <4>1. pass' = "convolution" => pixel_buffer_' = buffer_copy'
        BY <3>4 DEF StartPass
      <4> QED
        BY <3>1, <4>1 DEF UniformInv, UniformStaysUniform
    <3>5. CASE ~(SetConvolved \/ SetPointwise \/ Return)
      <4>1. \E filter, s, copy : /\ StartPass(filter, s, copy)
                                 /\ filter = "convolution" => copy = pixel_buffer_
        BY <2>1, <3>5 DEF Next, ApplyBlur, ApplySharpen, ApplyMotionBlur, ApplyEdgeDetect,
            ApplySpecial, ApplyConvolutionFilter, ApplyThreshold, ApplyChannel, ApplyQuantize
      <4> QED
        BY <3>4, <4>1
    <3> QED
      BY <3>2, <3>3, <3>5
  <2>2. CASE UNCHANGED vars
    BY <1>2, <2>2, StutterPictureInv DEF UniformInv, UniformStaysUniform, vars, Uniform
  <2> QED
    BY <1>2, <2>1, <2>2
<1>3. UniformInv => UniformStaysUniform
  BY DEF UniformInv
<1> QED
  BY <1>1, <1>2, <1>3, PTL DEF Spec

-----------------------------------------------------------------------------
(* The abstract specification.  Filtered has definitions of its own of the *)
(* sums, and gives a filter by the weights of the distances.               *)

LEMMA SameSum == ASSUME NEW f PROVE Filtered!SumFunction(f) = SumFunctionOnSet(f, DOMAIN f)
BY DEF Filtered!SumFunction, Filtered!SumFunctionOnSet, Filtered!FoldFunctionOnSet,
       Filtered!MapThenFoldSet, SumFunctionOnSet, FoldFunctionOnSet, MapThenFoldSet

\* The filter that each kernel stands for.
FilterOf(function, r) ==
    CASE function = "BLUR"        -> Filtered!Diamond(r)
      [] function = "BLUR_N_S"    -> Filtered!Column(r)
      [] function = "BLUR_E_W"    -> Filtered!Row(r)
      [] function = "BLUR_NE_SW"  -> Filtered!Rising(r)
      [] function = "BLUR_NW_SE"  -> Filtered!Falling(r)
      [] function = "SHARPEN"     -> Filtered!Sharp(r)
      [] function = "EDGE_DETECT" -> Filtered!Edges
      [] function = "EMBOSS"      -> Filtered!Relief

\* The middle of a kernel of radius r is at r.
LEMMA MiddleFacts ==
    ASSUME NEW r \in Nat
    PROVE  (2 * r + 1) \div 2 = r /\ 2 * r + 1 \in Nat /\ (2 * r + 1) % 2 = 1
OBVIOUS

LEMMA FilterOfFacts ==
    ASSUME NEW r \in Nat, NEW function \in KernelFunction,
           function \notin Averaging => r = 1,
           NEW f, f = FilterOf(function, r)
    PROVE  /\ f.radius = r
           /\ f.bias = IF function = "EMBOSS" THEN One \div 2 ELSE 0
           /\ \A dx, dy \in -r .. r : f.weight[<<dx, dy>>] =
                    KernelValue(function, dx + r, dy + r, 2 * r + 1)
<1> DEFINE size == 2 * r + 1
<1>1. /\ f.radius = r
      /\ f.bias = IF function = "EMBOSS" THEN One \div 2 ELSE 0
  BY DEF FilterOf, KernelFunction, Averaging, Filtered!Diamond, Filtered!Column, Filtered!Row,
         Filtered!Rising, Filtered!Falling, Filtered!Sharp, Filtered!Edges, Filtered!Relief
<1>2. ASSUME NEW dx \in -r .. r, NEW dy \in -r .. r
      PROVE  f.weight[<<dx, dy>>] = KernelValue(function, dx + r, dy + r, size)
  <2> DEFINE d == <<dx, dy>>
             col == dx + r
             row == dy + r
  <2>1. d \in Filtered!Around(r) /\ d[1] = dx /\ d[2] = dy
    BY DEF Filtered!Around
  <2>2. /\ size \div 2 = r /\ dx \in Int /\ dy \in Int
        /\ size = 2 * r + 1
    BY MiddleFacts
  <2>3. CASE function = "BLUR"
    <3>1. f.weight[d] = Filtered!Indicator(Filtered!Abs(dx) + Filtered!Abs(dy) <= r)
      BY <2>1, <2>3 DEF FilterOf, Filtered!Diamond
    <3>2. Blur(col, row, size) = Filtered!Indicator(Filtered!Abs(dx) + Filtered!Abs(dy) <= r)
      <4> HIDE DEF size
      <4> QED
        BY <2>2 DEF Blur, Filtered!Indicator, Filtered!Abs
    <3> QED
      BY <2>3, <3>1, <3>2 DEF KernelValue
  <2>4. CASE function = "BLUR_N_S"
    <3>1. f.weight[d] = Filtered!Indicator(dx = 0)
      BY <2>1, <2>4 DEF FilterOf, Filtered!Diamond, Filtered!Column
    <3>2. Blur_N_S(col, row, size) = Filtered!Indicator(dx = 0)
      BY <2>2 DEF Blur_N_S, Filtered!Indicator
    <3> QED
      BY <2>4, <3>1, <3>2 DEF KernelValue
  <2>5. CASE function = "BLUR_E_W"
    <3>1. f.weight[d] = Filtered!Indicator(dy = 0)
      BY <2>1, <2>5 DEF FilterOf, Filtered!Diamond, Filtered!Row
    <3>2. Blur_E_W(col, row, size) = Filtered!Indicator(dy = 0)
      BY <2>2 DEF Blur_E_W, Filtered!Indicator
    <3> QED
      BY <2>5, <3>1, <3>2 DEF KernelValue
  <2>6. CASE function = "BLUR_NE_SW"
    <3>1. f.weight[d] = Filtered!Indicator(dx = -dy)
      BY <2>1, <2>6 DEF FilterOf, Filtered!Diamond, Filtered!Rising
    <3>2. Blur_NE_SW(col, row, size) = Filtered!Indicator(dx = -dy)
      BY <2>2 DEF Blur_NE_SW, Filtered!Indicator
    <3> QED
      BY <2>6, <3>1, <3>2 DEF KernelValue
  <2>7. CASE function = "BLUR_NW_SE"
    <3>1. f.weight[d] = Filtered!Indicator(dx = dy)
      BY <2>1, <2>7 DEF FilterOf, Filtered!Diamond, Filtered!Falling
    <3>2. Blur_NW_SE(col, row, size) = Filtered!Indicator(dx = dy)
      BY <2>2 DEF Blur_NW_SE, Filtered!Indicator
    <3> QED
      BY <2>7, <3>1, <3>2 DEF KernelValue
  <2>8. CASE function = "SHARPEN"
    <3>1. f.weight[d] = (4 * r + 2) * Filtered!Indicator(dx = 0 /\ dy = 0)
                            - Filtered!Indicator(dx = 0 \/ dy = 0)
      <4>1. d = <<0, 0>> <=> dx = 0 /\ dy = 0
        OBVIOUS
      <4> HIDE DEF d
      <4> QED
        BY <2>1, <2>8, <4>1 DEF FilterOf, Filtered!Diamond, Filtered!Sharp, Filtered!Indicator
    <3>2. Sharpen(col, row, size) = IF dx = 0 /\ dy = 0 THEN 4 * r + 1
                                    ELSE IF dx = 0 \/ dy = 0 THEN -1 ELSE 0
      <4>1. size * 2 - 1 = 4 * r + 1
        OBVIOUS
      <4> HIDE DEF size
      <4> QED
        BY <2>2, <4>1 DEF Sharpen
    <3>3. (4 * r + 2) * Filtered!Indicator(dx = 0 /\ dy = 0) - Filtered!Indicator(dx = 0 \/ dy = 0)
            = IF dx = 0 /\ dy = 0 THEN 4 * r + 1 ELSE IF dx = 0 \/ dy = 0 THEN -1 ELSE 0
      BY DEF Filtered!Indicator
    <3> QED
      BY <2>8, <3>1, <3>2, <3>3 DEF KernelValue
  <2>9. CASE function = "EDGE_DETECT"
    <3>1. r = 1 /\ size = 3
      BY <2>9 DEF Averaging
    <3>2. f.weight[d] = 9 * Filtered!Indicator(dx = 0 /\ dy = 0) - 1
      <4>1. d = <<0, 0>> <=> dx = 0 /\ dy = 0
        OBVIOUS
      <4> HIDE DEF d
      <4> QED
        BY <2>1, <2>9, <3>1, <4>1 DEF FilterOf, Filtered!Diamond, Filtered!Edges, Filtered!Indicator
    <3>3. EdgeDetect(col, row, size) = IF dx = 0 /\ dy = 0 THEN 8 ELSE -1
      BY <2>2, <3>1 DEF EdgeDetect
    <3> QED
      BY <2>9, <3>2, <3>3 DEF KernelValue, Filtered!Indicator
  <2>10. CASE function = "EMBOSS"
    <3>1. r = 1 /\ size = 3
      BY <2>10 DEF Averaging
    <3>2. f.weight[d] = Filtered!Sign(dx + dy)
      BY <2>1, <2>10, <3>1 DEF FilterOf, Filtered!Relief
    <3>3. Emboss(col, row, size) = Filtered!Sign(dx + dy)
      BY <2>2, <3>1 DEF Emboss, Filtered!Sign
    <3> QED
      BY <2>10, <3>2, <3>3 DEF KernelValue
  <2> QED
    BY <2>3, <2>4, <2>5, <2>6, <2>7, <2>8, <2>9, <2>10 DEF KernelFunction
<1> QED
  BY <1>1, <1>2

\* A kernel makes of every pixel of a copy what the filter makes of the picture
\* in the copy.
LEMMA ConvolvedFacts ==
    ASSUME NEW n \in Nat, NEW r \in Nat, OddSize(n) = 2 * r + 1,
           NEW function \in KernelFunction, function \notin Averaging => r = 1,
           IsPicture(buffer_copy),
           Picture = [p \in Positions(buffer_copy) |-> get_valid_pixel(buffer_copy, p[1], p[2])],
           NEW at \in Positions(buffer_copy),
           NEW f, f = FilterOf(function, r)
    PROVE  Apply(KernelInit(n, function), buffer_copy, at[1], at[2], f.bias)
                = Filtered!Convolved(f, at)
<1> DEFINE k == KernelInit(n, function)
           x == at[1]
           y == at[2]
           S == Covered(buffer_copy, k.size, x, y)
           W == Weights(k, buffer_copy, x, y)
           L == Lights(k, buffer_copy, x, y)
           near == {p \in DOMAIN Picture : /\ Filtered!Abs(p[1] - at[1]) <= f.radius
                                           /\ Filtered!Abs(p[2] - at[2]) <= f.radius}
           w == [p \in near |-> f.weight[<<p[1] - at[1], p[2] - at[2]>>]]
           l == [p \in near |-> w[p] * Picture[p]]
           factor == SumFunctionOnSet(W, S)
           light == SumFunctionOnSet(L, S)
<1>1. /\ x \in Int /\ y \in Int /\ k.size = 2 * r + 1 /\ (2 * r + 1) \div 2 = r
      /\ \A p \in Positions(buffer_copy) : p[1] \in Int /\ p[2] \in Int
  <2>1. k.size = 2 * r + 1 /\ (2 * r + 1) \div 2 = r
    BY KernelFacts, MiddleFacts
  <2>2. \A p \in Positions(buffer_copy) : p[1] \in Int /\ p[2] \in Int
    BY DEF Positions, IsPicture, IsBuffer
  <2> QED
    BY <2>1, <2>2
<1>2. f.radius = r
  BY FilterOfFacts
<1>3. f.bias \in Int
  <2>1. f.bias = IF function = "EMBOSS" THEN One \div 2 ELSE 0
    BY FilterOfFacts
  <2>2. One \div 2 \in Int
    BY OneAssumption
  <2> QED
    BY <2>1, <2>2
<1>4. DOMAIN Picture = Positions(buffer_copy)
  OBVIOUS
<1> HIDE DEF x, y, k
<1>5. S = near
  <2>1. ASSUME NEW p \in Positions(buffer_copy)
        PROVE  (p[1] - x + r \in 0 .. 2 * r /\ p[2] - y + r \in 0 .. 2 * r)
                <=> (Filtered!Abs(p[1] - x) <= r /\ Filtered!Abs(p[2] - y) <= r)
    BY <1>1 DEF Filtered!Abs
  <2>2. S = {p \in Positions(buffer_copy) : p[1] - x + r \in 0 .. 2 * r /\ p[2] - y + r \in 0 .. 2 * r}
    <3>1. k.size \div 2 = r /\ k.size - 1 = 2 * r
      BY <1>1
    <3> QED
      BY <3>1 DEF Covered
  <2>3. near = {p \in Positions(buffer_copy) :
                    Filtered!Abs(p[1] - x) <= r /\ Filtered!Abs(p[2] - y) <= r}
    BY <1>2, <1>4 DEF x, y
  <2> QED
    BY <2>1, <2>2, <2>3
<1>6. ASSUME NEW p \in S
      PROVE  /\ W[p] = w[p] /\ w[p] \in Int
             /\ L[p] = l[p]
  <2>1. p \in Positions(buffer_copy) /\ p \in near /\ p[1] \in Int /\ p[2] \in Int
    BY <1>1, <1>5 DEF Covered
  <2> DEFINE dx == p[1] - x
             dy == p[2] - y
  <2>2. dx \in -r .. r /\ dy \in -r .. r
    <3>1. k.size \div 2 = r /\ k.size - 1 = 2 * r
      BY <1>1
    <3>2. p[1] - x + r \in 0 .. 2 * r /\ p[2] - y + r \in 0 .. 2 * r
      BY <1>6, <3>1 DEF Covered
    <3> QED
      BY <1>1, <2>1, <3>2
  <2>3. w[p] = KernelValue(function, dx + r, dy + r, 2 * r + 1)
    <3>1. w[p] = f.weight[<<dx, dy>>]
      BY <2>1 DEF x, y
    <3> HIDE DEF dx, dy, w
    <3> QED
      BY <2>2, <3>1, FilterOfFacts
  <2>4. /\ Weight(k, p, x, y) = KernelValue(function, dx + r, dy + r, 2 * r + 1)
        /\ Weight(k, p, x, y) \in Int
    BY <1>1, <1>6, WeightFacts DEF k, IsPicture
  <2>5. get_valid_pixel(buffer_copy, p[1], p[2]) \in Int
    BY <2>1, PixelInGamut, OneAssumption
  <2>6. W[p] = Weight(k, p, x, y)
    BY <1>6 DEF Weights
  <2>7. L[p] = get_valid_pixel(buffer_copy, p[1], p[2]) * Weight(k, p, x, y)
    BY <1>6 DEF Lights
  <2>8. l[p] = w[p] * get_valid_pixel(buffer_copy, p[1], p[2])
    BY <2>1
  <2> HIDE DEF w, l, W, L
  <2> QED
    BY <2>3, <2>4, <2>5, <2>6, <2>7, <2>8
<1>7. IsFiniteSet(S) /\ factor \in Int /\ light \in Int
  BY <1>1, SumsFacts DEF k
<1>8. Filtered!SumFunction(w) = factor /\ Filtered!SumFunction(l) = light
  <2>1. DOMAIN w = S /\ DOMAIN l = S
    BY <1>5
  <2> HIDE DEF w, l, W, L, S
  <2>2. SumFunctionOnSet(w, S) = factor /\ SumFunctionOnSet(l, S) = light
    BY <1>6, <1>7, SumEqual
  <2> QED
    BY <2>1, <2>2, SameSum
<1>9. Filtered!Convolved(f, at) =
        Filtered!InGamut(f.bias + Filtered!SumFunction(l) \div
            (IF Filtered!SumFunction(w) > 0 THEN Filtered!SumFunction(w) ELSE 1))
  BY DEF Filtered!Convolved
<1>10. Apply(k, buffer_copy, x, y, f.bias) =
        clamped_color(f.bias + IF factor <= 0 THEN light ELSE light \div factor)
  BY ApplySums
<1> HIDE DEF factor, light, w, l
<1>11. (IF factor <= 0 THEN light ELSE light \div factor)
            = light \div (IF factor > 0 THEN factor ELSE 1)
  <2>1. light \div 1 = light
    BY <1>7
  <2>2. factor <= 0 <=> ~(factor > 0)
    BY <1>7
  <2> QED
    BY <2>1, <2>2
<1> QED
  BY <1>8, <1>9, <1>10, <1>11 DEF clamped_color, Filtered!InGamut, k, x, y

\* Of the bins the one that rint finds is the nearest, and no other is.
LEMMA NearestIsRint ==
    ASSUME NEW v \in 0 .. One, NEW bins \in Bins
    PROVE  Filtered!Nearest(v, bins) = rint(v * (bins - 1), One)
<1> DEFINE b == bins - 1
           n == v * b
           m == rint(n, One)
           q == n \div One
           away(i) == Filtered!Abs(n - i * One)
           nearest(i) == \A j \in (0 .. b) \ {i} :
                away(i) < away(j) \/ (away(i) = away(j) /\ i % 2 = 0)
<1>1. b \in Nat /\ b > 0
  BY SettingsAssumption
<1>2. m \in 0 .. b
  BY <1>1, NearestBin
<1>3. n \in Nat
  <2> HIDE DEF b
  <2> QED
    BY <1>1, OneAssumption
<1> HIDE DEF n, b
<1> DEFINE rest == n % One
<1>4. rest \in 0 .. One - 1 /\ q \in Nat /\ n = rest + One * q
  BY <1>3, DivisionFacts, OneAssumption
<1>5. m = IF 2 * rest > One \/ (2 * rest = One /\ q % 2 = 1) THEN q + 1 ELSE q
  BY DEF rint
<1> HIDE DEF q, rest, m
\* The distances in terms of the place between two bins.
<1>6. ASSUME NEW i \in Nat
      PROVE  /\ i * One \in Nat
             /\ i <= q => n - i * One = rest + (q - i) * One /\ (q - i) * One \in Nat
             /\ i < q => (q - i) * One >= One
             /\ i > q => i * One - n = (i - q) * One - rest /\ (i - q) * One \in Nat
             /\ i > q + 1 => (i - q) * One >= 2 * One
  <2>1. i * One \in Nat /\ One * q = q * One /\ q * One \in Nat
    BY <1>4, OneAssumption
  <2>2. (q - i) * One = q * One - i * One
    BY <1>4, OneAssumption
  <2>3. (i - q) * One = i * One - q * One
    BY <1>4, OneAssumption
  <2>4. i <= q => (q - i) * One \in Nat
    BY <1>4, OneAssumption
  <2>5. i < q => (q - i) * One = (q - i - 1) * One + One /\ (q - i - 1) * One \in Nat
    BY <1>4, OneAssumption
  <2>6. i > q => (i - q) * One \in Nat
    BY <1>4, OneAssumption
  <2>7. i > q + 1 => (i - q) * One = (i - q - 2) * One + 2 * One /\ (i - q - 2) * One \in Nat
    BY <1>4, OneAssumption
  <2> QED
    BY <1>3, <1>4, <2>1, <2>2, <2>3, <2>4, <2>5, <2>6, <2>7, OneAssumption
<1>7. /\ away(q) = rest
      /\ away(q + 1) = One - rest
      /\ \A i \in Nat : /\ away(i) \in Nat
                        /\ i < q => away(i) >= One + rest
                        /\ i > q + 1 => away(i) >= 2 * One - rest
  <2>1. ASSUME NEW i \in Nat
        PROVE  /\ away(i) \in Nat
               /\ i < q => away(i) >= One + rest
               /\ i > q + 1 => away(i) >= 2 * One - rest
    BY <1>3, <1>4, <1>6, OneAssumption DEF Filtered!Abs
  <2>2. away(q) = rest
    <3>1. q * One \in Nat /\ One * q = q * One
      BY <1>4, OneAssumption
    <3>2. n - q * One = rest
      BY <1>3, <1>4, <3>1
    <3> QED
      BY <1>4, <3>2 DEF Filtered!Abs
  <2>3. away(q + 1) = One - rest
    <3>1. q * One \in Nat /\ One * q = q * One /\ (q + 1) * One = q * One + One
      BY <1>4, OneAssumption
    <3>2. n - (q + 1) * One = rest - One
      BY <1>3, <1>4, <3>1, OneAssumption
    <3> QED
      BY <1>4, <3>2, OneAssumption DEF Filtered!Abs
  <2> QED
    BY <2>1, <2>2, <2>3
<1> HIDE DEF away
\* Every number that is not q or q + 1 is farther away than these two.
<1>8. nearest(m)
  <2> SUFFICES ASSUME NEW j \in (0 .. b) \ {m}
               PROVE  away(m) < away(j) \/ (away(m) = away(j) /\ m % 2 = 0)
    OBVIOUS
  <2>1. j \in Nat /\ away(j) \in Nat
    BY <1>1, <1>7
  <2>2. (q + 1) % 2 = IF q % 2 = 1 THEN 0 ELSE 1
    BY <1>4
  <2>3. q % 2 \in {0, 1}
    BY <1>4
  <2>4. j < q \/ j = q \/ j = q + 1 \/ j > q + 1
    BY <1>4, <2>1
  <2>5. j < q => away(j) >= One + rest
    BY <1>7, <2>1
  <2>6. j > q + 1 => away(j) >= 2 * One - rest
    BY <1>7, <2>1
  <2>7. CASE m = q + 1
    BY <1>4, <1>5, <1>7, <2>1, <2>2, <2>3, <2>4, <2>5, <2>6, <2>7, OneAssumption
  <2>8. CASE m = q
    BY <1>4, <1>5, <1>7, <2>1, <2>2, <2>3, <2>4, <2>5, <2>6, <2>8, OneAssumption
  <2> QED
    BY <1>5, <2>7, <2>8
<1>9. ASSUME NEW i \in 0 .. b, nearest(i)
      PROVE  i = m
  <2> SUFFICES ASSUME i # m PROVE FALSE
    OBVIOUS
  <2>1. away(i) < away(m) \/ (away(i) = away(m) /\ i % 2 = 0)
    BY <1>2, <1>9
  <2>2. away(m) < away(i) \/ (away(m) = away(i) /\ m % 2 = 0)
    BY <1>8
  <2>3. /\ i \in Nat /\ m \in Nat /\ away(i) \in Nat /\ away(m) \in Nat
    BY <1>1, <1>2, <1>7
  <2>4. away(i) = away(m) /\ i % 2 = 0 /\ m % 2 = 0
    BY <2>1, <2>2, <2>3
  <2>5. away(m) < One
    BY <1>4, <1>5, <1>7, OneAssumption
  <2>6. i = q \/ i = q + 1
    <3>1. ~(i < q)
      BY <1>4, <1>7, <2>3, <2>4, <2>5, OneAssumption
    <3>2. i > q + 1 => away(i) >= 2 * One - rest
      BY <1>7, <2>3
    <3>3. ~(i > q + 1)
      BY <1>4, <2>3, <2>4, <2>5, <3>2, OneAssumption
    <3> QED
      BY <1>4, <2>3, <3>1, <3>3
  <2>7. m = q \/ m = q + 1
    BY <1>5
  <2> QED
    BY <1>4, <2>4, <2>6, <2>7
<1>10. Filtered!Nearest(v, bins) = CHOOSE i \in 0 .. b : nearest(i)
  BY DEF Filtered!Nearest, n, b, away
<1> HIDE DEF nearest
<1> QED
  BY <1>2, <1>8, <1>9, <1>10 DEF m, n, b

\* When a convolution returns, the picture is the one that its filter makes.
LEMMA ReturnedPicture ==
    ASSUME PictureInv, pass = "convolution", Picture' = ConvolvedPicture
    PROVE  Filtered!Next
<1> DEFINE Made(function, r) == /\ r \in Nat
                                /\ function \in KernelFunction
                                /\ function \notin Averaging => r = 1
                                /\ setting = FilterOf(function, r).bias
                                /\ FilterOf(function, r) \in Filtered!Convolution
                                /\ \E n \in Nat : OddSize(n) = 2 * r + 1 /\ kernel_ = KernelInit(n, function)
           Family(a) == {Filtered!Diamond(a), Filtered!Column(a), Filtered!Row(a),
                         Filtered!Rising(a), Filtered!Falling(a), Filtered!Sharp(a)}
<1>1. /\ IsPicture(buffer_copy)
      /\ Positions(pixel_buffer_) = Positions(buffer_copy)
      /\ Chosen(kernel_, setting)
  BY DEF PictureInv, SettingOK, CopyOK, Positions
<1>2. Picture = [p \in Positions(buffer_copy) |-> get_valid_pixel(buffer_copy, p[1], p[2])]
  BY <1>1 DEF Picture
<1>3. Picture' = [p \in Positions(buffer_copy) |-> Apply(kernel_, buffer_copy, p[1], p[2], setting)]
  BY <1>1 DEF ConvolvedPicture
<1> DEFINE Families == UNION {Family(a) : a \in Amount}
<1>4. /\ Filtered!Convolution = Families \cup {Filtered!Edges, Filtered!Relief}
      /\ \A a \in Amount : Family(a) \subseteq Families
  <2>1. Filtered!Convolution = Families \cup {Filtered!Edges, Filtered!Relief}
    BY DEF Filtered!Convolution
  <2> HIDE DEF Family
  <2>2. \A a \in Amount : Family(a) \subseteq Families
    OBVIOUS
  <2> QED
    BY <2>1, <2>2
<1> HIDE DEF Families
<1>5. \E function, r : Made(function, r)
  <2>1. CASE /\ \E amount \in Amount, function \in Averaging :
                    kernel_ = KernelInit(2 * amount, function)
             /\ setting = 0
    <3>1. PICK r \in Amount, function \in Averaging : kernel_ = KernelInit(2 * r, function)
      BY <2>1
    <3>2. r \in Nat /\ 2 * r \in Nat /\ OddSize(2 * r) = 2 * r + 1
      BY SettingsAssumption DEF OddSize
    <3>3. function \in KernelFunction /\ function # "EMBOSS"
      BY DEF Averaging
    <3>4. FilterOf(function, r).bias = 0
      BY <3>2, <3>3, FilterOfFacts
    <3>5. FilterOf(function, r) \in Filtered!Convolution
      <4>1. FilterOf(function, r) \in Family(r)
        BY DEF FilterOf, Averaging, KernelFunction
      <4> HIDE DEF Family
      <4> QED
        BY <1>4, <4>1
    <3>6. Made(function, r)
      BY <2>1, <3>1, <3>2, <3>3, <3>4, <3>5
    <3> QED
      BY <3>6
  <2>2. ASSUME NEW function \in {"EDGE_DETECT", "EMBOSS"}, kernel_ = KernelInit(3, function),
               setting = IF function = "EMBOSS" THEN One \div 2 ELSE 0
        PROVE  Made(function, 1)
    <3>1. OddSize(3) = 2 * 1 + 1 /\ 3 \in Nat /\ 1 \in Nat
      BY DEF OddSize
    <3>2. function \in KernelFunction
      BY DEF KernelFunction
    <3>3. FilterOf(function, 1).bias = setting
      BY <2>2, <3>1, <3>2, FilterOfFacts
    <3>4. FilterOf(function, 1) \in Filtered!Convolution
      <4>1. FilterOf(function, 1) \in {Filtered!Edges, Filtered!Relief}
        BY DEF FilterOf
      <4> QED
        BY <1>4, <4>1, Zenon
    <3> QED
      BY <2>2, <3>1, <3>2, <3>3, <3>4
  <2> HIDE DEF Made
  <2> QED
    BY <1>1, <2>1, <2>2 DEF Chosen
<1>6. PICK function, r : Made(function, r)
  BY <1>5
<1> DEFINE f == FilterOf(function, r)
<1>7. ASSUME NEW at \in Positions(buffer_copy)
      PROVE  Apply(kernel_, buffer_copy, at[1], at[2], setting) = Filtered!Convolved(f, at)
  BY <1>1, <1>2, <1>6, ConvolvedFacts
<1>8. Filtered!Convolve(f)
  BY <1>2, <1>3, <1>7 DEF Filtered!Convolve
<1> QED
  BY <1>6, <1>8 DEF Filtered!Next

\* When a filter without a kernel starts, the picture is what it makes.
LEMMA StartedPicture ==
    ASSUME PictureInv, SettingOK', pass = "none", pass' \in PointFilters,
           Picture' = [p \in Positions(pixel_buffer_) |-> Recoloured(pass', setting', Picture[p])]
    PROVE  Filtered!Next
<1>1. /\ DOMAIN Picture = Positions(pixel_buffer_)
      /\ \A p \in Positions(pixel_buffer_) : Picture[p] \in 0 .. One
  BY PixelInGamut DEF Picture, PictureInv, WalkInv, IsPicture
<1>2. CASE pass' = "threshold"
  <2>1. setting' \in Level
    BY <1>2 DEF SettingOK
  <2>2. \A p \in Positions(pixel_buffer_) : Recoloured(pass', setting', Picture[p]) =
            One * Filtered!Indicator(Picture[p] >= setting')
    BY <1>2, OneAssumption DEF Recoloured, Threshold, Filtered!Indicator
  <2>3. Filtered!Threshold(setting')
    BY <1>1, <2>2 DEF Filtered!Threshold
  <2> QED
    BY <2>1, <2>3 DEF Filtered!Next
<1>3. CASE pass' = "channel"
  <2>1. setting' \in Factor
    BY <1>3 DEF SettingOK
  <2>2. \A p \in Positions(pixel_buffer_) : Recoloured(pass', setting', Picture[p]) =
            Filtered!InGamut(Picture[p] * setting')
    BY <1>3 DEF Recoloured, Channel, clamped_color, Filtered!InGamut
  <2>3. Filtered!Channel(setting')
    BY <1>1, <2>2 DEF Filtered!Channel
  <2> QED
    BY <2>1, <2>3 DEF Filtered!Next
<1>4. CASE pass' = "quantize"
  <2>1. setting' \in Bins
    BY <1>4 DEF SettingOK
  <2>2. ASSUME NEW p \in Positions(pixel_buffer_)
        PROVE  Recoloured(pass', setting', Picture[p]) =
            (Filtered!Nearest(Picture[p], setting') * One) \div (setting' - 1)
    <3>1. Filtered!Nearest(Picture[p], setting') = rint(Picture[p] * (setting' - 1), One)
      BY <1>1, <2>1, NearestIsRint
    <3> QED
      BY <1>4, <3>1 DEF Recoloured, Quantize
  <2>3. Filtered!Quantize(setting')
    BY <1>1, <2>2 DEF Filtered!Quantize
  <2> QED
    BY <2>1, <2>3 DEF Filtered!Next
<1> QED
  BY <1>2, <1>3, <1>4 DEF PointFilters

\* The passes over the array, pixel by pixel and in place, implement the filters
\* of whole pictures: every kernel of any size has its shape, its factor at the
\* edges of any canvas is that of the neighbours that exist, and a quantized
\* colour is the nearest one.
THEOREM FilteredPictureImplemented == Spec => ImplementsFilteredPicture
<1>1. ASSUME PictureInv, [Next]_vars
      PROVE  PictureInv' /\ [Filtered!Next]_Picture
  <2>1. CASE Next
    <3>1. PictureInv' /\ AtOnce
      BY <1>1, <2>1, NextPictureInv, NextFacts DEF PictureInv
    <3>2. CASE Picture' = Picture
      BY <3>1, <3>2
    <3>3. CASE pass = "convolution" /\ Picture' = ConvolvedPicture
      BY <1>1, <3>1, <3>3, ReturnedPicture
    <3>4. CASE /\ pass = "none" /\ pass' \in PointFilters
               /\ Picture' = [p \in Positions(pixel_buffer_) |->
                                Recoloured(pass', setting', Picture[p])]
      <4>1. SettingOK'
        BY <3>1 DEF PictureInv
      <4> QED
        BY <1>1, <3>1, <3>4, <4>1, StartedPicture
    <3> QED
      BY <3>1, <3>2, <3>3, <3>4 DEF AtOnce
  <2>2. CASE UNCHANGED vars
    <3>1. Picture' = Picture
      BY <2>2 DEF vars, Picture, NewColour
    <3> QED
      BY <1>1, <2>2, <3>1, StutterPictureInv
  <2> QED
    BY <1>1, <2>1, <2>2
<1> QED
  BY <1>1, InitPictureInv, PTL DEF Spec, ImplementsFilteredPicture

=============================================================================
