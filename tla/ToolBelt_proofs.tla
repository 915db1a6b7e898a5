--------------------------- MODULE ToolBelt_proofs ---------------------------
(***************************************************************************)
(* Proofs about ToolBelt, for every canvas, palette and set of stamps, and *)
(* for any number of clicks.                                               *)
(***************************************************************************)
EXTENDS ToolBelt, FilterKernel_proofs

-----------------------------------------------------------------------------
(* The belt and the panel                                                  *)

\* A widget that does not call back has gone back to a value it remembers.
LEMMA TypedColourRemembered ==
    ASSUME BeltFollowsPanel, NEW v, NEW how, NEW leave, TypeColour(v, how, leave)
    PROVE  BeltFollowsPanel'
<1> DEFINE remembered == Activated(how, orig_text, cur_color_)
<1>1. /\ cur_color_' = v
      /\ orig_text' = Remembered(leave, remembered, v)
      /\ cur_tool_' = cur_tool_
  BY DEF TypeColour
<1>2. CASE CallsBack(remembered, v)
  BY <1>1, <1>2 DEF TypeColour, Synchronize, BeltFollowsPanel
<1>3. CASE ~CallsBack(remembered, v)
  <2>1. orig_text' = v
    BY <1>1, <1>3 DEF CallsBack, Remembered
  <2>2. active_tool_' = active_tool_
    BY <1>3 DEF TypeColour, beltVars
  <2> QED
    BY <1>1, <2>1, <2>2 DEF BeltFollowsPanel
<1> QED
  BY <1>2, <1>3

LEMMA SpunColourRemembered ==
    ASSUME BeltFollowsPanel, NEW v, SpinColour(v)
    PROVE  BeltFollowsPanel'
<1>1. cur_color_' = v /\ last_float_val' = v /\ cur_tool_' = cur_tool_
  BY DEF SpinColour
<1>2. active_tool_' = cur_tool_'
  BY <1>1 DEF SpinColour, Synchronize, beltVars, BeltFollowsPanel
<1> QED
  BY <1>1, <1>2 DEF BeltFollowsPanel

\* The tool of the panel is always the active one, and so is its colour unless a
\* spinner or its edit box has gone back to a value it remembers.
THEOREM BeltFollows == Spec => []BeltFollowsPanel
<1>1. Init => BeltFollowsPanel
  BY DEF Init, BeltFollowsPanel
<1>2. ASSUME BeltFollowsPanel, [Next]_vars PROVE BeltFollowsPanel'
  <2>1. ASSUME NEW i \in DOMAIN tools_, ChooseTool(i) PROVE BeltFollowsPanel'
    BY <2>1 DEF ChooseTool, Synchronize, BeltFollowsPanel
  <2>2. ASSUME NEW v \in Shade, PresetColour(v) PROVE BeltFollowsPanel'
    BY <2>2 DEF PresetColour, Synchronize, BeltFollowsPanel
  <2>3. ASSUME NEW v \in Shade, SpinColour(v) PROVE BeltFollowsPanel'
    BY <1>2, <2>3, SpunColourRemembered
  <2>4. ASSUME NEW v \in Shade, NEW how \in Entrance, NEW leave \in Departure,
               TypeColour(v, how, leave)
        PROVE  BeltFollowsPanel'
    BY <1>2, <2>4, TypedColourRemembered
  <2>5. ASSUME NEW image \in StampImage, LoadStamp(image) PROVE BeltFollowsPanel'
    BY <2>5 DEF LoadStamp, Synchronize, BeltFollowsPanel
  <2>6. CASE OtherCallback
    BY <2>6 DEF OtherCallback, Synchronize, BeltFollowsPanel
  <2>7. ASSUME UNCHANGED <<choiceVars, beltVars>> PROVE BeltFollowsPanel'
    BY <1>2, <2>7 DEF choiceVars, beltVars, BeltFollowsPanel
  <2>8. ASSUME NEW at \in Mouse, IgnoreClick(at) \/ ApplyClick(at) PROVE BeltFollowsPanel'
    BY <2>7, <2>8 DEF IgnoreClick, ApplyClick, clickUnchanged
  <2>9. CASE PaintPixel \/ UseNoKernel \/ Return \/ UNCHANGED vars
    BY <2>7, <2>9 DEF PaintPixel, UseNoKernel, Return, clickUnchanged, vars
  <2> QED
    BY <1>2, <2>1, <2>2, <2>3, <2>4, <2>5, <2>6, <2>8, <2>9 DEF Next
<1> QED
  BY <1>1, <1>2, PTL DEF Spec

-----------------------------------------------------------------------------
(* The kernels of the blur tool                                            *)

\* A finite set of integers has a greatest one.
LEMMA MaxFacts ==
    ASSUME NEW S, IsFiniteSet(S), S \subseteq Int, S # {}
    PROVE  Masks!Max(S) \in S /\ \A y \in S : Masks!Max(S) >= y
<1> DEFINE HasMax(t) == \E x \in t : \A y \in t : x >= y
           Good == {t \in SUBSET S : t # {} => HasMax(t)}
<1>1. ASSUME NEW t \in SUBSET S, \A x \in t : t \ {x} \in Good
      PROVE  t \in Good
  <2> SUFFICES ASSUME t # {} PROVE HasMax(t)
    OBVIOUS
  <2>1. PICK x \in t : TRUE
    OBVIOUS
  <2>2. CASE t \ {x} = {}
    BY <2>2
  <2>3. CASE t \ {x} # {}
    <3>1. PICK m \in t \ {x} : \A y \in t \ {x} : m >= y
      BY <1>1, <2>1, <2>3
    <3>2. x \in Int /\ m \in Int
      OBVIOUS
    <3>3. CASE m >= x
      BY <3>1, <3>3
    <3>4. CASE x > m
      <4>1. \A y \in t : y \in Int
        OBVIOUS
      <4> QED
        BY <3>1, <3>2, <3>4, <4>1
    <3> QED
      BY <3>2, <3>3, <3>4
  <2> QED
    BY <2>2, <2>3
<1>2. \A t \in SUBSET S : t \in Good
  <2> HIDE DEF Good
  <2> QED
    BY <1>1, SubsetInduction
<1>3. HasMax(S)
  BY <1>2
<1> QED
  BY <1>3 DEF Masks!Max

LEMMA IntervalMax ==
    ASSUME NEW a \in Int, NEW b \in Int, NEW S, S \subseteq a .. b, S # {}
    PROVE  Masks!Max(S) \in S /\ \A y \in S : Masks!Max(S) >= y
<1>1. IsFiniteSet(S)
  BY FS_Interval, FS_Subset
<1>2. S \subseteq Int
  OBVIOUS
<1> QED
  BY <1>1, <1>2, MaxFacts

LEMMA BlurSizeBounded ==
    ASSUME NEW p PROVE Masks!BlurSize(41, p) \in 0 .. 20
<1>1. ASSUME NEW n PROVE Masks!RoundedIntensity(41, n) \in 0 .. 20
  <2> DEFINE S == {0} \cup {k \in 1 .. 20 : Masks!MoreThan(2 * k - 1, 2 * 20, 1, 20, n)}
  <2>1. Masks!RoundedIntensity(41, n) = Masks!Max(S)
    BY DEF Masks!RoundedIntensity
  <2>2. S \subseteq 0 .. 20 /\ S # {}
    OBVIOUS
  <2> HIDE DEF S
  <2>3. Masks!Max(S) \in S
    <3> DEFINE low == 0
               high == 20
    <3>1. low \in Int /\ high \in Int /\ S \subseteq low .. high
      BY <2>2
    <3> HIDE DEF low, high
    <3> QED
      BY <2>2, <3>1, IntervalMax
  <2> QED
    BY <2>1, <2>2, <2>3
<1> QED
  BY <1>1 DEF Masks!BlurSize

\* set_blur_mask leaves no null where the mask has a size.
KernelsShelved ==
    /\ filter_kernel_array_ \in [0 .. 41 -> {"null", "garbage", "kernel"}]
    /\ \A k \in BlurSizes : filter_kernel_array_[k] # "null"

\* A size that the mask asks for is the index of a kernel, or of garbage.
LEMMA NoKernelIsGarbage ==
    ASSUME KernelsShelved, NEW k \in BlurSizes, filter_kernel_array_[k] # "kernel"
    PROVE  \E g \in DOMAIN filter_kernel_array_ : filter_kernel_array_[g] = "garbage"
<1>1. k \in 0 .. 41
  BY BlurSizeBounded DEF BlurSizes
<1>2. filter_kernel_array_[k] = "garbage"
  BY <1>1 DEF KernelsShelved
<1> QED
  BY <1>1, <1>2 DEF KernelsShelved

LEMMA MissedIsAsked ==
    ASSUME NEW p, MissesKernel(Mask, p), active_tool_ \in 0 .. 7
    PROVE  \E k \in BlurSizes : filter_kernel_array_[k] # "kernel"
<1>1. active_tool.class = "BlurTool" /\ Mask = active_tool.mask
  BY DEF MissesKernel, Mask
<1>2. active_tool_ = 6
  BY <1>1 DEF active_tool, tools_, Brush
<1>3. Mask = Masks!blur_mask(41)
  BY <1>1, <1>2 DEF active_tool, tools_
<1> DEFINE q == MaskPosition(Mask, p)
<1>4. q \in DOMAIN Mask.at /\ Mask.at[q] # 0 /\ filter_kernel_array_[Mask.at[q]] # "kernel"
  BY DEF MissesKernel
<1> HIDE DEF q
<1>5. q \in Masks!Square(41) /\ Mask.at[q] = Masks!BlurSize(41, q)
  BY <1>3, <1>4 DEF Masks!blur_mask
<1> QED
  BY <1>4, <1>5 DEF BlurSizes

BlurInv == KernelsShelved /\ active_tool_ \in 0 .. 7 /\ cur_tool_ \in 0 .. 7 /\ BlurMissesOnlyGarbage

LEMMA InitBlurInv == Init => BlurInv
<1> SUFFICES ASSUME Init PROVE BlurInv
  OBVIOUS
<1>1. PICK b \in Beginning :
        filter_kernel_array_ =
            Shelved([k \in 0 .. 41 |-> IF k \in b.dirty THEN "garbage" ELSE "null"])
  BY DEF Init
<1>2. KernelsShelved
  <2>1. \A k \in BlurSizes : k \in 0 .. 41
    BY BlurSizeBounded DEF BlurSizes
  <2> QED
    BY <1>1, <2>1 DEF KernelsShelved, Shelved
<1> QED
  BY <1>2 DEF Init, BlurInv, BlurMissesOnlyGarbage

LEMMA NextBlurInv == ASSUME BlurInv, [Next]_vars PROVE BlurInv'
<1>1. ASSUME UNCHANGED <<filter_kernel_array_, process>>,
             active_tool_' \in 0 .. 7, cur_tool_' \in 0 .. 7
      PROVE  BlurInv'
  BY <1>1 DEF BlurInv, KernelsShelved, BlurMissesOnlyGarbage
<1>2. ASSUME UNCHANGED <<panelUnchanged, cur_tool_>>, Synchronize \/ UNCHANGED beltVars
      PROVE  BlurInv'
  BY <1>1, <1>2 DEF panelUnchanged, builtVars, Synchronize, beltVars, BlurInv
<1>3. ASSUME NEW i \in DOMAIN tools_, ChooseTool(i) PROVE BlurInv'
  BY <1>1, <1>3 DEF ChooseTool, panelUnchanged, builtVars, Synchronize, tools_
<1>4. ASSUME NEW v \in Shade, PresetColour(v) \/ SpinColour(v) PROVE BlurInv'
  BY <1>2, <1>4 DEF PresetColour, SpinColour
<1>5. ASSUME NEW v \in Shade, NEW how \in Entrance, NEW leave \in Departure,
             TypeColour(v, how, leave)
      PROVE  BlurInv'
  BY <1>2, <1>5 DEF TypeColour
<1>6. ASSUME NEW image \in StampImage, LoadStamp(image) PROVE BlurInv'
  BY <1>2, <1>6 DEF LoadStamp, choiceVars
<1>7. CASE OtherCallback
  BY <1>2, <1>7 DEF OtherCallback, choiceVars
<1>8. ASSUME UNCHANGED <<process, clickUnchanged>> PROVE BlurInv'
  BY <1>1, <1>8 DEF clickUnchanged, builtVars, beltVars, choiceVars, BlurInv
<1>9. ASSUME NEW at \in Mouse, IgnoreClick(at) \/ ApplyClick(at) PROVE BlurInv'
  BY <1>8, <1>9 DEF IgnoreClick, ApplyClick
<1>10. CASE PaintPixel \/ Return \/ UNCHANGED vars
  BY <1>8, <1>10 DEF PaintPixel, Return, vars, clickUnchanged
<1>11. CASE UseNoKernel
  <2>1. \E g \in DOMAIN filter_kernel_array_ : filter_kernel_array_[g] = "garbage"
    BY <1>11, MissedIsAsked, NoKernelIsGarbage DEF UseNoKernel, BlurInv
  <2>2. UNCHANGED <<filter_kernel_array_, active_tool_, cur_tool_>>
    BY <1>11 DEF UseNoKernel, clickUnchanged, builtVars, beltVars, choiceVars
  <2> QED
    BY <2>1, <2>2 DEF BlurInv, KernelsShelved, BlurMissesOnlyGarbage
<1> QED
  BY <1>3, <1>4, <1>5, <1>6, <1>7, <1>9, <1>10, <1>11 DEF Next

\* Every kernel the Blur tool's mask asks for was made, unless the memory of the
\* array looked as if it had been: on canvases and at clicks of every kind.
THEOREM OnlyGarbageMissed == Spec => []BlurMissesOnlyGarbage
<1>1. BlurInv => BlurMissesOnlyGarbage
  BY DEF BlurInv
<1> QED
  BY <1>1, InitBlurInv, NextBlurInv, PTL DEF Spec

-----------------------------------------------------------------------------
(* The masks                                                               *)

\* The intensities of a round mask at the squared distance n.
Falloff(center, outer, radius, n) ==
    {v \in outer .. center : Masks!AtLeast(v, center, outer, radius, n)}

\* What is known of the entry of a round mask at p, at the squared distance n
\* from its centre.
CircleEntry(mask, p, center, outer, diameter, r, n) ==
    LET S == Falloff(center, outer, r, n)
    IN  /\ n \in Nat
        /\ mask.size = Masks!OddSize(diameter)
        /\ DOMAIN mask.at = Masks!Square(Masks!OddSize(diameter))
        /\ mask.at[p] = IF n > r * r THEN 0 ELSE Masks!Max(S)
        /\ n <= r * r => Masks!Max(S) \in S /\ \A v \in S : Masks!Max(S) >= v

LEMMA CircleFacts ==
    ASSUME NEW diameter \in Nat, NEW center \in Int, NEW outer \in Int, outer <= center,
           NEW p \in Masks!Square(Masks!OddSize(diameter)),
           NEW r, r = diameter \div 2,
           NEW n, n = Masks!SquaredDistance(p, r),
           NEW mask, mask = Masks!mask_circle(diameter, center, outer)
    PROVE  CircleEntry(mask, p, center, outer, diameter, r, n)
<1>1. r \in Nat /\ r * r \in Nat
  <2>1. r \in Nat
    OBVIOUS
  <2> QED
    BY <2>1
<1>2. n \in Nat
  <2> DEFINE dx == p[1] - r
             dy == p[2] - r
  <2>1. Masks!OddSize(diameter) \in Nat
    BY DEF Masks!OddSize
  <2>2. dx \in Int /\ dy \in Int
    BY <1>1, <2>1 DEF Masks!Square
  <2>3. n = dx * dx + dy * dy
    BY DEF Masks!SquaredDistance
  <2> HIDE DEF dx, dy
  <2>4. dx * dx \in Nat /\ dy * dy \in Nat
    BY <2>2
  <2> QED
    BY <2>3, <2>4
<1>3. /\ mask.size = Masks!OddSize(diameter)
      /\ DOMAIN mask.at = Masks!Square(Masks!OddSize(diameter))
      /\ mask.at[p] = IF n > r * r THEN 0 ELSE Masks!Max(Falloff(center, outer, r, n))
  BY DEF Masks!mask_circle, Falloff
<1>4. ASSUME n <= r * r
      PROVE  outer \in Falloff(center, outer, r, n)
  <2> DEFINE s == (center - outer) * (center - outer)
  <2>1. s \in Nat
    <3> DEFINE d == center - outer
    <3>1. d \in Nat
      OBVIOUS
    <3> HIDE DEF d
    <3>2. d * d \in Nat
      BY <3>1
    <3> QED
      BY <3>2 DEF d
  <2>2. s * n <= s * (r * r) /\ s * (r * r) = s * r * r
    <3> HIDE DEF s
    <3>1. n * s \in Nat /\ n * s <= (r * r) * s
      BY <1>1, <1>2, <1>4, <2>1, ProductFacts
    <3>2. n * s = s * n /\ (r * r) * s = s * (r * r) /\ s * (r * r) = s * r * r
      BY <1>1, <1>2, <2>1
    <3> QED
      BY <3>1, <3>2
  <2>3. s * r * r >= s * n
    <3> HIDE DEF s
    <3>1. s * n \in Int /\ s * r * r \in Int
      BY <1>1, <1>2, <2>1
    <3> QED
      BY <2>2, <3>1
  <2>4. Masks!AtLeast(outer, center, outer, r, n)
    BY <2>3 DEF Masks!AtLeast
  <2> QED
    BY <2>4 DEF Falloff
<1>5. Falloff(center, outer, r, n) \subseteq outer .. center
  BY DEF Falloff
<1>6. n <= r * r => /\ Masks!Max(Falloff(center, outer, r, n)) \in Falloff(center, outer, r, n)
                    /\ \A v \in Falloff(center, outer, r, n) :
                            Masks!Max(Falloff(center, outer, r, n)) >= v
  BY <1>4, <1>5, IntervalMax
<1> QED
  BY <1>2, <1>3, <1>6 DEF CircleEntry

\* The round masks of the brushes have intensities of up to 100 percent.
LEMMA CircleEntries ==
    ASSUME NEW diameter \in Nat, NEW center \in -100 .. 100, NEW outer \in -100 .. 100,
           outer <= center,
           NEW mask, mask = Masks!mask_circle(diameter, center, outer),
           NEW q \in DOMAIN mask.at
    PROVE  mask.at[q] \in -100 .. 100
<1> DEFINE r == diameter \div 2
           n == Masks!SquaredDistance(q, r)
           S == Falloff(center, outer, r, n)
<1>1. q \in Masks!Square(Masks!OddSize(diameter)) /\ center \in Int /\ outer \in Int
  BY DEF Masks!mask_circle
<1>2. /\ n \in Nat
      /\ mask.at[q] = IF n > r * r THEN 0 ELSE Masks!Max(S)
      /\ n <= r * r => Masks!Max(S) \in S
  <2>1. r = diameter \div 2 /\ n = Masks!SquaredDistance(q, r)
    OBVIOUS
  <2> HIDE DEF r, n
  <2>2. CircleEntry(mask, q, center, outer, diameter, r, n)
    BY <1>1, <2>1, CircleFacts
  <2> QED
    BY <2>2 DEF CircleEntry
<1>3. S \subseteq -100 .. 100
  BY DEF Falloff
<1>4. r * r \in Int
  <2>1. r \in Nat
    OBVIOUS
  <2> HIDE DEF r
  <2> QED
    BY <2>1
<1> HIDE DEF S, r, n
<1>5. CASE n > r * r
  BY <1>2, <1>5
<1>6. CASE n <= r * r
  <2>1. ~(n > r * r)
    BY <1>2, <1>4, <1>6
  <2> QED
    BY <1>2, <1>3, <1>6, <2>1
<1> QED
  BY <1>2, <1>4, <1>5, <1>6

-----------------------------------------------------------------------------
(* The colours                                                             *)

LEMMA BlendInGamut ==
    ASSUME NEW painted \in 0 .. One, NEW beneath \in 0 .. One, NEW n \in 0 .. 100 * One
    PROVE  Blend(painted, beneath, n) \in 0 .. One
<1> DEFINE d == 100 * One
           m == d - n
<1>1. d \in Nat /\ d > 0 /\ n \in Nat /\ m \in Nat /\ One \in Nat
  BY OneAssumption
<1>2. Blend(painted, beneath, n) = (painted * n + beneath * m) \div d
  BY DEF Blend
<1>3. n + m = d
  BY <1>1
<1> HIDE DEF d, m
<1>4. /\ painted * n \in Nat /\ painted * n <= One * n /\ One * n \in Nat
      /\ beneath * m \in Nat /\ beneath * m <= One * m /\ One * m \in Nat
  BY <1>1, ProductFacts
<1>5. One * n + One * m = One * d
  <2>1. One * (n + m) = One * n + One * m
    BY <1>1
  <2> QED
    BY <1>3, <2>1
<1>6. painted * n + beneath * m \in Nat /\ painted * n + beneath * m <= One * d
  BY <1>4, <1>5
<1> QED
  BY <1>1, <1>2, <1>6, QuotientBounded

\* Brushes mix two colours, whatever the sign of the intensity.
LEMMA BrushedInGamut ==
    ASSUME active_color_ \in 0 .. One, background_color_ \in 0 .. One,
           NEW c \in 0 .. One, NEW strength \in -100 .. 100
    PROVE  Brushed(strength, c) \in 0 .. One
<1> DEFINE light == IF active_tool.uses_luminance THEN c ELSE One
           intensity == strength * light
<1>1. light \in 0 .. One /\ light \in Nat /\ One \in Nat
  BY OneAssumption
<1> HIDE DEF light
<1>2. intensity \in Int /\ AbsValue(intensity) \in 0 .. 100 * One
  <2>1. CASE strength >= 0
    <3>1. strength * light \in Nat /\ strength * light <= 100 * light
      BY <1>1, <2>1, ProductFacts
    <3> QED
      BY <1>1, <3>1 DEF AbsValue
  <2>2. CASE strength < 0
    <3>1. (-strength) * light \in Nat /\ (-strength) * light <= 100 * light
      BY <1>1, <2>2, ProductFacts
    <3>2. strength * light = -((-strength) * light)
      BY <1>1
    <3> QED
      BY <1>1, <3>1, <3>2 DEF AbsValue
  <2> QED
    BY <2>1, <2>2
<1>3. Brushed(strength, c) = IF intensity > 0 THEN Blend(active_color_, c, intensity)
                             ELSE Blend(background_color_, c, AbsValue(intensity))
  BY DEF Brushed, light
<1> HIDE DEF intensity
<1>4. intensity > 0 => AbsValue(intensity) = intensity
  BY <1>2 DEF AbsValue
<1> QED
  BY <1>2, <1>3, <1>4, BlendInGamut

\* Stamps mix as well, or leave the pixel as it is.
LEMMA StampedInGamut ==
    ASSUME active_tool.class \in {"Stamp", "Stamper"}, active_tool_ \in 0 .. 7,
           NEW c \in 0 .. One, NEW entry \in -1 .. One
    PROVE  Stamped(entry, c) \in 0 .. One
<1> DEFINE n == active_tool.intensity * One
<1>1. active_tool.intensity \in {50, 100}
  BY DEF active_tool, tools_, Brush
<1>2. n \in 0 .. 100 * One
  BY <1>1, OneAssumption
<1>3. Stamped(entry, c) = IF entry = -1 THEN c ELSE Blend(entry, c, n)
  BY DEF Stamped, Masks!Transparent
<1> HIDE DEF n
<1>4. entry # -1 => entry \in 0 .. One
  BY OneAssumption
<1> QED
  BY <1>2, <1>3, <1>4, BlendInGamut

\* The kernels of the Blur tool give colours.
LEMMA BlurredInGamut ==
    ASSUME IsPicture(buffer_copy), NEW size \in 0 .. 20, NEW c \in 0 .. One,
           NEW x \in Int, NEW y \in Int
    PROVE  Blurred(size, c, x, y) \in 0 .. One
<1>1. CASE size = 0
  BY <1>1 DEF Blurred
<1>2. CASE size # 0
  <2>1. kernels[size] = KernelInit(2 * size, "BLUR") /\ 2 * size \in Nat
    BY <1>2 DEF kernels
  <2>2. Blurred(size, c, x, y) = Apply(kernels[size], buffer_copy, x, y, 0)
    BY <1>2 DEF Blurred
  <2> DEFINE n == 2 * size
  <2> HIDE DEF n
  <2>3. Apply(KernelInit(n, "BLUR"), buffer_copy, x, y, 0) \in 0 .. One
    <3>1. n \in Nat /\ "BLUR" \in KernelFunction
      BY <2>1 DEF n, KernelFunction
    <3>2. \A bias \in Int : Apply(KernelInit(n, "BLUR"), buffer_copy, x, y, bias) \in 0 .. One
      BY <3>1, ApplyInGamut
    <3> QED
      BY <3>2
  <2> QED
    BY <2>1, <2>2, <2>3 DEF n
<1> QED
  BY <1>1, <1>2

-----------------------------------------------------------------------------
(* What is in the masks                                                    *)

LEMMA BrushEntries ==
    ASSUME NEW i \in 0 .. 4, NEW q \in DOMAIN tools_[i].mask.at
    PROVE  tools_[i].class = "Brush" /\ tools_[i].mask.at[q] \in -100 .. 100
<1>1. /\ tools_[0] = Brush(Masks!mask_circle(3, 100, 100), FALSE)
      /\ tools_[1] = Brush(Masks!mask_circle(21, -100, -100), FALSE)
      /\ tools_[2] = Brush(Masks!mask_circle(41, 20, 0), FALSE)
      /\ tools_[3] = Brush(Masks!mask_rectangle(5, 15, 100), FALSE)
      /\ tools_[4] = Brush(Masks!mask_rectangle(5, 15, 40), TRUE)
  BY DEF tools_
<1>2. tools_[i].class = "Brush"
  BY <1>1 DEF Brush
<1>3. ASSUME NEW d \in Nat, NEW a \in -100 .. 100, NEW b \in -100 .. 100, b <= a,
             tools_[i].mask = Masks!mask_circle(d, a, b)
      PROVE  tools_[i].mask.at[q] \in -100 .. 100
  BY <1>3, CircleEntries
<1>4. ASSUME NEW a \in -100 .. 100, tools_[i].mask = Masks!mask_rectangle(5, 15, a)
      PROVE  tools_[i].mask.at[q] \in -100 .. 100
  BY <1>4 DEF Masks!mask_rectangle
<1>5. /\ 3 \in Nat /\ 21 \in Nat /\ 41 \in Nat
      /\ 0 \in -100 .. 100 /\ 20 \in -100 .. 100 /\ 40 \in -100 .. 100
      /\ 100 \in -100 .. 100 /\ -100 \in -100 .. 100
      /\ 100 <= 100 /\ -100 <= -100 /\ 0 <= 20
  OBVIOUS
<1>6. \/ tools_[i].mask = Masks!mask_circle(3, 100, 100)
      \/ tools_[i].mask = Masks!mask_circle(21, -100, -100)
      \/ tools_[i].mask = Masks!mask_circle(41, 20, 0)
      \/ tools_[i].mask = Masks!mask_rectangle(5, 15, 100)
      \/ tools_[i].mask = Masks!mask_rectangle(5, 15, 40)
  BY <1>1 DEF Brush
<1>7. tools_[i].mask.at[q] \in -100 .. 100
  BY <1>3, <1>4, <1>5, <1>6, Zenon
<1> QED
  BY <1>2, <1>7

LEMMA StampEntries ==
    ASSUME NEW image \in StampImage,
           NEW mask, mask = Masks!buffer_stamp_mask(image),
           NEW q \in DOMAIN mask.at
    PROVE  mask.at[q] \in -1 .. One
<1>1. \A r \in DOMAIN image.colours : image.colours[r] \in -1 .. One
  BY ToolsAssumption
<1> QED
  BY <1>1, OneAssumption DEF Masks!buffer_stamp_mask, Masks!Transparent

\* Stretching stays within the base image.
LEMMA QuotientBelow ==
    ASSUME NEW d \in Nat, d > 0, NEW b \in Nat, b > 0, NEW a \in 0 .. d - 1
    PROVE  (a * b) \div d \in 0 .. b - 1
<1> DEFINE n == a * b
           q == n \div d
<1>1. n \in Nat /\ n <= (d - 1) * b /\ (d - 1) * b = d * b - b /\ d * b \in Nat
  BY ProductFacts
<1> HIDE DEF n
<1>2. n % d \in 0 .. d - 1 /\ q \in Nat /\ n = d * q + (n % d)
  BY <1>1, DivisionFacts
<1> HIDE DEF q
<1>3. CASE q >= b
  <2>1. b * d \in Nat /\ q * d \in Nat /\ b * d <= q * d
    BY <1>2, <1>3, ProductFacts
  <2>2. b * d = d * b /\ q * d = d * q
    BY <1>2
  <2> QED
    BY <1>1, <1>2, <2>1, <2>2
<1> QED
  BY <1>2, <1>3 DEF q, n

\* Of the lines of a PPM file that of the size is taken for it, unless the width is
\* taken for the maximum colour.
LEMMA BaseSizeFacts ==
    ASSUME NEW w \in Nat, NEW h \in Nat
    PROVE  Masks!BaseSize(PpmFile(w, h).header) = IF w = 255 THEN <<0, 0>> ELSE <<w, h>>
<1> DEFINE header == PpmFile(w, h).header
           S == Masks!ColorMaxLines(header)
           k == Masks!Min(S)
<1>1. /\ DOMAIN header = 1 .. 4
      /\ header[1] = <<>> /\ header[2] = <<>> /\ header[3] = <<w, h>> /\ header[4] = <<255>>
  BY DEF PpmFile
<1> HIDE DEF header
<1>2. S = IF w = 255 THEN {3, 4} ELSE {4}
  <2>1. header[3] # <<>> /\ header[4] # <<>> /\ Head(header[3]) = w /\ Head(header[4]) = 255
    BY <1>1
  <2>2. \A i \in 1 .. 4 : i \in S <=> i = 4 \/ (i = 3 /\ w = 255)
    BY <1>1, <2>1 DEF Masks!ColorMaxLines
  <2>3. S \subseteq 1 .. 4
    BY <1>1 DEF Masks!ColorMaxLines
  <2> HIDE DEF S
  <2>4. 3 \in 1 .. 4 /\ 4 \in 1 .. 4
    OBVIOUS
  <2>5. 4 \in S /\ (3 \in S <=> w = 255)
    BY <2>2, <2>4
  <2>6. \A i \in S : i = 4 \/ (i = 3 /\ w = 255)
    BY <2>2, <2>3
  <2>7. w = 255 => S = {3, 4}
    BY <2>5, <2>6
  <2>8. w # 255 => S = {4}
    BY <2>5, <2>6
  <2> QED
    BY <2>7, <2>8
<1>3. Masks!BaseSize(header) = IF /\ S # {}
                                  /\ k > 1
                                  /\ Len(header[k]) = 1
                                  /\ Len(header[k - 1]) = 2
                               THEN header[k - 1] ELSE <<0, 0>>
  BY DEF Masks!BaseSize
<1>4. Len(header[3]) = 2 /\ Len(header[4]) = 1
  BY <1>1
<1> HIDE DEF S
<1>5. k = IF w = 255 THEN 3 ELSE 4
  BY <1>2 DEF Masks!Min
<1> HIDE DEF k
<1>6. CASE w = 255
  <2>1. Masks!BaseSize(header) = <<0, 0>>
    BY <1>3, <1>4, <1>5, <1>6
  <2> QED
    BY <1>6, <2>1 DEF header
<1>7. CASE w # 255
  <2>1. k = 4 /\ k - 1 = 3 /\ k > 1 /\ S # {}
    BY <1>2, <1>5, <1>7
  <2>2. Masks!BaseSize(header) = <<w, h>>
    BY <1>1, <1>3, <1>4, <2>1
  <2> QED
    BY <1>7, <2>2 DEF header
<1> QED
  BY <1>6, <1>7

\* What is assumed of the file in Beginning.
FileOK(file) ==
    \/ file = MissingFile
    \/ /\ file.width \in Nat \ {0} /\ file.height \in Nat \ {0}
       /\ file = PpmFile(file.width, file.height)
       /\ \A col \in 0 .. file.width - 1, row \in 0 .. file.height - 1 :
                PpmColour(col, row) \in 0 .. One

\* The mask of the Stamper is 201 pixels wide and 151 high, in a square.
LEMMA PpmMaskShape ==
    ASSUME NEW file, NEW mask, mask = Masks!ppm_stamp_mask(200, 150, file)
    PROVE  IF file.opens /\ (\/ Masks!BaseSize(file.header)[1] < 1
                             \/ Masks!BaseSize(file.header)[2] < 1)
           THEN mask = Masks!NoMask
           ELSE /\ mask.size = 201
                /\ DOMAIN mask.at = (0 .. 200) \X (0 .. 200)
                /\ \A q \in DOMAIN mask.at :
                        mask.at[q] =
                            IF ~(q[2] \in 25 .. 175) THEN -1
                            ELSE IF ~file.opens THEN Masks!Stripes(q)
                            ELSE Masks!Stretched(Masks!BaseSize(file.header),
                                                 q[1], q[2] - 25, 201, 151)
<1>1. Masks!OddSize(200) = 201 /\ Masks!OddSize(150) = 151
  BY DEF Masks!OddSize
<1>2. Masks!Max({201, 151}) = 201
  BY DEF Masks!Max
<1>3. Masks!Square(201) = (0 .. 200) \X (0 .. 200)
  BY DEF Masks!Square
<1>4. /\ (201 - 201) \div 2 = 0 /\ (201 - 151) \div 2 = 25
      /\ \A q \in (0 .. 200) \X (0 .. 200) :
            /\ Masks!Inside(q, 201, 151, 201) <=> q[2] \in 25 .. 175
            /\ q[1] - 0 = q[1]
  BY DEF Masks!Inside
<1> DEFINE none == file.opens /\ (\/ Masks!BaseSize(file.header)[1] < 1
                                 \/ Masks!BaseSize(file.header)[2] < 1)
           entry(q) == IF ~(q[2] \in 25 .. 175) THEN -1
                       ELSE IF ~file.opens THEN Masks!Stripes(q)
                       ELSE Masks!Stretched(Masks!BaseSize(file.header),
                                            q[1], q[2] - 25, 201, 151)
           w == Masks!OddSize(200)
           h == Masks!OddSize(150)
           size == Masks!Max({w, h})
           drawn(q) == IF ~Masks!Inside(q, w, h, size) THEN Masks!Transparent
                       ELSE IF ~file.opens THEN Masks!Stripes(q)
                       ELSE Masks!Stretched(Masks!BaseSize(file.header),
                                q[1] - (size - w) \div 2, q[2] - (size - h) \div 2, w, h)
<1>5. mask = IF none THEN Masks!NoMask
             ELSE [size |-> 201, at |-> [q \in (0 .. 200) \X (0 .. 200) |-> entry(q)]]
  <2>1. mask = IF none THEN Masks!NoMask
               ELSE [size |-> size, at |-> [q \in Masks!Square(size) |-> drawn(q)]]
    BY DEF Masks!ppm_stamp_mask
  <2>2. w = 201 /\ h = 151 /\ size = 201
    BY <1>1, <1>2
  <2>3. \A q \in (0 .. 200) \X (0 .. 200) : drawn(q) = entry(q)
    <3> HIDE DEF w, h, size
    <3> QED
      BY <1>4, <2>2 DEF Masks!Transparent
  <2> HIDE DEF none, entry, drawn, w, h, size
  <2> QED
    BY <1>3, <2>1, <2>2, <2>3
<1> HIDE DEF none, entry, drawn
<1>6. ~none => /\ mask.size = 201
               /\ DOMAIN mask.at = (0 .. 200) \X (0 .. 200)
               /\ \A q \in DOMAIN mask.at : mask.at[q] = entry(q)
  BY <1>5
<1> QED
  BY <1>5, <1>6 DEF none, entry

LEMMA SizeUnderstood ==
    ASSUME NEW file, FileOK(file), file # MissingFile
    PROVE  LET size == Masks!BaseSize(file.header)
           IN  /\ (size[1] < 1 \/ size[2] < 1) <=> file.width = 255
               /\ file.width # 255 => size = <<file.width, file.height>>
<1> DEFINE w == file.width
           h == file.height
           size == Masks!BaseSize(file.header)
<1>1. w \in Nat /\ w > 0 /\ h \in Nat /\ h > 0 /\ file.header = PpmFile(w, h).header
  BY DEF FileOK
<1> HIDE DEF w, h
<1>2. size = IF w = 255 THEN <<0, 0>> ELSE <<w, h>>
  BY <1>1, BaseSizeFacts
<1> HIDE DEF size
<1>3. ((size[1] < 1 \/ size[2] < 1) <=> w = 255) /\ (w # 255 => size = <<w, h>>)
  BY <1>1, <1>2
<1> QED
  BY <1>3 DEF w, h, size

\* Every colour that the stretching takes is one of the picture.
LEMMA StretchedInGamut ==
    ASSUME NEW file, FileOK(file), file # MissingFile,
           NEW col \in 0 .. 200, NEW row \in 0 .. 150
    PROVE  PpmColour((col * file.width) \div 201, (row * file.height) \div 151) \in 0 .. One
<1> DEFINE w == file.width
           h == file.height
           m == 201
           n == 151
<1>1. /\ w \in Nat /\ w > 0 /\ h \in Nat /\ h > 0
      /\ \A c \in 0 .. w - 1, r \in 0 .. h - 1 : PpmColour(c, r) \in 0 .. One
  BY DEF FileOK
<1>2. /\ m \in Nat /\ m > 0 /\ n \in Nat /\ n > 0
      /\ col \in 0 .. m - 1 /\ row \in 0 .. n - 1
  OBVIOUS
<1> HIDE DEF w, h, m, n
<1>3. (col * w) \div m \in 0 .. w - 1 /\ (row * h) \div n \in 0 .. h - 1
  BY <1>1, <1>2, QuotientBelow
<1>4. PpmColour((col * w) \div m, (row * h) \div n) \in 0 .. One
  BY <1>1, <1>3
<1> QED
  BY <1>4 DEF w, h, m, n

LEMMA PpmEntries ==
    ASSUME NEW file, FileOK(file), NEW mask, mask = Masks!ppm_stamp_mask(200, 150, file),
           NEW q \in DOMAIN mask.at
    PROVE  mask.at[q] \in -1 .. One
<1> DEFINE size == Masks!BaseSize(file.header)
           col == q[1]
           row == q[2] - 25
<1>1. mask # Masks!NoMask
  BY DEF Masks!NoMask
<1>2. /\ ~(file.opens /\ (size[1] < 1 \/ size[2] < 1))
      /\ q \in (0 .. 200) \X (0 .. 200)
      /\ mask.at[q] = IF ~(q[2] \in 25 .. 175) THEN -1
                      ELSE IF ~file.opens THEN Masks!Stripes(q)
                      ELSE Masks!Stretched(size, col, row, 201, 151)
  BY <1>1, PpmMaskShape
<1>3. -1 \in -1 .. One /\ Masks!Stripes(q) \in -1 .. One
  BY OneAssumption DEF Masks!Stripes
<1>4. ASSUME file.opens, q[2] \in 25 .. 175
      PROVE  Masks!Stretched(size, col, row, 201, 151) \in -1 .. One
  <2>1. col \in 0 .. 200 /\ row \in 0 .. 150
    BY <1>2, <1>4
  <2>2. file # MissingFile
    BY <1>4 DEF MissingFile
  <2>3. size = <<file.width, file.height>>
    BY <1>2, <1>4, <2>2, SizeUnderstood
  <2>4. Masks!Stretched(size, col, row, 201, 151)
            = PpmColour((col * file.width) \div 201, (row * file.height) \div 151)
    BY <2>3 DEF Masks!Stretched
  <2> HIDE DEF col, row
  <2>5. PpmColour((col * file.width) \div 201, (row * file.height) \div 151) \in 0 .. One
    BY <2>1, <2>2, StretchedInGamut
  <2> QED
    BY <2>4, <2>5, OneAssumption
<1> HIDE DEF size, col, row
<1> QED
  BY <1>2, <1>3, <1>4

-----------------------------------------------------------------------------
(* The types, and with them that every colour stays in the gamut.  The     *)
(* masks that are made later and the copy belong to the invariant: their   *)
(* entries are what a click mixes.                                         *)

CanvasOK ==
    /\ IsPicture(my_pixel_buffer_)
    /\ background_color_ \in 0 .. One

ChoicesOK ==
    /\ cur_tool_ \in 0 .. 7 /\ active_tool_ \in 0 .. 7
    /\ cur_color_ \in Shade /\ active_color_ \in Shade
    /\ {orig_text, last_float_val} \subseteq Shade \cup {NoValue}

StampOK ==
    \/ stamp_image = NoImage /\ stamp_mask_ = Masks!NoMask
    \/ stamp_image \in StampImage /\ stamp_mask_ = Masks!buffer_stamp_mask(stamp_image)

BuiltOK ==
    /\ FileOK(special_mask_file)
    /\ filter_kernel_array_ \in [0 .. 41 -> {"null", "garbage", "kernel"}]

ClickOK ==
    /\ click \in BOOLEAN
    /\ mouse \in Mouse \cup {<<0, 0>>}
    /\ visited \in 0 .. PixelCount
    /\ clicks \in 0 .. MaxClicks
    /\ buffer_copy = NoBuffer \/ IsPicture(buffer_copy)
    /\ click /\ active_tool_ = 6 =>
            /\ IsPicture(buffer_copy)
            /\ buffer_copy.width = my_pixel_buffer_.width
            /\ buffer_copy.height = my_pixel_buffer_.height

ToolsInv ==
    /\ process \in {"running", "undefined"}
    /\ CanvasOK
    /\ ChoicesOK
    /\ StampOK
    /\ BuiltOK
    /\ ClickOK

\* The walk is at a pixel of the canvas.
LEMMA PositionFacts ==
    ASSUME CanvasOK, visited \in Nat, visited < PixelCount
    PROVE  Position \in Positions(my_pixel_buffer_)
<1> DEFINE w == my_pixel_buffer_.width
           h == my_pixel_buffer_.height
           q == visited \div w
           r == visited % w
<1>1. w \in Nat /\ w > 0 /\ h \in Nat /\ visited < w * h
  BY DEF CanvasOK, IsPicture, IsBuffer, PixelCount
<1>2. Position = <<r, q>>
  BY DEF Position
<1> HIDE DEF w, h
<1>3. r \in 0 .. w - 1 /\ q \in Nat /\ visited = w * q + r
  BY <1>1, DivisionFacts
<1> HIDE DEF q, r
<1>4. CASE q >= h
  <2>1. h * w <= q * w /\ h * w \in Nat /\ q * w \in Nat
    BY <1>1, <1>3, <1>4, ProductFacts
  <2>2. h * w = w * h /\ q * w = w * q
    BY <1>1, <1>3
  <2> QED
    BY <1>1, <1>3, <2>1, <2>2
<1>5. CASE q < h
  BY <1>1, <1>2, <1>3, <1>5 DEF Positions, w, h
<1> QED
  BY <1>1, <1>3, <1>4, <1>5

LEMMA ClassFacts ==
    ASSUME active_tool_ \in 0 .. 7
    PROVE  /\ active_tool_ \in 0 .. 4 => active_tool.class = "Brush" /\ Mask = active_tool.mask
           /\ active_tool_ = 5 => active_tool.class = "Stamp" /\ Mask = stamp_mask_
           /\ active_tool_ = 6 =>
                active_tool.class = "BlurTool" /\ Mask = Masks!blur_mask(41)
           /\ active_tool_ = 7 =>
                /\ active_tool.class = "Stamper"
                /\ Mask = Masks!ppm_stamp_mask(200, 150, special_mask_file)
<1>1. /\ active_tool_ \in 0 .. 4 => active_tool.class = "Brush"
      /\ active_tool_ = 5 => active_tool.class = "Stamp"
      /\ active_tool_ = 6 => active_tool.class = "BlurTool"
      /\ active_tool_ = 7 => active_tool.class = "Stamper"
  BY DEF active_tool, tools_, Brush
<1>2. active_tool_ = 6 => active_tool.mask = Masks!blur_mask(41)
  BY DEF active_tool, tools_
<1>3. "Brush" # "Stamp" /\ "Brush" # "Stamper" /\ "BlurTool" # "Stamp" /\ "BlurTool" # "Stamper"
      /\ "Stamp" # "Stamper"
  OBVIOUS
<1> QED
  BY <1>1, <1>2, <1>3 DEF Mask

\* Whatever the tool, and whatever lies over the pixel, it gets a colour.
LEMMA NewColourInGamut ==
    ASSUME ToolsInv, click, NEW p \in Positions(my_pixel_buffer_), NEW c \in 0 .. One
    PROVE  NewColour(Mask, p, c) \in 0 .. One
<1> DEFINE q == MaskPosition(Mask, p)
           entry == Mask.at[q]
<1>1. active_tool_ \in 0 .. 7
  BY DEF ToolsInv, ChoicesOK
<1>2. p[1] \in Int /\ p[2] \in Int
  BY DEF Positions, ToolsInv, CanvasOK, IsPicture, IsBuffer
<1>3. active_color_ \in 0 .. One /\ background_color_ \in 0 .. One
  BY ToolsAssumption DEF ToolsInv, ChoicesOK, CanvasOK
<1>4. NewColour(Mask, p, c) =
        IF q \notin DOMAIN Mask.at THEN c
        ELSE CASE active_tool.class = "Brush" -> Brushed(entry, c)
               [] active_tool.class = "BlurTool" -> Blurred(entry, c, p[1], p[2])
               [] active_tool.class \in {"Stamp", "Stamper"} -> Stamped(entry, c)
  BY DEF NewColour
<1> HIDE DEF q
<1> SUFFICES ASSUME q \in DOMAIN Mask.at
             PROVE  NewColour(Mask, p, c) \in 0 .. One
  BY <1>4
<1>5. CASE active_tool_ \in 0 .. 4
  <2>1. active_tool.class = "Brush" /\ Mask = tools_[active_tool_].mask
    BY <1>1, <1>5, ClassFacts DEF active_tool
  <2>2. entry \in -100 .. 100
    <3>1. \A i \in 0 .. 4 : \A r \in DOMAIN tools_[i].mask.at :
            tools_[i].mask.at[r] \in -100 .. 100
      BY BrushEntries
    <3> QED
      BY <1>5, <2>1, <3>1
  <2> HIDE DEF entry
  <2>3. Brushed(entry, c) \in 0 .. One
    BY <1>3, <2>2, BrushedInGamut
  <2> QED
    BY <1>4, <2>1, <2>3
<1>6. CASE active_tool_ = 6
  <2>1. active_tool.class = "BlurTool" /\ Mask = Masks!blur_mask(41) /\ IsPicture(buffer_copy)
    BY <1>1, <1>6, ClassFacts DEF ToolsInv, ClickOK
  <2>2. entry \in 0 .. 20
    BY <2>1, BlurSizeBounded DEF Masks!blur_mask
  <2> HIDE DEF entry
  <2>3. Blurred(entry, c, p[1], p[2]) \in 0 .. One
    BY <1>2, <2>1, <2>2, BlurredInGamut
  <2> QED
    BY <1>4, <2>1, <2>3
<1>7. CASE active_tool_ \in {5, 7}
  <2>1. active_tool.class \in {"Stamp", "Stamper"}
    BY <1>1, <1>7, ClassFacts
  <2>2. entry \in -1 .. One
    <3>1. CASE active_tool_ = 5
      <4>1. Mask = stamp_mask_
        BY <1>1, <3>1, ClassFacts
      <4>2. stamp_mask_ # Masks!NoMask
        BY <4>1 DEF Masks!NoMask
      <4>3. stamp_image \in StampImage /\ stamp_mask_ = Masks!buffer_stamp_mask(stamp_image)
        BY <4>2 DEF ToolsInv, StampOK
      <4> QED
        BY <4>1, <4>3, StampEntries
    <3>2. CASE active_tool_ = 7
      <4>1. Mask = Masks!ppm_stamp_mask(200, 150, special_mask_file)
        BY <1>1, <3>2, ClassFacts
      <4>2. FileOK(special_mask_file)
        BY DEF ToolsInv, BuiltOK
      <4> QED
        BY <4>1, <4>2, PpmEntries
    <3> QED
      BY <1>7, <3>1, <3>2
  <2> HIDE DEF entry
  <2>3. Stamped(entry, c) \in 0 .. One
    BY <1>1, <2>1, <2>2, StampedInGamut
  <2> QED
    BY <1>4, <2>1, <2>3
<1> QED
  BY <1>1, <1>5, <1>6, <1>7

LEMMA InitToolsInv == Init => ToolsInv
<1> SUFFICES ASSUME Init PROVE ToolsInv
  OBVIOUS
<1>1. PICK c \in Canvas :
        /\ my_pixel_buffer_ = [width |-> c.width, height |-> c.height, pixels |-> c.pixels]
        /\ background_color_ = c.background
  BY DEF Init
<1>2. CanvasOK
  <2> DEFINE D == 0 .. c.width * c.height - 1
  <2>1. /\ c.width \in Nat \ {0} /\ c.height \in Nat \ {0} /\ c.background \in 0 .. One
        /\ c.pixels \in [D -> 0 .. One]
    BY ToolsAssumption
  <2>2. /\ my_pixel_buffer_.width = c.width /\ my_pixel_buffer_.height = c.height
        /\ my_pixel_buffer_.pixels = c.pixels
        /\ 0 .. my_pixel_buffer_.width * my_pixel_buffer_.height - 1 = D
    BY <1>1
  <2> HIDE DEF D
  <2>3. my_pixel_buffer_.pixels \in [D -> 0 .. One]
    BY <2>1, <2>2
  <2> QED
    BY <1>1, <2>1, <2>2, <2>3 DEF CanvasOK, IsPicture, IsBuffer, InGamut
<1>3. PICK b \in Beginning :
        /\ special_mask_file = b.file
        /\ filter_kernel_array_ =
                Shelved([k \in 0 .. 41 |-> IF k \in b.dirty THEN "garbage" ELSE "null"])
  BY DEF Init
<1>4. BuiltOK
  <2>1. FileOK(special_mask_file)
    BY <1>3, ToolsAssumption DEF FileOK
  <2> QED
    BY <1>3, <2>1 DEF BuiltOK, Shelved
<1>5. PixelCount \in Nat
  <2> DEFINE w == my_pixel_buffer_.width
             h == my_pixel_buffer_.height
  <2>1. w \in Nat /\ h \in Nat /\ PixelCount = w * h
    BY <1>2 DEF CanvasOK, IsPicture, IsBuffer, PixelCount
  <2> HIDE DEF w, h
  <2> QED
    BY <2>1
<1>6. 0 \in Shade /\ MaxClicks \in Nat
  BY ToolsAssumption
<1>7. ChoicesOK
  BY <1>6 DEF Init, ChoicesOK, NoValue
<1>8. ClickOK
  <2>1. click = FALSE /\ mouse = <<0, 0>> /\ visited = 0 /\ buffer_copy = NoBuffer /\ clicks = 0
    BY DEF Init
  <2>2. visited \in 0 .. PixelCount /\ clicks \in 0 .. MaxClicks
    BY <1>5, <1>6, <2>1
  <2> QED
    BY <2>1, <2>2 DEF ClickOK
<1>9. StampOK
  BY DEF Init, StampOK
<1>10. process = "running"
  BY DEF Init
<1> QED
  BY <1>2, <1>4, <1>7, <1>8, <1>9, <1>10 DEF ToolsInv

\* A callback changes what the panel and the belt hold, and nothing else.
LEMMA PanelFacts ==
    ASSUME ToolsInv, Idle, UNCHANGED panelUnchanged, ChoicesOK', StampOK'
    PROVE  ToolsInv'
BY DEF ToolsInv, Idle, panelUnchanged, builtVars, clickVars, CanvasOK, BuiltOK, ClickOK,
       PixelCount

LEMMA RememberedFacts ==
    ASSUME NEW how, NEW leave, NEW remembered, NEW value
    PROVE  /\ Activated(how, remembered, value) \in {remembered, value}
           /\ Remembered(leave, remembered, value) \in {remembered, value}
BY DEF Activated, Remembered

LEMMA PanelToolsInv ==
    ASSUME ToolsInv,
           \/ \E i \in DOMAIN tools_ : ChooseTool(i)
           \/ \E v \in Shade : PresetColour(v) \/ SpinColour(v)
           \/ \E v \in Shade, how \in Entrance, leave \in Departure : TypeColour(v, how, leave)
           \/ \E image \in StampImage : LoadStamp(image)
           \/ OtherCallback
    PROVE  ToolsInv'
<1>1. ChoicesOK
  BY DEF ToolsInv
<1>2. ASSUME NEW i \in DOMAIN tools_, ChooseTool(i) PROVE ToolsInv'
  <2>1. ChoicesOK'
    BY <1>1, <1>2 DEF ChooseTool, Synchronize, ChoicesOK, tools_
  <2> QED
    BY <1>2, <2>1, PanelFacts DEF ChooseTool, stampVars, ToolsInv, StampOK
<1>3. ASSUME NEW v \in Shade, PresetColour(v) PROVE ToolsInv'
  <2>1. ChoicesOK'
    BY <1>1, <1>3 DEF PresetColour, Synchronize, ChoicesOK
  <2> QED
    BY <1>3, <2>1, PanelFacts DEF PresetColour, stampVars, ToolsInv, StampOK
<1>4. ASSUME NEW v \in Shade, SpinColour(v) PROVE ToolsInv'
  <2>1. ChoicesOK'
    BY <1>1, <1>4 DEF SpinColour, Synchronize, beltVars, ChoicesOK
  <2> QED
    BY <1>4, <2>1, PanelFacts DEF SpinColour, stampVars, ToolsInv, StampOK
<1>5. ASSUME NEW v \in Shade, NEW how \in Entrance, NEW leave \in Departure,
             TypeColour(v, how, leave)
      PROVE  ToolsInv'
  <2>1. /\ cur_color_' = v /\ UNCHANGED <<cur_tool_, last_float_val>>
        /\ Synchronize \/ UNCHANGED beltVars
        /\ orig_text' = Remembered(leave, Activated(how, orig_text, cur_color_), v)
    BY <1>5 DEF TypeColour
  <2>2. orig_text' \in {orig_text, cur_color_, v}
    BY <2>1, RememberedFacts
  <2>3. ChoicesOK'
    BY <1>1, <2>1, <2>2 DEF Synchronize, beltVars, ChoicesOK
  <2> QED
    BY <1>5, <2>3, PanelFacts DEF TypeColour, stampVars, ToolsInv, StampOK
<1>6. ASSUME NEW image \in StampImage, LoadStamp(image) PROVE ToolsInv'
  <2>1. ChoicesOK'
    BY <1>1, <1>6 DEF LoadStamp, Synchronize, choiceVars, ChoicesOK
  <2>2. StampOK'
    BY <1>6 DEF LoadStamp, StampOK
  <2> QED
    BY <1>6, <2>1, <2>2, PanelFacts DEF LoadStamp
<1>7. CASE OtherCallback
  <2>1. ChoicesOK'
    BY <1>1, <1>7 DEF OtherCallback, Synchronize, choiceVars, ChoicesOK
  <2> QED
    BY <1>7, <2>1, PanelFacts DEF OtherCallback, stampVars, ToolsInv, StampOK
<1> QED
  BY <1>2, <1>3, <1>4, <1>5, <1>6, <1>7

LEMMA PaintToolsInv == ASSUME ToolsInv, PaintPixel PROVE ToolsInv'
<1> DEFINE at == Position
           v == NewColour(Mask, at, PixelAtPosition)
<1>1. IsPicture(my_pixel_buffer_) /\ click /\ visited \in Nat /\ visited < PixelCount
  BY DEF ToolsInv, CanvasOK, ClickOK, PaintPixel
<1>2. at \in Positions(my_pixel_buffer_)
  BY <1>1, PositionFacts DEF ToolsInv
<1>3. v \in 0 .. One
  <2>1. PixelAtPosition \in 0 .. One
    BY <1>1, <1>2, PixelInGamut DEF PixelAtPosition
  <2> HIDE DEF at
  <2> QED
    BY <1>1, <1>2, <2>1, NewColourInGamut
<1>4. my_pixel_buffer_' = set_valid_pixel(my_pixel_buffer_, at[1], at[2], v)
  BY DEF PaintPixel, SetPixel
<1> HIDE DEF at, v
<1>5. IsPicture(my_pixel_buffer_')
  BY <1>1, <1>2, <1>3, <1>4, WrittenInGamut
<1>6. /\ my_pixel_buffer_'.width = my_pixel_buffer_.width
      /\ my_pixel_buffer_'.height = my_pixel_buffer_.height
  BY <1>1, <1>2, <1>4, WrittenFacts DEF IsPicture
<1>7. visited' = visited + 1 /\ UNCHANGED <<clickUnchanged, process, click, mouse, buffer_copy, clicks>>
  BY DEF PaintPixel
<1>8. PixelCount' = PixelCount
  BY <1>6 DEF PixelCount
<1>9. visited' \in 0 .. PixelCount
  <2>1. PixelCount \in Int
    <3> DEFINE w == my_pixel_buffer_.width
               h == my_pixel_buffer_.height
    <3>1. w \in Nat /\ h \in Nat /\ PixelCount = w * h
      BY <1>1 DEF IsPicture, IsBuffer, PixelCount
    <3> HIDE DEF w, h
    <3> QED
      BY <3>1
  <2> QED
    BY <1>1, <1>7, <2>1
<1> QED
  BY <1>5, <1>6, <1>7, <1>8, <1>9
  DEF ToolsInv, CanvasOK, ChoicesOK, StampOK, BuiltOK, ClickOK, clickUnchanged,
      choiceVars, beltVars, stampVars, builtVars

LEMMA NextToolsInv == ASSUME ToolsInv, [Next]_vars PROVE ToolsInv'
<1>1. ASSUME NEW at \in Mouse, IgnoreClick(at) \/ ApplyClick(at) PROVE ToolsInv'
  <2>1. /\ UNCHANGED <<clickUnchanged, process, my_pixel_buffer_>>
        /\ mouse' = at /\ clicks' = clicks + 1 /\ clicks < MaxClicks
        /\ \/ UNCHANGED <<click, visited, buffer_copy>> /\ ~click
           \/ /\ click' = TRUE /\ visited' = 0
              /\ buffer_copy' = IF active_tool.class = "BlurTool"
                                THEN my_pixel_buffer_ ELSE NoBuffer
    BY <1>1 DEF IgnoreClick, ApplyClick, Idle
  <2>2. active_tool.class = "BlurTool" <=> active_tool_ = 6
    BY ClassFacts DEF ToolsInv, ChoicesOK
  <2>3. PixelCount' = PixelCount /\ PixelCount \in Nat
    <3> DEFINE w == my_pixel_buffer_.width
               h == my_pixel_buffer_.height
    <3>1. w \in Nat /\ h \in Nat /\ PixelCount = w * h
      BY DEF ToolsInv, CanvasOK, IsPicture, IsBuffer, PixelCount
    <3> HIDE DEF w, h
    <3>2. PixelCount \in Nat
      BY <3>1
    <3> QED
      BY <2>1, <3>2 DEF PixelCount
  <2>4. clicks' \in 0 .. MaxClicks
    BY <2>1, ToolsAssumption DEF ToolsInv, ClickOK
  <2>5. UNCHANGED <<my_pixel_buffer_, active_tool_>>
    BY <2>1 DEF clickUnchanged, beltVars
  <2>6. ClickOK /\ IsPicture(my_pixel_buffer_)
    BY DEF ToolsInv, CanvasOK
  <2>7. ASSUME UNCHANGED <<click, visited, buffer_copy>>, ~click PROVE ClickOK'
    BY <2>1, <2>3, <2>4, <2>5, <2>6, <2>7 DEF ClickOK
  <2>8. ASSUME click' = TRUE, visited' = 0,
               buffer_copy' = IF active_tool_ = 6 THEN my_pixel_buffer_ ELSE NoBuffer
        PROVE  ClickOK'
    <3>1. IF active_tool_ = 6 THEN buffer_copy' = my_pixel_buffer_ ELSE buffer_copy' = NoBuffer
      BY <2>8
    <3>2. visited' \in 0 .. PixelCount' /\ mouse' \in Mouse
      BY <2>1, <2>3, <2>8
    <3> QED
      BY <2>4, <2>5, <2>6, <2>8, <3>1, <3>2 DEF ClickOK
  <2>9. ClickOK'
    BY <2>1, <2>2, <2>7, <2>8
  <2> QED
    BY <2>1, <2>9 DEF ToolsInv, CanvasOK, ChoicesOK, StampOK, BuiltOK, clickUnchanged,
        choiceVars, beltVars, stampVars, builtVars
<1>2. CASE UseNoKernel \/ Return
  BY <1>2 DEF UseNoKernel, Return, ToolsInv, CanvasOK, ChoicesOK, StampOK, BuiltOK, ClickOK,
        PixelCount, clickUnchanged, choiceVars, beltVars, stampVars, builtVars, clickVars
<1>3. CASE UNCHANGED vars
  BY <1>3 DEF vars, ToolsInv, CanvasOK, ChoicesOK, StampOK, BuiltOK, ClickOK,
        PixelCount, choiceVars, beltVars, stampVars, builtVars, clickVars
<1> QED
  BY <1>1, <1>2, <1>3, PanelToolsInv, PaintToolsInv DEF Next

\* Every tool, whatever its masks hold and however negative their entries, leaves
\* every colour of the canvas in the gamut, though none clamps what it stores.
THEOREM TypeCorrect == Spec => []TypeOK
<1>1. ToolsInv => TypeOK
  BY DEF ToolsInv, TypeOK, CanvasOK, ChoicesOK, StampOK, BuiltOK, ClickOK, IsPicture, tools_
<1> QED
  BY <1>1, InitToolsInv, NextToolsInv, PTL DEF Spec

-----------------------------------------------------------------------------
(* The abstract specification.  It has no masks: first, what the tools mix. *)

LEMMA QuotientScaled ==
    ASSUME NEW d \in Nat, d > 0, NEW m \in Nat, m > 0, NEW n \in Nat
    PROVE  (n * m) \div (d * m) = n \div d
<1> DEFINE q == n \div d
           r == n % d
           w == d * m
           a == r * m
<1>1. q \in Nat /\ r \in 0 .. d - 1 /\ n = d * q + r
  BY DivisionFacts
<1> HIDE DEF q, r
<1>2. w \in Nat /\ w > 0 /\ a \in Nat
  <2>1. 1 * m <= d * m /\ d * m \in Nat
    BY ProductFacts
  <2>2. r * m \in Nat
    BY <1>1
  <2> QED
    BY <2>1, <2>2
<1>3. a <= w - m
  <2>1. r * m <= (d - 1) * m
    BY <1>1, ProductFacts
  <2>2. (d - 1) * m = d * m - m
    OBVIOUS
  <2> QED
    BY <2>1, <2>2
<1>4. n * m = q * w + a
  BY <1>1
<1> HIDE DEF w, a
<1>5. a \in 0 .. w - 1
  BY <1>2, <1>3
<1>6. (q * w + a) \div w = q
  BY <1>1, <1>2, <1>5, QuotientFacts
<1> QED
  BY <1>4, <1>6 DEF w, q

LEMMA BlendPercent ==
    ASSUME NEW painted \in Nat, NEW beneath \in Nat, NEW percent \in 0 .. 100
    PROVE  /\ Blend(painted, beneath, percent * One) = Painting!Mixed(beneath, painted, percent)
           /\ Blend(painted, beneath, 100 * One) = painted
           /\ Blend(painted, beneath, 0) = beneath
<1>1. One \in Nat /\ One > 0
  BY OneAssumption
<1>2. Blend(painted, beneath, percent * One) = Painting!Mixed(beneath, painted, percent)
  <2> DEFINE rest == 100 - percent
             n == painted * percent + beneath * rest
             whole == 100
  <2>1. rest \in Nat /\ percent \in Nat /\ 100 * One - percent * One = rest * One
    BY <1>1
  <2> HIDE DEF rest
  <2>2. painted * (percent * One) = (painted * percent) * One
    BY <1>1, <2>1
  <2>3. beneath * (rest * One) = (beneath * rest) * One
    BY <1>1, <2>1
  <2>4. painted * percent \in Nat /\ beneath * rest \in Nat
    BY <2>1
  <2>5. painted * (percent * One) + beneath * (rest * One) = n * One /\ n \in Nat
    <3> DEFINE u == painted * percent
               v == beneath * rest
    <3>1. u \in Nat /\ v \in Nat
      BY <2>4
    <3> HIDE DEF u, v
    <3>2. u * One + v * One = (u + v) * One
      BY <1>1, <3>1
    <3> QED
      BY <2>2, <2>3, <2>4, <3>2 DEF u, v
  <2>6. Blend(painted, beneath, percent * One) = (n * One) \div (whole * One)
    BY <2>1, <2>5 DEF Blend
  <2>7. Painting!Mixed(beneath, painted, percent) = n \div whole
    BY DEF Painting!Mixed, rest
  <2>8. whole \in Nat /\ whole > 0
    OBVIOUS
  <2> HIDE DEF n, whole
  <2> QED
    BY <1>1, <2>5, <2>6, <2>7, <2>8, QuotientScaled
<1> DEFINE d == 100 * One
<1>3. d \in Nat /\ d > 0 /\ d - d = 0 /\ d - 0 = d
  BY <1>1
<1>4. \A n \in Nat : (n * d) \div d = n
  <2> HIDE DEF d
  <2>1. ASSUME NEW n \in Nat PROVE (n * d) \div d = n
    <3>1. (n * d) \div (1 * d) = n \div 1
      BY <1>3, QuotientScaled
    <3> QED
      BY <1>3, <3>1
  <2> QED
    BY <2>1
<1>5. Blend(painted, beneath, d) = painted
  <2>1. Blend(painted, beneath, d) = (painted * d + beneath * (d - d)) \div d
    BY DEF Blend
  <2> HIDE DEF d
  <2>2. painted * d + beneath * (d - d) = painted * d
    BY <1>3
  <2> QED
    BY <1>4, <2>1, <2>2
<1>6. Blend(painted, beneath, 0) = beneath
  <2>1. Blend(painted, beneath, 0) = (painted * 0 + beneath * (d - 0)) \div d
    BY DEF Blend
  <2> HIDE DEF d
  <2>2. painted * 0 + beneath * (d - 0) = beneath * d
    BY <1>3
  <2> QED
    BY <1>4, <2>1, <2>2
<1> QED
  BY <1>2, <1>5, <1>6

\* A brush without luminance mixes as many percents as its mask says, of the
\* background if they are negative.
LEMMA BrushedPercent ==
    ASSUME ~active_tool.uses_luminance,
           active_color_ \in Nat, background_color_ \in Nat,
           NEW c \in Nat, NEW strength \in -100 .. 100
    PROVE  /\ strength >= 0 => Brushed(strength, c) = Painting!Mixed(c, active_color_, strength)
           /\ strength = 100 => Brushed(strength, c) = active_color_
           /\ strength = -100 => Brushed(strength, c) = background_color_
           /\ strength = 0 => Brushed(strength, c) = c
<1> DEFINE intensity == strength * One
<1>1. One \in Nat /\ One > 0
  BY OneAssumption
<1>2. Brushed(strength, c) = IF intensity > 0 THEN Blend(active_color_, c, intensity)
                             ELSE Blend(background_color_, c, AbsValue(intensity))
  BY DEF Brushed
<1>3. /\ intensity \in Int
      /\ strength > 0 => intensity > 0
      /\ strength = 0 => intensity = 0
      /\ strength = -100 => intensity < 0 /\ AbsValue(intensity) = 100 * One
  BY <1>1 DEF AbsValue
<1>4. AbsValue(0) = 0
  BY DEF AbsValue
<1> HIDE DEF intensity
<1>5. CASE strength > 0
  <2>1. Brushed(strength, c) = Blend(active_color_, c, strength * One)
    BY <1>2, <1>3, <1>5 DEF intensity
  <2>2. strength \in 0 .. 100
    BY <1>5
  <2>3. /\ Blend(active_color_, c, strength * One) = Painting!Mixed(c, active_color_, strength)
        /\ Blend(active_color_, c, 100 * One) = active_color_
    <3> DEFINE whole == 100 * One
    <3>1. /\ \A a, b \in Nat, e \in 0 .. 100 : /\ Blend(a, b, e * One) = Painting!Mixed(b, a, e)
                                              /\ Blend(a, b, whole) = a
      BY BlendPercent
    <3> QED
      BY <2>2, <3>1, Zenon
  <2>4. strength = 100 => Brushed(strength, c) = Blend(active_color_, c, 100 * One)
    BY <2>1
  <2> QED
    BY <1>5, <2>1, <2>3, <2>4
<1>6. CASE strength = 0
  <2>1. Brushed(strength, c) = Blend(background_color_, c, 0)
    BY <1>2, <1>3, <1>4, <1>6
  <2>2. Brushed(strength, c) = c /\ 0 \in 0 .. 100
    BY <2>1, BlendPercent
  <2>3. Painting!Mixed(c, active_color_, 0) = c
    <3>1. Blend(active_color_, c, 0 * One) = Painting!Mixed(c, active_color_, 0)
      BY <2>2, BlendPercent
    <3>2. 0 * One = 0
      BY <1>1
    <3> QED
      BY <3>1, <3>2, BlendPercent
  <2> QED
    BY <1>6, <2>2, <2>3
<1>7. CASE strength < 0
  <2>1. 0 \in 0 .. 100
    OBVIOUS
  <2>2. Blend(background_color_, c, 100 * One) = background_color_
    BY <2>1, BlendPercent
  <2>3. strength = -100 => Brushed(strength, c) = Blend(background_color_, c, 100 * One)
    BY <1>2, <1>3
  <2> QED
    BY <1>7, <2>2, <2>3
<1> QED
  BY <1>5, <1>6, <1>7

\* A disk lies in the square around it.
LEMMA DiskInSquare ==
    ASSUME NEW r \in Nat, NEW dx \in Int, NEW dy \in Int, dx * dx + dy * dy <= r * r
    PROVE  dx \in -r .. r /\ dy \in -r .. r
<1>1. ASSUME NEW a \in Int, NEW s \in Nat, a * a + s <= r * r
      PROVE  a \in -r .. r
  <2> DEFINE b == IF a < 0 THEN -a ELSE a
  <2>1. b \in Nat /\ b * b = a * a
    OBVIOUS
  <2> HIDE DEF b
  <2>2. CASE b > r
    <3>1. (r + 1) * b <= b * b /\ r * (r + 1) <= b * (r + 1)
      BY <2>1, <2>2, ProductFacts
    <3>2. (r + 1) * b = b * (r + 1) /\ r * (r + 1) = r * r + r
      BY <2>1
    <3>3. r * r + r <= b * b
      BY <2>1, <3>1, <3>2
    <3>4. b * b >= r * r + r + 1
      <4>1. (r + 1) * (r + 1) <= b * (r + 1)
        BY <2>1, <2>2, ProductFacts
      <4>2. (r + 1) * (r + 1) = r * r + r + r + 1
        OBVIOUS
      <4> QED
        BY <2>1, <3>1, <3>2, <4>1, <4>2
    <3> QED
      BY <1>1, <2>1, <3>4
  <2> QED
    BY <2>1, <2>2 DEF b
<1>2. dx * dx \in Nat /\ dy * dy \in Nat
  OBVIOUS
<1>3. dx * dx + dy * dy <= r * r /\ dy * dy + dx * dx <= r * r
  BY <1>2
<1> QED
  BY <1>1, <1>2, <1>3

-----------------------------------------------------------------------------
(* Each tool, at the distance <<dx, dy>> from the click                    *)

\* The entry of a mask that lies there.
At(mask, dx, dy) == <<dx + mask.size \div 2, dy + mask.size \div 2>>

\* What a brush or a stamp makes of a pixel of the colour c under that entry.
Struck(q, c) ==
    IF q \notin DOMAIN Mask.at THEN c
    ELSE IF active_tool.class = "Brush" THEN Brushed(Mask.at[q], c)
    ELSE Stamped(Mask.at[q], c)

\* What a round mask has at q, dx and dy from its middle, n being the square of
\* the distance.
Under(mask, q, center, outer, diameter, r, n) ==
    /\ mask.size = diameter
    /\ n <= r * r =>
        /\ q \in DOMAIN mask.at
        /\ mask.at[q] = Masks!Max(Falloff(center, outer, r, n))
        /\ mask.at[q] \in Falloff(center, outer, r, n)
    /\ ~(n <= r * r) /\ q \in DOMAIN mask.at => mask.at[q] = 0

LEMMA CircleUnder ==
    ASSUME NEW r \in Nat, NEW diameter, diameter = 2 * r + 1,
           NEW center \in Int, NEW outer \in Int, outer <= center,
           NEW mask, mask = Masks!mask_circle(diameter, center, outer),
           NEW dx \in Int, NEW dy \in Int, NEW n, n = dx * dx + dy * dy,
           NEW q, q = At(mask, dx, dy)
    PROVE  Under(mask, q, center, outer, diameter, r, n)
<1>1. diameter \in Nat /\ diameter \div 2 = r /\ Masks!OddSize(diameter) = diameter
  BY DEF Masks!OddSize
<1>2. mask.size = diameter /\ DOMAIN mask.at = Masks!Square(diameter)
  BY <1>1 DEF Masks!mask_circle
<1>3. q = <<dx + r, dy + r>>
  BY <1>1, <1>2 DEF At
<1>4. n \in Nat /\ r * r \in Nat
  <2>1. dx * dx \in Nat /\ dy * dy \in Nat /\ r * r \in Nat
    OBVIOUS
  <2> QED
    BY <2>1
<1>5. n <= r * r => q \in DOMAIN mask.at
  <2>1. n <= r * r => dx \in -r .. r /\ dy \in -r .. r
    BY DiskInSquare
  <2> QED
    BY <1>2, <1>3, <2>1 DEF Masks!Square
<1>6. n = Masks!SquaredDistance(q, r)
  <2>1. q[1] - r = dx /\ q[2] - r = dy
    BY <1>3
  <2> QED
    BY <2>1 DEF Masks!SquaredDistance
<1>7. ASSUME q \in DOMAIN mask.at
      PROVE  CircleEntry(mask, q, center, outer, diameter, r, n)
  <2>1. q \in Masks!Square(Masks!OddSize(diameter))
    BY <1>1, <1>2, <1>7
  <2>2. r = diameter \div 2
    BY <1>1
  <2> QED
    BY <1>1, <1>6, <2>1, <2>2, CircleFacts
<1>8. ASSUME n <= r * r
      PROVE  /\ mask.at[q] = Masks!Max(Falloff(center, outer, r, n))
             /\ mask.at[q] \in Falloff(center, outer, r, n)
  <2>1. ~(n > r * r)
    BY <1>4, <1>8
  <2> QED
    BY <1>5, <1>7, <1>8, <2>1 DEF CircleEntry
<1>9. ASSUME ~(n <= r * r), q \in DOMAIN mask.at
      PROVE  mask.at[q] = 0
  <2>1. n > r * r
    BY <1>4, <1>9
  <2> QED
    BY <1>7, <1>9, <2>1 DEF CircleEntry
<1> QED
  BY <1>2, <1>5, <1>8, <1>9 DEF Under

PlainColours ==
    /\ active_tool_ \in 0 .. 7
    /\ active_color_ \in 0 .. One /\ background_color_ \in 0 .. One

LEMMA PlainFacts ==
    ASSUME PlainColours
    PROVE  /\ active_color_ \in Nat /\ background_color_ \in Nat
           /\ 0 .. One \subseteq Nat
BY OneAssumption DEF PlainColours

LEMMA PenFacts ==
    ASSUME PlainColours, active_tool_ = 0,
           NEW dx \in Int, NEW dy \in Int, NEW c \in 0 .. One
    PROVE  Struck(At(Mask, dx, dy), c) = Painting!Pen(c, dx, dy) /\ Mask.size # 0
<1> DEFINE q == At(Mask, dx, dy)
           n == dx * dx + dy * dy
           r == 1
           diameter == 3
           whole == 100
<1>1. /\ Mask = Masks!mask_circle(diameter, whole, whole)
      /\ active_tool.class = "Brush" /\ ~active_tool.uses_luminance
  BY ClassFacts DEF active_tool, tools_, Brush
<1>2. r \in Nat /\ diameter = 2 * r + 1 /\ diameter # 0 /\ whole \in Int /\ whole <= whole
      /\ whole \in -100 .. 100 /\ 0 \in -100 .. 100
  OBVIOUS
<1>3. Painting!InDisk(dx, dy, r) <=> n <= r * r
  BY DEF Painting!InDisk
<1>4. Brushed(whole, c) = active_color_ /\ Brushed(0, c) = c
  BY <1>1, <1>2, PlainFacts, BrushedPercent
<1> HIDE DEF q, n, r, diameter, whole
<1>5. Under(Mask, q, whole, whole, diameter, r, n)
  <2>1. q = At(Mask, dx, dy) /\ n = dx * dx + dy * dy
    BY DEF q, n
  <2> QED
    BY <1>1, <1>2, <2>1, CircleUnder
<1>6. Falloff(whole, whole, r, n) \subseteq {whole}
  BY <1>2 DEF Falloff
<1> QED
  BY <1>1, <1>2, <1>3, <1>4, <1>5, <1>6 DEF Under, Struck, Painting!Pen, q, r

LEMMA EraserFacts ==
    ASSUME PlainColours, active_tool_ = 1,
           NEW dx \in Int, NEW dy \in Int, NEW c \in 0 .. One
    PROVE  Struck(At(Mask, dx, dy), c) = Painting!Eraser(c, dx, dy) /\ Mask.size # 0
<1> DEFINE q == At(Mask, dx, dy)
           n == dx * dx + dy * dy
           r == 10
           diameter == 21
           whole == -100
<1>1. /\ Mask = Masks!mask_circle(diameter, whole, whole)
      /\ active_tool.class = "Brush" /\ ~active_tool.uses_luminance
  BY ClassFacts DEF active_tool, tools_, Brush
<1>2. r \in Nat /\ diameter = 2 * r + 1 /\ diameter # 0 /\ whole \in Int /\ whole <= whole
      /\ whole \in -100 .. 100 /\ 0 \in -100 .. 100
  OBVIOUS
<1>3. Painting!InDisk(dx, dy, r) <=> n <= r * r
  BY DEF Painting!InDisk
<1>4. Brushed(whole, c) = background_color_ /\ Brushed(0, c) = c
  BY <1>1, <1>2, PlainFacts, BrushedPercent
<1> HIDE DEF q, n, r, diameter, whole
<1>5. Under(Mask, q, whole, whole, diameter, r, n)
  <2>1. q = At(Mask, dx, dy) /\ n = dx * dx + dy * dy
    BY DEF q, n
  <2> QED
    BY <1>1, <1>2, <2>1, CircleUnder
<1>6. Falloff(whole, whole, r, n) \subseteq {whole}
  BY <1>2 DEF Falloff
<1> QED
  BY <1>1, <1>2, <1>3, <1>4, <1>5, <1>6 DEF Under, Struck, Painting!Eraser, q, r

LEMMA SprayFacts ==
    ASSUME PlainColours, active_tool_ = 2,
           NEW dx \in Int, NEW dy \in Int, NEW c \in 0 .. One
    PROVE  Struck(At(Mask, dx, dy), c) = Painting!Spray(c, dx, dy) /\ Mask.size # 0
<1> DEFINE q == At(Mask, dx, dy)
           n == dx * dx + dy * dy
           r == 20
           diameter == 41
           center == 20
           outer == 0
           T == {i \in 0 .. 20 : Painting!InDisk(dx, dy, 20 - i)}
<1>1. /\ Mask = Masks!mask_circle(diameter, center, outer)
      /\ active_tool.class = "Brush" /\ ~active_tool.uses_luminance
  BY ClassFacts DEF active_tool, tools_, Brush
<1>2. /\ r \in Nat /\ diameter = 2 * r + 1 /\ diameter # 0
      /\ center \in Int /\ outer \in Int /\ outer <= center
  OBVIOUS
<1>3. Painting!InDisk(dx, dy, r) <=> n <= r * r
  BY DEF Painting!InDisk
<1>4. ASSUME NEW e \in 0 .. 20
      PROVE  Brushed(e, c) = Painting!Mixed(c, active_color_, e) /\ (e = 0 => Brushed(e, c) = c)
  <2>1. e \in -100 .. 100 /\ e >= 0
    OBVIOUS
  <2> QED
    BY <1>1, <2>1, PlainFacts, BrushedPercent
<1>5. Falloff(center, outer, r, n) = T
  <2>1. n \in Int
    <3>1. dx * dx \in Int /\ dy * dy \in Int
      OBVIOUS
    <3> QED
      BY <3>1
  <2>2. ASSUME NEW v \in 0 .. 20
        PROVE  Masks!AtLeast(v, center, outer, r, n) <=> Painting!InDisk(dx, dy, 20 - v)
    <3> DEFINE s == (20 - v) * (20 - v)
    <3>1. s \in Int
      <4> DEFINE u == 20 - v
      <4>1. u \in Int
        OBVIOUS
      <4> HIDE DEF u
      <4>2. u * u \in Int
        BY <4>1
      <4> QED
        BY <4>2 DEF u
    <3>2. Masks!AtLeast(v, 20, 0, 20, n) <=> s * 20 * 20 >= (20 - 0) * (20 - 0) * n
      BY DEF Masks!AtLeast
    <3>3. Painting!InDisk(dx, dy, 20 - v) <=> n <= s
      BY DEF Painting!InDisk
    <3> HIDE DEF s, n
    <3> QED
      BY <2>1, <3>1, <3>2, <3>3
  <2> QED
    BY <2>2 DEF Falloff
<1>6. Painting!Max(T) = Masks!Max(T)
  BY DEF Painting!Max, Masks!Max
<1>7. Painting!Spray(c, dx, dy) =
        IF n <= r * r THEN Painting!Mixed(c, active_color_, Painting!Max(T)) ELSE c
  BY <1>3 DEF Painting!Spray
<1>8. T \subseteq 0 .. 20 /\ 0 \in 0 .. 20
  OBVIOUS
<1> HIDE DEF q, n, r, diameter, center, outer, T
<1>9. Under(Mask, q, center, outer, diameter, r, n)
  <2>1. q = At(Mask, dx, dy) /\ n = dx * dx + dy * dy
    BY DEF q, n
  <2> QED
    BY <1>1, <1>2, <2>1, CircleUnder
<1>10. CASE n <= r * r
  <2>1. q \in DOMAIN Mask.at /\ Mask.at[q] = Painting!Max(T) /\ Mask.at[q] \in 0 .. 20
    BY <1>5, <1>6, <1>8, <1>9, <1>10 DEF Under
  <2>2. Struck(q, c) = Brushed(Mask.at[q], c)
    BY <1>1, <2>1 DEF Struck
  <2> QED
    BY <1>2, <1>4, <1>7, <1>9, <1>10, <2>1, <2>2 DEF Under, q
<1>11. CASE ~(n <= r * r)
  <2>1. Struck(q, c) = c
    BY <1>1, <1>4, <1>8, <1>9, <1>11 DEF Under, Struck
  <2> QED
    BY <1>2, <1>7, <1>9, <1>11, <2>1 DEF Under, q
<1> QED
  BY <1>10, <1>11

LEMMA RectangleUnder ==
    ASSUME NEW intensity, NEW mask, mask = Masks!mask_rectangle(5, 15, intensity),
           NEW dx \in Int, NEW dy \in Int, NEW q, q = At(mask, dx, dy)
    PROVE  /\ mask.size = 15
           /\ Painting!InBox(dx, dy, 2, 7) => q \in DOMAIN mask.at /\ mask.at[q] = intensity
           /\ ~Painting!InBox(dx, dy, 2, 7) /\ q \in DOMAIN mask.at => mask.at[q] = 0
<1>1. Masks!OddSize(5) = 5 /\ Masks!OddSize(15) = 15 /\ Masks!Max({5, 15}) = 15
  BY DEF Masks!OddSize, Masks!Max
<1>2. /\ mask.size = 15
      /\ DOMAIN mask.at = Masks!Square(15)
      /\ \A p \in Masks!Square(15) :
            mask.at[p] = IF Masks!Inside(p, 5, 15, 15) THEN intensity ELSE 0
  BY <1>1 DEF Masks!mask_rectangle
<1>3. q = <<dx + 7, dy + 7>>
  BY <1>2 DEF At
<1>4. Painting!InBox(dx, dy, 2, 7) <=> dx \in -2 .. 2 /\ dy \in -7 .. 7
  BY DEF Painting!InBox, Painting!Abs
<1>5. q \in Masks!Square(15) <=> dx \in -7 .. 7 /\ dy \in -7 .. 7
  BY <1>3 DEF Masks!Square
<1>6. Masks!Inside(q, 5, 15, 15) <=> dx \in -2 .. 2 /\ dy \in -7 .. 7
  BY <1>3 DEF Masks!Inside
<1>7. dx \in -2 .. 2 => dx \in -7 .. 7
  OBVIOUS
<1> QED
  BY <1>2, <1>4, <1>5, <1>6, <1>7

LEMMA CalligraphyFacts ==
    ASSUME PlainColours, active_tool_ = 3,
           NEW dx \in Int, NEW dy \in Int, NEW c \in 0 .. One
    PROVE  Struck(At(Mask, dx, dy), c) = Painting!Calligraphy(c, dx, dy) /\ Mask.size # 0
<1> DEFINE q == At(Mask, dx, dy)
<1>1. /\ Mask = Masks!mask_rectangle(5, 15, 100)
      /\ active_tool.class = "Brush" /\ ~active_tool.uses_luminance
  BY ClassFacts DEF active_tool, tools_, Brush
<1>2. Brushed(100, c) = active_color_ /\ Brushed(0, c) = c
  <2> DEFINE whole == 100
             none == 0
  <2>1. whole \in -100 .. 100 /\ none \in -100 .. 100 /\ whole = 100 /\ none = 0
    OBVIOUS
  <2> HIDE DEF whole, none
  <2>2. Brushed(whole, c) = active_color_ /\ Brushed(none, c) = c
    BY <1>1, <2>1, PlainFacts, BrushedPercent
  <2> QED
    BY <2>1, <2>2
<1>3. /\ Mask.size = 15
      /\ Painting!InBox(dx, dy, 2, 7) => q \in DOMAIN Mask.at /\ Mask.at[q] = 100
      /\ ~Painting!InBox(dx, dy, 2, 7) /\ q \in DOMAIN Mask.at => Mask.at[q] = 0
  BY <1>1, RectangleUnder
<1> HIDE DEF q
<1> QED
  BY <1>1, <1>2, <1>3 DEF Struck, Painting!Calligraphy, q

LEMMA HighlighterFacts ==
    ASSUME PlainColours, active_tool_ = 4,
           NEW dx \in Int, NEW dy \in Int, NEW c \in 0 .. One
    PROVE  Struck(At(Mask, dx, dy), c) = Painting!Highlighter(c, dx, dy) /\ Mask.size # 0
<1> DEFINE q == At(Mask, dx, dy)
           intensity == 40 * c
<1>1. /\ Mask = Masks!mask_rectangle(5, 15, 40)
      /\ active_tool.class = "Brush" /\ active_tool.uses_luminance
  BY ClassFacts DEF active_tool, tools_, Brush
<1>2. c \in Nat /\ active_color_ \in Nat /\ background_color_ \in Nat /\ One \in Nat
  BY PlainFacts, OneAssumption
<1>3. Brushed(0, c) = c
  <2>1. Brushed(0, c) = IF 0 * c > 0 THEN Blend(active_color_, c, 0 * c)
                        ELSE Blend(background_color_, c, AbsValue(0 * c))
    BY <1>1 DEF Brushed
  <2>2. 0 * c = 0 /\ AbsValue(0) = 0
    BY <1>2 DEF AbsValue
  <2>3. Brushed(0, c) = Blend(background_color_, c, 0) /\ 0 \in 0 .. 100
    BY <2>1, <2>2
  <2> QED
    BY <1>2, <2>3, BlendPercent
<1>4. Brushed(40, c) =
        (active_color_ * 40 * c + c * (100 * One - 40 * c)) \div (100 * One)
  <2>1. Brushed(40, c) = IF intensity > 0 THEN Blend(active_color_, c, intensity)
                         ELSE Blend(background_color_, c, AbsValue(intensity))
    BY <1>1 DEF Brushed
  <2>2. active_color_ * intensity = active_color_ * 40 * c
    BY <1>2
  <2>3. CASE c > 0
    <3>1. intensity > 0
      BY <1>2, <2>3
    <3> QED
      BY <2>1, <2>2, <3>1 DEF Blend
  <2>4. CASE c = 0
    <3>1. Brushed(40, c) = Blend(background_color_, c, 0)
      BY <2>1, <2>4 DEF AbsValue
    <3>2. Blend(background_color_, c, 0) = 0 /\ Blend(active_color_, c, 0) = 0
      <4>1. 0 \in 0 .. 100
        OBVIOUS
      <4> QED
        BY <1>2, <2>4, <4>1, BlendPercent
    <3>3. Blend(active_color_, c, intensity) = Blend(active_color_, c, 0)
      BY <2>4
    <3> QED
      BY <2>2, <3>1, <3>2, <3>3 DEF Blend
  <2> QED
    BY <1>2, <2>3, <2>4
<1>5. /\ Mask.size = 15
      /\ Painting!InBox(dx, dy, 2, 7) => q \in DOMAIN Mask.at /\ Mask.at[q] = 40
      /\ ~Painting!InBox(dx, dy, 2, 7) /\ q \in DOMAIN Mask.at => Mask.at[q] = 0
  BY <1>1, RectangleUnder
<1> HIDE DEF q, intensity
<1> QED
  BY <1>1, <1>3, <1>4, <1>5 DEF Struck, Painting!Highlighter, q

\* A stamp of an even size, padded on all sides, has its middle where half of
\* the image, rounded up, is left and above.
LEMMA PaddingFacts ==
    ASSUME NEW w \in Nat, NEW size \in Nat, size % 2 = 0, w <= size, NEW dx \in Int
    PROVE  LET k == size \div 2
               padding == (size - w) \div 2
               at == dx + (w + 1) \div 2
           IN  /\ dx + k - padding = at
               /\ at \in 0 .. w - 1 => dx + k \in 0 .. size - 1
OBVIOUS

LEMMA StampFacts ==
    ASSUME PlainColours, StampOK, active_tool_ = 5,
           NEW dx \in Int, NEW dy \in Int, NEW c \in 0 .. One
    PROVE  /\ Struck(At(Mask, dx, dy), c) = Painting!Stamp(c, dx, dy)
           /\ Mask.size = 0 => Mask = Masks!NoMask
<1> DEFINE q == At(Mask, dx, dy)
           w == stamp_image.width
           h == stamp_image.height
           at == <<dx + (w + 1) \div 2, dy + (h + 1) \div 2>>
<1>1. Mask = stamp_mask_ /\ active_tool.class = "Stamp" /\ active_tool.intensity = 100
  BY ClassFacts DEF active_tool, tools_
<1>2. Painting!Stamp(c, dx, dy) =
        IF at \in DOMAIN stamp_image.colours /\ stamp_image.colours[at] \in 0 .. One
        THEN stamp_image.colours[at] ELSE c
  BY DEF Painting!Stamp
<1>3. CASE stamp_image = NoImage /\ stamp_mask_ = Masks!NoMask
  <2>1. DOMAIN Mask.at = {} /\ DOMAIN stamp_image.colours = {}
    BY <1>1, <1>3 DEF Masks!NoMask, NoImage
  <2> QED
    BY <1>1, <1>2, <1>3, <2>1 DEF Struck
<1>4. CASE stamp_image \in StampImage /\ stamp_mask_ = Masks!buffer_stamp_mask(stamp_image)
  <2> DEFINE longer == Masks!Max({w, h})
             size == longer + (longer % 2)
             left == (size - w) \div 2
             top == (size - h) \div 2
  <2>1. /\ w \in Nat /\ w > 0 /\ h \in Nat /\ h > 0
        /\ DOMAIN stamp_image.colours = (0 .. w - 1) \X (0 .. h - 1)
        /\ \A p \in DOMAIN stamp_image.colours : stamp_image.colours[p] \in -1 .. One
    <3>1. /\ w \in Nat \ {0} /\ h \in Nat \ {0}
          /\ stamp_image.colours \in [(0 .. w - 1) \X (0 .. h - 1) -> -1 .. One]
      BY <1>4, ToolsAssumption
    <3> HIDE DEF w, h
    <3> QED
      BY <3>1
  <2>2. longer \in {w, h} /\ longer >= w /\ longer >= h
    <3> HIDE DEF w, h
    <3> QED
      BY <2>1 DEF Masks!Max
  <2>3. /\ Mask.size = size
        /\ DOMAIN Mask.at = Masks!Square(size)
        /\ \A p \in Masks!Square(size) :
            Mask.at[p] = IF <<p[1] - left, p[2] - top>> \in DOMAIN stamp_image.colours
                         THEN stamp_image.colours[<<p[1] - left, p[2] - top>>] ELSE -1
    BY <1>1, <1>4 DEF Masks!buffer_stamp_mask, Masks!Transparent
  <2> HIDE DEF w, h, longer
  <2>4. size \in Nat /\ size % 2 = 0 /\ w <= size /\ h <= size /\ size > 0
    BY <2>1, <2>2
  <2> HIDE DEF size
  <2> DEFINE k == size \div 2
  <2>5. /\ dx + k - left = dx + (w + 1) \div 2
        /\ dx + (w + 1) \div 2 \in 0 .. w - 1 => dx + k \in 0 .. size - 1
        /\ dy + k - top = dy + (h + 1) \div 2
        /\ dy + (h + 1) \div 2 \in 0 .. h - 1 => dy + k \in 0 .. size - 1
    BY <2>1, <2>4, PaddingFacts
  <2>6. q = <<dx + k, dy + k>> /\ <<q[1] - left, q[2] - top>> = at
    <3>1. q = <<dx + k, dy + k>>
      BY <2>3 DEF At
    <3>2. k \in Int /\ left \in Int /\ top \in Int
      BY <2>1, <2>4
    <3> HIDE DEF k, left, top
    <3>3. q[1] - left = dx + k - left /\ q[2] - top = dy + k - top
      BY <3>1, <3>2
    <3> QED
      BY <2>5, <3>1, <3>3 DEF at
  <2>7. at \in DOMAIN stamp_image.colours => q \in DOMAIN Mask.at
    BY <2>1, <2>3, <2>5, <2>6 DEF Masks!Square
  <2>8. q \in DOMAIN Mask.at =>
            Mask.at[q] = IF at \in DOMAIN stamp_image.colours
                         THEN stamp_image.colours[at] ELSE -1
    BY <2>3, <2>6
  <2>9. ASSUME NEW e \in 0 .. One PROVE Stamped(e, c) = e
    <3>1. e # Masks!Transparent /\ e \in Nat /\ c \in Nat /\ 0 \in 0 .. 100
      BY PlainFacts, OneAssumption DEF Masks!Transparent
    <3>2. Blend(e, c, 100 * One) = e
      BY <3>1, BlendPercent
    <3> QED
      BY <1>1, <3>1, <3>2 DEF Stamped
  <2>10. Stamped(-1, c) = c
    BY DEF Stamped, Masks!Transparent
  <2>11. Mask.size # 0
    BY <2>3, <2>4
  <2> HIDE DEF q, at
  <2>12. CASE at \in DOMAIN stamp_image.colours
    <3>1. Struck(q, c) = Stamped(stamp_image.colours[at], c)
      BY <1>1, <2>7, <2>8, <2>12 DEF Struck
    <3>2. stamp_image.colours[at] = -1 \/ stamp_image.colours[at] \in 0 .. One
      BY <2>1, <2>12, OneAssumption
    <3>3. ~(-1 \in 0 .. One)
      BY OneAssumption
    <3> QED
      BY <1>2, <2>9, <2>10, <2>11, <2>12, <3>1, <3>2, <3>3 DEF q
  <2>13. CASE at \notin DOMAIN stamp_image.colours
    <3>1. Struck(q, c) = c
      BY <1>1, <2>8, <2>10, <2>13 DEF Struck
    <3> QED
      BY <1>2, <2>11, <2>13, <3>1 DEF q
  <2> QED
    BY <2>12, <2>13
<1> QED
  BY <1>3, <1>4 DEF StampOK

LEMMA StamperFacts ==
    ASSUME PlainColours, BuiltOK, active_tool_ = 7,
           NEW dx \in Int, NEW dy \in Int, NEW c \in 0 .. One
    PROVE  /\ Struck(At(Mask, dx, dy), c) = Painting!Stamper(c, dx, dy)
           /\ Mask.size = 0 => Mask = Masks!NoMask
<1> DEFINE file == special_mask_file
           q == At(Mask, dx, dy)
           size == Masks!BaseSize(file.header)
<1>1. /\ Mask = Masks!ppm_stamp_mask(200, 150, file)
      /\ active_tool.class = "Stamper" /\ active_tool.intensity = 50
      /\ FileOK(file)
  BY ClassFacts DEF active_tool, tools_, BuiltOK
<1> DEFINE none == file.opens /\ (size[1] < 1 \/ size[2] < 1)
<1>2. IF none THEN Mask = Masks!NoMask
      ELSE /\ Mask.size = 201
           /\ DOMAIN Mask.at = (0 .. 200) \X (0 .. 200)
           /\ \A p \in DOMAIN Mask.at :
                Mask.at[p] = IF ~(p[2] \in 25 .. 175) THEN -1
                             ELSE IF ~file.opens THEN Masks!Stripes(p)
                             ELSE Masks!Stretched(size, p[1], p[2] - 25, 201, 151)
  BY <1>1, PpmMaskShape
<1>3. ASSUME NEW e \in 0 .. One PROVE Stamped(e, c) = Painting!Mixed(c, e, 50)
  <2>1. e # Masks!Transparent /\ e \in Nat /\ c \in Nat
    BY PlainFacts, OneAssumption DEF Masks!Transparent
  <2> DEFINE half == 50
  <2>2. half \in 0 .. 100 /\ half = 50
    OBVIOUS
  <2> HIDE DEF half
  <2>3. Blend(e, c, half * One) = Painting!Mixed(c, e, half)
    BY <2>1, <2>2, BlendPercent
  <2> QED
    BY <1>1, <2>1, <2>2, <2>3 DEF Stamped
<1>4. Stamped(-1, c) = c
  BY DEF Stamped, Masks!Transparent
<1>5. Painting!InBox(dx, dy, 100, 75) <=> dx \in -100 .. 100 /\ dy \in -75 .. 75
  BY DEF Painting!InBox, Painting!Abs
<1>6. none <=> file.opens /\ file.width = 255
  <2>1. CASE file = MissingFile
    BY <2>1 DEF MissingFile
  <2>2. CASE file # MissingFile
    BY <1>1, <2>2, SizeUnderstood
  <2> QED
    BY <2>1, <2>2
<1>7. CASE none
  <2>1. DOMAIN Mask.at = {}
    BY <1>2, <1>7 DEF Masks!NoMask
  <2> QED
    BY <1>2, <1>6, <1>7, <2>1 DEF Struck, Painting!Stamper
<1>8. CASE ~none
  <2>1. /\ Mask.size = 201
        /\ q = <<dx + 100, dy + 100>>
        /\ q \in DOMAIN Mask.at <=> dx \in -100 .. 100 /\ dy \in -100 .. 100
        /\ q[2] \in 25 .. 175 <=> dy \in -75 .. 75
        /\ q[2] - 25 = dy + 75
    <3>1. Mask.size = 201 /\ DOMAIN Mask.at = (0 .. 200) \X (0 .. 200)
      BY <1>2, <1>8
    <3>2. q = <<dx + 100, dy + 100>>
      BY <3>1 DEF At
    <3> QED
      BY <3>1, <3>2
  <2> HIDE DEF q
  <2>2. CASE ~Painting!InBox(dx, dy, 100, 75)
    <3>1. q \in DOMAIN Mask.at => Mask.at[q] = -1
      BY <1>2, <1>5, <1>8, <2>1, <2>2
    <3>2. Struck(q, c) = c
      BY <1>1, <1>4, <3>1 DEF Struck
    <3> QED
      BY <2>1, <2>2, <3>2 DEF Painting!Stamper, q
  <2>3. CASE Painting!InBox(dx, dy, 100, 75)
    <3>1. q \in DOMAIN Mask.at
      BY <1>5, <2>1, <2>3
    <3>2. Mask.at[q] = IF ~file.opens THEN Masks!Stripes(q)
                       ELSE Masks!Stretched(size, q[1], q[2] - 25, 201, 151)
      BY <1>2, <1>5, <1>8, <2>1, <2>3, <3>1
    <3>3. Struck(q, c) = Stamped(Mask.at[q], c)
      BY <1>1, <3>1 DEF Struck
    <3>4. Painting!Stamper(c, dx, dy) =
            IF file.opens
            THEN Painting!Mixed(c, PpmColour(((dx + 100) * file.width) \div 201,
                                             ((dy + 75) * file.height) \div 151), 50)
            ELSE Painting!Mixed(c, IF (dx + dy) % 20 < 10 THEN 0 ELSE One, 50)
      BY <1>6, <1>8, <2>3 DEF Painting!Stamper
    <3>5. CASE ~file.opens
      <4>1. Mask.at[q] = IF (dx + dy) % 20 < 10 THEN 0 ELSE One
        <5>1. (q[1] + q[2]) % 20 = (dx + dy) % 20
          BY <2>1
        <5> QED
          BY <3>2, <3>5, <5>1 DEF Masks!Stripes
      <4>2. (IF (dx + dy) % 20 < 10 THEN 0 ELSE One) \in 0 .. One
        BY OneAssumption
      <4> QED
        BY <1>3, <2>1, <3>3, <3>4, <3>5, <4>1, <4>2 DEF q
    <3>6. CASE file.opens
      <4> DEFINE e == PpmColour(((dx + 100) * file.width) \div 201,
                                ((dy + 75) * file.height) \div 151)
                 col == dx + 100
                 row == dy + 75
      <4>1. file # MissingFile /\ FileOK(file) /\ file.width # 255
        BY <1>1, <1>6, <1>8, <3>6 DEF MissingFile
      <4>2. size = <<file.width, file.height>>
        BY <4>1, SizeUnderstood
      <4>3. Mask.at[q] = e
        <5>1. Mask.at[q] = Masks!Stretched(size, col, row, 201, 151)
          BY <2>1, <3>2, <3>6
        <5> QED
          BY <4>2, <5>1 DEF Masks!Stretched
      <4>4. e \in 0 .. One
        <5>1. col \in 0 .. 200 /\ row \in 0 .. 150
          BY <1>5, <2>3
        <5>2. e = PpmColour((col * file.width) \div 201, (row * file.height) \div 151)
          OBVIOUS
        <5> HIDE DEF e, col, row, file
        <5>3. PpmColour((col * file.width) \div 201, (row * file.height) \div 151) \in 0 .. One
          BY <4>1, <5>1, StretchedInGamut
        <5> QED
          BY <5>2, <5>3
      <4> HIDE DEF e
      <4> QED
        BY <1>3, <2>1, <3>3, <3>4, <3>6, <4>3, <4>4 DEF q, e
    <3> QED
      BY <3>5, <3>6
  <2> QED
    BY <2>2, <2>3
<1> QED
  BY <1>7, <1>8

-----------------------------------------------------------------------------
(* The radius of a blur                                                    *)

\* Whether the mask of the Blur tool is at least k at the squared distance n.
Reaches(k, n) == 400 * ((41 - 2 * k) * (41 - 2 * k)) > 1521 * n

LEMMA ReachesLess ==
    ASSUME NEW n \in Nat, NEW k \in 1 .. 20, Reaches(k, n), NEW j \in 1 .. k
    PROVE  Reaches(j, n)
<1> DEFINE a == 41 - 2 * k
           b == 41 - 2 * j
<1>1. a \in Nat /\ b \in Nat /\ a <= b
  OBVIOUS
<1> HIDE DEF a, b
<1>2. a * a <= b * a /\ a * b <= b * b /\ a * b = b * a
  BY <1>1, ProductFacts
<1>3. a * a \in Nat /\ b * b \in Nat /\ a * a <= b * b
  BY <1>1, <1>2, ProductFacts
<1>4. 400 * (a * a) > 1521 * n
  BY DEF Reaches, a
<1>5. 400 * (b * b) > 1521 * n
  <2> DEFINE s == a * a
             t == b * b
  <2>1. s \in Nat /\ t \in Nat /\ s <= t /\ 400 * s > 1521 * n
    BY <1>3, <1>4
  <2> HIDE DEF s, t
  <2>2. 400 * t > 1521 * n
    BY <2>1
  <2> QED
    BY <2>2 DEF t
<1> QED
  BY <1>5 DEF Reaches, b

\* Nothing is blurred beyond the distance of 20 pixels.
LEMMA ReachesNone ==
    ASSUME NEW n \in Nat, n > 400, NEW k \in 1 .. 20
    PROVE  ~Reaches(k, n)
<1>1. CASE Reaches(k, n)
  <2>1. 1 \in 1 .. k
    OBVIOUS
  <2>2. Reaches(1, n)
    BY <1>1, <2>1, ReachesLess
  <2> QED
    BY <2>2 DEF Reaches
<1> QED
  BY <1>1

LEMMA ReachesFacts ==
    ASSUME NEW n \in Nat, NEW k \in 1 .. 20
    PROVE  /\ Masks!MoreThan(2 * k - 1, 2 * 20, 1, 20, n) <=> Reaches(k, n)
           /\ 1521 * n < (820 - 40 * k) * (820 - 40 * k) <=> Reaches(k, n)
<1> DEFINE a == 41 - 2 * k
<1>1. a \in Nat /\ 2 * 20 - (2 * k - 1) = a /\ 820 - 40 * k = 20 * a /\ 2 * k - 1 < 2 * 20
  OBVIOUS
<1>2. Masks!MoreThan(2 * k - 1, 2 * 20, 1, 20, n) <=> a * a * 20 * 20 > 39 * 39 * n
  BY <1>1 DEF Masks!MoreThan
<1>3. Reaches(k, n) <=> 400 * (a * a) > 1521 * n
  BY DEF Reaches
<1> HIDE DEF a
<1>4. a * a * 20 * 20 = 400 * (a * a) /\ (20 * a) * (20 * a) = 400 * (a * a)
  BY <1>1
<1>5. 39 * 39 * n = 1521 * n
  OBVIOUS
<1>6. a * a \in Nat
  BY <1>1
<1> DEFINE s == 400 * (a * a)
           t == 1521 * n
<1>7. s \in Nat /\ t \in Nat
  BY <1>6
<1>8. 1521 * n < (820 - 40 * k) * (820 - 40 * k) <=> t < s
  BY <1>1, <1>4
<1>9. Masks!MoreThan(2 * k - 1, 2 * 20, 1, 20, n) <=> s > t
  BY <1>2, <1>4, <1>5
<1>10. Reaches(k, n) <=> s > t
  BY <1>3
<1> HIDE DEF s, t
<1> QED
  BY <1>7, <1>8, <1>9, <1>10

LEMMA GreatestIsMax ==
    ASSUME NEW S, S \subseteq Int, NEW m \in S, \A y \in S : m >= y
    PROVE  Painting!Max(S) = m
<1>1. Painting!Max(S) = CHOOSE x \in S : \A y \in S : x >= y
  BY DEF Painting!Max
<1>2. \A x \in S : (\A y \in S : x >= y) => x = m
  <2> SUFFICES ASSUME NEW x \in S, x >= m PROVE x = m
    OBVIOUS
  <2>1. m >= x /\ m \in Int /\ x \in Int
    OBVIOUS
  <2> QED
    BY <2>1
<1> QED
  BY <1>1, <1>2

\* The sizes that the mask rounds down to odd ones are the odd radiuses.
LEMMA RadiusFacts ==
    ASSUME NEW dx \in Int, NEW dy \in Int, NEW q, q = <<dx + 20, dy + 20>>,
           NEW n, n = dx * dx + dy * dy
    PROVE  /\ Painting!BlurRadius(dx, dy) = Masks!BlurSize(41, q)
           /\ ~(n <= 400) => Painting!BlurRadius(dx, dy) = 0
<1> DEFINE odd == {k \in 1 .. 19 : k % 2 = 1 /\ Reaches(k, n)}
           S == {0} \cup odd
           T == {0} \cup {k \in 1 .. 20 : Reaches(k, n)}
           size == Masks!Max(T)
           radius == Painting!BlurRadius(dx, dy)
<1>1. n \in Nat
  <2>1. dx * dx \in Nat /\ dy * dy \in Nat
    OBVIOUS
  <2> QED
    BY <2>1
<1>2. radius = Painting!Max(S)
  <2>1. \A k \in 1 .. 19 : 1521 * n < (820 - 40 * k) * (820 - 40 * k) <=> Reaches(k, n)
    BY <1>1, ReachesFacts
  <2>2. odd = {k \in 1 .. 19 : k % 2 = 1 /\ 1521 * n < (820 - 40 * k) * (820 - 40 * k)}
    BY <2>1
  <2> HIDE DEF odd
  <2> QED
    BY <2>2 DEF Painting!BlurRadius
<1>3. Masks!BlurSize(41, q) = IF n > 400 THEN 0
                              ELSE IF size # 0 /\ size % 2 = 0 THEN size - 1 ELSE size
  <2>1. Masks!SquaredDistance(q, 41 \div 2) = n
    <3>1. 41 \div 2 = 20 /\ q[1] - 20 = dx /\ q[2] - 20 = dy
      OBVIOUS
    <3> QED
      BY <3>1 DEF Masks!SquaredDistance
  <2>2. Masks!RoundedIntensity(41, n) = size
    <3>1. {k \in 1 .. 20 : Masks!MoreThan(2 * k - 1, 2 * 20, 1, 20, n)}
            = {k \in 1 .. 20 : Reaches(k, n)}
      BY <1>1, ReachesFacts
    <3>2. 41 \div 2 = 20
      OBVIOUS
    <3> QED
      BY <3>1, <3>2 DEF Masks!RoundedIntensity
  <2> HIDE DEF size
  <2> QED
    BY <2>1, <2>2 DEF Masks!BlurSize
<1>4. S \subseteq Int /\ 0 \in S
  OBVIOUS
<1>5. CASE n > 400
  <2>1. \A k \in 1 .. 20 : ~Reaches(k, n)
    BY <1>1, <1>5, ReachesNone
  <2>2. S = {0}
    BY <2>1
  <2>3. radius = 0
    <3> HIDE DEF S
    <3> QED
      BY <1>2, <1>4, <2>2, GreatestIsMax
  <2> QED
    BY <1>1, <1>3, <1>5, <2>3
<1>6. CASE ~(n > 400)
  <2>1. size \in T /\ \A y \in T : size >= y
    <3> DEFINE low == 0
               high == 20
    <3>1. low \in Int /\ high \in Int /\ T \subseteq low .. high /\ T # {}
      OBVIOUS
    <3> HIDE DEF low, high, T
    <3> QED
      BY <3>1, IntervalMax
  <2> HIDE DEF size
  <2>2. size \in 0 .. 20
    BY <2>1
  <2> DEFINE m == IF size # 0 /\ size % 2 = 0 THEN size - 1 ELSE size
  <2>3. m \in S
    <3>1. CASE size = 0
      BY <3>1
    <3>2. CASE size # 0
      <4>1. size \in 1 .. 20 /\ Reaches(size, n)
        BY <2>1, <3>2
      <4>2. m \in 1 .. size /\ m \in 1 .. 19 /\ m % 2 = 1
        BY <4>1
      <4>3. Reaches(m, n)
        <5> HIDE DEF m
        <5> QED
          BY <1>1, <4>1, <4>2, ReachesLess
      <4> QED
        BY <4>2, <4>3
    <3> QED
      BY <3>1, <3>2
  <2>4. ASSUME NEW y \in S PROVE m >= y
    <3>1. y \in T /\ y \in 0 .. 19 /\ (y = 0 \/ y % 2 = 1)
      OBVIOUS
    <3>2. size >= y
      BY <2>1, <3>1
    <3> HIDE DEF S, T
    <3> QED
      BY <2>2, <3>1, <3>2
  <2>5. radius = m
    <3> HIDE DEF S, m, radius
    <3> QED
      BY <1>2, <1>4, <2>3, <2>4, GreatestIsMax
  <2> QED
    BY <1>1, <1>3, <1>6, <2>5
<1> QED
  BY <1>5, <1>6

LEMMA SamePaintedSum == ASSUME NEW f, NEW S PROVE Painting!SumFunctionOnSet(f, S) = SumFunctionOnSet(f, S)
BY DEF Painting!SumFunctionOnSet, Painting!FoldFunctionOnSet, Painting!MapThenFoldSet,
       SumFunctionOnSet, FoldFunctionOnSet, MapThenFoldSet

LEMMA SameCount == ASSUME NEW S PROVE Painting!Cardinality(S) = Cardinality(S)
BY DEF Painting!Cardinality, Cardinality

\* What a blur makes of a pixel, from a picture that is the copy.
LEMMA MeanFacts ==
    ASSUME IsPicture(buffer_copy), DOMAIN Picture = Positions(buffer_copy),
           \A p \in Positions(buffer_copy) : Picture[p] = get_valid_pixel(buffer_copy, p[1], p[2]),
           NEW at \in Positions(buffer_copy), NEW k \in 0 .. 20
    PROVE  Blurred(k, Picture[at], at[1], at[2]) = Painting!Mean(at, k)
<1> DEFINE near == Near(buffer_copy, at, k)
           pic == Picture
<1>1. \A p \in Positions(buffer_copy) : p[1] \in Int /\ p[2] \in Int /\ p = <<p[1], p[2]>>
  BY DEF Positions, IsPicture, IsBuffer
<1>2. Painting!Mean(at, k) = SumFunctionOnSet(pic, near) \div Cardinality(near)
  <2>1. near = {p \in DOMAIN Picture :
                    Painting!Abs(p[1] - at[1]) + Painting!Abs(p[2] - at[2]) <= k}
    BY DEF Painting!Abs, Apart, Near
  <2> HIDE DEF near
  <2> QED
    BY <2>1, SamePaintedSum, SameCount DEF Painting!Mean
<1>3. pic[at] \in 0 .. One /\ pic[at] \in Int
  BY PixelInGamut, OneAssumption
<1>4. CASE k = 0
  <2>1. \A p \in Positions(buffer_copy) : Apart(p, at) <= 0 => p = at
    <3> SUFFICES ASSUME NEW p \in Positions(buffer_copy), Apart(p, at) <= 0
                 PROVE  p = at
      OBVIOUS
    <3> DEFINE dx == p[1] - at[1]
               dy == p[2] - at[2]
    <3>1. dx \in Int /\ dy \in Int
      BY <1>1
    <3>2. dx = 0 /\ dy = 0
      <4>1. (IF dx < 0 THEN -dx ELSE dx) + (IF dy < 0 THEN -dy ELSE dy) <= 0
        BY DEF Apart
      <4> HIDE DEF dx, dy
      <4> QED
        BY <3>1, <4>1
    <3>3. p[1] = at[1] /\ p[2] = at[2]
      BY <1>1, <3>2
    <3> QED
      BY <1>1, <3>3
  <2>2. Apart(at, at) <= 0
    BY <1>1 DEF Apart
  <2>3. near = {at}
    BY <1>4, <2>1, <2>2 DEF Near
  <2>4. SumFunctionOnSet(pic, {at}) = pic[at]
    <3> DEFINE S == {at}
    <3>1. IsFiniteSet(S) /\ at \in S /\ S \ {at} = {} /\ \A x \in S : pic[x] \in Int
      BY <1>3, FS_Singleton
    <3>2. IsFiniteSet({})
      BY FS_EmptySet
    <3> HIDE DEF S, pic
    <3>3. SumFunctionOnSet(pic, S) = pic[at] + SumFunctionOnSet(pic, S \ {at})
      BY <3>1, SumRemove
    <3>4. SumFunctionOnSet(pic, {}) = 0
      BY <3>2, SumStep
    <3>5. SumFunctionOnSet(pic, S) = pic[at]
      BY <1>3, <3>1, <3>3, <3>4
    <3> QED
      BY <3>5 DEF S
  <2>5. Cardinality({at}) = 1
    BY FS_Singleton
  <2>6. pic[at] \div 1 = pic[at]
    <3> DEFINE v == pic[at]
    <3>1. v \in Int
      BY <1>3
    <3> HIDE DEF v
    <3>2. v \div 1 = v
      BY <3>1
    <3> QED
      BY <3>2 DEF v
  <2> QED
    BY <1>2, <1>4, <2>3, <2>4, <2>5, <2>6 DEF Blurred
<1>5. CASE k # 0
  <2>1. k \in 1 .. 20 /\ k \in Nat
    BY <1>5
  <2>2. Blurred(k, Picture[at], at[1], at[2])
            = Apply(KernelInit(2 * k, "BLUR"), buffer_copy, at[1], at[2], 0)
    BY <1>5, <2>1 DEF Blurred, kernels
  <2>3. Apply(KernelInit(2 * k, "BLUR"), buffer_copy, at[1], at[2], 0)
            = SumFunctionOnSet(pic, near) \div Cardinality(near)
    <3>1. near = Near(buffer_copy, at, k)
      OBVIOUS
    <3>2. \A p \in Positions(buffer_copy) : pic[p] = get_valid_pixel(buffer_copy, p[1], p[2])
      OBVIOUS
    <3> HIDE DEF near, pic
    <3> QED
      BY <2>1, <3>1, <3>2, BlurIsMean
  <2> QED
    BY <1>2, <2>2, <2>3
<1> QED
  BY <1>4, <1>5

LEMMA BlurFacts ==
    ASSUME PlainColours, active_tool_ = 6,
           IsPicture(buffer_copy), DOMAIN Picture = Positions(buffer_copy),
           \A p \in Positions(buffer_copy) : Picture[p] = get_valid_pixel(buffer_copy, p[1], p[2]),
           NEW at \in Positions(buffer_copy), NEW dx \in Int, NEW dy \in Int,
           NEW q, q = At(Mask, dx, dy)
    PROVE  (IF q \notin DOMAIN Mask.at THEN Picture[at]
            ELSE Blurred(Mask.at[q], Picture[at], at[1], at[2])) = Painting!Blur(at, dx, dy)
<1> DEFINE n == dx * dx + dy * dy
           radius == Painting!BlurRadius(dx, dy)
<1>1. Mask = Masks!blur_mask(41)
  BY ClassFacts DEF PlainColours
<1>2. /\ Mask.size = 41 /\ DOMAIN Mask.at = Masks!Square(41)
      /\ \A r \in Masks!Square(41) : Mask.at[r] = Masks!BlurSize(41, r)
  BY <1>1 DEF Masks!blur_mask
<1>3. q = <<dx + 20, dy + 20>>
  BY <1>2 DEF At
<1>4. radius = Masks!BlurSize(41, q) /\ (~(n <= 400) => radius = 0)
  BY <1>3, RadiusFacts
<1>5. q \notin DOMAIN Mask.at => ~(n <= 400)
  <2> DEFINE r == 20
  <2>1. r \in Nat /\ r * r = 400
    OBVIOUS
  <2> HIDE DEF r
  <2>2. n <= r * r => dx \in -r .. r /\ dy \in -r .. r
    BY <2>1, DiskInSquare
  <2> QED
    BY <1>2, <1>3, <2>1, <2>2 DEF Masks!Square, r
<1> HIDE DEF n, radius
<1>6. radius \in 0 .. 20
  BY <1>4, BlurSizeBounded
<1>7. Blurred(radius, Picture[at], at[1], at[2]) = Painting!Mean(at, radius)
  BY <1>6, MeanFacts
<1>8. Painting!Blur(at, dx, dy) = Painting!Mean(at, radius)
  BY DEF Painting!Blur, radius
<1>9. CASE q \in DOMAIN Mask.at
  BY <1>2, <1>4, <1>7, <1>8, <1>9
<1>10. CASE q \notin DOMAIN Mask.at
  BY <1>4, <1>5, <1>7, <1>8, <1>10 DEF Blurred
<1> QED
  BY <1>9, <1>10

-----------------------------------------------------------------------------
(* The walk                                                                *)

LEMMA BeforeFacts ==
    ASSUME NEW w \in Nat, w > 0, NEW p, p[1] \in 0 .. w - 1, p[2] \in Nat, NEW v \in Nat
    PROVE  Before(p, v % w, v \div w) <=> p[1] + w * p[2] < v
<1> DEFINE x == v % w
           y == v \div w
           col == p[1]
           row == p[2]
<1>1. x \in 0 .. w - 1 /\ y \in Nat /\ v = w * y + x /\ col \in 0 .. w - 1 /\ row \in Nat
  BY DivisionFacts
<1>2. Before(p, x, y) <=> row < y \/ (row = y /\ col < x)
  BY DEF Before
<1> HIDE DEF x, y, col, row
<1>3. w * y \in Nat /\ w * row \in Nat
  BY <1>1
<1>4. CASE row < y
  <2>1. w * row + w <= w * y
    BY <1>1, <1>4, RowFacts
  <2> QED
    BY <1>1, <1>2, <1>3, <1>4, <2>1 DEF x, y, col, row
<1>5. CASE row = y
  BY <1>1, <1>2, <1>3, <1>5 DEF x, y, col, row
<1>6. CASE y < row
  <2>1. w * y + w <= w * row
    BY <1>1, <1>6, RowFacts
  <2>2. ~(col + w * row < v)
    BY <1>1, <1>3, <2>1
  <2>3. ~Before(p, x, y)
    BY <1>1, <1>2, <1>6
  <2> QED
    BY <2>2, <2>3 DEF x, y, col, row
<1> QED
  BY <1>1, <1>4, <1>5, <1>6

\* The walk passes one pixel after the other, and in the end all of them.
LEMMA WalkFacts ==
    ASSUME CanvasOK, NEW p \in Positions(my_pixel_buffer_), visited \in 0 .. PixelCount
    PROVE  /\ visited = 0 => ~Before(p, Position[1], Position[2])
           /\ visited = PixelCount => Before(p, Position[1], Position[2])
           /\ visited < PixelCount =>
                LET w == my_pixel_buffer_.width
                    next == visited + 1
                IN  /\ Before(p, next % w, next \div w)
                            <=> (Before(p, Position[1], Position[2]) \/ p = Position)
                    /\ p = Position => ~Before(p, Position[1], Position[2])
<1> DEFINE w == my_pixel_buffer_.width
           h == my_pixel_buffer_.height
           v == visited
           next == v + 1
           i == p[1] + w * p[2]
<1>1. /\ w \in Nat /\ w > 0 /\ h \in Nat /\ h > 0 /\ PixelCount = w * h
      /\ p[1] \in 0 .. w - 1 /\ p[2] \in 0 .. h - 1 /\ p = <<p[1], p[2]>>
  BY DEF CanvasOK, IsPicture, IsBuffer, PixelCount, Positions
<1>2. v \in Nat /\ next \in Nat /\ v <= w * h /\ w * h \in Nat
  <2> HIDE DEF w, h
  <2>1. w * h \in Nat
    BY <1>1
  <2> QED
    BY <1>1, <2>1
<1>3. Position = <<v % w, v \div w>>
  BY DEF Position
<1> HIDE DEF w, h, v, next
<1>4. /\ Before(p, v % w, v \div w) <=> i < v
      /\ Before(p, next % w, next \div w) <=> i < next
  BY <1>1, <1>2, BeforeFacts
<1>5. i \in Nat /\ i < w * h
  <2>1. w * p[2] \in Nat /\ w * p[2] + w <= w * h
    BY <1>1, RowFacts
  <2> QED
    BY <1>1, <1>2, <2>1
<1>6. i = v <=> p = Position
  <2> DEFINE x == v % w
             y == v \div w
  <2>1. x \in 0 .. w - 1 /\ y \in Nat /\ v = x + w * y
    <3>1. x \in 0 .. w - 1 /\ y \in Nat /\ v = w * y + x
      BY <1>1, <1>2, DivisionFacts
    <3> HIDE DEF x, y
    <3>2. w * y \in Nat
      BY <1>1, <3>1
    <3> QED
      BY <3>1, <3>2
  <2>2. Position = <<x, y>>
    BY <1>3
  <2> HIDE DEF x, y
  <2>3. i = v => p[1] = x /\ p[2] = y
    BY <1>1, <2>1, PlaceFacts
  <2>4. p = Position => i = v
    BY <2>1, <2>2
  <2> QED
    BY <1>1, <2>2, <2>3, <2>4
<1> HIDE DEF i
<1>7. next = v + 1
  BY DEF next
<1>8. /\ v = 0 => ~(i < v)
      /\ v = w * h => i < v
      /\ (i < next <=> (i < v \/ i = v))
      /\ i = v => ~(i < v)
  BY <1>2, <1>5, <1>7
<1> QED
  BY <1>1, <1>3, <1>4, <1>6, <1>8 DEF v, w, next

LEMMA WalkStarts ==
    ASSUME CanvasOK, my_pixel_buffer_' = my_pixel_buffer_, visited' = 0,
           NEW p \in Positions(my_pixel_buffer_)
    PROVE  ~Before(p, Position[1], Position[2])'
<1> DEFINE w == my_pixel_buffer_.width
           row == p[2]
           zero == 0
<1>1. w \in Nat /\ w > 0 /\ p[1] \in 0 .. w - 1 /\ row \in Nat /\ zero \in Nat
  BY DEF CanvasOK, IsPicture, IsBuffer, Positions
<1>2. Before(p, Position[1], Position[2])' <=> Before(p, zero % w, zero \div w)
  BY DEF Position, Before
<1> HIDE DEF w, zero
<1>3. Before(p, zero % w, zero \div w) <=> p[1] + w * row < zero
  BY <1>1, BeforeFacts
<1> HIDE DEF row
<1>4. w * row \in Nat
  BY <1>1
<1> QED
  BY <1>1, <1>2, <1>3, <1>4 DEF zero

-----------------------------------------------------------------------------
(* The picture                                                             *)

\* The colours of a buffer, by position.
Shown(b) == [p \in Positions(b) |-> get_valid_pixel(b, p[1], p[2])]

\* A blur writes what becomes of the pixels of the copy.
BlurOK ==
    click /\ active_tool_ = 6 =>
        \A p \in Positions(my_pixel_buffer_) :
            Shown(my_pixel_buffer_)[p] =
                IF Before(p, Position[1], Position[2])
                THEN NewColour(Mask, p, Shown(buffer_copy)[p])
                ELSE Shown(buffer_copy)[p]

PaintingInv == ToolsInv /\ BlurOK

\* Struck at the distance of a pixel from the click, the tools do what they promise.
LEMMA ToolsPaint ==
    ASSUME ToolsInv, active_tool_ # 6, NEW p, NEW dx \in Int, NEW dy \in Int, Picture[p] \in 0 .. One
    PROVE  /\ Struck(At(Mask, dx, dy), Picture[p]) = Painting!Painted(p, dx, dy)
           /\ Mask.size = 0 => Mask = Masks!NoMask
<1> DEFINE c == Picture[p]
           t == active_tool_
<1>1. PlainColours /\ StampOK /\ BuiltOK
  BY ToolsAssumption DEF ToolsInv, PlainColours, ChoicesOK, CanvasOK
<1>2. t \in {0, 1, 2, 3, 4, 5, 7}
  BY <1>1 DEF PlainColours
<1>3. /\ t = 0 => Painting!Painted(p, dx, dy) = Painting!Pen(c, dx, dy)
      /\ t = 1 => Painting!Painted(p, dx, dy) = Painting!Eraser(c, dx, dy)
      /\ t = 2 => Painting!Painted(p, dx, dy) = Painting!Spray(c, dx, dy)
      /\ t = 3 => Painting!Painted(p, dx, dy) = Painting!Calligraphy(c, dx, dy)
      /\ t = 4 => Painting!Painted(p, dx, dy) = Painting!Highlighter(c, dx, dy)
      /\ t = 5 => Painting!Painted(p, dx, dy) = Painting!Stamp(c, dx, dy)
      /\ t = 7 => Painting!Painted(p, dx, dy) = Painting!Stamper(c, dx, dy)
  BY DEF Painting!Painted
<1>4. c \in 0 .. One
  OBVIOUS
<1> HIDE DEF c
<1>5. ASSUME t = 0 PROVE Struck(At(Mask, dx, dy), c) = Painting!Pen(c, dx, dy) /\ Mask.size # 0
  BY <1>1, <1>4, <1>5, PenFacts
<1>6. ASSUME t = 1 PROVE Struck(At(Mask, dx, dy), c) = Painting!Eraser(c, dx, dy) /\ Mask.size # 0
  BY <1>1, <1>4, <1>6, EraserFacts
<1>7. ASSUME t = 2 PROVE Struck(At(Mask, dx, dy), c) = Painting!Spray(c, dx, dy) /\ Mask.size # 0
  BY <1>1, <1>4, <1>7, SprayFacts
<1>8. ASSUME t = 3
      PROVE  Struck(At(Mask, dx, dy), c) = Painting!Calligraphy(c, dx, dy) /\ Mask.size # 0
  BY <1>1, <1>4, <1>8, CalligraphyFacts
<1>9. ASSUME t = 4
      PROVE  Struck(At(Mask, dx, dy), c) = Painting!Highlighter(c, dx, dy) /\ Mask.size # 0
  BY <1>1, <1>4, <1>9, HighlighterFacts
<1>10. ASSUME t = 5
       PROVE  /\ Struck(At(Mask, dx, dy), c) = Painting!Stamp(c, dx, dy)
              /\ Mask.size = 0 => Mask = Masks!NoMask
  BY <1>1, <1>4, <1>10, StampFacts
<1>11. ASSUME t = 7
       PROVE  /\ Struck(At(Mask, dx, dy), c) = Painting!Stamper(c, dx, dy)
              /\ Mask.size = 0 => Mask = Masks!NoMask
  BY <1>1, <1>4, <1>11, StamperFacts
<1> HIDE DEF t
<1>12. /\ Struck(At(Mask, dx, dy), c) = Painting!Painted(p, dx, dy)
       /\ Mask.size = 0 => Mask = Masks!NoMask
  BY <1>2, <1>3, <1>5, <1>6, <1>7, <1>8, <1>9, <1>10, <1>11
<1> QED
  BY <1>12 DEF c

\* A step of the walk changes neither the tool nor the copy.
LEMMA SameStroke ==
    ASSUME UNCHANGED <<clickUnchanged, mouse, buffer_copy>>, NEW p
    PROVE  NewColour(Mask, p, Shown(buffer_copy)[p])' = NewColour(Mask, p, Shown(buffer_copy)[p])
<1>1. UNCHANGED <<active_tool_, active_color_, background_color_, stamp_mask_, special_mask_file,
                  mouse, buffer_copy>>
  BY DEF clickUnchanged, beltVars, stampVars, builtVars
<1>2. active_tool' = active_tool
  BY <1>1 DEF active_tool
<1>3. Mask' = Mask
  BY <1>1, <1>2 DEF Mask
<1>4. Shown(buffer_copy)' = Shown(buffer_copy)
  BY <1>1
<1> QED
  BY <1>1, <1>2, <1>3, <1>4 DEF NewColour, MaskPosition, Brushed, Stamped, Blurred

LEMMA PaintFacts ==
    ASSUME ToolsInv, PaintPixel
    PROVE  /\ Positions(my_pixel_buffer_)' = Positions(my_pixel_buffer_)
           /\ \A p \in Positions(my_pixel_buffer_) :
                /\ Shown(my_pixel_buffer_')[p] =
                        IF p = Position THEN NewColour(Mask, p, Shown(my_pixel_buffer_)[p])
                        ELSE Shown(my_pixel_buffer_)[p]
                /\ Before(p, Position[1], Position[2])'
                        <=> (Before(p, Position[1], Position[2]) \/ p = Position)
                /\ p = Position => ~Before(p, Position[1], Position[2])
<1> DEFINE b == my_pixel_buffer_
           at == Position
           v == NewColour(Mask, at, PixelAtPosition)
<1>1. IsPicture(b) /\ CanvasOK /\ visited \in 0 .. PixelCount /\ visited < PixelCount
  BY DEF ToolsInv, CanvasOK, ClickOK, PaintPixel
<1>2. at \in Positions(b)
  BY <1>1, PositionFacts
<1>3. b' = set_valid_pixel(b, at[1], at[2], v) /\ visited' = visited + 1
  BY DEF PaintPixel, SetPixel
<1>4. /\ b'.width = b.width /\ Positions(b') = Positions(b)
      /\ \A p \in Positions(b) : get_valid_pixel(b', p[1], p[2]) =
            IF p = at THEN v ELSE get_valid_pixel(b, p[1], p[2])
  <2>1. IsBuffer(b)
    BY <1>1 DEF IsPicture
  <2> HIDE DEF v, at
  <2> QED
    <3>1. /\ my_pixel_buffer_'.width = my_pixel_buffer_.width
          /\ my_pixel_buffer_'.height = my_pixel_buffer_.height
      BY <1>2, <1>3, <2>1, WrittenFacts
    <3>2. ASSUME NEW p \in Positions(b) PROVE get_valid_pixel(b', p[1], p[2]) =
            IF p = at THEN v ELSE get_valid_pixel(b, p[1], p[2])
      BY <1>2, <1>3, <2>1, <3>2, WrittenFacts
    <3> QED
      BY <3>1, <3>2 DEF Positions
<1>5. v = NewColour(Mask, at, Shown(b)[at])
  BY <1>2 DEF Shown, PixelAtPosition
<1> HIDE DEF v
<1>6. ASSUME NEW p \in Positions(b)
      PROVE  Shown(b')[p] = IF p = at THEN NewColour(Mask, p, Shown(b)[p]) ELSE Shown(b)[p]
  BY <1>4, <1>5, <1>6 DEF Shown
<1>7. ASSUME NEW p \in Positions(b)
      PROVE  /\ Before(p, Position[1], Position[2])'
                    <=> (Before(p, Position[1], Position[2]) \/ p = Position)
             /\ p = Position => ~Before(p, Position[1], Position[2])
  <2> DEFINE w == b.width
             next == visited + 1
  <2>1. Before(p, Position[1], Position[2])' <=> Before(p, next % w, next \div w)
    BY <1>3, <1>4 DEF Position, Before
  <2> QED
    BY <1>1, <1>7, <2>1, WalkFacts
<1> QED
  BY <1>4, <1>6, <1>7

LEMMA NextBlurOK == ASSUME PaintingInv, [Next]_vars PROVE BlurOK'
<1>1. ToolsInv /\ BlurOK
  BY DEF PaintingInv
<1>2. ASSUME UNCHANGED <<my_pixel_buffer_, visited, clickUnchanged, mouse, click, buffer_copy>>
      PROVE  BlurOK'
  <2>1. /\ active_tool_' = active_tool_ /\ Position' = Position
        /\ UNCHANGED <<my_pixel_buffer_, click, buffer_copy>>
    BY <1>2 DEF clickUnchanged, beltVars, Position
  <2> SUFFICES ASSUME click, active_tool_ = 6, NEW p \in Positions(my_pixel_buffer_)
               PROVE  (Shown(my_pixel_buffer_)[p] =
                        IF Before(p, Position[1], Position[2])
                        THEN NewColour(Mask, p, Shown(buffer_copy)[p])
                        ELSE Shown(buffer_copy)[p])'
    BY <2>1 DEF BlurOK
  <2>3. Shown(buffer_copy)' = Shown(buffer_copy) /\ Shown(my_pixel_buffer_)' = Shown(my_pixel_buffer_)
    BY <2>1
  <2>4. NewColour(Mask, p, Shown(buffer_copy)[p])' = NewColour(Mask, p, Shown(buffer_copy)[p])
    BY <1>2, SameStroke
  <2>5. Before(p, Position[1], Position[2])' <=> Before(p, Position[1], Position[2])
    BY <2>1 DEF Before
  <2> QED
    BY <1>1, <2>3, <2>4, <2>5 DEF BlurOK
<1>3. ASSUME ~click' PROVE BlurOK'
  BY <1>3 DEF BlurOK
<1>4. ASSUME UNCHANGED panelUnchanged, Idle PROVE BlurOK'
  BY <1>3, <1>4 DEF panelUnchanged, clickVars, Idle
<1>5. CASE \/ \E i \in DOMAIN tools_ : ChooseTool(i)
           \/ \E v \in Shade : PresetColour(v) \/ SpinColour(v)
           \/ \E v \in Shade, how \in Entrance, leave \in Departure : TypeColour(v, how, leave)
           \/ \E image \in StampImage : LoadStamp(image)
           \/ OtherCallback
  BY <1>4, <1>5 DEF ChooseTool, PresetColour, SpinColour, TypeColour, LoadStamp, OtherCallback
<1>6. ASSUME NEW at \in Mouse, IgnoreClick(at) PROVE BlurOK'
  BY <1>3, <1>6 DEF IgnoreClick, Idle
<1>7. ASSUME NEW at \in Mouse, ApplyClick(at) PROVE BlurOK'
  <2> SUFFICES ASSUME active_tool_' = 6, NEW p \in Positions(my_pixel_buffer_')
               PROVE  /\ ~Before(p, Position[1], Position[2])'
                      /\ Shown(my_pixel_buffer_')[p] = Shown(buffer_copy')[p]
    BY DEF BlurOK
  <2>1. /\ UNCHANGED <<my_pixel_buffer_, active_tool_>> /\ visited' = 0
        /\ buffer_copy' = IF active_tool.class = "BlurTool" THEN my_pixel_buffer_ ELSE NoBuffer
    BY <1>7 DEF ApplyClick, clickUnchanged, beltVars
  <2>2. active_tool.class = "BlurTool"
    BY <2>1, ClassFacts
  <2>3. ~Before(p, Position[1], Position[2])'
    BY <1>1, <2>1, WalkStarts DEF ToolsInv
  <2> QED
    BY <2>1, <2>2, <2>3
<1>8. CASE PaintPixel
  <2>1. UNCHANGED <<clickUnchanged, click, mouse, buffer_copy>>
    BY <1>8 DEF PaintPixel
  <2>2. active_tool_' = active_tool_
    BY <2>1 DEF clickUnchanged, beltVars
  <2> SUFFICES ASSUME click, active_tool_ = 6, NEW p \in Positions(my_pixel_buffer_')
               PROVE  (Shown(my_pixel_buffer_)[p] =
                        IF Before(p, Position[1], Position[2])
                        THEN NewColour(Mask, p, Shown(buffer_copy)[p])
                        ELSE Shown(buffer_copy)[p])'
    BY <2>1, <2>2 DEF BlurOK
  <2>3. /\ p \in Positions(my_pixel_buffer_)
        /\ Shown(my_pixel_buffer_')[p] =
                IF p = Position THEN NewColour(Mask, p, Shown(my_pixel_buffer_)[p])
                ELSE Shown(my_pixel_buffer_)[p]
        /\ Before(p, Position[1], Position[2])'
                <=> (Before(p, Position[1], Position[2]) \/ p = Position)
        /\ p = Position => ~Before(p, Position[1], Position[2])
    BY <1>1, <1>8, PaintFacts
  <2>4. Shown(my_pixel_buffer_)[p] =
            IF Before(p, Position[1], Position[2])
            THEN NewColour(Mask, p, Shown(buffer_copy)[p])
            ELSE Shown(buffer_copy)[p]
    BY <1>1, <2>3 DEF BlurOK
  <2>5. Shown(buffer_copy)' = Shown(buffer_copy)
    BY <2>1
  <2>6. NewColour(Mask, p, Shown(buffer_copy)[p])' = NewColour(Mask, p, Shown(buffer_copy)[p])
    BY <2>1, SameStroke
  <2> QED
    BY <2>3, <2>4, <2>5, <2>6
<1>9. CASE UseNoKernel
  BY <1>2, <1>9 DEF UseNoKernel, clickVars
<1>10. CASE Return
  BY <1>3, <1>10 DEF Return
<1>11. CASE UNCHANGED vars
  BY <1>2, <1>11 DEF vars, clickVars, clickUnchanged
<1> QED
  BY <1>5, <1>6, <1>7, <1>8, <1>9, <1>10, <1>11 DEF Next

-----------------------------------------------------------------------------
(* Every step is a click of the abstract specification, or none            *)

PaintedStep == [Painting!Click]_<<Picture, Applied>>

\* While no tool is at work the picture is the canvas.
LEMMA StillPicture ==
    ASSUME ~click, ~click', UNCHANGED <<my_pixel_buffer_, clicks>>
    PROVE  PaintedStep
<1>1. Picture = Shown(my_pixel_buffer_) /\ Applied = clicks
  BY DEF Picture, Shown, Applied, Blurring
<1>2. Picture' = Shown(my_pixel_buffer_') /\ Applied' = clicks'
  BY DEF Picture, Shown, Applied, Blurring
<1> QED
  BY <1>1, <1>2 DEF PaintedStep

\* The canvas is a picture, and so is the copy of a blur.
LEMMA ShownFacts ==
    ASSUME NEW b, IsPicture(b)
    PROVE  /\ DOMAIN Shown(b) = Positions(b)
           /\ \A p \in Positions(b) : /\ Shown(b)[p] = get_valid_pixel(b, p[1], p[2])
                                      /\ Shown(b)[p] \in 0 .. One
                                      /\ p[1] \in Int /\ p[2] \in Int
<1>1. \A p \in Positions(b) : p[1] \in Int /\ p[2] \in Int
  BY DEF Positions, IsPicture, IsBuffer
<1> QED
  BY <1>1, PixelInGamut DEF Shown

LEMMA IgnoreStep ==
    ASSUME PaintingInv, NEW at \in Mouse, IgnoreClick(at) PROVE PaintedStep
<1> DEFINE b == my_pixel_buffer_
<1>1. /\ ToolsInv /\ IsPicture(b) /\ clicks \in Int
      /\ ~click /\ Mask.size = 0 /\ mouse' = at /\ clicks' = clicks + 1
      /\ UNCHANGED <<b, click>>
  BY DEF PaintingInv, ToolsInv, CanvasOK, ClickOK, IgnoreClick, Idle
<1>2. Picture = Shown(b) /\ Applied = clicks
  BY <1>1 DEF Picture, Shown, Applied, Blurring
<1>3. Picture' = Shown(b') /\ Applied' = clicks'
  BY <1>1 DEF Picture, Shown, Applied, Blurring
<1>4. at[1] \in Int /\ at[2] \in Int
  BY ToolsAssumption
<1>5. active_tool_ # 6
  <2>1. active_tool_ = 6 => Mask.size = 41
    BY <1>1, ClassFacts DEF ToolsInv, ChoicesOK, Masks!blur_mask
  <2> QED
    BY <1>1, <2>1
<1>6. ASSUME NEW p \in Positions(b)
      PROVE  Painting!Painted(p, p[1] - mouse'[1], p[2] - mouse'[2]) = Picture[p]
  <2> DEFINE dx == p[1] - at[1]
             dy == p[2] - at[2]
  <2>1. Picture[p] \in 0 .. One /\ dx \in Int /\ dy \in Int
    BY <1>1, <1>2, <1>4, ShownFacts
  <2> HIDE DEF dx, dy
  <2>2. /\ Struck(At(Mask, dx, dy), Picture[p]) = Painting!Painted(p, dx, dy)
        /\ Mask = Masks!NoMask
    BY <1>1, <1>5, <2>1, ToolsPaint
  <2>3. Struck(At(Mask, dx, dy), Picture[p]) = Picture[p]
    BY <2>2 DEF Struck, Masks!NoMask
  <2> QED
    BY <1>1, <2>2, <2>3 DEF dx, dy
<1>7. DOMAIN Picture = Positions(b) /\ Picture = [p \in DOMAIN Picture |-> Picture[p]]
  BY <1>2 DEF Shown
<1>8. Painting!Click
  BY <1>1, <1>2, <1>3, <1>6, <1>7 DEF Painting!Click
<1> QED
  BY <1>8 DEF PaintedStep

LEMMA ApplyStep ==
    ASSUME PaintingInv, NEW at \in Mouse, ApplyClick(at) PROVE PaintedStep
<1> DEFINE b == my_pixel_buffer_
<1>1. /\ ToolsInv /\ IsPicture(b) /\ clicks \in Int
      /\ ~click /\ click' /\ mouse' = at /\ visited' = 0 /\ clicks' = clicks + 1
      /\ buffer_copy' = IF active_tool.class = "BlurTool" THEN b ELSE NoBuffer
      /\ UNCHANGED <<b, clickUnchanged>>
  BY DEF PaintingInv, ToolsInv, CanvasOK, ClickOK, ApplyClick, Idle
<1>2. UNCHANGED <<active_tool_, active_color_, background_color_, stamp_mask_, special_mask_file>>
  BY <1>1 DEF clickUnchanged, beltVars, stampVars, builtVars
<1>3. active_tool' = active_tool
  BY <1>2 DEF active_tool
<1>4. Mask' = Mask
  BY <1>2, <1>3 DEF Mask
<1>5. Picture = Shown(b) /\ Applied = clicks
  BY <1>1 DEF Picture, Shown, Applied, Blurring
<1>6. active_tool_ \in 0 .. 7
  BY <1>1 DEF ToolsInv, ChoicesOK
<1>7. CASE active_tool_ = 6
  <2>1. active_tool.class = "BlurTool"
    BY <1>6, <1>7, ClassFacts
  <2>2. Picture' = Shown(b) /\ Applied' = clicks' - 1
    BY <1>1, <1>3, <2>1 DEF Picture, Applied, Blurring, Shown
  <2> QED
    BY <1>1, <1>5, <2>2 DEF PaintedStep
<1>8. CASE active_tool_ # 6
  <2>1. active_tool.class \in {"Brush", "Stamp", "Stamper"} /\ active_tool.class # "BlurTool"
    BY <1>6, <1>8, ClassFacts
  <2>2. Applied' = clicks'
    BY <1>3, <2>1 DEF Applied, Blurring
  <2>3. at[1] \in Int /\ at[2] \in Int
    BY ToolsAssumption
  <2>4. ASSUME NEW p \in Positions(b)
        PROVE  (NewColour(Mask, p, Shown(my_pixel_buffer_)[p]))'
                    = Struck(At(Mask, p[1] - at[1], p[2] - at[2]), Shown(b)[p])
    <3>1. (MaskPosition(Mask, p))' = At(Mask, p[1] - at[1], p[2] - at[2])
      BY <1>1, <1>4 DEF MaskPosition, At
    <3>2. "Brush" # "BlurTool" /\ "Stamp" # "BlurTool" /\ "Stamper" # "BlurTool"
          /\ "Brush" # "Stamp" /\ "Brush" # "Stamper"
      OBVIOUS
    <3>3. Shown(my_pixel_buffer_)' = Shown(b)
      BY <1>1
    <3> QED
      BY <1>2, <1>3, <1>4, <2>1, <3>1, <3>2, <3>3 DEF NewColour, Struck, Brushed, Stamped
  <2>5. ASSUME NEW p \in Positions(b)
        PROVE  (NewColour(Mask, p, Shown(my_pixel_buffer_)[p]))'
                    = Painting!Painted(p, p[1] - at[1], p[2] - at[2])
    <3> DEFINE dx == p[1] - at[1]
               dy == p[2] - at[2]
    <3>1. Picture[p] \in 0 .. One /\ dx \in Int /\ dy \in Int
      BY <1>1, <1>5, <2>3, ShownFacts
    <3> HIDE DEF dx, dy
    <3>2. Struck(At(Mask, dx, dy), Picture[p]) = Painting!Painted(p, dx, dy)
      BY <1>1, <1>8, <3>1, ToolsPaint
    <3> QED
      BY <1>5, <2>4, <3>2 DEF dx, dy
  <2>6. ASSUME NEW p \in Positions(b) PROVE ~Before(p, Position[1], Position[2])'
    BY <1>1, <2>6, WalkStarts DEF ToolsInv
  <2>7. Picture' = [p \in Positions(b) |-> (NewColour(Mask, p, Shown(my_pixel_buffer_)[p]))']
    <3>1. Picture' = [p \in Positions(b') |->
                IF Before(p, Position[1], Position[2])' THEN Shown(b')[p]
                ELSE (NewColour(Mask, p, Shown(my_pixel_buffer_)[p]))']
      BY <1>1, <1>3, <2>1 DEF Picture, Blurring, Shown
    <3> QED
      BY <1>1, <2>6, <3>1
  <2>8. DOMAIN Picture = Positions(b)
    BY <1>5 DEF Shown
  <2>9. Painting!Click
    BY <1>1, <1>5, <2>2, <2>5, <2>7, <2>8 DEF Painting!Click
  <2> QED
    BY <2>9 DEF PaintedStep
<1> QED
  BY <1>7, <1>8

\* The picture of a tool that reads the canvas: the pixels that the walk has not
\* come to yet are taken for what they will be.
LEMMA WalkedPicture ==
    ASSUME active_tool.class # "BlurTool", click
    PROVE  /\ Applied = clicks
           /\ Picture = [p \in Positions(my_pixel_buffer_) |->
                IF Before(p, Position[1], Position[2]) THEN Shown(my_pixel_buffer_)[p]
                ELSE NewColour(Mask, p, Shown(my_pixel_buffer_)[p])]
BY DEF Picture, Applied, Blurring, Shown

LEMMA PaintStep == ASSUME PaintingInv, PaintPixel PROVE PaintedStep
<1> DEFINE b == my_pixel_buffer_
<1>1. /\ ToolsInv /\ click /\ click' = click
      /\ UNCHANGED <<clickUnchanged, mouse, buffer_copy, clicks>>
  BY DEF PaintingInv, PaintPixel
<1>2. UNCHANGED <<active_tool_, active_color_, background_color_, stamp_mask_, special_mask_file>>
  BY <1>1 DEF clickUnchanged, beltVars, stampVars, builtVars
<1>3. active_tool' = active_tool
  BY <1>2 DEF active_tool
<1>4. Mask' = Mask
  BY <1>2, <1>3 DEF Mask
<1>5. /\ Positions(b)' = Positions(b)
      /\ \A p \in Positions(b) :
            /\ Shown(b')[p] =
                    IF p = Position THEN NewColour(Mask, p, Shown(b)[p]) ELSE Shown(b)[p]
            /\ Before(p, Position[1], Position[2])'
                    <=> (Before(p, Position[1], Position[2]) \/ p = Position)
            /\ p = Position => ~Before(p, Position[1], Position[2])
  BY <1>1, PaintFacts
<1>6. Applied' = Applied
  BY <1>1, <1>3 DEF Applied, Blurring
<1>7. CASE active_tool.class = "BlurTool"
  <2>1. Picture = [p \in Positions(b) |-> get_valid_pixel(buffer_copy, p[1], p[2])]
    BY <1>1, <1>7 DEF Picture, Blurring
  <2>2. Picture' = [p \in Positions(b') |-> get_valid_pixel(buffer_copy', p[1], p[2])]
    BY <1>1, <1>3, <1>7 DEF Picture, Blurring
  <2> QED
    BY <1>1, <1>5, <1>6, <2>1, <2>2 DEF PaintedStep
<1>8. CASE active_tool.class # "BlurTool"
  <2>1. Picture = [p \in Positions(b) |->
            IF Before(p, Position[1], Position[2]) THEN Shown(b)[p]
            ELSE NewColour(Mask, p, Shown(b)[p])]
    BY <1>1, <1>8, WalkedPicture
  <2>2. Picture' = [p \in Positions(b') |->
            IF Before(p, Position[1], Position[2])' THEN Shown(b')[p]
            ELSE (NewColour(Mask, p, Shown(my_pixel_buffer_)[p]))']
    BY <1>1, <1>3, <1>8 DEF Picture, Blurring, Shown
  <2>3. ASSUME NEW p \in Positions(b), p # Position
        PROVE  (NewColour(Mask, p, Shown(my_pixel_buffer_)[p]))' = NewColour(Mask, p, Shown(b)[p])
    <3>1. Shown(my_pixel_buffer_)'[p] = Shown(b)[p]
      BY <1>5, <2>3
    <3>2. mouse' = mouse /\ buffer_copy' = buffer_copy
      BY <1>1
    <3> QED
      BY <1>2, <1>3, <1>4, <3>1, <3>2
      DEF NewColour, MaskPosition, Brushed, Stamped, Blurred
  <2>4. Picture' = Picture
    BY <1>5, <2>1, <2>2, <2>3
  <2> QED
    BY <1>6, <2>4 DEF PaintedStep
<1> QED
  BY <1>7, <1>8

LEMMA ReturnStep == ASSUME PaintingInv, Return PROVE PaintedStep
<1> DEFINE b == my_pixel_buffer_
<1>1. /\ ToolsInv /\ BlurOK /\ IsPicture(b) /\ CanvasOK /\ clicks \in Int
      /\ click /\ ~click' /\ visited = PixelCount /\ visited \in 0 .. PixelCount
      /\ UNCHANGED <<b, mouse, clicks>>
  BY DEF PaintingInv, ToolsInv, CanvasOK, ClickOK, Return
<1>2. Picture' = Shown(b) /\ Applied' = clicks
  BY <1>1 DEF Picture, Applied, Blurring, Shown
<1>3. \A p \in Positions(b) : Before(p, Position[1], Position[2])
  BY <1>1, WalkFacts
<1>4. active_tool_ \in 0 .. 7
  BY <1>1 DEF ToolsInv, ChoicesOK
<1>5. CASE active_tool_ # 6
  <2>1. active_tool.class # "BlurTool"
    BY <1>4, <1>5, ClassFacts
  <2>2. /\ Applied = clicks
        /\ Picture = [p \in Positions(b) |->
                IF Before(p, Position[1], Position[2]) THEN Shown(b)[p]
                ELSE NewColour(Mask, p, Shown(b)[p])]
    BY <1>1, <2>1, WalkedPicture
  <2>3. Picture = [p \in Positions(b) |-> Shown(b)[p]]
    BY <1>3, <2>2
  <2>4. Picture = Shown(b)
    BY <2>3 DEF Shown
  <2> QED
    BY <1>2, <2>2, <2>4 DEF PaintedStep
<1>6. CASE active_tool_ = 6
  <2>1. /\ active_tool.class = "BlurTool" /\ IsPicture(buffer_copy)
        /\ Positions(buffer_copy) = Positions(b)
    BY <1>1, <1>4, <1>6, ClassFacts DEF ToolsInv, ClickOK, Positions
  <2>2. /\ Applied = clicks - 1
        /\ Picture = [p \in Positions(b) |-> get_valid_pixel(buffer_copy, p[1], p[2])]
    BY <1>1, <2>1 DEF Picture, Applied, Blurring
  <2>3. Picture = Shown(buffer_copy) /\ DOMAIN Picture = Positions(b)
    BY <2>1, <2>2 DEF Shown
  <2>4. ASSUME NEW p \in Positions(b)
        PROVE  Shown(b)[p] = Painting!Painted(p, p[1] - mouse[1], p[2] - mouse[2])
    <3> DEFINE dx == p[1] - mouse[1]
               dy == p[2] - mouse[2]
               q == At(Mask, dx, dy)
    <3>1. dx \in Int /\ dy \in Int
      <4>1. mouse[1] \in Int /\ mouse[2] \in Int
        BY <1>1, ToolsAssumption DEF ToolsInv, ClickOK
      <4> QED
        BY <1>1, <4>1, ShownFacts
    <3>2. Shown(b)[p] = NewColour(Mask, p, Picture[p])
      BY <1>1, <1>3, <1>6, <2>3 DEF BlurOK
    <3>3. MaskPosition(Mask, p) = q
      BY DEF MaskPosition, At
    <3> HIDE DEF dx, dy, q
    <3>4. NewColour(Mask, p, Picture[p]) =
            IF q \notin DOMAIN Mask.at THEN Picture[p]
            ELSE Blurred(Mask.at[q], Picture[p], p[1], p[2])
      <4>1. "Brush" # "BlurTool" /\ "Stamp" # "BlurTool" /\ "Stamper" # "BlurTool"
        OBVIOUS
      <4> QED
        BY <2>1, <3>3, <4>1 DEF NewColour
    <3>5. (IF q \notin DOMAIN Mask.at THEN Picture[p]
           ELSE Blurred(Mask.at[q], Picture[p], p[1], p[2])) = Painting!Blur(p, dx, dy)
      <4>1. PlainColours
        BY <1>1, ToolsAssumption DEF ToolsInv, PlainColours, ChoicesOK, CanvasOK
      <4>2. \A r \in Positions(buffer_copy) : Picture[r] = get_valid_pixel(buffer_copy, r[1], r[2])
        BY <2>1, <2>2
      <4>3. q = At(Mask, dx, dy) /\ DOMAIN Picture = Positions(buffer_copy) /\ p \in Positions(buffer_copy)
        BY <2>1, <2>3 DEF q
      <4> QED
        BY <1>6, <2>1, <3>1, <4>1, <4>2, <4>3, BlurFacts
    <3>6. Painting!Painted(p, dx, dy) = Painting!Blur(p, dx, dy)
      BY <1>6 DEF Painting!Painted
    <3> QED
      BY <3>2, <3>4, <3>5, <3>6 DEF dx, dy
  <2>5. Picture' = [p \in DOMAIN Picture |->
                        Painting!Painted(p, p[1] - mouse'[1], p[2] - mouse'[2])]
    <3>1. Shown(b) = [p \in Positions(b) |-> Shown(b)[p]]
      BY DEF Shown
    <3>2. mouse' = mouse
      BY <1>1
    <3> QED
      BY <1>2, <2>3, <2>4, <3>1, <3>2
  <2>6. Applied' = Applied + 1
    BY <1>1, <1>2, <2>2
  <2>7. Painting!Click
    BY <2>5, <2>6 DEF Painting!Click
  <2> QED
    BY <2>7 DEF PaintedStep
<1> QED
  BY <1>5, <1>6

LEMMA NextPaintedStep == ASSUME PaintingInv, [Next]_vars PROVE PaintedStep
<1>1. ASSUME UNCHANGED panelUnchanged, Idle PROVE PaintedStep
  BY <1>1, StillPicture DEF panelUnchanged, clickVars, Idle
<1>2. CASE \/ \E i \in DOMAIN tools_ : ChooseTool(i)
           \/ \E v \in Shade : PresetColour(v) \/ SpinColour(v)
           \/ \E v \in Shade, how \in Entrance, leave \in Departure : TypeColour(v, how, leave)
           \/ \E image \in StampImage : LoadStamp(image)
           \/ OtherCallback
  BY <1>1, <1>2 DEF ChooseTool, PresetColour, SpinColour, TypeColour, LoadStamp, OtherCallback
<1>3. ASSUME UNCHANGED <<my_pixel_buffer_, background_color_, choiceVars, beltVars, stampVars,
                         builtVars, clickVars>>
      PROVE  PaintedStep
  <2>1. UNCHANGED <<my_pixel_buffer_, active_tool_, active_color_, background_color_, stamp_mask_,
                    special_mask_file, click, mouse, visited, buffer_copy, clicks>>
    BY <1>3 DEF beltVars, stampVars, builtVars, clickVars
  <2>2. active_tool' = active_tool
    BY <2>1 DEF active_tool
  <2>3. Mask' = Mask
    BY <2>1, <2>2 DEF Mask
  <2>4. Picture' = Picture /\ Applied' = Applied
    BY <2>1, <2>2, <2>3 DEF Picture, Applied, Blurring, Position, NewColour, MaskPosition,
        Brushed, Stamped, Blurred
  <2> QED
    BY <2>4 DEF PaintedStep
<1>4. CASE UseNoKernel \/ UNCHANGED vars
  BY <1>3, <1>4 DEF UseNoKernel, vars, clickUnchanged
<1> QED
  BY <1>2, <1>4, IgnoreStep, ApplyStep, PaintStep, ReturnStep DEF Next

\* Every click, with whatever tool, colour and stamp, at whatever place of whatever
\* canvas, does to each pixel what the abstract specification says: masks, padding,
\* the order of the walk and the copy of the blur are of no consequence.
THEOREM PaintedPictureImplemented == Spec => ImplementsPaintedPicture
<1>1. Init => PaintingInv
  BY InitToolsInv DEF Init, PaintingInv, BlurOK
<1>2. PaintingInv /\ [Next]_vars => PaintingInv' /\ [Painting!Click]_<<Picture, Applied>>
  <2> SUFFICES ASSUME PaintingInv, [Next]_vars
               PROVE  PaintingInv' /\ [Painting!Click]_<<Picture, Applied>>
    OBVIOUS
  <2>1. ToolsInv' /\ BlurOK'
    BY NextToolsInv, NextBlurOK DEF PaintingInv
  <2> QED
    BY <2>1, NextPaintedStep DEF PaintingInv, PaintedStep
<1> QED
  BY <1>1, <1>2, PTL DEF Spec, ImplementsPaintedPicture

==============================================================================
