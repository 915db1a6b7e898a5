----------------------------- MODULE FilterKernel -----------------------------
(* The kernels of convolutions and of the blur tool (filter_kernel.cc).      *)
EXTENDS PixelBuffer, Functions

Blur(x, y, size) ==
    LET middle == size \div 2
        adjusted_x == IF x <= middle THEN x ELSE size - x - 1
        adjusted_y == IF y <= middle THEN y ELSE size - y - 1
    IN  IF adjusted_x >= middle - adjusted_y THEN 1 ELSE 0

Blur_N_S(x, y, size) == IF x = size \div 2 THEN 1 ELSE 0

Blur_E_W(x, y, size) == IF y = size \div 2 THEN 1 ELSE 0

Blur_NE_SW(x, y, size) == IF x + y = size - 1 THEN 1 ELSE 0

Blur_NW_SE(x, y, size) == IF x = y THEN 1 ELSE 0

Sharpen(x, y, size) ==
    LET middle == size \div 2
    IN  CASE x = middle /\ y = middle -> size * 2 - 1
          [] x = middle /\ y # middle -> -1
          [] x # middle /\ y = middle -> -1
          [] OTHER                    -> 0

EdgeDetect(x, y, size) ==
    IF x = size \div 2 /\ x = y THEN size * size - 1 ELSE -1

Emboss(x, y, size) ==
    CASE x + y < size - 1 -> -1
      [] x + y > size - 1 -> 1
      [] OTHER            -> 0

KernelValue(function, x, y, size) ==
    CASE function = "BLUR"        -> Blur(x, y, size)
      [] function = "BLUR_N_S"    -> Blur_N_S(x, y, size)
      [] function = "BLUR_E_W"    -> Blur_E_W(x, y, size)
      [] function = "BLUR_NE_SW"  -> Blur_NE_SW(x, y, size)
      [] function = "BLUR_NW_SE"  -> Blur_NW_SE(x, y, size)
      [] function = "SHARPEN"     -> Sharpen(x, y, size)
      [] function = "EDGE_DETECT" -> EdgeDetect(x, y, size)
      [] function = "EMBOSS"      -> Emboss(x, y, size)

\* FilterKernel::Init, for the filter_width that is rint(filter_amount * 2).
KernelInit(filter_width, function) ==
    LET size == IF filter_width % 2 = 0 THEN filter_width + 1 ELSE filter_width
    IN  [function |-> function, size |-> size,
         values |-> [i \in 0 .. size * size - 1 |->
                        KernelValue(function, i % size, i \div size, size)]]

\* The pixels that a square of some size covers around (x, y).
Covered(copy, size, x, y) ==
    LET offset == size \div 2
    IN  {p \in Positions(copy) : /\ p[1] - x + offset \in 0 .. size - 1
                                 /\ p[2] - y + offset \in 0 .. size - 1}

\* The weight of pixel p for the result at (x, y).
Weight(kernel, p, x, y) ==
    LET offset == kernel.size \div 2
    IN  kernel.values[(p[2] - y + offset) * kernel.size + (p[1] - x + offset)]

\* Mistake: the factor is that of the whole kernel, at the edges too.
ApplyWholeKernel(kernel, copy, x, y, bias) ==
    LET light == [p \in Covered(copy, kernel.size, x, y) |->
                    get_valid_pixel(copy, p[1], p[2]) * Weight(kernel, p, x, y)]
        factor_accumulator == SumFunction(kernel.values)
        color_accumulator  == SumFunction(light)
    IN  clamped_color(bias + IF factor_accumulator <= 0 THEN color_accumulator
                             ELSE color_accumulator \div factor_accumulator)

\* FilterKernel::Apply
Apply(kernel, copy, x, y, bias) ==
    LET weight == [p \in Covered(copy, kernel.size, x, y) |-> Weight(kernel, p, x, y)]
        light  == [p \in DOMAIN weight |-> get_valid_pixel(copy, p[1], p[2]) * weight[p]]
        factor_accumulator == SumFunction(weight)
        color_accumulator  == SumFunction(light)
    IN  clamped_color(bias + IF factor_accumulator <= 0 THEN color_accumulator
                             ELSE color_accumulator \div factor_accumulator)

=============================================================================
