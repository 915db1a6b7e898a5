-------------------------------- MODULE Masks --------------------------------
(***************************************************************************)
(* The masks of the tools (brush.cc, stamper.cc, blur_tool.cc): squares of *)
(* intensities, colours or kernel sizes, indexed <<mask_x, mask_y>>.       *)
(*                                                                         *)
(* Intensities are whole percents, rounded down.  The distances of a round *)
(* mask are square roots; what falls off with them is compared by squares, *)
(* so that no mask depends on how a root would be rounded.                 *)
(***************************************************************************)
EXTENDS Integers, Sequences, FiniteSetsExt

CONSTANTS
    One,                \* stands for the intensity 1.0
    PpmColour(_, _)     \* the colours, by column and row, of the PPM file

Transparent == -1       \* a pixel with alpha 0

NoMask == [size |-> 0, at |-> <<>>]

Square(size) == (0 .. size - 1) \X (0 .. size - 1)

OddSize(n) == IF n % 2 = 0 THEN n + 1 ELSE n

-----------------------------------------------------------------------------
(* Brushes                                                                 *)

\* A rectangle in a square: the shorter side is padded.
Inside(p, width, height, size) ==
    LET pad_width  == (size - width) \div 2
        pad_height == (size - height) \div 2
    IN  /\ p[1] \in pad_width .. size - 1 - pad_width
        /\ p[2] \in pad_height .. size - 1 - pad_height

mask_rectangle(width, height, intensity) ==
    LET mask_width  == OddSize(width)
        mask_height == OddSize(height)
        new_mask_size == Max({mask_width, mask_height})
    IN  [size |-> new_mask_size,
         at |-> [p \in Square(new_mask_size) |->
                    IF Inside(p, mask_width, mask_height, new_mask_size)
                    THEN intensity ELSE 0]]

SquaredDistance(p, center_index) ==
    (p[1] - center_index) * (p[1] - center_index)
        + (p[2] - center_index) * (p[2] - center_index)

\* An intensity that falls off from center to outer over radius pixels: is it
\* at least v, or more than v, at the squared distance n?
AtLeast(v, center, outer, radius, n) ==
    /\ v <= center
    /\ (center - v) * (center - v) * radius * radius >= (center - outer) * (center - outer) * n

MoreThan(v, center, outer, radius, n) ==
    /\ v < center
    /\ (center - v) * (center - v) * radius * radius > (center - outer) * (center - outer) * n

\* No brush of this program gets stronger outwards.
mask_circle(diameter, center_intensity, outer_intensity) ==
    LET center_index == diameter \div 2
        falloff(n) == {v \in outer_intensity .. center_intensity :
                AtLeast(v, center_intensity, outer_intensity, center_index, n)}
    IN  [size |-> OddSize(diameter),
         at |-> [p \in Square(OddSize(diameter)) |->
                    LET n == SquaredDistance(p, center_index)
                    IN  IF n > center_index * center_index THEN 0
                        ELSE Max(falloff(n))]]

-----------------------------------------------------------------------------
(* The blur tool                                                           *)

\* rint of a mask that falls off from diameter / 2 to .5, here counted in halves.
RoundedIntensity(diameter, n) ==
    LET radius == diameter \div 2
    IN  Max({0} \cup {k \in 1 .. radius : MoreThan(2 * k - 1, 2 * radius, 1, radius, n)})

BlurSize(diameter, p) ==
    LET n == SquaredDistance(p, diameter \div 2)
        kernel_size == RoundedIntensity(diameter, n)
    IN  IF n > (diameter \div 2) * (diameter \div 2) THEN 0
        ELSE IF kernel_size # 0 /\ kernel_size % 2 = 0 THEN kernel_size - 1
        ELSE kernel_size

blur_mask(diameter) ==
    [size |-> diameter, at |-> [p \in Square(diameter) |-> BlurSize(diameter, p)]]

-----------------------------------------------------------------------------
(* Stamps                                                                  *)

\* The ceil in the code is that of a quotient of two ints, already rounded down.
buffer_stamp_mask(image) ==
    LET longer == Max({image.width, image.height})
        mask_size == longer + (longer % 2)
        padding_left == (mask_size - image.width) \div 2
        padding_top  == (mask_size - image.height) \div 2
    IN  [size |-> mask_size,
         at |-> [p \in Square(mask_size) |->
                    IF <<p[1] - padding_left, p[2] - padding_top>> \in DOMAIN image.colours
                    THEN image.colours[<<p[1] - padding_left, p[2] - padding_top>>]
                    ELSE Transparent]]

\* A header is a sequence of lines, and a line the numbers in it.  The first
\* line that begins with 255 is taken for the maximum colour, and the line
\* before it for the dimensions.
ColorMaxLines(header) == {k \in DOMAIN header : header[k] # <<>> /\ Head(header[k]) = 255}

BaseSize(header) ==
    LET k == Min(ColorMaxLines(header))
    IN  IF /\ ColorMaxLines(header) # {}
           /\ k > 1
           /\ Len(header[k]) = 1
           /\ Len(header[k - 1]) = 2
        THEN header[k - 1] ELSE <<0, 0>>

\* The colour of a PPM mask of mask_width x mask_height at (col, row) of it,
\* for a base image of some size that is stretched to fit.
Stretched(base_size, col, row, mask_width, mask_height) ==
    PpmColour((col * base_size[1]) \div mask_width, (row * base_size[2]) \div mask_height)

\* Red and black stripes, if there is no such file.
Stripes(p) == IF (p[1] + p[2]) % 20 < 10 THEN 0 ELSE One

ppm_stamp_mask(width, height, file) ==
    LET mask_width  == OddSize(width)
        mask_height == OddSize(height)
        new_mask_size == Max({mask_width, mask_height})
        col_start == (new_mask_size - mask_width) \div 2
        row_start == (new_mask_size - mask_height) \div 2
        base_size == BaseSize(file.header)
    IN  IF file.opens /\ (base_size[1] < 1 \/ base_size[2] < 1) THEN NoMask
        ELSE [size |-> new_mask_size,
              at |-> [p \in Square(new_mask_size) |->
                        IF ~Inside(p, mask_width, mask_height, new_mask_size) THEN Transparent
                        ELSE IF ~file.opens THEN Stripes(p)
                        ELSE Stretched(base_size, p[1] - col_start, p[2] - row_start,
                                       mask_width, mask_height)]]

=============================================================================
