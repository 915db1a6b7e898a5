----------------------------- MODULE PixelBuffer -----------------------------
(***************************************************************************)
(* A PixelBuffer is its dimensions and an array of pixels                  *)
(* (pixel_buffer.cc); filters and tools work on it pixel by pixel.  The    *)
(* colours are those of color_data.cc.                                     *)
(*                                                                         *)
(* One channel is modelled: the code treats all three alike.  A colour is  *)
(* a whole multiple of 1/One, and where a quotient is none it is rounded   *)
(* down; the code uses floats.                                             *)
(***************************************************************************)
EXTENDS Integers

CONSTANT One        \* stands for the intensity 1.0

ASSUME OneAssumption == One \in Nat \ {0}

NoBuffer == [width |-> 0, height |-> 0, pixels |-> <<>>]

\* Where is_valid_pixel holds.
Positions(buffer) == (0 .. buffer.width - 1) \X (0 .. buffer.height - 1)

\* The rows are stored bottom up, as OpenGL draws them.
Index(buffer, x, y) == x + buffer.width * (buffer.height - (y + 1))

get_valid_pixel(buffer, x, y) == buffer.pixels[Index(buffer, x, y)]

set_valid_pixel(buffer, x, y, v) ==
    [buffer EXCEPT !.pixels[Index(buffer, x, y)] = v]

\* There is a colour for every position, and every colour is in the gamut.
InGamut(buffer) ==
    buffer.pixels \in [0 .. buffer.width * buffer.height - 1 -> 0 .. One]

\* What the loops over the canvas have visited when they come to (x, y).
Before(p, x, y) == p[2] < y \/ (p[2] = y /\ p[1] < x)

\* Mistake: the result is not clamped.
unclamped_color(v) == v

clamped_color(v) == IF v < 0 THEN 0 ELSE IF v > One THEN One ELSE v

\* The nearest whole number to n / d, and the even one of two.
rint(n, d) ==
    LET q == n \div d
        up == 2 * (n % d) > d \/ (2 * (n % d) = d /\ q % 2 = 1)
    IN  IF up THEN q + 1 ELSE q

=============================================================================
