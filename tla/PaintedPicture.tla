---------------------------- MODULE PaintedPicture ----------------------------
(***************************************************************************)
(* What the tools promise: a click changes the picture at once, and what   *)
(* becomes of a pixel depends on its colour before and on its distance     *)
(* <<dx, dy>> from the click; y grows downwards.  There are no masks, walks *)
(* or arrays here.  ToolBelt is shown to implement this specification.     *)
(***************************************************************************)
EXTENDS Integers, FiniteSetsExt, Functions

CONSTANTS
    One,                \* the whole number that stands for full intensity
    PpmColour(_, _)     \* the picture of the Stamper

VARIABLES
    picture,            \* [positions -> 0 .. One]
    applied,            \* how many clicks have been
    mouse,              \* where the last one was
    tool, colour, background,
    stamp,              \* the image loaded as a stamp
    file                \* where the picture of the Stamper comes from

Abs(n) == IF n < 0 THEN -n ELSE n

\* c with as many percents of another colour in it.
Mixed(c, other, percent) == (other * percent + c * (100 - percent)) \div 100

InDisk(dx, dy, r) == dx * dx + dy * dy <= r * r

InBox(dx, dy, a, b) == Abs(dx) <= a /\ Abs(dy) <= b

-----------------------------------------------------------------------------

Pen(c, dx, dy) == IF InDisk(dx, dy, 1) THEN colour ELSE c

Eraser(c, dx, dy) == IF InDisk(dx, dy, 10) THEN background ELSE c

\* 20 percent in the middle, and one percent less for each pixel of distance.
Spray(c, dx, dy) ==
    IF InDisk(dx, dy, 20)
    THEN Mixed(c, colour, Max({i \in 0 .. 20 : InDisk(dx, dy, 20 - i)}))
    ELSE c

Calligraphy(c, dx, dy) == IF InBox(dx, dy, 2, 7) THEN colour ELSE c

\* As strong as the pixel is bright.
Highlighter(c, dx, dy) ==
    IF InBox(dx, dy, 2, 7)
    THEN (colour * 40 * c + c * (100 * One - 40 * c)) \div (100 * One)
    ELSE c

\* The upper left corner of the stamp is half its size away from the click, and
\* half a pixel more if the size is odd.
Stamp(c, dx, dy) ==
    LET at == <<dx + (stamp.width + 1) \div 2, dy + (stamp.height + 1) \div 2>>
    IN  IF at \in DOMAIN stamp.colours /\ stamp.colours[at] \in 0 .. One
        THEN stamp.colours[at] ELSE c

\* The radius of the blur at a distance: 20 in the middle, half a pixel at
\* distance 20, linear in between, rounded to a whole number and then down to an
\* odd one.  Within a radius of k the mean is taken over |dx| + |dy| <= k.
BlurRadius(dx, dy) ==
    LET odd == {k \in 1 .. 19 : k % 2 = 1 /\ 1521 * (dx * dx + dy * dy) < (820 - 40 * k) * (820 - 40 * k)}
    IN  Max({0} \cup odd)

Mean(at, k) ==
    LET near == {p \in DOMAIN picture : Abs(p[1] - at[1]) + Abs(p[2] - at[2]) <= k}
    IN  SumFunctionOnSet(picture, near) \div Cardinality(near)

Blur(at, dx, dy) == Mean(at, BlurRadius(dx, dy))

\* The picture is stretched to 201 x 151 pixels and put on at half strength; a
\* file 255 pixels wide is not understood, and a missing one gives stripes.
Stamper(c, dx, dy) ==
    IF ~InBox(dx, dy, 100, 75) \/ (file.opens /\ file.width = 255) THEN c
    ELSE IF file.opens
    THEN Mixed(c, PpmColour(((dx + 100) * file.width) \div 201,
                            ((dy + 75) * file.height) \div 151), 50)
    ELSE Mixed(c, IF (dx + dy) % 20 < 10 THEN 0 ELSE One, 50)

Painted(at, dx, dy) ==
    LET c == picture[at]
    IN  CASE tool = 0 -> Pen(c, dx, dy)
          [] tool = 1 -> Eraser(c, dx, dy)
          [] tool = 2 -> Spray(c, dx, dy)
          [] tool = 3 -> Calligraphy(c, dx, dy)
          [] tool = 4 -> Highlighter(c, dx, dy)
          [] tool = 5 -> Stamp(c, dx, dy)
          [] tool = 6 -> Blur(at, dx, dy)
          [] tool = 7 -> Stamper(c, dx, dy)

Click ==
    /\ applied' = applied + 1
    /\ picture' = [at \in DOMAIN picture |-> Painted(at, at[1] - mouse'[1], at[2] - mouse'[2])]

=============================================================================
