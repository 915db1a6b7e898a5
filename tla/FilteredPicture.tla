--------------------------- MODULE FilteredPicture ---------------------------
(***************************************************************************)
(* What the filters promise: a picture is replaced, at once and as a       *)
(* whole, by the picture in which every pixel is computed from the old one.*)
(*                                                                         *)
(* There are no kernels, loops, copies or arrays here.  A convolution is   *)
(* given by the weight of a neighbour at a distance <<dx, dy>>; y grows    *)
(* downwards.  FilterManager is shown to implement this specification.     *)
(***************************************************************************)
EXTENDS Integers, Functions

CONSTANTS
    One,            \* the whole number that stands for full intensity
    Radius,         \* the radii of the filters whose radius can be set
    Level,          \* thresholds
    Factor,         \* factors of the channel filter
    Bins            \* numbers of bins of the quantization

VARIABLE picture    \* [positions -> 0 .. One]

Abs(n) == IF n < 0 THEN -n ELSE n

Sign(n) == IF n < 0 THEN -1 ELSE IF n > 0 THEN 1 ELSE 0

InGamut(v) == IF v < 0 THEN 0 ELSE IF v > One THEN One ELSE v

Indicator(condition) == IF condition THEN 1 ELSE 0

-----------------------------------------------------------------------------

\* The distances of the neighbours, and a convolution by their weights.
Around(r) == (-r .. r) \X (-r .. r)

\* The mean of the pixels nearby, along the axes or in one direction.
Diamond(r) == [weight |-> [d \in Around(r) |-> Indicator(Abs(d[1]) + Abs(d[2]) <= r)],
               radius |-> r, bias |-> 0]
Column(r) == [Diamond(r) EXCEPT !.weight = [d \in Around(r) |-> Indicator(d[1] = 0)]]
Row(r) == [Diamond(r) EXCEPT !.weight = [d \in Around(r) |-> Indicator(d[2] = 0)]]
Rising(r) == [Diamond(r) EXCEPT !.weight = [d \in Around(r) |-> Indicator(d[1] = -d[2])]]
Falling(r) == [Diamond(r) EXCEPT !.weight = [d \in Around(r) |-> Indicator(d[1] = d[2])]]

\* The pixel against its row and column, against all around it, and what is
\* behind it against what is before it.
Sharp(r) == [Diamond(r) EXCEPT !.weight = [d \in Around(r) |->
                (4 * r + 2) * Indicator(d = <<0, 0>>) - Indicator(d[1] = 0 \/ d[2] = 0)]]
Edges == [Diamond(1) EXCEPT !.weight = [d \in Around(1) |-> 9 * Indicator(d = <<0, 0>>) - 1]]
Relief == [weight |-> [d \in Around(1) |-> Sign(d[1] + d[2])], radius |-> 1, bias |-> One \div 2]

Convolution ==
    (UNION {{Diamond(r), Column(r), Row(r), Rising(r), Falling(r), Sharp(r)} : r \in Radius})
        \cup {Edges, Relief}

\* Only neighbours that exist count, and if their weights have a positive sum
\* the result is divided by it.
Convolved(f, at) ==
    LET near == {p \in DOMAIN picture : /\ Abs(p[1] - at[1]) <= f.radius
                                        /\ Abs(p[2] - at[2]) <= f.radius}
        w   == [p \in near |-> f.weight[<<p[1] - at[1], p[2] - at[2]>>]]
        sum == SumFunction(w)
        light == SumFunction([p \in near |-> w[p] * picture[p]])
    IN  InGamut(f.bias + light \div (IF sum > 0 THEN sum ELSE 1))

Convolve(f) == picture' = [at \in DOMAIN picture |-> Convolved(f, at)]

-----------------------------------------------------------------------------

Threshold(level) ==
    picture' = [at \in DOMAIN picture |-> One * Indicator(picture[at] >= level)]

Channel(factor) ==
    picture' = [at \in DOMAIN picture |-> InGamut(picture[at] * factor)]

\* The nearest of bins values that divide the gamut evenly; of two that are
\* equally near, the one with the even number.
Nearest(v, bins) ==
    CHOOSE n \in 0 .. bins - 1 :
        \A m \in (0 .. bins - 1) \ {n} :
            LET away(i) == Abs(v * (bins - 1) - i * One)
            IN  away(n) < away(m) \/ (away(n) = away(m) /\ n % 2 = 0)

Quantize(bins) ==
    picture' = [at \in DOMAIN picture |->
                    (Nearest(picture[at], bins) * One) \div (bins - 1)]

-----------------------------------------------------------------------------

Init == \E w, h \in Nat : picture \in [(0 .. w) \X (0 .. h) -> 0 .. One]

Next ==
    \/ \E f \in Convolution : Convolve(f)
    \/ \E level \in Level : Threshold(level)
    \/ \E factor \in Factor : Channel(factor)
    \/ \E bins \in Bins : Quantize(bins)

Spec == Init /\ [][Next]_picture

=============================================================================
