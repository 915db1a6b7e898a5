--------------------------- MODULE Stroke_proofs ---------------------------
(***************************************************************************)
(* Proofs about Stroke, for every set of mouse coordinates.                *)
(***************************************************************************)
EXTENDS Stroke, TLAPS

(* The inductive invariant for connectedness: where the loop variables are *)
(* relative to the pixel drawn last.                                       *)

LEMMA PointFacts ==
    \A p \in Point : p \in [x : Int, y : Int] /\ p.x \in Int /\ p.y \in Int
  BY CoordAssumption DEF Point

HeadTouches ==
    /\ pc \in {"columns", "slide"} => from.x # dest.x
    /\ pc \in {"rows", "columns"} => Touching(last_draw_location_, [x |-> x, y |-> y])
    /\ pc = "slide" => last_draw_location_ = [x |-> x, y |-> y]

TouchInv == TypeOK /\ HeadTouches

LEMMA InitTouchInv == Init => TouchInv
<1> SUFFICES ASSUME Init PROVE TouchInv
  OBVIOUS
<1>1. TypeOK
  <2>1. drag_ \in BOOLEAN
    BY DEF Init
  <2> QED
    BY <2>1, PointFacts DEF Init, TypeOK
<1>2. HeadTouches
  BY DEF Init, HeadTouches
<1> QED
  BY <1>1, <1>2 DEF TouchInv

LEMMA NextTouchInv ==
    ASSUME TouchInv, [Next]_vars
    PROVE  /\ TouchInv'
           /\ pc # "idle" => Touching(last_draw_location_, last_draw_location_')
<1> USE DEF TouchInv, TypeOK
<1> DEFINE Step == pc # "idle" => Touching(last_draw_location_, last_draw_location_')
<1>1. ASSUME NEW p \in Point, LeftMouseDown(p) PROVE TouchInv' /\ Step
  BY <1>1, PointFacts
     DEF LeftMouseDown, DrawPixel, loopVars, HeadTouches
<1>2. ASSUME NEW p \in Point, DraggedByJump(p) PROVE TouchInv' /\ Step
  BY <1>2, PointFacts
     DEF DraggedByJump, DrawPixel, loopVars, HeadTouches
<1>3. ASSUME NEW p \in Point, DraggedByLine(p) PROVE TouchInv' /\ Step
  <2>1. p \in [x : Int, y : Int] /\ p.x \in Int /\ p.y \in Int
    BY PointFacts
  <2>2. TypeOK' /\ pc = "idle"
    BY <1>3, <2>1 DEF DraggedByLine
  <2>3. HeadTouches'
    BY <1>3, <2>1 DEF DraggedByLine, HeadTouches, Touching, Abs
  <2> QED
    BY <2>2, <2>3
<1>4. ASSUME LeftMouseUp PROVE TouchInv' /\ Step
  BY <1>4 DEF LeftMouseUp, loopVars, HeadTouches
<1>5. ASSUME DrawRow PROVE TouchInv' /\ Step
  BY <1>5 DEF DrawRow, DrawPixel, HeadTouches, Touching, Abs, direction_y
<1>6. ASSUME DrawColumn PROVE TouchInv' /\ Step
  <2>1. delta_error \in Int
    BY <1>6 DEF DrawColumn, HeadTouches, delta_error, delta_x, delta_y, Abs
  <2> QED
    BY <1>6, <2>1 DEF DrawColumn, DrawPixel, HeadTouches
<1>7. ASSUME Slide PROVE TouchInv' /\ Step
  BY <1>7 DEF Slide, DrawPixel, HeadTouches, Touching, Abs, direction_y
<1>8. ASSUME NextColumn PROVE TouchInv' /\ Step
  BY <1>8 DEF NextColumn, HeadTouches, Touching, Abs, direction_x
<1>9. ASSUME Return PROVE TouchInv' /\ Step
  BY <1>9 DEF Return, HeadTouches, Touching, Abs
<1>10. ASSUME UNCHANGED vars PROVE TouchInv' /\ Step
  BY <1>10 DEF vars, HeadTouches, Touching, Abs
<1> QED
  BY <1>1, <1>2, <1>3, <1>4, <1>5, <1>6, <1>7, <1>8, <1>9, <1>10
     DEF Next, Loop

\* The mouse handlers keep every variable in its type.
THEOREM TypeCorrect == Spec => []TypeOK
<1>1. TouchInv => TypeOK
  BY DEF TouchInv
<1> QED
  BY <1>1, InitTouchInv, NextTouchInv, PTL DEF Spec

\* Whatever the mouse does, the pixels of one drag form a connected path.
THEOREM Connected == Spec => StrokeIsConnected
<1>1. TouchInv /\ [Next]_vars
        => [pc # "idle" => Touching(last_draw_location_, last_draw_location_')]_vars
  BY NextTouchInv
<1> QED
  BY <1>1, InitTouchInv, NextTouchInv, PTL DEF Spec, StrokeIsConnected

-----------------------------------------------------------------------------
(* Where the loops are on their way to the pointer.  To bound what is drawn*)
(* the invariant has to say how far the rows have come for the columns that*)
(* are done: delta_error rows for each.                                    *)

Done == Abs(x - from.x)

RowsInv ==
    /\ from.x = dest.x
    /\ from.y # dest.y
    /\ x = from.x
    /\ InRange(from.y, y, dest.y)
    /\ last_draw_location_.x = x
    /\ last_draw_location_.y = IF y = from.y THEN y ELSE y - direction_y

ColumnsInv ==
    /\ error = -1
    /\ y = from.y + direction_y * (delta_error * Done)
    /\ last_draw_location_ = [x |-> IF x = from.x THEN x ELSE x - direction_x,
                              y |-> y]

SlideInv ==
    /\ x # dest.x
    /\ error >= -1
    /\ error < delta_error
    /\ y = from.y + direction_y * (delta_error * Done + delta_error - error - 1)
    /\ last_draw_location_ = [x |-> x, y |-> y]

LineInv ==
    /\ pc = "rows" => RowsInv
    /\ pc \in {"columns", "slide"} => from.x # dest.x /\ InRange(from.x, x, dest.x)
    /\ pc = "columns" => ColumnsInv
    /\ pc = "slide" => SlideInv

\* The truncated slope takes no more rows over all columns than there are.
LEMMA SlopeFacts ==
    ASSUME TypeOK, from.x # dest.x
    PROVE  /\ delta_x \in Nat /\ delta_x > 0
           /\ delta_y \in Nat
           /\ delta_error \in Nat
           /\ delta_error * delta_x <= delta_y
<1>1. delta_x \in Nat /\ delta_x > 0 /\ delta_y \in Nat
  BY DEF TypeOK, delta_x, delta_y, Abs
<1> HIDE DEF delta_x, delta_y
<1>2. ASSUME NEW d \in Nat, NEW w \in Nat, w > 0
      PROVE  d \div w \in Nat /\ w * (d \div w) <= d
  BY <1>2
<1>3. delta_error \in Nat /\ delta_x * delta_error <= delta_y
  BY <1>1, <1>2 DEF delta_error
<1>4. delta_x * delta_error = delta_error * delta_x
  BY <1>1, <1>3
<1> QED
  BY <1>1, <1>3, <1>4

LEMMA SlopeIsNat == TypeOK /\ from.x # dest.x => delta_error \in Nat
  BY SlopeFacts

\* So the rows of the columns done do not reach beyond the pointer.
LEMMA RowsBounded ==
    ASSUME NEW s \in Nat, NEW w \in Nat, NEW d \in Nat, NEW k \in Nat,
           s * w <= d, k <= w
    PROVE  s * k \in Nat /\ s * k <= d
<1>1. s * w = s * k + s * (w - k)
  OBVIOUS
<1>2. s * k \in Nat /\ s * (w - k) \in Nat
  OBVIOUS
<1> QED
  BY <1>1, <1>2

LEMMA LineInvBounds ==
    ASSUME TypeOK, LineInv
    PROVE  StaysBetween
<1> SUFFICES ASSUME pc # "idle" PROVE StaysBetween
  BY DEF StaysBetween
<1>1. CASE pc = "rows"
  BY <1>1 DEF TypeOK, LineInv, RowsInv, StaysBetween, InRange, direction_y
<1>2. ASSUME pc \in {"columns", "slide"}
      PROVE  /\ Done \in Nat /\ Done <= delta_x
             /\ x # dest.x => Done + 1 <= delta_x
             /\ delta_error * Done \in Nat
             /\ delta_error * Done <= delta_y
             /\ x # dest.x => delta_error * Done + delta_error <= delta_y
  <2>1. /\ Done \in Nat /\ Done <= delta_x
        /\ x # dest.x => Done + 1 <= delta_x
    BY <1>2 DEF TypeOK, LineInv, InRange, Done, delta_x, Abs
  <2>2. /\ delta_x \in Nat
        /\ delta_y \in Nat
        /\ delta_error \in Nat
        /\ delta_error * delta_x <= delta_y
    BY <1>2, SlopeFacts DEF LineInv
  <2>3. delta_error * Done \in Nat /\ delta_error * Done <= delta_y
    BY <2>1, <2>2, RowsBounded
  <2>4. ASSUME x # dest.x
        PROVE  delta_error * Done + delta_error <= delta_y
    <3>1. delta_error * (Done + 1) <= delta_y
      BY <2>1, <2>2, <2>4, RowsBounded
    <3>2. delta_error * (Done + 1) = delta_error * Done + delta_error
      BY <2>1, <2>2
    <3> QED
      BY <3>1, <3>2
  <2> QED
    BY <2>1, <2>3, <2>4
<1>3. CASE pc = "columns"
  <2> DEFINE r == delta_error * Done
  <2>1. r \in Nat /\ r <= delta_y
    BY <1>2, <1>3
  <2>2. y = from.y + direction_y * r
    BY <1>3 DEF LineInv, ColumnsInv
  <2> HIDE DEF r
  <2>3. InRange(from.y, y, dest.y)
    BY <2>1, <2>2 DEF TypeOK, InRange, delta_y, Abs, direction_y
  <2>4. /\ last_draw_location_.y = y
        /\ last_draw_location_.x = IF x = from.x THEN x ELSE x - direction_x
        /\ InRange(from.x, x, dest.x)
    BY <1>3 DEF LineInv, ColumnsInv
  <2> QED
    BY <2>3, <2>4 DEF TypeOK, StaysBetween, InRange, direction_x
<1>4. CASE pc = "slide"
  <2> DEFINE r == delta_error * Done + delta_error - error - 1
  <2>1. r \in Nat /\ r <= delta_y
    <3>1. /\ delta_error * Done \in Nat
          /\ delta_error * Done + delta_error <= delta_y
      BY <1>2, <1>4 DEF LineInv, SlideInv
    <3>2. delta_error \in Nat /\ delta_y \in Nat
      BY <1>4, SlopeFacts DEF LineInv
    <3>3. error \in Int /\ error >= -1 /\ error < delta_error
      BY <1>4 DEF LineInv, SlideInv, TypeOK
    <3> HIDE DEF delta_error, delta_y, Done
    <3> QED
      BY <3>1, <3>2, <3>3
  <2>2. y = from.y + direction_y * r
    BY <1>4 DEF LineInv, SlideInv
  <2> HIDE DEF r
  <2>3. InRange(from.y, y, dest.y)
    BY <2>1, <2>2 DEF TypeOK, InRange, delta_y, Abs, direction_y
  <2> QED
    BY <1>4, <2>3 DEF LineInv, SlideInv, StaysBetween
<1> QED
  BY <1>1, <1>3, <1>4 DEF TypeOK

LEMMA LineInvStep ==
    ASSUME TypeOK, TypeOK', LineInv, Next
    PROVE  LineInv'
<1> USE DEF TypeOK
<1>1. ASSUME NEW p \in Point, LeftMouseDown(p) PROVE LineInv'
  BY <1>1 DEF LeftMouseDown, loopVars, LineInv
<1>2. ASSUME NEW p \in Point, DraggedByJump(p) PROVE LineInv'
  BY <1>2 DEF DraggedByJump, loopVars, LineInv
<1>3. ASSUME LeftMouseUp PROVE LineInv'
  BY <1>3 DEF LeftMouseUp, loopVars, LineInv
<1>4. ASSUME NEW p \in Point, DraggedByLine(p) PROVE LineInv'
  <2>1. /\ from' = last_draw_location_
        /\ last_draw_location_' = last_draw_location_
        /\ dest' = p
        /\ x' = from'.x
        /\ y' = from'.y
        /\ error' = -1
        /\ p # last_draw_location_
        /\ p \in [x : Int, y : Int]
    BY <1>4, PointFacts DEF DraggedByLine, Jumps
  <2>2. CASE pc' = "rows"
    <3>1. from'.x = dest'.x
      BY <1>4, <2>2 DEF DraggedByLine
    <3>2. from'.y # dest'.y
      BY <2>1, <3>1
    <3> QED
      BY <2>1, <2>2, <3>1, <3>2 DEF LineInv, RowsInv, InRange
  <2>3. CASE pc' = "columns"
    <3>1. from'.x # dest'.x
      BY <1>4, <2>3 DEF DraggedByLine
    <3>2. InRange(from'.x, x', dest'.x)
      BY <2>1 DEF InRange
    <3>3. delta_error' * Done' = 0
      <4>1. Done' = 0
        BY <2>1 DEF Done, Abs
      <4>2. delta_error' \in Nat
        <5>1. (TypeOK /\ from.x # dest.x => delta_error \in Nat)'
          BY SlopeIsNat, PTL
        <5> QED
          BY <3>1, <5>1
      <4>3. \A n \in Nat : n * 0 = 0
        OBVIOUS
      <4> QED
        BY <4>1, <4>2, <4>3, Zenon
    <3>4. y' = from'.y + direction_y' * (delta_error' * Done')
      BY <2>1, <3>3 DEF direction_y
    <3>5. ColumnsInv'
      BY <2>1, <3>4 DEF ColumnsInv
    <3> QED
      BY <2>3, <3>1, <3>2, <3>5 DEF LineInv
  <2> QED
    BY <1>4, <2>2, <2>3 DEF DraggedByLine
<1>5. ASSUME DrawRow PROVE LineInv'
  <2>1. /\ RowsInv
        /\ pc' = "rows" /\ from' = from /\ dest' = dest /\ x' = x
        /\ y # dest.y
        /\ y' = y + direction_y
        /\ last_draw_location_' = [x |-> x, y |-> y]
    BY <1>5 DEF DrawRow, DrawPixel, LineInv
  <2> QED
    BY <2>1 DEF LineInv, RowsInv, InRange, direction_y
<1>6. ASSUME DrawColumn PROVE LineInv'
  <2>1. /\ ColumnsInv
        /\ from.x # dest.x /\ InRange(from.x, x, dest.x)
        /\ x # dest.x
        /\ pc' = "slide" /\ from' = from /\ dest' = dest /\ x' = x /\ y' = y
        /\ error' = error + delta_error
        /\ last_draw_location_' = [x |-> x, y |-> y]
    BY <1>6 DEF DrawColumn, DrawPixel, LineInv
  <2>2. delta_error \in Nat /\ delta_error' = delta_error
    BY <2>1, SlopeFacts DEF delta_error, delta_x, delta_y
  <2>3. Done' = Done /\ direction_y' = direction_y
    BY <2>1 DEF Done, direction_y
  <2>4. error' = delta_error - 1
    BY <2>1, <2>2 DEF ColumnsInv
  <2>5. /\ delta_error * Done + delta_error - error' - 1 = delta_error * Done
    <3>1. delta_error * Done \in Int
      BY <2>1, <2>2 DEF Done, Abs
    <3> QED
      BY <2>2, <2>4, <3>1
  <2>6. SlideInv'
    BY <2>1, <2>2, <2>3, <2>4, <2>5 DEF ColumnsInv, SlideInv
  <2> QED
    BY <2>1, <2>6 DEF LineInv
<1>7. ASSUME Slide PROVE LineInv'
  <2>1. /\ SlideInv
        /\ from.x # dest.x /\ InRange(from.x, x, dest.x)
        /\ error >= 0
        /\ pc' = "slide" /\ from' = from /\ dest' = dest /\ x' = x
        /\ y' = y + direction_y
        /\ error' = error - 1
        /\ last_draw_location_' = [x |-> x, y |-> y']
    BY <1>7 DEF Slide, SlideOn, DrawPixel, LineInv
  <2>2. delta_error \in Nat /\ delta_error' = delta_error
    BY <2>1, SlopeFacts DEF delta_error, delta_x, delta_y
  <2>3. Done' = Done /\ direction_y' = direction_y
    BY <2>1 DEF Done, direction_y
  <2>4. delta_error * Done \in Int
    BY <2>1, <2>2 DEF Done, Abs
  <2>5. y' = from.y + direction_y * (delta_error * Done + delta_error - error' - 1)
    <3> DEFINE r == delta_error * Done
    <3>1. r \in Int /\ y = from.y + direction_y * (r + delta_error - error - 1)
      BY <2>1, <2>4 DEF SlideInv
    <3> HIDE DEF r, delta_error
    <3>2. y' = from.y + direction_y * (r + delta_error - error' - 1)
      BY <2>1, <2>2, <3>1 DEF direction_y
    <3> QED
      BY <3>2 DEF r
  <2>6. SlideInv'
    BY <2>1, <2>2, <2>3, <2>5 DEF SlideInv
  <2> QED
    BY <2>1, <2>6 DEF LineInv
<1>8. ASSUME NextColumn PROVE LineInv'
  <2>1. /\ SlideInv
        /\ from.x # dest.x /\ InRange(from.x, x, dest.x)
        /\ ~(error >= 0)
        /\ pc' = "columns" /\ from' = from /\ dest' = dest
        /\ x' = x + direction_x
        /\ y' = y /\ error' = error
        /\ last_draw_location_' = last_draw_location_
    BY <1>8 DEF NextColumn, SlideOn, SlideInv, LineInv
  <2>2. delta_error \in Nat /\ delta_error' = delta_error
    BY <2>1, SlopeFacts DEF delta_error, delta_x, delta_y
  <2>3. Done \in Nat /\ Done' = Done + 1
    BY <2>1 DEF SlideInv, InRange, Done, Abs, direction_x
  <2>4. error = -1
    BY <2>1 DEF SlideInv
  <2>5. delta_error * (Done + 1) = delta_error * Done + delta_error
    BY <2>2, <2>3
  <2>6. y' = from'.y + direction_y' * (delta_error' * Done')
    <3>1. delta_error * Done + delta_error - error - 1 = delta_error * (Done + 1)
      <4>1. delta_error * Done \in Int
        BY <2>2, <2>3
      <4> QED
        BY <2>2, <2>4, <2>5, <4>1
    <3>2. direction_y' = direction_y
      BY <2>1 DEF direction_y
    <3> QED
      BY <2>1, <2>2, <2>3, <3>1, <3>2 DEF SlideInv
  <2>7. last_draw_location_' =
            [x |-> IF x' = from'.x THEN x' ELSE x' - direction_x', y |-> y']
    <3>1. x' # from'.x /\ x' - direction_x' = x
      BY <2>1 DEF InRange, SlideInv, direction_x
    <3> QED
      BY <2>1, <3>1 DEF SlideInv
  <2>8. ColumnsInv'
    BY <2>1, <2>4, <2>6, <2>7 DEF ColumnsInv
  <2>9. InRange(from'.x, x', dest'.x)
    BY <2>1 DEF InRange, SlideInv, direction_x
  <2> QED
    BY <2>1, <2>8, <2>9 DEF LineInv
<1>9. ASSUME Return PROVE LineInv'
  BY <1>9 DEF Return, LineInv
<1> QED
  BY <1>1, <1>2, <1>3, <1>4, <1>5, <1>6, <1>7, <1>8, <1>9 DEF Next, Loop

LEMMA LineInvStutter ==
    ASSUME LineInv, UNCHANGED vars
    PROVE  LineInv'
  BY DEF vars, LineInv, RowsInv, ColumnsInv, SlideInv, Done,
         delta_error, delta_x, delta_y, direction_x, direction_y

LEMMA LineInvHolds == Spec => []LineInv
<1>1. Init => LineInv
  BY DEF Init, LineInv
<1>2. TypeOK /\ TypeOK' /\ LineInv /\ [Next]_vars => LineInv'
  BY LineInvStep, LineInvStutter
<1> QED
  BY <1>1, <1>2, TypeCorrect, PTL DEF Spec

\* Whatever the mouse does, a drag paints nothing beyond the pointer.
THEOREM BetweenHolds == Spec => []StaysBetween
<1>1. TypeOK /\ LineInv => StaysBetween
  BY LineInvBounds
<1> QED
  BY <1>1, LineInvHolds, TypeCorrect, PTL

-----------------------------------------------------------------------------
(* Where a drag ends                                                       *)

\* What the truncated slope leaves over.
LEMMA RowsLeftOver ==
    ASSUME TypeOK, from.x # dest.x
    PROVE  delta_y - delta_error * delta_x = delta_y % delta_x
<1>1. delta_x \in Nat /\ delta_x > 0 /\ delta_y \in Nat
  BY SlopeFacts
<1> HIDE DEF delta_x, delta_y
<1>2. ASSUME NEW d \in Nat, NEW w \in Nat, w > 0
      PROVE  /\ d \div w \in Int /\ d % w \in Int
             /\ d = w * (d \div w) + (d % w)
  BY <1>2
<1>3. /\ delta_error \in Int /\ delta_y % delta_x \in Int
      /\ delta_y = delta_x * delta_error + (delta_y % delta_x)
  BY <1>1, <1>2 DEF delta_error
<1>4. delta_x * delta_error = delta_error * delta_x
  BY <1>1, <1>3
<1> QED
  BY <1>1, <1>3, <1>4

LEMMA ReturnStopsShort ==
    ASSUME TypeOK, LineInv, Return
    PROVE  /\ dest.x - last_draw_location_.x =
                    IF delta_x = 0 THEN 0 ELSE direction_x
           /\ dest.y - last_draw_location_.y =
                    IF delta_x = 0 THEN direction_y
                    ELSE direction_y * (delta_y % delta_x)
<1>1. /\ from.x \in Int /\ from.y \in Int /\ dest.x \in Int /\ dest.y \in Int
      /\ x \in Int /\ y \in Int
  BY DEF TypeOK
<1>2. direction_x \in {-1, 1} /\ direction_y \in {-1, 1}
  BY DEF direction_x, direction_y
<1>3. CASE pc = "rows" /\ y = dest.y
  <2>1. delta_x = 0
    BY <1>1, <1>3 DEF LineInv, RowsInv, delta_x, Abs
  <2>2. last_draw_location_.x = dest.x /\ last_draw_location_.y = dest.y - direction_y
    BY <1>3 DEF LineInv, RowsInv
  <2> QED
    BY <1>1, <1>2, <2>1, <2>2
<1>4. CASE pc = "columns" /\ x = dest.x
  <2>1. from.x # dest.x /\ ColumnsInv
    BY <1>4 DEF LineInv
  <2>2. delta_x # 0 /\ Done = delta_x /\ delta_x \in Nat /\ delta_error \in Nat /\ delta_y \in Nat
    BY <1>1, <1>4, <2>1, SlopeFacts DEF Done, delta_x, Abs
  <2>3. /\ last_draw_location_.x = dest.x - direction_x
        /\ last_draw_location_.y = from.y + direction_y * (delta_error * delta_x)
    BY <1>4, <2>1, <2>2 DEF ColumnsInv
  <2>4. dest.y - from.y = direction_y * delta_y
    BY <1>1 DEF direction_y, delta_y, Abs
  <2>5. delta_y - delta_error * delta_x = delta_y % delta_x
    BY <2>1, RowsLeftOver
  <2> HIDE DEF delta_x, delta_y, delta_error, direction_x, direction_y
  <2>6. delta_error * delta_x \in Int
    BY <2>2
  <2>7. dest.y - last_draw_location_.y = direction_y * (delta_y - delta_error * delta_x)
    BY <1>1, <1>2, <2>2, <2>3, <2>4, <2>6
  <2>8. dest.x - last_draw_location_.x = direction_x
    BY <1>1, <1>2, <2>3
  <2> QED
    BY <2>2, <2>5, <2>7, <2>8
<1> QED
  BY <1>3, <1>4 DEF Return

\* A drag ends a column short of the pointer and short of it by the rest of the
\* division, whatever its length and direction: the next one starts from there.
THEOREM StopsShortHolds == Spec => StopsShort
<1>1. ASSUME TypeOK, LineInv, Next, pc # "idle", pc' = "idle" PROVE Return
  BY <1>1 DEF Next, Loop, LeftMouseDown, LeftMouseUp, DraggedByJump, DraggedByLine,
              DrawRow, DrawColumn, Slide, NextColumn, loopVars
<1>2. TypeOK /\ LineInv /\ [Next]_vars =>
        [(pc # "idle" /\ pc' = "idle") =>
            /\ dest.x - last_draw_location_.x =
                    IF delta_x = 0 THEN 0 ELSE direction_x
            /\ dest.y - last_draw_location_.y =
                    IF delta_x = 0 THEN direction_y
                    ELSE direction_y * (delta_y % delta_x)]_vars
  BY <1>1, ReturnStopsShort
<1> QED
  BY <1>2, LineInvHolds, TypeCorrect, PTL DEF Spec, StopsShort

=============================================================================
