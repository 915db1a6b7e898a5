------------------------------- MODULE Stroke -------------------------------
(***************************************************************************)
(* A stroke of the active tool: the mouse handlers of base_gfx_app.cc and  *)
(* FlashPhotoApp::InterpolateToPoint, which fills in the pixels between    *)
(* the positions of two motion events.                                     *)
(*                                                                         *)
(* The two loops of InterpolateToPoint are walked one DrawPixel at a time. *)
(* They run inside one handler, so no event is handled before they end.    *)
(* error is a double in the code, but delta_error is the quotient of two   *)
(* ints, so that every value error takes is a whole number.                *)
(***************************************************************************)
EXTENDS Integers

CONSTANT Coord      \* the coordinates a mouse event can carry

ASSUME CoordAssumption == Coord \subseteq Int

VARIABLES
    drag_,
    last_draw_location_,
    pc,         \* "idle", or the loop that is running: "columns", "slide", "rows"
    from,       \* last_draw_location_ when InterpolateToPoint was called
    dest,       \* its arguments
    x, y,       \* its loop variables
    error

vars == <<drag_, last_draw_location_, pc, from, dest, x, y, error>>

loopVars == <<pc, from, dest, x, y, error>>

Point == [x : Coord, y : Coord]

Abs(n) == IF n < 0 THEN -n ELSE n

delta_x == Abs(dest.x - from.x)
delta_y == Abs(dest.y - from.y)
direction_x == IF from.x > dest.x THEN -1 ELSE 1
direction_y == IF from.y > dest.y THEN -1 ELSE 1
delta_error == delta_y \div delta_x

-----------------------------------------------------------------------------
(* The mouse events                                                        *)

\* Mistake: half of the position is kept.
DrawPixelHalf(px, py) == last_draw_location_' = [x |-> px]

DrawPixel(px, py) == last_draw_location_' = [x |-> px, y |-> py]

LeftMouseDown(p) ==
    /\ pc = "idle"
    /\ DrawPixel(p.x, p.y)
    /\ drag_' = TRUE
    /\ UNCHANGED loopVars

LeftMouseUp ==
    /\ pc = "idle"
    /\ drag_' = FALSE
    /\ UNCHANGED <<last_draw_location_, loopVars>>

\* A stroke that left the canvas over its top or left edge is taken up again
\* where it comes back; the same goes for an event that did not move.
Jumps(p) ==
    \/ last_draw_location_.x < 0
    \/ last_draw_location_.y < 0
    \/ p = last_draw_location_

DraggedByJump(p) ==
    /\ pc = "idle"
    /\ drag_
    /\ Jumps(p)
    /\ DrawPixel(p.x, p.y)
    /\ UNCHANGED <<drag_, loopVars>>

\* Mistake: error starts at zero.
DraggedFromZero(p) ==
    /\ pc = "idle"
    /\ drag_
    /\ ~Jumps(p)
    /\ from' = last_draw_location_
    /\ dest' = p
    /\ x' = last_draw_location_.x
    /\ y' = last_draw_location_.y
    /\ error' = 0
    /\ pc' = IF p.x = last_draw_location_.x THEN "rows" ELSE "columns"
    /\ UNCHANGED <<drag_, last_draw_location_>>

\* The call of InterpolateToPoint, up to the head of the loop it chooses.
DraggedByLine(p) ==
    /\ pc = "idle"
    /\ drag_
    /\ ~Jumps(p)
    /\ from' = last_draw_location_
    /\ dest' = p
    /\ x' = last_draw_location_.x
    /\ y' = last_draw_location_.y
    /\ error' = -1
    /\ pc' = IF p.x = last_draw_location_.x THEN "rows" ELSE "columns"
    /\ UNCHANGED <<drag_, last_draw_location_>>

-----------------------------------------------------------------------------
(* The loops.  Their tests for x and y both being at the destination never *)
(* add anything: the heads stop one pixel earlier.                         *)

\* Mistake: the loop does not count.
DrawRowForever ==
    /\ pc = "rows"
    /\ y # dest.y
    /\ DrawPixel(x, y)
    /\ UNCHANGED <<drag_, pc, from, dest, x, y, error>>

\* delta_error is 0 / delta_y here, so error stays negative and the inner
\* loop of this branch has no iteration.
DrawRow ==
    /\ pc = "rows"
    /\ y # dest.y
    /\ DrawPixel(x, y)
    /\ y' = y + direction_y
    /\ UNCHANGED <<drag_, pc, from, dest, x, error>>

DrawColumn ==
    /\ pc = "columns"
    /\ x # dest.x
    /\ DrawPixel(x, y)
    /\ error' = error + delta_error
    /\ pc' = "slide"
    /\ UNCHANGED <<drag_, from, dest, x, y>>

\* Mistake: off by one.
SlideOnStrictly == error > 0 /\ ~(x = dest.x /\ y = dest.y)

SlideOn == error >= 0 /\ ~(x = dest.x /\ y = dest.y)

\* Mistake: the inner loop moves and does not draw.
SlideUnseen ==
    /\ pc = "slide"
    /\ SlideOn
    /\ y' = y + direction_y
    /\ error' = error - 1
    /\ UNCHANGED <<drag_, last_draw_location_, pc, from, dest, x>>

Slide ==
    /\ pc = "slide"
    /\ SlideOn
    /\ y' = y + direction_y
    /\ error' = error - 1
    /\ DrawPixel(x, y')
    /\ UNCHANGED <<drag_, pc, from, dest, x>>

NextColumn ==
    /\ pc = "slide"
    /\ ~SlideOn
    /\ x' = x + direction_x
    /\ pc' = "columns"
    /\ UNCHANGED <<drag_, last_draw_location_, from, dest, y, error>>

Return ==
    /\ \/ pc = "rows" /\ y = dest.y
       \/ pc = "columns" /\ x = dest.x
    /\ pc' = "idle"
    /\ UNCHANGED <<drag_, last_draw_location_, from, dest, x, y, error>>

-----------------------------------------------------------------------------

\* last_draw_location_ has no initial value in the code: any will do.
Init ==
    /\ drag_ = FALSE
    /\ pc = "idle"
    /\ last_draw_location_ \in Point
    /\ from = last_draw_location_
    /\ dest = last_draw_location_
    /\ x = last_draw_location_.x
    /\ y = last_draw_location_.y
    /\ error = -1

Loop == DrawRow \/ DrawColumn \/ Slide \/ NextColumn \/ Return

Next ==
    \/ \E p \in Point : LeftMouseDown(p) \/ DraggedByJump(p) \/ DraggedByLine(p)
    \/ LeftMouseUp
    \/ Loop

Spec == Init /\ [][Next]_vars

\* The processor goes on with a handler that it has entered.
FairSpec == Spec /\ WF_vars(Loop)

-----------------------------------------------------------------------------
(* Properties                                                              *)

TypeOK ==
    /\ drag_ \in BOOLEAN
    /\ pc \in {"idle", "columns", "slide", "rows"}
    /\ last_draw_location_ \in [x : Int, y : Int]
    /\ from \in [x : Int, y : Int]
    /\ dest \in [x : Int, y : Int]
    /\ x \in Int
    /\ y \in Int
    /\ error \in Int

Touching(p, q) == Abs(p.x - q.x) <= 1 /\ Abs(p.y - q.y) <= 1

\* Between two motion events the tool leaves no gap: each pixel the loops of
\* InterpolateToPoint draw touches the one before, also across the calls, each
\* of which starts again from the last pixel and not from the last event.
StrokeIsConnected ==
    [][pc # "idle" => Touching(last_draw_location_, last_draw_location_')]_vars

InRange(a, b, c) == (a <= b /\ b <= c) \/ (c <= b /\ b <= a)

\* The loops never draw outside of the box between the last pixel and the
\* pointer, so a drag paints nothing beyond the pointer.
StaysBetween ==
    pc # "idle" => /\ InRange(from.x, last_draw_location_.x, dest.x)
                   /\ InRange(from.y, last_draw_location_.y, dest.y)

\* A drag stops short of the pointer: by a column, and by the rows that the
\* truncated slope has left over; by a row, if the drag is vertical.
StopsShort ==
    [][(pc # "idle" /\ pc' = "idle") =>
        /\ dest.x - last_draw_location_.x =
                IF delta_x = 0 THEN 0 ELSE direction_x
        /\ dest.y - last_draw_location_.y =
                IF delta_x = 0 THEN direction_y
                ELSE direction_y * (delta_y % delta_x)]_vars

\* The loops count towards the destination and meet it exactly: the handler
\* always returns to the event loop.
EveryDragReturns == (pc # "idle") ~> (pc = "idle")

Larger(a, b) == IF a > b THEN a ELSE b

\* What "based on Bresenham's line algorithm" makes one expect: a pixel that
\* is drawn lies within a pixel of the line from the last one to the pointer.
FollowsLine ==
    (pc # "idle" /\ delta_x # 0) =>
        Abs(Abs(last_draw_location_.y - from.y) * delta_x
            - Abs(last_draw_location_.x - from.x) * delta_y)
        <= Larger(delta_x, delta_y)

=============================================================================
