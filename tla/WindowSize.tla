----------------------------- MODULE WindowSize -----------------------------
(***************************************************************************)
(* Who decides how large the graphics window is (base_gfx_app.cc).         *)
(*                                                                         *)
(* The application has its own idea, width_ and height_: the size of the   *)
(* canvas.  The user may drag a corner of the window at any time; GLUT     *)
(* reports that later, and the application answers by asking for its own   *)
(* size again.  A load changes that size while reports of older ones may   *)
(* still be under way.  What GLUT and the window system do is external:    *)
(* they report sizes in order, and they grant the size last asked for.     *)
(***************************************************************************)
EXTENDS Integers, Sequences

CONSTANTS
    Size,           \* the sizes that images and the window can have
    NoRequest,
    MaxResizes,     \* bound on how often the user resizes the window
    MaxLoads        \* bound on how many images are loaded

ASSUME SizeAssumption == Size \subseteq [width : Nat, height : Nat]

ASSUME RequestAssumption == NoRequest \notin Size

ASSUME BoundsAssumption == MaxResizes \in Nat /\ MaxLoads \in Nat

VARIABLES
    own,        \* the application's width_ and height_
    actual,     \* the size the window has on the screen
    request,    \* the size glutReshapeWindow asked for, not yet granted
    reports,    \* sizes on their way to the reshape callback
    resizes,    \* how often the user has resized
    loads       \* how many images have been loaded

vars == <<own, actual, request, reports, resizes, loads>>

\* Mistake: the parameter height is taken for height().
ReshapeMixed ==
    /\ reports # <<>>
    /\ request' = IF Head(reports) # own
                  THEN [width |-> own.width, height |-> Head(reports).height]
                  ELSE request
    /\ reports' = Tail(reports)
    /\ UNCHANGED <<own, actual, resizes, loads>>

\* Mistake: Reshape asks for its size without looking at the one reported.
ReshapeAlways ==
    /\ reports # <<>>
    /\ request' = own
    /\ reports' = Tail(reports)
    /\ UNCHANGED <<own, actual, resizes, loads>>

\* BaseGfxApp::Reshape, called by GLUT with the oldest report.
Reshape ==
    /\ reports # <<>>
    /\ request' = IF \/ Head(reports).width # own.width
                     \/ Head(reports).height # own.height
                  THEN own ELSE request
    /\ reports' = Tail(reports)
    /\ UNCHANGED <<own, actual, resizes, loads>>

\* Mistake: the new size is stored and glutReshapeWindow not called.
SetDimensionsOnly(size) ==
    /\ loads < MaxLoads
    /\ own' = size
    /\ loads' = loads + 1
    /\ UNCHANGED <<actual, request, reports, resizes>>

\* SetWindowDimensions, called by set_pixel_buffer when an image is loaded.
SetWindowDimensions(size) ==
    /\ loads < MaxLoads
    /\ own' = size
    /\ request' = size
    /\ loads' = loads + 1
    /\ UNCHANGED <<actual, reports, resizes>>

\* The window takes a size.  GLUT is to report it if it is a new one, and it
\* may report it all the same if it is not.
WindowBecomes(size) ==
    /\ actual' = size
    /\ \/ reports' = Append(reports, size)
       \/ size = actual /\ reports' = reports

GrantRequest ==
    /\ request # NoRequest
    /\ WindowBecomes(request)
    /\ request' = NoRequest
    /\ UNCHANGED <<own, resizes, loads>>

UserResizes(size) ==
    /\ resizes < MaxResizes
    /\ WindowBecomes(size)
    /\ resizes' = resizes + 1
    /\ UNCHANGED <<own, request, loads>>

\* GLUT reports the first size of the window too, and it need not be the one
\* glutInitWindowSize asked for.
Init ==
    /\ own \in Size
    /\ actual \in Size
    /\ request = NoRequest
    /\ reports = <<actual>>
    /\ resizes = 0
    /\ loads = 0

Next ==
    \/ Reshape
    \/ GrantRequest
    \/ \E size \in Size : SetWindowDimensions(size) \/ UserResizes(size)

Spec == Init /\ [][Next]_vars

\* GLUT's main loop delivers every report and the window system grants every
\* request; nothing makes the user resize or load.
FairSpec == Spec /\ WF_vars(Reshape) /\ WF_vars(GrantRequest)

-----------------------------------------------------------------------------
(* Properties                                                              *)

TypeOK ==
    /\ own \in Size
    /\ actual \in Size
    /\ request \in Size \cup {NoRequest}
    /\ reports \in Seq(Size)
    /\ resizes \in 0 .. MaxResizes
    /\ loads \in 0 .. MaxLoads

\* The comment in Reshape: the code "essentially disables the ability to
\* interactively resize the graphics window".  Once nothing is under way the
\* window has the size of the canvas, even if the user resized it while a load
\* was changing that size and older reports came in late.
QuietWindowFits ==
    (request = NoRequest /\ reports = <<>>) => actual = own

\* And it does become quiet: the answers to stale reports do not keep the
\* window and the application correcting each other for ever.
WindowSettles == <>[](request = NoRequest /\ reports = <<>> /\ actual = own)

=============================================================================
