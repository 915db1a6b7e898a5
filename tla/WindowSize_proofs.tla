------------------------- MODULE WindowSize_proofs -------------------------
(***************************************************************************)
(* Proofs about WindowSize, for every set of sizes and both bounds.        *)
(***************************************************************************)
EXTENDS WindowSize, SequenceTheorems, TLAPS

\* What is under way always ends at the size on the screen or at the
\* application's: a pending request is for the current size and not for one
\* that a load has replaced, and the newest report is of the current window.
SizeInv ==
    /\ TypeOK
    /\ request \in {NoRequest, own}
    /\ reports # <<>> => reports[Len(reports)] = actual
    /\ QuietWindowFits

\* Sizes that agree in both dimensions are the same: that Reshape compares width
\* and height one by one is enough.
LEMMA SameSize ==
    ASSUME NEW a \in Size, NEW b \in Size, a.width = b.width, a.height = b.height
    PROVE  a = b
<1>1. a \in [width : Nat, height : Nat] /\ b \in [width : Nat, height : Nat]
  BY SizeAssumption
<1> QED
  BY <1>1

LEMMA ReshapeInv == ASSUME SizeInv, Reshape PROVE SizeInv'
<1> USE DEF SizeInv
<1>1. /\ reports \in Seq(Size) /\ reports # <<>>
      /\ request' = IF Head(reports) # own THEN own ELSE request
      /\ reports' = Tail(reports)
      /\ own' = own /\ actual' = actual /\ resizes' = resizes /\ loads' = loads
  <2>1. reports \in Seq(Size) /\ reports # <<>> /\ own \in Size
    BY DEF Reshape, TypeOK
  <2>2. Head(reports) \in Size
    BY <2>1, HeadTailProperties
  <2>3. (\/ Head(reports).width # own.width
         \/ Head(reports).height # own.height) <=> Head(reports) # own
    BY <2>1, <2>2, SameSize
  <2> QED
    BY <2>1, <2>3 DEF Reshape
<1>2. /\ reports' \in Seq(Size)
      /\ Len(reports') = Len(reports) - 1
      /\ \A i \in 1 .. Len(reports') : reports'[i] = reports[i + 1]
      /\ Len(reports) \in Nat \ {0}
  BY <1>1, HeadTailProperties, EmptySeq
<1>3. CASE reports' = <<>>
  <2>1. Len(reports) = 1
    BY <1>2, <1>3, EmptySeq
  <2>2. Head(reports) = actual
    BY <1>1, <2>1
  <2> QED
    BY <1>1, <1>2, <1>3, <2>2, RequestAssumption DEF TypeOK, QuietWindowFits
<1>4. CASE reports' # <<>>
  <2>1. Len(reports') \in Nat \ {0}
    BY <1>2, <1>4, EmptySeq
  <2>2. reports'[Len(reports')] = actual
    BY <1>1, <1>2, <2>1
  <2> QED
    BY <1>1, <1>2, <1>4, <2>2 DEF TypeOK, QuietWindowFits
<1> QED
  BY <1>3, <1>4

LEMMA WindowBecomesInv ==
    ASSUME SizeInv, NEW size \in Size, WindowBecomes(size)
    PROVE  /\ actual' = size
           /\ reports' \in Seq(Size)
           /\ reports' # <<>> => reports'[Len(reports')] = actual'
           /\ reports' = <<>> => reports = <<>> /\ size = actual
<1> USE DEF SizeInv
<1>1. reports \in Seq(Size) /\ actual' = size
  BY DEF TypeOK, WindowBecomes
<1>2. CASE reports' = Append(reports, size)
  <2>2. /\ reports' \in Seq(Size)
        /\ Len(reports') = Len(reports) + 1
        /\ reports'[Len(reports) + 1] = size
        /\ Len(reports) \in Nat
    BY <1>1, <1>2, AppendProperties, LenProperties
  <2>3. reports' # <<>>
    BY <2>2, EmptySeq
  <2> QED
    BY <1>1, <2>2, <2>3
<1>3. CASE size = actual /\ reports' = reports
  BY <1>1, <1>3
<1> QED
  BY <1>2, <1>3 DEF WindowBecomes

LEMMA SizeInvHolds == Spec => []SizeInv
<1>1. Init => SizeInv
  <2> SUFFICES ASSUME Init PROVE SizeInv
    OBVIOUS
  <2>1. reports \in Seq(Size) /\ reports # <<>> /\ reports[Len(reports)] = actual
    BY DEF Init
  <2> QED
    BY <2>1, BoundsAssumption DEF Init, SizeInv, TypeOK, QuietWindowFits
<1>2. SizeInv /\ [Next]_vars => SizeInv'
  <2> SUFFICES ASSUME SizeInv, [Next]_vars PROVE SizeInv'
    OBVIOUS
  <2>1. CASE Reshape
    BY <2>1, ReshapeInv
  <2>2. CASE GrantRequest
    <3>1. /\ request = own /\ request \in Size
          /\ WindowBecomes(request)
          /\ request' = NoRequest
          /\ own' = own /\ resizes' = resizes /\ loads' = loads
      BY <2>2 DEF GrantRequest, SizeInv, TypeOK
    <3> QED
      BY <3>1, WindowBecomesInv DEF SizeInv, TypeOK, QuietWindowFits
  <2>3. ASSUME NEW size \in Size, SetWindowDimensions(size) PROVE SizeInv'
    BY <2>3, RequestAssumption, BoundsAssumption
       DEF SetWindowDimensions, SizeInv, TypeOK, QuietWindowFits
  <2>4. ASSUME NEW size \in Size, UserResizes(size) PROVE SizeInv'
    <3>1. /\ WindowBecomes(size)
          /\ own' = own /\ request' = request /\ loads' = loads
          /\ resizes' \in 0 .. MaxResizes
      BY <2>4, BoundsAssumption DEF UserResizes, SizeInv, TypeOK
    <3> QED
      BY <3>1, WindowBecomesInv DEF SizeInv, TypeOK, QuietWindowFits
  <2>5. CASE UNCHANGED vars
    BY <2>5 DEF vars, SizeInv, TypeOK, QuietWindowFits
  <2> QED
    BY <2>1, <2>2, <2>3, <2>4, <2>5 DEF Next
<1> QED
  BY <1>1, <1>2, PTL DEF Spec

\* No request is for anything but a whole size, and the bounded counters and queues
\* of reports stay within their types.
THEOREM TypeCorrect == Spec => []TypeOK
<1>1. SizeInv => TypeOK
  BY DEF SizeInv
<1> QED
  BY <1>1, SizeInvHolds, PTL

\* From whatever size it starts and whatever the user and the loads do, the
\* window that nothing is under way for fits the canvas.
THEOREM QuietWindow == Spec => []QuietWindowFits
<1>1. SizeInv => QuietWindowFits
  BY DEF SizeInv
<1> QED
  BY <1>1, SizeInvHolds, PTL

=============================================================================
