------------------------ MODULE StateManager_proofs ------------------------
(***************************************************************************)
(* Proofs about StateManager, for every heap and every set of pictures.    *)
(***************************************************************************)
EXTENDS StateManager, SequenceTheorems, TLAPS

\* What pushing on a std::stack does to the elements it holds.
LEMMA PushFacts ==
    ASSUME NEW S, NEW stack \in Seq(S), NEW x \in S
    PROVE  LET pushed == Append(stack, x) IN
           /\ pushed \in Seq(S)
           /\ Len(pushed) = Len(stack) + 1
           /\ \A i \in 1 .. Len(stack) : pushed[i] = stack[i]
           /\ pushed[Len(stack) + 1] = x
           /\ Owned(pushed) = Owned(stack) \cup {x}
           /\ (x \notin Owned(stack) /\ NoAliasIn(stack)) => NoAliasIn(pushed)
<1> DEFINE pushed == Append(stack, x)
<1>1. /\ pushed \in Seq(S)
      /\ Len(pushed) = Len(stack) + 1
      /\ \A i \in 1 .. Len(stack) : pushed[i] = stack[i]
      /\ pushed[Len(stack) + 1] = x
      /\ DOMAIN stack = 1 .. Len(stack)
      /\ DOMAIN pushed = 1 .. Len(stack) + 1
      /\ Len(stack) \in Nat
  OBVIOUS
<1> HIDE DEF pushed
<1>2. Owned(pushed) = Owned(stack) \cup {x}
  BY <1>1 DEF Owned
<1>3. (x \notin Owned(stack) /\ NoAliasIn(stack)) => NoAliasIn(pushed)
  BY <1>1 DEF Owned, NoAliasIn
<1> QED
  BY <1>1, <1>2, <1>3 DEF pushed

\* What popping a std::stack that is not empty does to the elements it holds.
LEMMA PopFacts ==
    ASSUME NEW S, NEW stack \in Seq(S), Len(stack) > 0
    PROVE  /\ Front(stack) \in Seq(S)
           /\ Len(Front(stack)) = Len(stack) - 1
           /\ \A i \in 1 .. Len(stack) - 1 : Front(stack)[i] = stack[i]
           /\ Last(stack) \in S
           /\ Owned(stack) = Owned(Front(stack)) \cup {Last(stack)}
           /\ NoAliasIn(stack) => /\ NoAliasIn(Front(stack))
                                  /\ Last(stack) \notin Owned(Front(stack))
<1>1. /\ stack \in [1 .. Len(stack) -> S]
      /\ Len(stack) \in Nat
      /\ DOMAIN stack = 1 .. Len(stack)
      /\ Last(stack) \in S
  BY LenProperties DEF Last
<1>2. /\ Front(stack) \in Seq(S)
      /\ Len(Front(stack)) = Len(stack) - 1
      /\ \A i \in 1 .. Len(stack) - 1 : Front(stack)[i] = stack[i]
  BY <1>1, SubSeqProperties DEF Front
<1>3. DOMAIN Front(stack) = 1 .. Len(stack) - 1
  BY <1>2, LenProperties
<1>4. Owned(stack) = Owned(Front(stack)) \cup {Last(stack)}
  BY <1>1, <1>2, <1>3 DEF Owned, Last
<1>5. NoAliasIn(stack) => /\ NoAliasIn(Front(stack))
                          /\ Last(stack) \notin Owned(Front(stack))
  BY <1>1, <1>2, <1>3 DEF Owned, NoAliasIn, Last
<1> QED
  BY <1>1, <1>2, <1>4, <1>5

\* After a register, what is live is what was live and not deleted, and s.
LEMMA HeapAfterFacts ==
    ASSUME TypeOK, NEW p \in Picture, NEW s \in Snapshot,
           NEW gone \in SUBSET Snapshot, NEW h, h = HeapAfter(gone, s, p)
    PROVE  /\ h \in [Snapshot -> Picture \cup {Freed}]
           /\ h[s] = p
           /\ {a \in Snapshot : h[a] # Freed} = (Live \ gone) \cup {s}
           /\ \A a \in Snapshot \ (gone \cup {s}) : h[a] = heap[a]
  BY FreedAssumption DEF TypeOK, HeapAfter, Live

LEMMA OwnedOfEmpty == Owned(<<>>) = {} /\ NoAliasIn(<<>>)
  BY DEF Owned, NoAliasIn

LEMMA OwnedOfOne ==
    ASSUME NEW s
    PROVE  Owned(<<s>>) = {s} /\ NoAliasIn(<<s>>)
  BY DEF Owned, NoAliasIn

-----------------------------------------------------------------------------
(* The inductive invariant.  SnapshotOwnership is not inductive alone: that*)
(* Undo pops a stack that is not empty is known from its button, so the    *)
(* agreement of buttons and stacks has to be carried along.                *)

StackInv == TypeOK /\ SnapshotOwnership /\ ButtonsGuardStacks

LEMMA InitStackInv == Init => StackInv
<1> SUFFICES ASSUME Init PROVE StackInv
  OBVIOUS
<1>1. TypeOK
  BY EmptySeq DEF Init, TypeOK
<1>2. Live = {}
  BY DEF Init, Live
<1>3. SnapshotOwnership
  BY <1>2, OwnedOfEmpty DEF Init, SnapshotOwnership
<1>4. ButtonsGuardStacks
  <2>1. Len(undo_stack_) = 0 /\ Len(redo_stack_) = 0
    BY EmptySeq DEF Init
  <2>2. undo_btn_ = FALSE /\ redo_btn_ = FALSE
    BY DEF Init
  <2>3. (Len(undo_stack_) > 1) = FALSE /\ (Len(redo_stack_) > 0) = FALSE
    BY <2>1
  <2> QED
    BY <2>2, <2>3, Zenon DEF ButtonsGuardStacks
<1> QED
  BY <1>1, <1>3, <1>4 DEF StackInv

LEMMA RegisterStackInv ==
    ASSUME StackInv, NEW p \in Picture, RegisterNewCanvasState(p)
    PROVE  StackInv'
<1> USE DEF StackInv
<1>1. PICK s \in Snapshot \ Live :
        /\ undo_stack_' = Append(undo_stack_, s)
        /\ redo_stack_' = <<>>
        /\ heap' = HeapAfter(Owned(redo_stack_), s, p)
        /\ ToggleStateButtons
  BY DEF RegisterNewCanvasState
<1>2. undo_stack_ \in Seq(Snapshot)
  BY DEF TypeOK
<1>3. Owned(redo_stack_) \in SUBSET Snapshot
  BY DEF SnapshotOwnership, Live
<1>4. s \notin Owned(undo_stack_)
  BY <1>1 DEF SnapshotOwnership
<1>5. /\ undo_stack_' \in Seq(Snapshot)
      /\ Len(undo_stack_') = Len(undo_stack_) + 1
      /\ Len(undo_stack_) \in Nat
      /\ Owned(undo_stack_') = Owned(undo_stack_) \cup {s}
      /\ NoAliasIn(undo_stack_')
  BY <1>1, <1>2, <1>4, PushFacts DEF SnapshotOwnership
<1>6. /\ heap' \in [Snapshot -> Picture \cup {Freed}]
      /\ Live' = (Live \ Owned(redo_stack_)) \cup {s}
  BY <1>1, <1>3, HeapAfterFacts DEF Live
<1>7. TypeOK'
  BY <1>1, <1>5, <1>6 DEF TypeOK, ToggleStateButtons
<1>8. Owned(redo_stack_') = {} /\ NoAliasIn(redo_stack_')
  BY <1>1, OwnedOfEmpty
<1>9. SnapshotOwnership'
  BY <1>5, <1>6, <1>8 DEF SnapshotOwnership
<1>10. ButtonsGuardStacks'
  BY <1>1, <1>5 DEF ButtonsGuardStacks, ToggleStateButtons
<1> QED
  BY <1>7, <1>9, <1>10

LEMMA ClearAndRegisterStackInv ==
    ASSUME StackInv, NEW p \in Picture, ClearAndRegister(p)
    PROVE  StackInv'
<1> USE DEF StackInv
<1> DEFINE gone == Owned(undo_stack_) \cup Owned(redo_stack_)
<1>1. gone = Live /\ gone \in SUBSET Snapshot
  BY DEF SnapshotOwnership, Live
<1>2. PICK s \in (Snapshot \ Live) \cup gone :
        /\ undo_stack_' = <<s>>
        /\ redo_stack_' = <<>>
        /\ heap' = HeapAfter(gone, s, p)
        /\ ToggleStateButtons
  BY DEF ClearAndRegister
<1>3. s \in Snapshot
  BY <1>1
<1> HIDE DEF gone
<1>4. /\ heap' \in [Snapshot -> Picture \cup {Freed}]
      /\ Live' = {s}
  BY <1>1, <1>2, <1>3, HeapAfterFacts DEF Live
<1>5. TypeOK'
  BY <1>2, <1>3, <1>4 DEF TypeOK, ToggleStateButtons
<1>6. SnapshotOwnership'
  BY <1>2, <1>4, OwnedOfEmpty, OwnedOfOne DEF SnapshotOwnership
<1>7. ButtonsGuardStacks'
  BY <1>2 DEF ButtonsGuardStacks, ToggleStateButtons
<1> QED
  BY <1>5, <1>6, <1>7

LEMMA UndoStackInv ==
    ASSUME StackInv, UndoClicked
    PROVE  StackInv'
<1> USE DEF StackInv
<1>1. /\ undo_stack_ \in Seq(Snapshot)
      /\ redo_stack_ \in Seq(Snapshot)
      /\ Len(undo_stack_) > 1
      /\ Len(undo_stack_) \in Nat
      /\ Len(redo_stack_) \in Nat
  <2>1. undo_btn_
    BY DEF UndoClicked
  <2> QED
    BY <2>1, LenProperties DEF TypeOK, ButtonsGuardStacks
<1>2. /\ undo_stack_' = Front(undo_stack_)
      /\ redo_stack_' = Append(redo_stack_, Last(undo_stack_))
      /\ ToggleStateButtons
      /\ heap' = heap
  BY DEF UndoClicked, UndoOperation
<1>3. /\ undo_stack_' \in Seq(Snapshot)
      /\ Len(undo_stack_') = Len(undo_stack_) - 1
      /\ Last(undo_stack_) \in Snapshot
      /\ Owned(undo_stack_) = Owned(undo_stack_') \cup {Last(undo_stack_)}
      /\ NoAliasIn(undo_stack_')
      /\ Last(undo_stack_) \notin Owned(undo_stack_')
  BY <1>1, <1>2, PopFacts DEF SnapshotOwnership
<1>4. Last(undo_stack_) \notin Owned(redo_stack_)
  BY <1>3 DEF SnapshotOwnership
<1>5. /\ redo_stack_' \in Seq(Snapshot)
      /\ Len(redo_stack_') = Len(redo_stack_) + 1
      /\ Owned(redo_stack_') = Owned(redo_stack_) \cup {Last(undo_stack_)}
      /\ NoAliasIn(redo_stack_')
  BY <1>1, <1>2, <1>3, <1>4, PushFacts DEF SnapshotOwnership
<1>6. TypeOK'
  BY <1>2, <1>3, <1>5 DEF TypeOK, ToggleStateButtons
<1>7. Live' = Live
  BY <1>2 DEF Live
<1>8. SnapshotOwnership'
  BY <1>3, <1>4, <1>5, <1>7 DEF SnapshotOwnership
<1>9. ButtonsGuardStacks'
  BY <1>1, <1>2, <1>3, <1>5 DEF ButtonsGuardStacks, ToggleStateButtons
<1> QED
  BY <1>6, <1>8, <1>9

LEMMA RedoStackInv ==
    ASSUME StackInv, RedoClicked
    PROVE  StackInv'
<1> USE DEF StackInv
<1>1. /\ undo_stack_ \in Seq(Snapshot)
      /\ redo_stack_ \in Seq(Snapshot)
      /\ Len(redo_stack_) > 0
      /\ Len(undo_stack_) \in Nat
      /\ Len(redo_stack_) \in Nat
  <2>1. redo_btn_
    BY DEF RedoClicked
  <2> QED
    BY <2>1, LenProperties DEF TypeOK, ButtonsGuardStacks
<1>2. /\ redo_stack_' = Front(redo_stack_)
      /\ undo_stack_' = Append(undo_stack_, Last(redo_stack_))
      /\ ToggleStateButtons
      /\ heap' = heap
  BY DEF RedoClicked, RedoOperation
<1>3. /\ redo_stack_' \in Seq(Snapshot)
      /\ Len(redo_stack_') = Len(redo_stack_) - 1
      /\ Last(redo_stack_) \in Snapshot
      /\ Owned(redo_stack_) = Owned(redo_stack_') \cup {Last(redo_stack_)}
      /\ NoAliasIn(redo_stack_')
      /\ Last(redo_stack_) \notin Owned(redo_stack_')
  BY <1>1, <1>2, PopFacts DEF SnapshotOwnership
<1>4. Last(redo_stack_) \notin Owned(undo_stack_)
  BY <1>3 DEF SnapshotOwnership
<1>5. /\ undo_stack_' \in Seq(Snapshot)
      /\ Len(undo_stack_') = Len(undo_stack_) + 1
      /\ Owned(undo_stack_') = Owned(undo_stack_) \cup {Last(redo_stack_)}
      /\ NoAliasIn(undo_stack_')
  BY <1>1, <1>2, <1>3, <1>4, PushFacts DEF SnapshotOwnership
<1>6. TypeOK'
  BY <1>2, <1>3, <1>5 DEF TypeOK, ToggleStateButtons
<1>7. Live' = Live
  BY <1>2 DEF Live
<1>8. SnapshotOwnership'
  BY <1>3, <1>4, <1>5, <1>7 DEF SnapshotOwnership
<1>9. ButtonsGuardStacks'
  BY <1>1, <1>2, <1>3, <1>5 DEF ButtonsGuardStacks, ToggleStateButtons
<1> QED
  BY <1>6, <1>8, <1>9

\* After any sequence of edits, loads, Undos and Redos the stacks own their
\* snapshots and the buttons agree with the stacks.
THEOREM StackInvariant == Spec => []StackInv
<1>1. Init => StackInv
  BY InitStackInv
<1>2. StackInv /\ [Next]_managerVars => StackInv'
  <2> SUFFICES ASSUME StackInv, [Next]_managerVars
               PROVE  StackInv'
    OBVIOUS
  <2>1. CASE \E p \in Picture : RegisterNewCanvasState(p)
    BY <2>1, RegisterStackInv
  <2>2. CASE \E p \in Picture : ClearAndRegister(p)
    BY <2>2, ClearAndRegisterStackInv
  <2>3. CASE UndoClicked
    BY <2>3, UndoStackInv
  <2>4. CASE RedoClicked
    BY <2>4, RedoStackInv
  <2>5. CASE UNCHANGED managerVars
    BY <2>5 DEF managerVars, StackInv, TypeOK, SnapshotOwnership,
                ButtonsGuardStacks, Live
  <2> QED
    BY <2>1, <2>2, <2>3, <2>4, <2>5 DEF Next
<1> QED
  BY <1>1, <1>2, PTL DEF Spec

\* Every variable keeps its type.
THEOREM TypeCorrect == Spec => []TypeOK
  BY StackInvariant, PTL DEF StackInv

\* No double delete, no dangling snapshot and no leaked one, ever.
THEOREM OwnershipHolds == Spec => []SnapshotOwnership
  BY StackInvariant, PTL DEF StackInv

\* Undo and Redo never reach an empty stack through their buttons.
THEOREM ButtonsGuardHolds == Spec => []ButtonsGuardStacks
  BY StackInvariant, PTL DEF StackInv

-----------------------------------------------------------------------------
(* The refinement: every step of the stacks maps to a step of the timeline.*)

TimelineShape ==
    /\ Len(undo_stack_) \in Nat
    /\ Len(redo_stack_) \in Nat
    /\ Timeline \in Seq(Picture)
    /\ Len(Timeline) = Len(undo_stack_) + Len(redo_stack_)
    /\ \A i \in 1 .. Len(undo_stack_) :
         /\ undo_stack_[i] \in Live
         /\ Timeline[i] = heap[undo_stack_[i]]

LEMMA TimelineFacts == StackInv => TimelineShape
<1> SUFFICES ASSUME StackInv PROVE TimelineShape
  OBVIOUS
<1> DEFINE n == Len(undo_stack_) + Len(redo_stack_)
<1>1. /\ Len(undo_stack_) \in Nat
      /\ Len(redo_stack_) \in Nat
      /\ DOMAIN undo_stack_ = 1 .. Len(undo_stack_)
      /\ DOMAIN redo_stack_ = 1 .. Len(redo_stack_)
  BY LenProperties DEF StackInv, TypeOK
<1>2. /\ \A i \in 1 .. Len(undo_stack_) : undo_stack_[i] \in Live
      /\ \A i \in 1 .. Len(redo_stack_) : redo_stack_[i] \in Live
  BY <1>1 DEF StackInv, SnapshotOwnership, Owned
<1>3. \A s \in Live : heap[s] \in Picture
  BY DEF StackInv, TypeOK, Live
<1>4. Timeline \in [1 .. n -> Picture]
  <2> SUFFICES ASSUME NEW i \in 1 .. n
               PROVE  (IF i <= Len(undo_stack_) THEN heap[undo_stack_[i]]
                       ELSE heap[redo_stack_[n + 1 - i]]) \in Picture
    BY DEF Timeline
  <2>1. CASE i <= Len(undo_stack_)
    BY <1>1, <1>2, <1>3, <2>1
  <2>2. CASE ~(i <= Len(undo_stack_))
    <3>1. n + 1 - i \in 1 .. Len(redo_stack_)
      BY <1>1, <2>2
    <3> QED
      BY <1>2, <1>3, <2>2, <3>1
  <2> QED
    BY <2>1, <2>2
<1>5. n \in Nat
  BY <1>1
<1> HIDE DEF n
<1>6. Timeline \in Seq(Picture) /\ Len(Timeline) = n
  BY <1>4, <1>5, SeqDef
<1>7. \A i \in 1 .. Len(undo_stack_) : Timeline[i] = heap[undo_stack_[i]]
  BY <1>1 DEF Timeline
<1> QED
  BY <1>1, <1>2, <1>6, <1>7 DEF n, TimelineShape

LEMMA InitRefines == Init => Abstract!Init
<1> SUFFICES ASSUME Init PROVE Abstract!Init
  OBVIOUS
<1>1. StackInv
  BY InitStackInv
<1>2. Len(undo_stack_) = 0 /\ Len(redo_stack_) = 0
  BY EmptySeq DEF Init
<1>3. Timeline \in Seq(Picture) /\ Len(Timeline) = 0
  BY <1>1, <1>2, TimelineFacts DEF TimelineShape
<1>4. Timeline = <<>>
  BY <1>3, EmptySeq
<1> QED
  BY <1>2, <1>4 DEF Abstract!Init

LEMMA RegisterRefines ==
    ASSUME StackInv, StackInv', NEW p \in Picture, RegisterNewCanvasState(p)
    PROVE  Abstract!Edit(p)
<1>1. PICK s \in Snapshot \ Live :
        /\ undo_stack_' = Append(undo_stack_, s)
        /\ redo_stack_' = <<>>
        /\ heap' = HeapAfter(Owned(redo_stack_), s, p)
  BY DEF RegisterNewCanvasState
<1> DEFINE m == Len(undo_stack_)
           cut == SubSeq(Timeline, 1, m)
           edited == Append(cut, p)
<1>2. /\ m \in Nat
      /\ Len(redo_stack_) \in Nat
      /\ Timeline \in Seq(Picture)
      /\ Len(Timeline) = m + Len(redo_stack_)
      /\ \A i \in 1 .. m : /\ undo_stack_[i] \in Live
                           /\ Timeline[i] = heap[undo_stack_[i]]
  BY TimelineFacts DEF TimelineShape
<1>3. /\ \A i \in 1 .. m : undo_stack_'[i] = undo_stack_[i]
      /\ undo_stack_'[m + 1] = s
      /\ Len(undo_stack_') = m + 1
      /\ Len(redo_stack_') = 0
  BY <1>1, PushFacts, EmptySeq DEF StackInv, TypeOK
<1>4. \A i \in 1 .. m : undo_stack_[i] \notin Owned(redo_stack_)
  <2>1. \A i \in 1 .. m : undo_stack_[i] \in Owned(undo_stack_)
    BY LenProperties DEF Owned, StackInv, TypeOK
  <2> QED
    BY <2>1 DEF StackInv, SnapshotOwnership
<1>5. /\ heap'[s] = p
      /\ \A i \in 1 .. m : heap'[undo_stack_[i]] = heap[undo_stack_[i]]
  <2>1. Owned(redo_stack_) \in SUBSET Snapshot
    BY DEF StackInv, SnapshotOwnership, Live
  <2>2. \A a \in Live \ Owned(redo_stack_) : a \in Snapshot /\ a # s
    BY <1>1 DEF Live
  <2> QED
    BY <1>1, <1>2, <1>4, <2>1, <2>2, HeapAfterFacts DEF StackInv
<1>6. /\ Timeline' \in Seq(Picture)
      /\ Len(Timeline') = m + 1
      /\ \A i \in 1 .. m + 1 : Timeline'[i] = heap'[undo_stack_'[i]]
  <2>1. /\ Timeline' \in Seq(Picture)
        /\ Len(Timeline') = Len(undo_stack_') + Len(redo_stack_')
        /\ \A i \in 1 .. Len(undo_stack_') :
              Timeline'[i] = heap'[undo_stack_'[i]]
    <3>1. TimelineShape'
      BY TimelineFacts, PTL
    <3> QED
      BY <3>1 DEF TimelineShape
  <2> QED
    BY <1>2, <1>3, <2>1
<1>7. /\ cut \in Seq(Picture)
      /\ Len(cut) = m
      /\ \A i \in 1 .. m : cut[i] = Timeline[i]
  <2>1. \A i \in 1 .. m : Timeline[i] \in Picture
    BY <1>2, LenProperties
  <2> QED
    BY <1>2, <2>1, SubSeqProperties
<1>8. /\ edited \in Seq(Picture)
      /\ Len(edited) = m + 1
      /\ \A i \in 1 .. m : edited[i] = cut[i]
      /\ edited[m + 1] = p
  <2> HIDE DEF cut
  <2> QED
    BY <1>7, PushFacts
<1>9. \A i \in 1 .. m + 1 : Timeline'[i] = edited[i]
  <2> HIDE DEF cut, edited
  <2> SUFFICES ASSUME NEW i \in 1 .. m + 1 PROVE Timeline'[i] = edited[i]
    OBVIOUS
  <2>1. CASE i = m + 1
    BY <1>3, <1>5, <1>6, <1>8, <2>1
  <2>2. CASE i \in 1 .. m
    BY <1>2, <1>3, <1>5, <1>6, <1>7, <1>8, <2>2
  <2> QED
    BY <1>2, <2>1, <2>2
<1>10. Timeline' = edited
  <2> HIDE DEF edited
  <2> QED
    BY <1>6, <1>8, <1>9, SeqEqual
<1> QED
  BY <1>3, <1>10 DEF Abstract!Edit

LEMMA ClearAndRegisterRefines ==
    ASSUME StackInv, StackInv', NEW p \in Picture, ClearAndRegister(p)
    PROVE  Abstract!Load(p)
<1>1. PICK s \in Snapshot :
        /\ undo_stack_' = <<s>>
        /\ redo_stack_' = <<>>
        /\ heap'[s] = p
  BY DEF ClearAndRegister, HeapAfter, StackInv, SnapshotOwnership, Live
<1>2. Len(undo_stack_') = 1 /\ Len(redo_stack_') = 0
  BY <1>1
<1>3. /\ Timeline' \in Seq(Picture)
      /\ Len(Timeline') = Len(undo_stack_') + Len(redo_stack_')
      /\ \A i \in 1 .. Len(undo_stack_') :
            Timeline'[i] = heap'[undo_stack_'[i]]
  <2>1. TimelineShape'
    BY TimelineFacts, PTL
  <2> QED
    BY <2>1 DEF TimelineShape
<1>4. Len(Timeline') = 1 /\ Timeline'[1] = p
  BY <1>1, <1>2, <1>3
<1>5. Timeline' = <<p>>
  <2> DEFINE one == <<p>>
  <2>1. one \in Seq(Picture) /\ Len(one) = 1 /\ one[1] = p
    OBVIOUS
  <2> HIDE DEF one
  <2>2. \A i \in 1 .. Len(Timeline') : Timeline'[i] = one[i]
    BY <1>4, <2>1
  <2>3. Timeline' = one
    BY <1>3, <1>4, <2>1, <2>2, SeqEqual
  <2> QED
    BY <2>3 DEF one
<1> QED
  BY <1>2, <1>5 DEF Abstract!Load

\* Moving the top of one stack to the other leaves the line as it was.
LEMMA UndoRefines ==
    ASSUME StackInv, UndoClicked
    PROVE  Abstract!Undo
<1> DEFINE m == Len(undo_stack_)
           k == Len(redo_stack_)
<1>1. m > 1 /\ m \in Nat /\ k \in Nat
  <2>1. undo_btn_
    BY DEF UndoClicked
  <2> QED
    BY <2>1, LenProperties DEF StackInv, TypeOK, ButtonsGuardStacks
<1>2. /\ undo_stack_' = Front(undo_stack_)
      /\ redo_stack_' = Append(redo_stack_, Last(undo_stack_))
      /\ heap' = heap
  BY DEF UndoClicked, UndoOperation
<1>3. /\ Len(undo_stack_') = m - 1
      /\ \A i \in 1 .. m - 1 : undo_stack_'[i] = undo_stack_[i]
      /\ Last(undo_stack_) \in Snapshot
  <2>1. Len(undo_stack_) > 0
    BY <1>1
  <2> QED
    BY <1>2, <2>1, PopFacts DEF StackInv, TypeOK
<1>4. /\ Len(redo_stack_') = k + 1
      /\ \A i \in 1 .. k : redo_stack_'[i] = redo_stack_[i]
      /\ redo_stack_'[k + 1] = undo_stack_[m]
  BY <1>2, <1>3, PushFacts DEF StackInv, TypeOK, Last
<1>5. Timeline' = Timeline
  <2>1. Timeline' = [i \in 1 .. m + k |->
                        IF i <= m - 1 THEN heap[undo_stack_'[i]]
                        ELSE heap[redo_stack_'[m + k + 1 - i]]]
    BY <1>1, <1>2, <1>3, <1>4 DEF Timeline
  <2>2. Timeline = [i \in 1 .. m + k |->
                        IF i <= m THEN heap[undo_stack_[i]]
                        ELSE heap[redo_stack_[m + k + 1 - i]]]
    BY DEF Timeline
  <2> HIDE DEF m, k
  <2>3. ASSUME NEW i \in 1 .. m + k
        PROVE  (IF i <= m - 1 THEN heap[undo_stack_'[i]]
                ELSE heap[redo_stack_'[m + k + 1 - i]])
             = (IF i <= m THEN heap[undo_stack_[i]]
                ELSE heap[redo_stack_[m + k + 1 - i]])
    <3>1. CASE i \in 1 .. m - 1
      BY <1>1, <1>3, <3>1
    <3>2. CASE i = m
      BY <1>1, <1>4, <3>2
    <3>3. CASE i \in m + 1 .. m + k
      <4>1. m + k + 1 - i \in 1 .. k
        BY <1>1, <3>3
      <4> QED
        BY <1>1, <1>4, <3>3, <4>1
    <3> QED
      BY <1>1, <3>1, <3>2, <3>3
  <2> QED
    BY <2>1, <2>2, <2>3
<1> QED
  BY <1>1, <1>3, <1>5 DEF Abstract!Undo

LEMMA RedoRefines ==
    ASSUME StackInv, RedoClicked
    PROVE  Abstract!Redo
<1> DEFINE m == Len(undo_stack_)
           k == Len(redo_stack_)
<1>1. k > 0 /\ m \in Nat /\ k \in Nat
  <2>1. redo_btn_
    BY DEF RedoClicked
  <2> QED
    BY <2>1, LenProperties DEF StackInv, TypeOK, ButtonsGuardStacks
<1>2. /\ redo_stack_' = Front(redo_stack_)
      /\ undo_stack_' = Append(undo_stack_, Last(redo_stack_))
      /\ heap' = heap
  BY DEF RedoClicked, RedoOperation
<1>3. /\ Len(redo_stack_') = k - 1
      /\ \A i \in 1 .. k - 1 : redo_stack_'[i] = redo_stack_[i]
      /\ Last(redo_stack_) \in Snapshot
  BY <1>1, <1>2, PopFacts DEF StackInv, TypeOK
<1>4. /\ Len(undo_stack_') = m + 1
      /\ \A i \in 1 .. m : undo_stack_'[i] = undo_stack_[i]
      /\ undo_stack_'[m + 1] = redo_stack_[k]
  BY <1>2, <1>3, PushFacts DEF StackInv, TypeOK, Last
<1>5. Timeline' = Timeline
  <2>1. Timeline' = [i \in 1 .. m + k |->
                        IF i <= m + 1 THEN heap[undo_stack_'[i]]
                        ELSE heap[redo_stack_'[m + k + 1 - i]]]
    BY <1>1, <1>2, <1>3, <1>4 DEF Timeline
  <2>2. Timeline = [i \in 1 .. m + k |->
                        IF i <= m THEN heap[undo_stack_[i]]
                        ELSE heap[redo_stack_[m + k + 1 - i]]]
    BY DEF Timeline
  <2> HIDE DEF m, k
  <2>3. ASSUME NEW i \in 1 .. m + k
        PROVE  (IF i <= m + 1 THEN heap[undo_stack_'[i]]
                ELSE heap[redo_stack_'[m + k + 1 - i]])
             = (IF i <= m THEN heap[undo_stack_[i]]
                ELSE heap[redo_stack_[m + k + 1 - i]])
    <3>1. CASE i \in 1 .. m
      BY <1>1, <1>4, <3>1
    <3>2. CASE i = m + 1
      BY <1>1, <1>4, <3>2
    <3>3. CASE i \in m + 2 .. m + k
      <4>1. m + k + 1 - i \in 1 .. k - 1
        BY <1>1, <3>3
      <4> QED
        BY <1>1, <1>3, <3>3, <4>1
    <3> QED
      BY <1>1, <3>1, <3>2, <3>3
  <2> QED
    BY <2>1, <2>2, <2>3
<1>6. m < Len(Timeline)
  BY <1>1, TimelineFacts DEF TimelineShape
<1> QED
  BY <1>4, <1>5, <1>6 DEF Abstract!Redo

\* The two stacks implement the line of pictures with its cursor.
THEOREM RefinesTimeline == Spec => ImplementsTimeline
<1>1. Init => Abstract!Init
  BY InitRefines
<1>2. StackInv /\ StackInv' /\ [Next]_managerVars => [Abstract!Next]_Abstract!vars
  <2> SUFFICES ASSUME StackInv, StackInv', [Next]_managerVars
               PROVE  Abstract!Next \/ UNCHANGED Abstract!vars
    OBVIOUS
  <2>1. CASE \E p \in Picture : RegisterNewCanvasState(p)
    BY <2>1, RegisterRefines DEF Abstract!Next
  <2>2. CASE \E p \in Picture : ClearAndRegister(p)
    BY <2>2, ClearAndRegisterRefines DEF Abstract!Next
  <2>3. CASE UndoClicked
    BY <2>3, UndoRefines DEF Abstract!Next
  <2>4. CASE RedoClicked
    BY <2>4, RedoRefines DEF Abstract!Next
  <2>5. CASE UNCHANGED managerVars
    BY <2>5 DEF managerVars, Abstract!vars, Timeline
  <2> QED
    BY <2>1, <2>2, <2>3, <2>4, <2>5 DEF Next
<1> QED
  BY <1>1, <1>2, StackInvariant, PTL DEF Spec, ImplementsTimeline, Abstract!Spec

=============================================================================
