-------------------------- MODULE RingQueueProofs --------------------------
(***************************************************************************)
(* For every size of the ring, every set of elements and every mix of      *)
(* operations: until the first race the ring holds exactly the elements    *)
(* that were added and not yet taken, in order, and a slot handed out      *)
(* keeps its element.  Where the interrupts are the only producers and     *)
(* nothing clears the queue there is no race at all.                       *)
(***************************************************************************)
EXTENDS RingQueue, SequenceTheorems, TLAPS

\* The next index, without the remainder.
LEMMA SuccCases ==
    ASSUME NEW i \in Slots
    PROVE  /\ Succ(i) = IF i = maxSize - 1 THEN 0 ELSE i + 1
           /\ Succ(i) \in Slots
  BY RingAssumption DEF Succ, Slots

LEMMA ZeroSlot == 0 \in Slots
  BY RingAssumption DEF Slots

\* The slot of an element is a slot.
LEMMA SlotOfType ==
    ASSUME front \in Slots, rear \in Slots, NEW k \in 1..Count
    PROVE  Count \in 0..(maxSize - 1) /\ SlotOf(k) \in Slots
  BY RingAssumption DEF Slots, Count, SlotOf

\* The history stays a sequence of elements.
LEMMA HistoryType ==
    ASSUME want \in Seq(Values), NEW v \in Values
    PROVE  /\ Wanted(v) \in Seq(Values)
           /\ <<v>> \in Seq(Values)
           /\ want # <<>> => Tail(want) \in Seq(Values) /\ Head(want) \in Values
  BY DEF Wanted

\* Every variable keeps its type.
LEMMA TypeStep ==
    ASSUME TypeOK, [Next]_vars
    PROVE  TypeOK'
<1>. USE RingAssumption DEF TypeOK, PCs
<1>0. Succ(rear) \in Slots /\ Succ(front) \in Slots /\ Succ(0) \in Slots /\ 0 \in Slots
  BY SuccCases, ZeroSlot
<1>1. ASSUME NEW v \in Values, HighAdd(v)
      PROVE  TypeOK'
  BY <1>0, <1>1, HistoryType DEF HighAdd, NewTail
<1>2. ASSUME NEW v \in Values, HighClear(v)
      PROVE  TypeOK'
  BY <1>0, <1>2, HistoryType DEF HighClear
<1>3. ASSUME NEW v \in Values, LowAddCheck(v)
      PROVE  TypeOK'
  BY <1>3 DEF LowAddCheck
<1>4. CASE LowAddLoad
  BY <1>0, <1>4 DEF LowAddLoad
<1>5. CASE LowAddAdvance
  BY <1>5, HistoryType DEF LowAddAdvance
<1>6. CASE LowAddStore
  BY <1>6 DEF LowAddStore
<1>7. CASE GetLoad
  BY <1>0, <1>7 DEF GetLoad, HeadSlot
<1>8. CASE GetAdvance
  BY <1>8, HistoryType DEF GetAdvance
<1>9. CASE GetRead
  BY <1>9 DEF GetRead
<1>10. CASE Peek
  BY <1>10 DEF Peek
<1>11. ASSUME NEW sent \in BOOLEAN, PeekDone(sent)
       PROVE  TypeOK'
  BY <1>11, HistoryType DEF PeekDone
<1>12. CASE UNCHANGED vars
  BY <1>12 DEF vars
<1>13. CASE LowClearFirst
  BY <1>0, <1>13 DEF LowClearFirst
<1>14. CASE LowClearSecond
  BY <1>0, <1>14 DEF LowClearSecond
<1>. QED
  BY <1>1, <1>2, <1>3, <1>4, <1>5, <1>6, <1>7, <1>8, <1>9, <1>10, <1>11, <1>12, <1>13, <1>14
     DEF Next, High, Low

\* Every variable has its type in every state, whatever the two contexts do.
THEOREM RingTypeCorrect == Spec => []TypeOK
<1>1. Init => TypeOK
  BY ZeroSlot DEF Init, TypeOK, PCs
<1>2. TypeOK /\ [Next]_vars => TypeOK'
  BY TypeStep
<1>. QED  BY <1>1, <1>2, PTL DEF Spec

-----------------------------------------------------------------------------
\* An add behind rear makes the ring one element longer and moves no other.
LEMMA CountAdd ==
    ASSUME front \in Slots, rear \in Slots, ~Full,
           front' = front, rear' = Succ(rear), pc \notin ClearWindow, pc' \notin ClearWindow
    PROVE  /\ Count' = Count + 1
           /\ Count \in 0..(maxSize - 2)
           /\ \A k \in 1..Count : SlotOf(k)' = SlotOf(k) /\ SlotOf(k) # Succ(rear)
           /\ SlotOf(Count)' = Succ(rear)
  BY RingAssumption, SuccCases DEF Slots, Count, SlotOf, Full

\* A get behind front makes it one element shorter and moves the others up.
LEMMA CountGet ==
    ASSUME front \in Slots, rear \in Slots, ~Empty,
           front' = Succ(front), rear' = rear, pc \notin ClearWindow, pc' \notin ClearWindow
    PROVE  /\ Count' = Count - 1
           /\ Count \in 1..(maxSize - 1)
           /\ SlotOf(1) = Succ(front)
           /\ \A k \in 1..Count - 1 : SlotOf(k)' = SlotOf(k + 1)
  BY RingAssumption, SuccCases DEF Slots, Count, SlotOf, Empty

\* Taking the head of the history.
LEMMA HistoryGet ==
    ASSUME want \in Seq(Values), want # <<>>
    PROVE  /\ Head(want) = want[1]
           /\ Len(Tail(want)) = Len(want) - 1
           /\ \A k \in 1..Len(want) - 1 : Tail(want)[k] = want[k + 1]
  OBVIOUS

\* Adding to a history that is not cut.
LEMMA HistoryAdd ==
    ASSUME want \in Seq(Values), NEW v \in Values, Len(want) < maxSize
    PROVE  /\ Wanted(v) = Append(want, v)
           /\ Len(Wanted(v)) = Len(want) + 1
           /\ \A k \in 1..Len(want) : Wanted(v)[k] = want[k]
           /\ Wanted(v)[Len(want) + 1] = v
  BY DEF Wanted

\* The facts every step below starts from.
LEMMA Bounds ==
    ASSUME TypeOK
    PROVE  /\ Succ(rear) \in Slots /\ Succ(front) \in Slots
           /\ 0 \in Slots /\ 1 \in Slots /\ Succ(0) = 1
           /\ Count \in 0..(maxSize - 1)
           /\ \A k \in 1..Count : SlotOf(k) \in Slots
  BY RingAssumption, SuccCases DEF TypeOK, Slots, Count, SlotOf

\* An add of the high context, outside the low context's own add and clear.
LEMMA HighAddStep ==
    ASSUME TypeOK, Elements, LowSound, NEW v \in Values, HighAdd(v),
           pc \notin AddWindow \cup ClearWindow
    PROVE  Elements' /\ LowSound'
<1>1. /\ Count' = Count + 1
      /\ Count \in 0..(maxSize - 2)
      /\ \A k \in 1..Count : SlotOf(k)' = SlotOf(k) /\ SlotOf(k) # Succ(rear)
      /\ SlotOf(Count)' = Succ(rear)
  BY CountAdd DEF HighAdd, TypeOK
<1>2. /\ queue' = [queue EXCEPT ![Succ(rear)] = v]
      /\ pc' = pc /\ front' = front /\ rear' = Succ(rear)
      /\ local' = local /\ x' = x /\ taken' = taken /\ want' = Wanted(v)
  BY DEF HighAdd, NewTail
<1>3. Len(want) = Count /\ \A k \in 1..Count : want[k] = queue[SlotOf(k)]
  BY DEF Elements, ElementAt, AddWindow
<1>4. /\ Len(want') = Count + 1
      /\ \A k \in 1..Count : want'[k] = want[k]
      /\ want'[Count + 1] = v
  BY <1>1, <1>2, <1>3, HistoryAdd, RingAssumption DEF TypeOK
<1>5. ASSUME NEW k \in 1..Count'
      PROVE  want'[k] = ElementAt(SlotOf(k))'
  <2>1. CASE k \in 1..Count
    <3>1. queue'[SlotOf(k)'] = queue[SlotOf(k)]
      BY <1>1, <1>2, <2>1, Bounds DEF TypeOK
    <3>. QED  BY <1>2, <1>3, <1>4, <2>1, <3>1 DEF ElementAt, AddWindow
  <2>2. CASE k = Count'
    <3>1. queue'[Succ(rear)] = v /\ SlotOf(k)' = Succ(rear)
      BY <1>1, <1>2, <2>2, Bounds DEF TypeOK
    <3>. QED  BY <1>1, <1>2, <1>4, <2>2, <3>1 DEF ElementAt, AddWindow
  <2>. QED  BY <1>1, <2>1, <2>2
<1>6. Elements'
  BY <1>1, <1>4, <1>5 DEF Elements
<1>7. LowSound'
  <2>1. pc \in {"popping", "peeked"} => ~Empty' /\ local # Succ(rear)
    BY RingAssumption, SuccCases, <1>2 DEF LowSound, Empty, Full, TypeOK, Slots, HighAdd
  <2>2. front # Succ(rear)
    BY DEF HighAdd, Full
  <2>. QED  BY <1>2, <2>1, <2>2, Bounds DEF LowSound, AddWindow, TypeOK
<1>. QED  BY <1>6, <1>7

\* A clear of the high context, outside every operation of the low one.
LEMMA HighClearStep ==
    ASSUME TypeOK, NEW v \in Values, HighClear(v), pc = "idle"
    PROVE  Elements' /\ LowSound'
<1>1. /\ front' = 0 /\ rear' = 1 /\ queue'[1] = v
      /\ pc' = "idle" /\ want' = <<v>>
  BY Bounds DEF HighClear, TypeOK
<1>2. Count' = 1 /\ SlotOf(1)' = 1
  BY <1>1, RingAssumption DEF Count, SlotOf, ClearWindow
<1>3. ASSUME NEW k \in 1..Count'
      PROVE  want'[k] = ElementAt(SlotOf(k))'
  <2>1. k = 1
    BY <1>2
  <2>2. want'[1] = v /\ ElementAt(SlotOf(1))' = v
    BY <1>1, <1>2 DEF ElementAt
  <2>. QED  BY <2>1, <2>2
<1>. QED  BY <1>1, <1>2, <1>3 DEF Elements, LowSound

\* The two stores of a clear of the low context.
LEMMA LowClearStep ==
    ASSUME TypeOK, LowSound, Elements, LowClearFirst \/ LowClearSecond
    PROVE  Elements' /\ LowSound'
<1>1. CASE LowClearFirst
  <2>1. Count' = 0 /\ want' = <<>> /\ pc' \in ClearWindow
    BY <1>1 DEF LowClearFirst, Count, ClearWindow
  <2>2. LowSound'
    BY <1>1 DEF LowClearFirst, LowSound
  <2>. QED  BY <2>1, <2>2 DEF Elements
<1>2. CASE LowClearSecond
  <2>1. front' = 0 /\ rear' = 0 /\ pc' = "idle" /\ want' = want
    BY <1>2 DEF LowClearSecond, LowSound, ClearWindow
  <2>2. Len(want) = 0
    BY <1>2 DEF LowClearSecond, Elements, Count
  <2>3. Count' = 0
    BY <2>1 DEF Count, ClearWindow
  <2>. QED  BY <2>1, <2>2, <2>3 DEF Elements, LowSound
<1>. QED  BY <1>1, <1>2

\* The store of rear in the low context's add: the argument is the new tail.
LEMMA LowAddAdvanceStep ==
    ASSUME TypeOK, Elements, LowSound, LowAddAdvance
    PROVE  Elements' /\ LowSound'
<1>1. /\ rear' = Succ(rear) /\ front' = front /\ queue' = queue
      /\ local' = Succ(rear) /\ x' = x /\ pc = "loaded" /\ pc' = "advanced"
      /\ want' = Wanted(x) /\ ~Full
  BY DEF LowAddAdvance, LowSound
<1>2. /\ Count' = Count + 1
      /\ Count \in 0..(maxSize - 2)
      /\ \A k \in 1..Count : SlotOf(k)' = SlotOf(k) /\ SlotOf(k) # Succ(rear)
      /\ SlotOf(Count)' = Succ(rear)
  BY <1>1, CountAdd DEF TypeOK, ClearWindow
<1>3. Len(want) = Count /\ \A k \in 1..Count : want[k] = queue[SlotOf(k)]
  BY <1>1 DEF Elements, ElementAt
<1>4. /\ Len(want') = Count + 1
      /\ \A k \in 1..Count : want'[k] = want[k]
      /\ want'[Count + 1] = x
  BY <1>1, <1>2, <1>3, HistoryAdd, RingAssumption DEF TypeOK
<1>5. ASSUME NEW k \in 1..Count'
      PROVE  want'[k] = ElementAt(SlotOf(k))'
  <2>1. CASE k \in 1..Count
    BY <1>1, <1>2, <1>3, <1>4, <2>1 DEF ElementAt
  <2>2. CASE k = Count'
    BY <1>1, <1>2, <1>4, <2>2 DEF ElementAt
  <2>. QED  BY <1>2, <2>1, <2>2
<1>6. Elements'
  BY <1>2, <1>4, <1>5 DEF Elements
<1>7. LowSound'
  BY <1>1 DEF LowSound, Empty, Full
<1>. QED  BY <1>6, <1>7

\* The store of the element: what the ring shows does not change.
LEMMA LowAddStoreStep ==
    ASSUME TypeOK, Elements, LowSound, LowAddStore
    PROVE  Elements' /\ LowSound'
<1>1. /\ rear' = rear /\ front' = front /\ want' = want
      /\ pc = "advanced" /\ pc' = "idle"
      /\ queue' = [queue EXCEPT ![rear] = x]
  BY DEF LowAddStore, LowSound
<1>2. Count' = Count /\ \A k \in 1..Count : SlotOf(k)' = SlotOf(k)
  BY <1>1 DEF Count, SlotOf, ClearWindow
<1>3. ASSUME NEW k \in 1..Count
      PROVE  ElementAt(SlotOf(k))' = ElementAt(SlotOf(k))
  <2>1. SlotOf(k) \in Slots
    BY Bounds
  <2>. QED  BY <1>1, <1>2, <2>1 DEF ElementAt, TypeOK
<1>. QED  BY <1>1, <1>2, <1>3 DEF Elements, LowSound

\* front moves on: by Get, or by can_send_frame_process after the frame.
LEMMA FrontStep ==
    ASSUME TypeOK, Elements, LowSound, pc \in {"popping", "peeked"},
           front' = local, rear' = rear, queue' = queue, local' = local,
           pc' \in {"got", "idle"},
           want' = IF want = <<>> THEN <<>> ELSE Tail(want),
           taken' = IF want = <<>> THEN taken ELSE Head(want)
    PROVE  Elements' /\ LowSound'
<1>1. local = Succ(front) /\ ~Empty
  BY DEF LowSound
<1>2. /\ Count' = Count - 1
      /\ Count \in 1..(maxSize - 1)
      /\ SlotOf(1) = Succ(front)
      /\ \A k \in 1..Count - 1 : SlotOf(k)' = SlotOf(k + 1)
  BY <1>1, CountGet DEF TypeOK, ClearWindow
<1>3. Len(want) = Count /\ \A k \in 1..Count : want[k] = queue[SlotOf(k)]
  BY DEF Elements, ElementAt
<1>4. want # <<>> /\ want \in Seq(Values)
  BY <1>2, <1>3 DEF TypeOK
<1>5. /\ want' = Tail(want) /\ taken' = want[1]
      /\ Len(want') = Count - 1
      /\ \A k \in 1..Count - 1 : want'[k] = want[k + 1]
  BY <1>3, <1>4, HistoryGet
<1>6. ASSUME NEW k \in 1..Count'
      PROVE  want'[k] = ElementAt(SlotOf(k))'
  <2>1. k \in 1..Count - 1 /\ k + 1 \in 1..Count
    BY <1>2
  <2>. QED  BY <1>2, <1>3, <1>5, <2>1 DEF ElementAt
<1>7. Elements'
  BY <1>2, <1>5, <1>6 DEF Elements
<1>8. queue[local] = want[1]
  BY <1>1, <1>2, <1>3
<1>9. LowSound'
  BY <1>5, <1>8 DEF LowSound
<1>. QED  BY <1>7, <1>9

\* A step that leaves the ring alone keeps its elements.
LEMMA SameRing ==
    ASSUME Elements, UNCHANGED <<front, rear, queue, want>>,
           pc # "advanced", pc' # "advanced", pc \notin ClearWindow, pc' \notin ClearWindow
    PROVE  Elements'
<1>1. Count' = Count /\ \A k \in 1..Count : SlotOf(k)' = SlotOf(k)
  BY DEF Count, SlotOf
<1>. QED  BY <1>1 DEF Elements, ElementAt

\* A step keeps RingInv.
LEMMA RingStep ==
    ASSUME TypeOK, RingInv, [Next]_vars
    PROVE  RingInv'
<1>. SUFFICES ASSUME raced' = 0
              PROVE  Elements' /\ LowSound'
  BY DEF RingInv
<1>1. ASSUME NEW v \in Values, HighAdd(v)
      PROVE  Elements' /\ LowSound'
  <2>1. raced = 0 /\ pc \notin AddWindow \cup ClearWindow
    BY <1>1 DEF HighAdd
  <2>. QED  BY <1>1, <2>1, HighAddStep DEF RingInv
<1>2. ASSUME NEW v \in Values, HighClear(v)
      PROVE  Elements' /\ LowSound'
  <2>1. pc = "idle"
    BY <1>2 DEF HighClear
  <2>. QED  BY <1>2, <2>1, HighClearStep
<1>3. ASSUME NEW v \in Values, LowAddCheck(v)
      PROVE  Elements' /\ LowSound'
  <2>1. Elements'
    BY <1>3, SameRing DEF LowAddCheck, RingInv, ClearWindow
  <2>. QED  BY <1>3, <2>1 DEF LowAddCheck, RingInv, LowSound, Full
<1>4. CASE LowAddLoad
  <2>1. Elements'
    BY <1>4, SameRing DEF LowAddLoad, RingInv, ClearWindow
  <2>. QED  BY <1>4, <2>1 DEF LowAddLoad, RingInv, LowSound, Full, Succ
<1>5. CASE LowAddAdvance
  <2>1. raced = 0
    BY <1>5 DEF LowAddAdvance
  <2>. QED  BY <1>5, <2>1, LowAddAdvanceStep DEF RingInv
<1>6. CASE LowAddStore
  <2>1. raced = 0
    BY <1>6 DEF LowAddStore
  <2>. QED  BY <1>6, <2>1, LowAddStoreStep DEF RingInv
<1>7. CASE GetLoad
  <2>1. Elements'
    BY <1>7, SameRing DEF GetLoad, RingInv, ClearWindow
  <2>. QED  BY <1>7, <2>1 DEF GetLoad, HeadSlot, RingInv, LowSound, Empty, Succ
<1>8. CASE GetAdvance
  <2>1. raced = 0
    BY <1>8 DEF GetAdvance
  <2>. QED  BY <1>8, <2>1, FrontStep DEF RingInv, GetAdvance
<1>9. CASE GetRead
  <2>1. Elements'
    BY <1>9, SameRing DEF GetRead, RingInv, ClearWindow
  <2>. QED  BY <1>9, <2>1 DEF GetRead, RingInv, LowSound
<1>10. CASE Peek
  <2>1. Elements'
    BY <1>10, SameRing DEF Peek, RingInv, ClearWindow
  <2>. QED  BY <1>10, <2>1 DEF Peek, RingInv, LowSound, Empty, Succ
<1>11. ASSUME NEW sent \in BOOLEAN, PeekDone(sent)
       PROVE  Elements' /\ LowSound'
  <2>1. raced = 0 /\ pc = "peeked" /\ pc' = "idle"
    BY <1>11 DEF PeekDone
  <2>2. CASE sent
    BY <1>11, <2>1, <2>2, FrontStep DEF RingInv, PeekDone
  <2>3. CASE ~sent
    <3>1. Elements'
      BY <1>11, <2>1, <2>3, SameRing DEF RingInv, ClearWindow, PeekDone
    <3>. QED  BY <2>1, <3>1 DEF LowSound
  <2>. QED  BY <2>2, <2>3
<1>12. CASE UNCHANGED vars
  BY <1>12 DEF vars, RingInv, Elements, LowSound, Count, SlotOf, ElementAt,
               Full, Empty, Succ
<1>13. CASE LowClearFirst \/ LowClearSecond
  <2>1. raced = 0
    BY <1>13 DEF LowClearFirst, LowClearSecond
  <2>. QED  BY <1>13, <2>1, LowClearStep DEF RingInv
<1>. QED
  BY <1>1, <1>2, <1>3, <1>4, <1>5, <1>6, <1>7, <1>8, <1>9, <1>10, <1>11, <1>12, <1>13
     DEF Next, High, Low

\* Until the first race every element lies where the indices say, and what
\* the low context has checked or loaded is still true (logic_ctrl.c, lines
\* 59-80).
THEOREM RingSound == Spec => []RingInv
<1>1. Init => TypeOK /\ RingInv
  BY ZeroSlot DEF Init, TypeOK, PCs, RingInv, Elements, LowSound, Count, ClearWindow
<1>2. TypeOK /\ RingInv /\ [Next]_vars => TypeOK' /\ RingInv'
  BY TypeStep, RingStep
<1>. QED  BY <1>1, <1>2, PTL DEF Spec

\* With RingInv the ring shows its history.
LEMMA ContentsIsWant ==
    ASSUME TypeOK, Elements
    PROVE  Contents = want
<1>1. want \in Seq(Values) /\ Len(want) = Count
      /\ \A k \in 1..Count : want[k] = ElementAt(SlotOf(k))
  BY DEF TypeOK, Elements
<1>2. want = [k \in 1..Count |-> want[k]]
  BY <1>1
<1>. QED  BY <1>1, <1>2 DEF Contents

\* Until the first race the ring holds what was added and not yet taken, in
\* order (logic_ctrl.c, lines 59-80).
THEOREM IntactUntilRace == Spec => []QueueIntact
<1>1. TypeOK /\ RingInv => QueueIntact
  BY ContentsIsWant DEF RingInv, QueueIntact
<1>. QED  BY <1>1, RingTypeCorrect, RingSound, PTL

\* Until the first race a slot handed out, or peeked at, keeps its element
\* until it is read (logic_ctrl.c, line 79; can_bus.c, lines 356-362).
THEOREM SlotsStable == Spec => []SlotStable
<1>1. TypeOK /\ RingInv => SlotStable
  <2>. SUFFICES ASSUME TypeOK, Elements, LowSound
                PROVE  /\ pc = "got" => queue[local] = taken
                       /\ pc = "popping" => want # <<>> /\ queue[local] = want[1]
                       /\ pc = "peeked" => want # <<>> /\ x = want[1]
    BY DEF RingInv, SlotStable
  <2>1. ASSUME pc \in {"popping", "peeked"}
        PROVE  want # <<>> /\ queue[local] = want[1]
    <3>1. local = Succ(front) /\ ~Empty
      BY <2>1 DEF LowSound
    <3>2. Count \in 1..(maxSize - 1) /\ SlotOf(1) = Succ(front)
      BY <2>1, <3>1, RingAssumption, SuccCases
         DEF Count, SlotOf, Empty, TypeOK, Slots, ClearWindow
    <3>3. want[1] = queue[SlotOf(1)] /\ Len(want) = Count
      BY <2>1, <3>2 DEF Elements, ElementAt
    <3>. QED  BY <3>1, <3>2, <3>3 DEF TypeOK
  <2>. QED  BY <2>1 DEF LowSound
<1>. QED  BY <1>1, RingTypeCorrect, RingSound, PTL

\* Where the low context only takes elements and nothing clears the queue
\* there is never a race: such a queue is a FIFO for good.  The CAN queue of a
\* slave is one: only its CAN interrupt adds to it (can_bus.c, 49-86, 195-221).
THEOREM NoRace == ASSUME ~LowAdds, ~HighClears, ~LowClears PROVE Spec => [](raced = 0)
<1>. DEFINE Inv == raced = 0 /\ pc \notin AddWindow \cup ClearWindow
<1>1. Init => Inv
  BY DEF Init, AddWindow, ClearWindow
<1>2. Inv /\ [Next]_vars => Inv'
  BY DEF Next, High, Low, HighAdd, HighClear, LowAddCheck, LowAddLoad,
         LowAddAdvance, LowAddStore, LowClearFirst, LowClearSecond, GetLoad,
         GetAdvance, GetRead, Peek, PeekDone, vars, AddWindow, ClearWindow
<1>. QED  BY <1>1, <1>2, PTL DEF Spec
-----------------------------------------------------------------------------
(* The ring as a bounded FIFO                                              *)

\* A step without a race is a step of the FIFO, or none.
LEMMA StepIsFifoStep ==
    ASSUME TypeOK, RingInv, TypeOK', RingInv', [Next]_vars, raced' = 0
    PROVE  [Fifo!Next]_<<Contents, taken>>
<1>. USE RingAssumption
<1>0. raced = 0
  BY DEF Next, High, Low, HighAdd, HighClear, LowAddCheck, LowAddLoad,
         LowAddAdvance, LowAddStore, LowClearFirst, LowClearSecond, GetLoad,
         GetAdvance, GetRead, Peek, PeekDone, vars, TypeOK
<1>1. Contents = want /\ Contents' = want'
  <2>1. Elements /\ Elements'
    BY <1>0 DEF RingInv
  <2>2. Contents = want
    BY <2>1, ContentsIsWant
  <2>3. want' \in Seq(Values) /\ Len(want') = Count'
        /\ \A k \in 1..Count' : want'[k] = ElementAt(SlotOf(k))'
    BY <2>1 DEF TypeOK, Elements
  <2>4. want' = [k \in 1..Count' |-> want'[k]]
    BY <2>3
  <2>5. Contents' = want'
    BY <2>3, <2>4 DEF Contents
  <2>. QED  BY <2>2, <2>5
<1>2. Len(want) = Count /\ Count \in 0..(maxSize - 1) /\ want \in Seq(Values)
  BY <1>0, Bounds DEF RingInv, Elements, TypeOK
<1>. SUFFICES (\E v \in Values : Fifo!Add(v) \/ Fifo!Clear(v)) \/ Fifo!Take
              \/ Fifo!Discard \/ UNCHANGED <<want, taken>>
  BY <1>1 DEF Fifo!Next
<1>3. ASSUME NEW v \in Values, ~Full, want' = Wanted(v), taken' = taken,
             pc \notin ClearWindow
      PROVE  Fifo!Add(v)
  <2>0. Succ(rear) = IF rear = maxSize - 1 THEN 0 ELSE rear + 1
    BY SuccCases DEF TypeOK
  <2>1. Count < maxSize - 1
    BY <1>3, <2>0 DEF Full, Count, TypeOK, Slots
  <2>2. Wanted(v) = Append(want, v)
    BY <1>2, <2>1 DEF Wanted
  <2>. QED  BY <1>1, <1>2, <1>3, <2>1, <2>2 DEF Fifo!Add
<1>4. ASSUME pc \in {"popping", "peeked"}, want' = IF want = <<>> THEN <<>> ELSE Tail(want),
             taken' = IF want = <<>> THEN taken ELSE Head(want)
      PROVE  Fifo!Take
  <2>1. ~Empty
    BY <1>0, <1>4 DEF RingInv, LowSound
  <2>2. want # <<>>
    BY <1>2, <1>4, <2>1 DEF Count, Empty, TypeOK, Slots, ClearWindow
  <2>. QED  BY <1>1, <1>4, <2>2 DEF Fifo!Take
<1>5. ASSUME NEW v \in Values, HighAdd(v)
      PROVE  Fifo!Add(v)
  <2>1. pc \notin ClearWindow
    BY <1>5 DEF HighAdd
  <2>. QED  BY <1>3, <1>5, <2>1 DEF HighAdd
<1>6. ASSUME NEW v \in Values, HighClear(v)
      PROVE  Fifo!Clear(v)
  BY <1>1, <1>6 DEF HighClear, Fifo!Clear
<1>7. CASE LowAddAdvance
  <2>1. ~Full
    BY <1>0, <1>7 DEF RingInv, LowSound, LowAddAdvance
  <2>2. Fifo!Add(x)
    BY <1>3, <1>7, <2>1 DEF LowAddAdvance, TypeOK, ClearWindow
  <2>. QED  BY <2>2 DEF TypeOK
<1>8. CASE GetAdvance
  BY <1>4, <1>8 DEF GetAdvance
<1>9. ASSUME NEW sent \in BOOLEAN, PeekDone(sent)
      PROVE  Fifo!Take \/ UNCHANGED <<want, taken>>
  BY <1>4, <1>9 DEF PeekDone
<1>10. CASE \/ \E v \in Values : LowAddCheck(v)
            \/ LowAddLoad \/ LowAddStore \/ LowClearSecond \/ GetLoad \/ GetRead \/ Peek
            \/ UNCHANGED vars
  BY <1>10 DEF LowAddCheck, LowAddLoad, LowAddStore, LowClearSecond, GetLoad, GetRead, Peek, vars
<1>11. CASE LowClearFirst
  BY <1>1, <1>11 DEF LowClearFirst, Fifo!Discard
<1>. QED  BY <1>5, <1>6, <1>7, <1>8, <1>9, <1>10, <1>11 DEF Next, High, Low

\* For every size of the ring, and every mix of operations, the ring implements
\* the bounded FIFO step by step until the first race (logic_ctrl.c, lines
\* 50-80; fun.c, lines 14-33; can_bus.c, lines 24-34).
THEOREM RingIsFifo == Spec => FifoUntilRace
<1>1. Init => Fifo!Init
  BY ZeroSlot DEF Init, Fifo!Init, Contents, Count, ClearWindow
<1>2. TypeOK /\ RingInv /\ TypeOK' /\ RingInv' /\ [Next]_vars => [FifoStep]_vars
  <2>. SUFFICES ASSUME TypeOK, RingInv, TypeOK', RingInv', [Next]_vars
                PROVE  FifoStep
    OBVIOUS
  <2>1. raced' \in {0, 1}
    BY DEF TypeOK
  <2>. QED  BY <2>1, StepIsFifoStep DEF FifoStep
<1>. QED  BY <1>1, <1>2, RingTypeCorrect, RingSound, PTL DEF Spec, FifoUntilRace
=============================================================================
