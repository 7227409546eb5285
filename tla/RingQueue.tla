----------------------------- MODULE RingQueue -----------------------------
(***************************************************************************)
(* The ring buffer behind the four queues of the firmware: commands to the *)
(* inverters, module status, CAN frames and messages to the server.  They  *)
(* share one algorithm: an element is written behind rear, read behind     *)
(* front, and one slot stays unused.                                       *)
(*                                                                         *)
(* Two contexts use a queue.  The low one, the main loop, is preempted     *)
(* between any two of its memory accesses; the high one (SysTick and CAN,  *)
(* which do not preempt each other) runs each operation to its end.  Only  *)
(* the low context takes elements out.                                     *)
(***************************************************************************)
EXTENDS Naturals, Sequences

CONSTANTS
    maxSize,      \* slots of the ring
    Values,       \* elements
    LowAdds,      \* the low context adds elements, too
    HighClears,   \* the high context empties the queue (Speed_Ctrl_Process)
    LowClears     \* and so does the low one: the server's commands, on the host

ASSUME RingAssumption ==
    /\ maxSize \in Nat /\ maxSize >= 2
    /\ Values # {}
    /\ {LowAdds, HighClears, LowClears} \subseteq BOOLEAN

VARIABLES
    front, rear, queue,
    pc,       \* where the low context stands in Add, Get or a clear
    local,    \* an index it has loaded into a register
    x,        \* its argument of Add, or the element it has read
    taken,    \* history: the element handed out last
    want,     \* history: elements added and not yet taken, oldest first
    raced     \* history: 1 once the high context hit a window of the low one

vars == <<front, rear, queue, pc, local, x, taken, want, raced>>

Slots == 0..(maxSize - 1)
PCs == {"idle", "checked", "loaded", "advanced", "popping", "got", "peeked",
        "clear_front", "clear_rear"}

\* Between the two stores of a clear; the pc names the index still to be stored.
ClearWindow == {"clear_front", "clear_rear"}

\* The next index.
SuccUnwrapped(i) == i + 1
Succ(i) == (i + 1) % maxSize

FullUnwrapped == rear + 1 = front
Full == Succ(rear) = front
Empty == front = rear

\* The number of queued elements, none once a clear has begun, and the slot of
\* the k-th.
Count == IF pc \in ClearWindow THEN 0
         ELSE IF rear >= front THEN rear - front ELSE rear + maxSize - front
SlotOf(k) == IF front + k < maxSize THEN front + k ELSE front + k - maxSize

\* The history after an add.  It is cut at maxSize elements, more than an
\* intact ring holds, to keep it finite after a race.
Wanted(v) == IF Len(want) < maxSize THEN Append(want, v) ELSE want

\* The elements, oldest first.  Between the two stores of Add the new tail is
\* the argument that is about to be written.
ElementAt(i) == IF pc = "advanced" /\ i = rear THEN x ELSE queue[i]
Contents == [k \in 1..Count |-> ElementAt(SlotOf(k))]

Init ==
    /\ front = 0 /\ rear = 0
    /\ queue \in [Slots -> Values]
    /\ pc = "idle" /\ local = 0
    /\ x \in Values
    /\ taken = x
    /\ want = <<>>
    /\ raced = 0

-----------------------------------------------------------------------------
(* The high context                                                        *)

\* From its check for a full queue to its last store Add works on values of
\* rear and front that it does not read again.
AddWindow == {"checked", "loaded", "advanced"}

\* The slot an add writes: the new rear.
NewTailOld == rear
NewTail == Succ(rear)

\* Add...2Queue(v); a full queue drops v.
HighAdd(v) ==
    /\ ~Full
    /\ rear' = Succ(rear)
    /\ queue' = [queue EXCEPT ![NewTail] = v]
    /\ want' = Wanted(v)
    /\ raced' = IF pc \in AddWindow \cup ClearWindow THEN 1 ELSE raced
    /\ UNCHANGED <<front, pc, local, x, taken>>

\* InitUartSendQueue, followed in every caller by the first stop command.
HighClear(v) ==
    /\ HighClears
    /\ front' = 0
    /\ rear' = Succ(0)
    /\ queue' = [queue EXCEPT ![Succ(0)] = v]
    /\ want' = <<v>>
    /\ raced' = IF pc = "idle" THEN raced ELSE 1
    /\ UNCHANGED <<pc, local, x, taken>>

-----------------------------------------------------------------------------
(* The low context: Add                                                    *)

\* if((q->rear + 1) % q->maxSize == q->front) return
LowAddCheck(v) ==
    /\ LowAdds
    /\ pc = "idle"
    /\ ~Full
    /\ x' = v
    /\ pc' = "checked"
    /\ UNCHANGED <<front, rear, queue, local, taken, want, raced>>

\* q->rear = (q->rear + 1) % q->maxSize: load ...
LowAddLoad ==
    /\ pc = "checked"
    /\ local' = Succ(rear)
    /\ pc' = "loaded"
    /\ UNCHANGED <<front, rear, queue, x, taken, want, raced>>

\* ... and store
LowAddAdvance ==
    /\ pc = "loaded"
    /\ rear' = local
    /\ want' = Wanted(x)
    /\ pc' = "advanced"
    /\ UNCHANGED <<front, queue, local, x, taken, raced>>

\* q->queue[q->rear] = x, with rear read again or kept in its register
LowAddStore ==
    /\ pc = "advanced"
    /\ \E i \in {rear, local} : queue' = [queue EXCEPT ![i] = x]
    /\ pc' = "idle"
    /\ UNCHANGED <<front, rear, local, x, taken, want, raced>>

\* q->front = q->rear = 0 in the main loop: two stores.  The indices are not
\* volatile, so that the compiler chooses which comes first.
LowClearFirst ==
    /\ LowClears
    /\ pc = "idle"
    /\ \/ rear' = 0 /\ pc' = "clear_front" /\ UNCHANGED front
       \/ front' = 0 /\ pc' = "clear_rear" /\ UNCHANGED rear
    /\ want' = <<>>
    /\ UNCHANGED <<queue, local, x, taken, raced>>

LowClearSecond ==
    /\ pc \in ClearWindow
    /\ IF pc = "clear_front" THEN front' = 0 /\ UNCHANGED rear
       ELSE rear' = 0 /\ UNCHANGED front
    /\ pc' = "idle"
    /\ UNCHANGED <<queue, local, x, taken, want, raced>>

-----------------------------------------------------------------------------
(* The low context: Get                                                    *)

\* The slot a get reads: the one behind front.
HeadSlotOld == front
HeadSlot == Succ(front)

\* q->front is loaded and the queue is not empty.
GetLoad ==
    /\ pc = "idle"
    /\ ~Empty
    /\ local' = HeadSlot
    /\ pc' = "popping"
    /\ UNCHANGED <<front, rear, queue, x, taken, want, raced>>

\* q->front = (q->front + 1) % q->maxSize; the caller holds a pointer to it.
GetAdvance ==
    /\ pc = "popping"
    /\ front' = local
    /\ want' = IF want = <<>> THEN <<>> ELSE Tail(want)
    /\ taken' = IF want = <<>> THEN taken ELSE Head(want)
    /\ pc' = "got"
    /\ UNCHANGED <<rear, queue, local, x, raced>>

\* The caller copies the element.
GetRead ==
    /\ pc = "got"
    /\ x' = queue[local]
    /\ pc' = "idle"
    /\ UNCHANGED <<front, rear, queue, local, taken, want, raced>>

\* can_send_frame_process reads the element first ...
Peek ==
    /\ pc = "popping"
    /\ x' = queue[local]
    /\ pc' = "peeked"
    /\ UNCHANGED <<front, rear, queue, local, taken, want, raced>>

\* ... and takes it only if a transmit mailbox was free.
PeekDone(sent) ==
    /\ pc = "peeked"
    /\ IF sent
       THEN /\ front' = local
            /\ want' = IF want = <<>> THEN <<>> ELSE Tail(want)
            /\ taken' = IF want = <<>> THEN taken ELSE Head(want)
       ELSE UNCHANGED <<front, want, taken>>
    /\ pc' = "idle"
    /\ UNCHANGED <<rear, queue, local, x, raced>>

-----------------------------------------------------------------------------
High == \E v \in Values : HighAdd(v) \/ HighClear(v)

Low ==
    \/ \E v \in Values : LowAddCheck(v)
    \/ LowAddLoad
    \/ LowAddAdvance
    \/ LowAddStore
    \/ LowClearFirst
    \/ LowClearSecond
    \/ GetLoad
    \/ GetAdvance
    \/ GetRead
    \/ Peek
    \/ \E sent \in BOOLEAN : PeekDone(sent)

Next == High \/ Low

Spec == Init /\ [][Next]_vars

-----------------------------------------------------------------------------
\* Every variable has its type; the indices stay inside the ring
\* (logic_ctrl.c, lines 63-79).
TypeOK ==
    /\ front \in Slots /\ rear \in Slots
    /\ queue \in [Slots -> Values]
    /\ pc \in PCs
    /\ local \in Slots
    /\ x \in Values /\ taken \in Values
    /\ want \in Seq(Values)
    /\ raced \in {0, 1}

\* The queue holds what was added and not yet taken, in that order; nothing
\* is lost, changed or invented, as long as no add of the high context falls
\* into an add or a clear of the low one and no clear into any of its
\* operations.  An add that falls into a Get does no harm (logic_ctrl.c, lines
\* 50-80).
QueueIntact == raced = 0 => Contents = want

\* The slot a caller of Get still points to, or has peeked at, keeps the
\* element that was at the head until the caller is done with it, although
\* the queue may be filled up meanwhile (logic_ctrl.c, line 79; modbus_rtu.c,
\* lines 501-508; can_bus.c, lines 356-362).
SlotStable ==
    raced = 0 =>
        /\ pc = "got" => queue[local] = taken
        /\ pc = "popping" => want # <<>> /\ queue[local] = want[1]
        /\ pc = "peeked" => want # <<>> /\ x = want[1]

\* The k-th element lies k slots behind front.
Elements ==
    /\ Len(want) = Count
    /\ \A k \in 1..Count : want[k] = ElementAt(SlotOf(k))

\* What the low context has checked, loaded or read is still true.
LowSound ==
    /\ pc \in {"checked", "loaded"} => ~Full
    /\ pc = "loaded" => local = Succ(rear)
    /\ pc = "advanced" => local = rear /\ ~Empty
    /\ pc \in {"popping", "peeked"} => local = Succ(front) /\ ~Empty
    /\ pc = "peeked" => x = queue[local]
    /\ pc = "got" => local = front /\ queue[front] = taken
    /\ pc = "clear_front" => rear = 0
    /\ pc = "clear_rear" => front = 0

\* The inductive strengthening of QueueIntact and SlotStable, true until the
\* first race (logic_ctrl.c, lines 63-79).
RingInv == raced = 0 => Elements /\ LowSound

\* The ring implements the bounded FIFO, step by step until the first race.
\* Where the low context only takes and nothing clears, none is possible
\* (logic_ctrl.c, lines 50-80; fun.c, lines 14-33; can_bus.c, lines 24-34).
Fifo == INSTANCE BoundedFifo WITH items <- Contents, Capacity <- maxSize - 1
FifoStep == raced' = 1 \/ [Fifo!Next]_<<Contents, taken>>
FifoUntilRace == Fifo!Init /\ [][FifoStep]_vars
=============================================================================
