----------------------------- MODULE CanSegment -----------------------------
(***************************************************************************)
(* Segmentation and reassembly of CAN messages (can_bus.c, 129-268).  A    *)
(* message longer than one frame is sent as a FIRST, MIDDLE and FINAL      *)
(* frames with consecutive numbers.  A station has ONE receive buffer and  *)
(* one set of segment counters for all senders and all kinds of messages;  *)
(* neither the sender nor the function of a segment is compared with those *)
(* of the segments before it.                                              *)
(*                                                                         *)
(* Lengths are in bytes, as in the code.  The contents are kept per frame: *)
(* b0 is the first byte of a frame (for the first frame of a long message  *)
(* the low byte of its length, for a start command the gear), cmd the      *)
(* third, tag says whose parameters or status the rest comes from, at is   *)
(* its place in the message that was sent.                                 *)
(***************************************************************************)
EXTENDS Integers, Sequences

CONSTANTS
    PACK,       \* CAN_PACK_DATA_LEN, data bytes of a frame
    RX_SIZE,    \* CAN_RX_BUFF_SIZE
    Tags,       \* origins of parameters and status words
    Ids         \* values of the src_id field

ASSUME SegmentAssumption ==
    /\ PACK \in Nat /\ PACK >= 3          \* a read request fits one frame
    /\ RX_SIZE \in Nat /\ RX_SIZE >= PACK
    /\ Ids \subseteq 0..255

\* seg_polo (can_bus.h, 18-24).
NONE == 0
FIRST == 1
MIDDLE == 2
FINAL == 3

\* func_id (can_bus.h, 7-16); BOOT_MODE is not used by the application.
PARA_DATA == 1
START_CMD == 2
MODULE_STATUS == 3
RESET_CMD == 4
FUNC_SELECT_CMD == 5
READ_MODULE_STATUS == 6

Slots == 0..(RX_SIZE \div PACK)
Chunk == [b0 : 0..255, cmd : 0..255, tag : Tags, at : 0..255]
Frame == [polo : NONE..FINAL, num : 0..255, func : 0..15, id : Ids,
          dlc : 0..PACK, data : Chunk]

\* can_bus_send_one_frame: the identifier decides who wins the bus, the lowest
\* first.  dst_id is not put into it.
ExtId(f) == f.id + 256 * f.func + 4096 * f.num + 1048576 * f.polo

-----------------------------------------------------------------------------
\* can_bus_send_msg: the frames of a message of len bytes.  b0 and cmd are the
\* bytes 0 and 2 of the buffer, tags[i] says what its i-th part holds.
FrameCount(len) == IF len <= PACK THEN 1 ELSE (len + PACK - 1) \div PACK

Polo(i, n) == IF n = 1 THEN NONE
              ELSE IF i = 0 THEN FIRST
              ELSE IF i = n - 1 THEN FINAL ELSE MIDDLE

Segments(func, id, len, b0, cmd, tags) ==
    LET n == FrameCount(len) IN
    [k \in 1..n |->
        [polo |-> Polo(k - 1, n), num |-> k - 1, func |-> func, id |-> id,
         dlc |-> IF k < n THEN PACK ELSE len - PACK * (n - 1),
         data |-> [b0 |-> IF k = 1 THEN b0 ELSE 0,
                   cmd |-> IF k = 1 THEN cmd ELSE 0,
                   tag |-> tags[k - 1], at |-> k - 1]]]

-----------------------------------------------------------------------------
\* The state of reassembly: can_recv_buff, g_SegPolo, g_SegNum, g_SegBytes and
\* can_recv_len.
Assembly == [buff : [Slots -> Chunk], polo : {NONE, FIRST}, num : 0..255,
             bytes : 0..RX_SIZE, len : 0..RX_SIZE]

\* memcpy(can_recv_buff + off, Data, DLC).  A single frame of one byte replaces
\* only the first byte, one without data nothing; the last frame of a long
\* message, however short, is all there is of its part.
CopyTo(buff, off, f) ==
    LET i == off \div PACK IN
    CASE f.dlc = 0             -> buff
      [] f.dlc = 1 /\ off = 0 -> [buff EXCEPT ![i].b0 = f.data.b0]
      [] OTHER                 -> [buff EXCEPT ![i] = f.data]

\* The condition on MIDDLE and FINAL frames; g_SegNum + 1 is computed as an
\* int, so that nothing follows segment 255.
Fits(a, f) ==
    /\ a.polo = FIRST
    /\ f.num = a.num + 1
    /\ a.bytes + f.dlc <= RX_SIZE

ReceiveNone(a, f) == [a EXCEPT !.buff = CopyTo(a.buff, 0, f), !.len = f.dlc]

ReceiveFirstOver(a, f) == [a EXCEPT !.buff = CopyTo(a.buff, 0, f), !.polo = FIRST,
                                    !.num = f.num]

ReceiveFirstOnce(a, f) ==
    IF a.polo = FIRST THEN a
    ELSE [a EXCEPT !.buff = CopyTo(a.buff, 0, f), !.polo = FIRST,
                   !.num = f.num, !.bytes = f.dlc]

ReceiveFirst(a, f) == [a EXCEPT !.buff = CopyTo(a.buff, 0, f), !.polo = FIRST,
                                !.num = f.num, !.bytes = f.dlc]

ReceiveMiddle(a, f) == [a EXCEPT !.buff = CopyTo(a.buff, a.bytes, f),
                                 !.num = a.num + 1, !.bytes = a.bytes + f.dlc]

ReceiveFinal(a, f) == [a EXCEPT !.buff = CopyTo(a.buff, a.bytes, f),
                                !.len = a.bytes + f.dlc,
                                !.polo = NONE, !.num = 0, !.bytes = 0]

\* can_bus_frame_receive up to the dispatch.  A segment that does not fit is
\* ignored, and what has been collected is kept.
Receive(a, f) ==
    CASE f.polo = NONE                 -> ReceiveNone(a, f)
      [] f.polo = FIRST                -> ReceiveFirst(a, f)
      [] f.polo = MIDDLE /\ Fits(a, f) -> ReceiveMiddle(a, f)
      [] f.polo = FINAL /\ Fits(a, f)  -> ReceiveFinal(a, f)
      [] OTHER                         -> a

\* recv_finish_flag: the buffer holds a message to dispatch.
Finished(a, f) == f.polo = NONE \/ (f.polo = FINAL /\ Fits(a, f))

\* The buffer before anything has been received; it is never cleared.
NoChunk(nil) == [b0 |-> 0, cmd |-> 0, tag |-> nil, at |-> 0]
=============================================================================
