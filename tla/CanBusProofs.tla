---------------------------- MODULE CanBusProofs ----------------------------
(***************************************************************************)
(* Proofs about CanSegment and CanBus, for every number of stations, all   *)
(* lengths of messages and sizes of queues, and any number of commands,    *)
(* lost frames and errors on the wire.                                     *)
(***************************************************************************)
EXTENDS CanBus, FiniteSetTheorems, TLAPS

-----------------------------------------------------------------------------
(* Arithmetic.                                                             *)

LEMMA DivFacts ==
    ASSUME NEW a \in Nat, NEW p \in Nat, p > 0
    PROVE  /\ a \div p \in Nat
           /\ p * (a \div p) <= a /\ a < p * (a \div p) + p
  OBVIOUS

LEMMA DivExact ==
    ASSUME NEW p \in Nat, p > 0, NEW k \in Nat
    PROVE  (p * k) \div p = k
  OBVIOUS

LEMMA TimesOrder ==
    ASSUME NEW p \in Nat, p > 0, NEW x \in Int, NEW y \in Int, p * x < p * y
    PROVE  x < y
  OBVIOUS

LEMMA TimesFacts ==
    ASSUME NEW p \in Nat, p > 0, NEW x \in Nat
    PROVE  /\ p * x \in Nat /\ x <= p * x
           /\ p * (x + 1) = p * x + p /\ p * (x - 1) = p * x - p
  OBVIOUS

\* The place of byte off of the buffer is one of its parts.
LEMMA SlotInside ==
    ASSUME NEW k \in Nat, PACK * k <= RX_SIZE
    PROVE  k \in Slots
<1>. DEFINE q == RX_SIZE \div PACK
<1>1. PACK \in Nat /\ PACK > 0 /\ RX_SIZE \in Nat
  BY SegmentAssumption
<1>2. q \in Nat /\ RX_SIZE < PACK * q + PACK
  BY <1>1, DivFacts
<1>3. PACK * k < PACK * (q + 1)
  BY <1>1, <1>2, TimesFacts
<1>4. k < q + 1
  BY <1>1, <1>2, <1>3, TimesOrder
<1>. QED  BY <1>2, <1>4 DEF Slots

-----------------------------------------------------------------------------
(* Segments.                                                               *)

\* The number of frames of a message: enough for it, and none without data but
\* the frame of an empty message.
LEMMA FrameCountFacts ==
    ASSUME NEW len \in 0..255
    PROVE  /\ FrameCount(len) \in 1..256
           /\ PACK * (FrameCount(len) - 1) <= len /\ len <= PACK * FrameCount(len)
           /\ len > PACK => FrameCount(len) > 1
           /\ len <= PACK => FrameCount(len) = 1
<1>1. PACK \in Nat /\ PACK > 0
  BY SegmentAssumption
<1>2. CASE len <= PACK
  BY <1>1, <1>2 DEF FrameCount
<1>3. CASE len > PACK
  <2>. DEFINE n == (len + PACK - 1) \div PACK
  <2>1. len + PACK - 1 \in Nat
    BY <1>1
  <2>2. n \in Nat /\ PACK * n <= len + PACK - 1 /\ len + PACK - 1 < PACK * n + PACK
    BY <1>1, <2>1, DivFacts
  <2>3. FrameCount(len) = n
    BY <1>3, <1>1 DEF FrameCount
  <2>. HIDE DEF n
  <2>4. PACK * n \in Nat /\ PACK * (n - 1) = PACK * n - PACK /\ PACK * 1 = PACK
    BY <1>1, <2>2, TimesFacts
  <2>5. PACK * 1 < PACK * n
    BY <1>1, <1>3, <2>2, <2>4
  <2>6. n > 1
    BY <1>1, <2>2, <2>5, TimesOrder
  <2>7. n - 1 \in Nat /\ n - 1 <= PACK * (n - 1)
    BY <1>1, <2>2, <2>6, TimesFacts
  <2>8. PACK * (n - 1) <= len /\ len <= PACK * n
    BY <1>1, <2>2, <2>4
  <2>9. n \in 1..256
    BY <1>1, <2>2, <2>6, <2>7, <2>8
  <2>10. ~(len <= PACK)
    BY <1>1, <1>3
  <2>. QED  BY <2>3, <2>6, <2>8, <2>9, <2>10
<1>. QED  BY <1>1, <1>2, <1>3

\* A frame as can_bus_send_msg makes it: it knows its place, only the frames
\* that begin a message have the number 0, only the last may not be full.
Wellformed(f) ==
    /\ f.data.at = f.num
    /\ f.polo \in {NONE, FIRST} => f.num = 0
    /\ f.polo \in {FIRST, MIDDLE} => f.dlc = PACK

\* The frames of a message of len bytes; when one frame is enough, it carries the
\* first byte.
FramesOf(fs, func, len, b0) ==
    /\ fs \in Seq(Frame) /\ Len(fs) = FrameCount(len)
    /\ \A k \in 1..Len(fs) : Wellformed(fs[k]) /\ fs[k].func = func
    /\ len <= PACK => fs[1].polo = NONE /\ fs[1].dlc = len /\ fs[1].data.b0 = b0

LEMMA SegmentsFacts ==
    ASSUME NEW func \in 0..15, NEW id \in Ids, NEW len \in 0..255,
           NEW b0 \in 0..255, NEW cmd \in 0..255, NEW tags,
           \A i \in 0..(FrameCount(len) - 1) : tags[i] \in Tags
    PROVE  FramesOf(Segments(func, id, len, b0, cmd, tags), func, len, b0)
<1>. DEFINE n == FrameCount(len)
            fs == Segments(func, id, len, b0, cmd, tags)
            dlc(k) == IF k < n THEN PACK ELSE len - PACK * (n - 1)
            data(k) == [b0 |-> IF k = 1 THEN b0 ELSE 0, cmd |-> IF k = 1 THEN cmd ELSE 0,
                        tag |-> tags[k - 1], at |-> k - 1]
            frame(k) == [polo |-> Polo(k - 1, n), num |-> k - 1, func |-> func, id |-> id,
                         dlc |-> dlc(k), data |-> data(k)]
<1>0. /\ n \in 1..256 /\ (len <= PACK => n = 1)
      /\ PACK * (n - 1) <= len /\ len <= PACK * n
  BY ONLY FrameCountFacts, len \in 0..255
<1>1. /\ PACK \in Nat /\ PACK > 0 /\ n \in 1..256
      /\ PACK * (n - 1) <= len /\ len <= PACK * n /\ (len <= PACK => n = 1)
  BY <1>0, SegmentAssumption
<1>2. PACK * (n - 1) = PACK * n - PACK /\ PACK * n \in Nat
  BY <1>1, TimesFacts
<1>3. fs = [k \in 1..n |-> frame(k)]
  BY DEF Segments
<1>. HIDE DEF n, fs
<1>4. ASSUME NEW k \in 1..n
      PROVE  frame(k) \in Frame /\ Wellformed(frame(k)) /\ frame(k).func = func
  <2>1. k - 1 \in 0..255 /\ k - 1 \in 0..(n - 1)
    BY <1>1
  <2>2. dlc(k) \in 0..PACK /\ (k < n => dlc(k) = PACK)
    BY <1>1, <1>2
  <2>3. data(k) \in Chunk /\ data(k).at = k - 1
    BY <2>1 DEF Chunk, n
  <2>4. /\ Polo(k - 1, n) \in NONE..FINAL
        /\ Polo(k - 1, n) \in {NONE, FIRST} => k = 1
        /\ Polo(k - 1, n) \in {FIRST, MIDDLE} => k < n
    BY <1>1 DEF Polo, NONE, FIRST, MIDDLE, FINAL
  <2>. HIDE DEF dlc, data
  <2>5. frame(k) \in Frame
    BY <2>1, <2>2, <2>3, <2>4 DEF Frame
  <2>. QED  BY <2>2, <2>3, <2>4, <2>5 DEF Wellformed
<1>5. fs \in Seq(Frame) /\ Len(fs) = n
  <2>. HIDE DEF frame
  <2>1. \A k \in 1..n : frame(k) \in Frame
    BY <1>4
  <2>. QED  BY <1>1, <1>3, <2>1
<1>6. \A k \in 1..n : Wellformed(fs[k]) /\ fs[k].func = func
  <2>. HIDE DEF frame
  <2>. QED  BY <1>3, <1>4
<1>7. ASSUME len <= PACK
      PROVE  fs[1].polo = NONE /\ fs[1].dlc = len /\ fs[1].data.b0 = b0
  <2>1. n = 1 /\ fs[1] = frame(1)
    BY <1>1, <1>3, <1>7
  <2>2. dlc(1) = len
    BY <1>1, <2>1
  <2>3. Polo(0, n) = NONE
    BY <2>1 DEF Polo
  <2>. QED  BY <2>1, <2>2, <2>3
<1>. QED  BY <1>5, <1>6, <1>7 DEF n, fs, FramesOf
-----------------------------------------------------------------------------
(* Reassembly.                                                             *)

\* Copying a frame into the buffer changes one part of it.
LEMMA CopyFacts ==
    ASSUME NEW buff \in [Slots -> Chunk], NEW f \in Frame, NEW off \in Nat
    PROVE  /\ CopyTo(buff, off, f) \in [Slots -> Chunk]
           /\ \A i \in Slots : i # off \div PACK => CopyTo(buff, off, f)[i] = buff[i]
           /\ \A i \in Slots : i = off \div PACK =>
                 /\ CopyTo(buff, off, f)[i].at \in {buff[i].at, f.data.at}
                 /\ f.dlc > 1 => CopyTo(buff, off, f)[i] = f.data
                 /\ f.dlc > 0 => CopyTo(buff, off, f)[i].b0 = f.data.b0
<1>. DEFINE i == off \div PACK
<1>1. f.dlc \in Nat /\ f.data \in Chunk
  BY SegmentAssumption DEF Frame
<1>2. CASE f.dlc = 0
  BY <1>1, <1>2 DEF CopyTo
<1>3. CASE f.dlc = 1 /\ off = 0
  <2>1. CopyTo(buff, off, f) = [buff EXCEPT ![i].b0 = f.data.b0]
    BY <1>1, <1>3 DEF CopyTo
  <2>2. \A k \in Slots : [buff[k] EXCEPT !.b0 = f.data.b0] \in Chunk
    BY <1>1 DEF Chunk
  <2>3. \A k \in Slots : [buff[k] EXCEPT !.b0 = f.data.b0].at = buff[k].at
    BY DEF Chunk
  <2>4. \A k \in Slots : [buff[k] EXCEPT !.b0 = f.data.b0].b0 = f.data.b0
    BY DEF Chunk
  <2>5. \A k \in Slots : CopyTo(buff, off, f)[k] =
                            IF k = i THEN [buff[k] EXCEPT !.b0 = f.data.b0] ELSE buff[k]
    BY <2>1
  <2>6. CopyTo(buff, off, f) \in [Slots -> Chunk]
    BY <2>1, <2>2
  <2>. HIDE DEF i
  <2>7. \A k \in Slots : k # i => CopyTo(buff, off, f)[k] = buff[k]
    BY <2>5
  <2>8. \A k \in Slots : k = i => /\ CopyTo(buff, off, f)[k].at = buff[k].at
                                  /\ CopyTo(buff, off, f)[k].b0 = f.data.b0
    BY <2>3, <2>4, <2>5
  <2>. QED  BY <1>3, <2>6, <2>7, <2>8 DEF i
<1>4. CASE f.dlc > 1 \/ (f.dlc = 1 /\ off # 0)
  <2>1. CopyTo(buff, off, f) = [buff EXCEPT ![i] = f.data]
    BY <1>1, <1>4 DEF CopyTo
  <2>. HIDE DEF i
  <2>2. /\ CopyTo(buff, off, f) \in [Slots -> Chunk]
        /\ \A k \in Slots : k # i => CopyTo(buff, off, f)[k] = buff[k]
        /\ \A k \in Slots : k = i => CopyTo(buff, off, f)[k] = f.data
    BY <1>1, <2>1
  <2>3. \A k \in Slots : k = i => /\ CopyTo(buff, off, f)[k].at = f.data.at
                                  /\ CopyTo(buff, off, f)[k].b0 = f.data.b0
    BY <2>2
  <2>4. \A k \in Slots : k = i => CopyTo(buff, off, f)[k].at \in {buff[k].at, f.data.at}
    BY <2>3
  <2>. QED  BY ONLY <2>2, <2>3, <2>4, Zenon DEF i
<1>5. f.dlc = 0 \/ (f.dlc = 1 /\ off = 0) \/ (f.dlc > 1 \/ (f.dlc = 1 /\ off # 0))
  BY <1>1
<1>. QED  BY ONLY <1>2, <1>3, <1>4, <1>5, Zenon

\* The parts of an assembly.
LEMMA AssemblyFields ==
    ASSUME NEW a \in Assembly
    PROVE  /\ a.buff \in [Slots -> Chunk] /\ a.polo \in {NONE, FIRST} /\ a.num \in 0..255
           /\ a.bytes \in 0..RX_SIZE /\ a.len \in 0..RX_SIZE
           /\ a.num \in Nat /\ a.bytes \in Nat /\ a.len \in Nat
  BY SegmentAssumption DEF Assembly

LEMMA FrameFields ==
    ASSUME NEW f \in Frame
    PROVE  /\ f.polo \in NONE..FINAL /\ f.num \in 0..255 /\ f.func \in 0..15 /\ f.id \in Ids
           /\ f.dlc \in 0..PACK /\ f.dlc \in 0..RX_SIZE /\ f.dlc \in Nat /\ f.data \in Chunk
  BY SegmentAssumption DEF Frame

\* The five ways of receiving a frame.
LEMMA ReceiveCases ==
    ASSUME NEW a, NEW f
    PROVE  /\ f.polo = NONE => Receive(a, f) = ReceiveNone(a, f)
           /\ f.polo = FIRST => Receive(a, f) = ReceiveFirst(a, f)
           /\ f.polo = MIDDLE /\ Fits(a, f) => Receive(a, f) = ReceiveMiddle(a, f)
           /\ f.polo = FINAL /\ Fits(a, f) => Receive(a, f) = ReceiveFinal(a, f)
           /\ f.polo \notin {NONE, FIRST} /\ ~(f.polo \in {MIDDLE, FINAL} /\ Fits(a, f))
                 => Receive(a, f) = a
<1>. USE DEF NONE, FIRST, MIDDLE, FINAL
<1>1. f.polo = NONE => Receive(a, f) = ReceiveNone(a, f)
  BY DEF Receive
<1>2. f.polo = FIRST => Receive(a, f) = ReceiveFirst(a, f)
  BY DEF Receive
<1>3. f.polo = MIDDLE /\ Fits(a, f) => Receive(a, f) = ReceiveMiddle(a, f)
  BY DEF Receive
<1>4. f.polo = FINAL /\ Fits(a, f) => Receive(a, f) = ReceiveFinal(a, f)
  BY DEF Receive
<1>5. f.polo \notin {NONE, FIRST} /\ ~(f.polo \in {MIDDLE, FINAL} /\ Fits(a, f))
         => Receive(a, f) = a
  BY DEF Receive
<1>. QED  BY <1>1, <1>2, <1>3, <1>4, <1>5

\* Whatever frame arrives, counters and lengths stay in their ranges.
LEMMA ReceiveType ==
    ASSUME NEW a \in Assembly, NEW f \in Frame
    PROVE  Receive(a, f) \in Assembly
<1>0. /\ a.buff \in [Slots -> Chunk] /\ a.polo \in {NONE, FIRST} /\ a.num \in 0..255
      /\ a.bytes \in 0..RX_SIZE /\ a.len \in 0..RX_SIZE /\ a.bytes \in Nat
      /\ f.num \in 0..255 /\ f.dlc \in 0..RX_SIZE /\ f.dlc \in Nat /\ RX_SIZE \in Nat
  BY AssemblyFields, FrameFields, SegmentAssumption
<1>1. CopyTo(a.buff, 0, f) \in [Slots -> Chunk] /\ CopyTo(a.buff, a.bytes, f) \in [Slots -> Chunk]
  BY <1>0, CopyFacts
<1>. DEFINE b == CopyTo(a.buff, 0, f)
            c == CopyTo(a.buff, a.bytes, f)
<1>a. b \in [Slots -> Chunk] /\ c \in [Slots -> Chunk]
  BY <1>1
<1>2. CASE f.polo = NONE
  <2>1. Receive(a, f) = [a EXCEPT !.buff = b, !.len = f.dlc]
    BY <1>2, ReceiveCases DEF ReceiveNone
  <2>. DEFINE l == f.dlc
  <2>2. l \in 0..RX_SIZE
    BY <1>0
  <2>. HIDE DEF b, c, l
  <2>3. [a EXCEPT !.buff = b, !.len = l] \in Assembly
    BY ONLY a \in Assembly, <1>a, <2>2 DEF Assembly
  <2>. QED  BY <2>1, <2>3 DEF l
<1>3. CASE f.polo = FIRST
  <2>1. Receive(a, f) = [a EXCEPT !.buff = b, !.polo = FIRST, !.num = f.num, !.bytes = f.dlc]
    BY <1>3, ReceiveCases DEF ReceiveFirst
  <2>. DEFINE l == f.dlc
              n == f.num
              p == FIRST
  <2>2. l \in 0..RX_SIZE /\ n \in 0..255 /\ p \in {NONE, FIRST}
    BY <1>0
  <2>. HIDE DEF b, c, l, n, p
  <2>3. [a EXCEPT !.buff = b, !.polo = p, !.num = n, !.bytes = l] \in Assembly
    BY ONLY a \in Assembly, <1>a, <2>2 DEF Assembly
  <2>. QED  BY <2>1, <2>3 DEF l, n, p
<1>4. CASE f.polo = MIDDLE /\ Fits(a, f)
  <2>1. Receive(a, f) = [a EXCEPT !.buff = c, !.num = a.num + 1, !.bytes = a.bytes + f.dlc]
    BY <1>4, ReceiveCases DEF ReceiveMiddle
  <2>2. a.num + 1 \in 0..255 /\ a.bytes + f.dlc \in 0..RX_SIZE
    BY <1>0, <1>4 DEF Fits
  <2>. DEFINE l == a.bytes + f.dlc
              n == a.num + 1
  <2>. HIDE DEF b, c, l, n
  <2>3. [a EXCEPT !.buff = c, !.num = n, !.bytes = l] \in Assembly
    <3>1. l \in 0..RX_SIZE /\ n \in 0..255
      BY <2>2 DEF l, n
    <3>. QED  BY ONLY a \in Assembly, <1>a, <3>1 DEF Assembly
  <2>. QED  BY <2>1, <2>3 DEF l, n
<1>5. CASE f.polo = FINAL /\ Fits(a, f)
  <2>1. Receive(a, f) = [a EXCEPT !.buff = c, !.len = a.bytes + f.dlc,
                                  !.polo = NONE, !.num = 0, !.bytes = 0]
    BY <1>5, ReceiveCases DEF ReceiveFinal
  <2>. DEFINE l == a.bytes + f.dlc
              p == NONE
              z == 0
  <2>2. l \in 0..RX_SIZE /\ z \in 0..RX_SIZE /\ z \in 0..255 /\ p \in {NONE, FIRST}
    BY <1>0, <1>5 DEF Fits
  <2>3. Receive(a, f) = [a EXCEPT !.buff = c, !.len = l, !.polo = p, !.num = z, !.bytes = z]
    BY <2>1
  <2>. HIDE DEF b, c, l, p, z
  <2>4. [a EXCEPT !.buff = c, !.len = l, !.polo = p, !.num = z, !.bytes = z] \in Assembly
    BY ONLY a \in Assembly, <1>a, <2>2 DEF Assembly
  <2>. QED  BY <2>3, <2>4
<1>6. CASE f.polo \notin {NONE, FIRST} /\ ~(f.polo \in {MIDDLE, FINAL} /\ Fits(a, f))
  BY <1>6, ReceiveCases
<1>. QED  BY <1>2, <1>3, <1>4, <1>5, <1>6

\* What has been collected is gapless and in place.
Sound(a) ==
    a.polo = FIRST =>
        /\ a.bytes = PACK * (a.num + 1)
        /\ a.bytes <= RX_SIZE
        /\ \A i \in 0..a.num : a.buff[i].at = i

\* Receiving a well-formed frame keeps it so, whatever was collected before.
LEMMA ReceiveSound ==
    ASSUME NEW a \in Assembly, NEW f \in Frame, Wellformed(f), Sound(a)
    PROVE  Sound(Receive(a, f))
<1>0. /\ a.buff \in [Slots -> Chunk] /\ a.polo \in {NONE, FIRST} /\ a.num \in Nat
      /\ a.bytes \in Nat /\ a.len \in Nat
      /\ f.num \in Nat /\ f.dlc \in Nat /\ RX_SIZE \in Nat /\ PACK \in Nat /\ PACK > 1
      /\ PACK <= RX_SIZE
  BY AssemblyFields, FrameFields, SegmentAssumption
<1>a. 0 \in Slots /\ 0 \div PACK = 0 /\ PACK * (0 + 1) = PACK
  <2>1. PACK * 0 = 0 /\ PACK * (0 + 1) = PACK
    BY <1>0
  <2>2. 0 \in Slots
    BY <1>0, <2>1, SlotInside
  <2>3. (PACK * 0) \div PACK = 0
    BY <1>0, DivExact
  <2>. QED  BY <2>1, <2>2, <2>3
<1>1. ASSUME a.polo = FIRST
      PROVE  \A i \in 0..a.num : i \in Slots
  <2>. SUFFICES ASSUME NEW i \in 0..a.num PROVE i \in Slots
    OBVIOUS
  <2>1. PACK * i <= PACK * (a.num + 1)
    BY <1>0
  <2>2. PACK * i <= RX_SIZE
    BY <1>0, <1>1, <2>1 DEF Sound
  <2>. QED  BY <2>2, SlotInside
<1>2. CASE f.polo = NONE
  <2>1. Receive(a, f) = [a EXCEPT !.buff = CopyTo(a.buff, 0, f), !.len = f.dlc]
    BY <1>2, ReceiveCases DEF ReceiveNone
  <2>2. /\ Receive(a, f).buff = CopyTo(a.buff, 0, f) /\ Receive(a, f).polo = a.polo
        /\ Receive(a, f).num = a.num /\ Receive(a, f).bytes = a.bytes
    BY ONLY <2>1, a \in Assembly DEF Assembly
  <2>3. ASSUME a.polo = FIRST, NEW i \in 0..a.num
        PROVE  CopyTo(a.buff, 0, f)[i].at = i
    <3>1. i \in Slots /\ a.buff[i].at = i
      BY <1>1, <2>3 DEF Sound
    <3>2. f.data.at = 0
      BY <1>2 DEF Wellformed
    <3>3. CASE i = 0
      BY <1>0, <1>a, <3>1, <3>2, <3>3, CopyFacts
    <3>4. CASE i # 0
      BY <1>0, <1>a, <3>1, <3>4, CopyFacts
    <3>. QED  BY <3>3, <3>4
  <2>. QED  BY <2>2, <2>3 DEF Sound
<1>3. CASE f.polo = FIRST
  <2>1. Receive(a, f) = [a EXCEPT !.buff = CopyTo(a.buff, 0, f), !.polo = FIRST,
                                  !.num = f.num, !.bytes = f.dlc]
    BY <1>3, ReceiveCases DEF ReceiveFirst
  <2>2. /\ Receive(a, f).buff = CopyTo(a.buff, 0, f)
        /\ Receive(a, f).num = 0 /\ Receive(a, f).bytes = PACK
    <3>1. f.num = 0 /\ f.dlc = PACK
      BY <1>3 DEF Wellformed
    <3>. QED  BY ONLY <2>1, <3>1, a \in Assembly DEF Assembly
  <2>3. CopyTo(a.buff, 0, f)[0].at = 0
    <3>1. f.dlc > 1 /\ f.data.at = 0
      BY <1>0, <1>3 DEF Wellformed
    <3>. QED  BY <1>0, <1>a, <3>1, CopyFacts
  <2>4. \A i \in 0..0 : i = 0
    OBVIOUS
  <2>. QED  BY <1>0, <1>a, <2>2, <2>3, <2>4 DEF Sound
<1>4. CASE f.polo = MIDDLE /\ Fits(a, f)
  <2>1. Receive(a, f) = [a EXCEPT !.buff = CopyTo(a.buff, a.bytes, f),
                                  !.num = a.num + 1, !.bytes = a.bytes + f.dlc]
    BY <1>4, ReceiveCases DEF ReceiveMiddle
  <2>2. /\ Receive(a, f).buff = CopyTo(a.buff, a.bytes, f)
        /\ Receive(a, f).num = a.num + 1 /\ Receive(a, f).bytes = a.bytes + f.dlc
    BY ONLY <2>1, a \in Assembly DEF Assembly
  <2>3. /\ a.polo = FIRST /\ f.num = a.num + 1 /\ a.bytes + f.dlc <= RX_SIZE
        /\ f.dlc = PACK /\ f.data.at = a.num + 1 /\ a.bytes = PACK * (a.num + 1)
    BY <1>4 DEF Fits, Wellformed, Sound
  <2>4. a.bytes \div PACK = a.num + 1
    BY <1>0, <2>3, DivExact
  <2>5. a.bytes + f.dlc = PACK * (a.num + 1 + 1)
    BY <1>0, <2>3, TimesFacts
  <2>6. PACK * (a.num + 1) <= RX_SIZE
    BY <2>3 DEF Sound
  <2>7. a.num + 1 \in Slots
    BY <1>0, <2>6, SlotInside
  <2>8. ASSUME NEW i \in 0..(a.num + 1)
        PROVE  CopyTo(a.buff, a.bytes, f)[i].at = i
    <3>1. CASE i = a.num + 1
      BY <1>0, <2>3, <2>4, <2>7, <3>1, CopyFacts
    <3>2. CASE i # a.num + 1
      <4>1. i \in 0..a.num
        BY <1>0, <3>2
      <4>2. i \in Slots /\ a.buff[i].at = i
        BY <1>1, <2>3, <4>1 DEF Sound
      <4>. QED  BY <1>0, <2>4, <3>2, <4>2, CopyFacts
    <3>. QED  BY <3>1, <3>2
  <2>. QED  BY <2>2, <2>3, <2>5, <2>8 DEF Sound
<1>5. CASE f.polo = FINAL /\ Fits(a, f)
  <2>1. Receive(a, f).polo = NONE
    <3>1. Receive(a, f) = [a EXCEPT !.buff = CopyTo(a.buff, a.bytes, f),
                                    !.len = a.bytes + f.dlc,
                                    !.polo = NONE, !.num = 0, !.bytes = 0]
      BY <1>5, ReceiveCases DEF ReceiveFinal
    <3>. QED  BY ONLY <3>1, a \in Assembly DEF Assembly
  <2>. QED  BY <2>1 DEF Sound, NONE, FIRST
<1>6. CASE f.polo \notin {NONE, FIRST} /\ ~(f.polo \in {MIDDLE, FINAL} /\ Fits(a, f))
  BY <1>6, ReceiveCases
<1>. QED  BY <1>2, <1>3, <1>4, <1>5, <1>6

-----------------------------------------------------------------------------
(* The frames the stations send.                                           *)

\* What station r may have in its queue and mailboxes: settings are single
\* frames of the host.
StationFrames(r) ==
    {f \in Frame : /\ Wellformed(f)
                   /\ f.func \in Settings => r = Host /\ f.polo = NONE /\ f.dlc = 1}

LEMMA Constants ==
    /\ PACK \in Nat /\ PACK >= 3 /\ RX_SIZE \in Nat /\ PACK <= RX_SIZE
    /\ Host \in Stations /\ Stations \subseteq Ids /\ Stations \subseteq 1..255
    /\ QUEUE_MAX \in Nat /\ QUEUE_MAX > 0 /\ Nil \in Tags
    /\ ParaLen \in 0..255 /\ ParaLen > PACK /\ ParaLen <= RX_SIZE
    /\ BeltNumber \in 0..255 /\ STATUS_LEN \in 0..255 /\ STATUS_LEN > PACK
  BY SegmentAssumption, CanAssumption, TagAssumption DEF Stations, STATUS_LEN

\* The parts of the parameters are parts of the receive buffer.
LEMMA ParaPartsInside == 0 \in ParaParts /\ ParaParts \subseteq Slots
<1>. DEFINE n == FrameCount(ParaLen)
<1>0. ParaLen \in 0..255
  BY Constants
<1>1. n \in 1..256 /\ PACK * (n - 1) <= ParaLen
  BY ONLY <1>0, FrameCountFacts
<1>2. ParaParts = 0..(n - 1)
  BY DEF ParaParts
<1>. HIDE DEF n
<1>3. ASSUME NEW i \in 0..(n - 1)
      PROVE  i \in Slots
  <2>1. PACK * i <= PACK * (n - 1)
    BY <1>1, Constants
  <2>2. PACK * i <= RX_SIZE
    BY <1>1, <2>1, Constants
  <2>. QED  BY <2>2, SlotInside
<1>. QED  BY <1>1, <1>2, <1>3

\* The frames of a message are frames of its sender.
LEMMA SegmentsSent ==
    ASSUME NEW r \in Stations, NEW func \in 0..15, NEW id \in Ids, NEW len \in 0..255,
           NEW b0 \in 0..255, NEW cmd \in 0..255, NEW tags,
           \A i \in 0..(FrameCount(len) - 1) : tags[i] \in Tags,
           func \in Settings => r = Host /\ len = 1
    PROVE  Segments(func, id, len, b0, cmd, tags) \in Seq(StationFrames(r))
<1>. DEFINE fs == Segments(func, id, len, b0, cmd, tags)
<1>0. FramesOf(fs, func, len, b0)
  <2>1. /\ func \in 0..15 /\ id \in Ids /\ len \in 0..255 /\ b0 \in 0..255 /\ cmd \in 0..255
        /\ \A i \in 0..(FrameCount(len) - 1) : tags[i] \in Tags
    OBVIOUS
  <2>. QED  BY ONLY <2>1, SegmentsFacts, Zenon
<1>. HIDE DEF fs
<1>1. /\ fs \in Seq(Frame) /\ Len(fs) = FrameCount(len)
      /\ \A k \in 1..Len(fs) : Wellformed(fs[k]) /\ fs[k].func = func
      /\ len <= PACK => fs[1].polo = NONE /\ fs[1].dlc = len
  BY ONLY <1>0 DEF FramesOf
<1>2. ASSUME func \in Settings
      PROVE  Len(fs) = 1 /\ fs[1].polo = NONE /\ fs[1].dlc = 1
  <2>1. len = 1 /\ len <= PACK
    BY <1>2, Constants
  <2>2. FrameCount(len) = 1
    BY ONLY <2>1, len \in 0..255, FrameCountFacts
  <2>. QED  BY ONLY <1>1, <2>1, <2>2
<1>3. ASSUME NEW k \in 1..Len(fs)
      PROVE  fs[k] \in StationFrames(r)
  <2>1. fs[k] \in Frame /\ Wellformed(fs[k]) /\ fs[k].func = func
    BY <1>1
  <2>2. func \in Settings => r = Host /\ fs[k].polo = NONE /\ fs[k].dlc = 1
    <3>1. ASSUME func \in Settings
          PROVE  fs[k].polo = NONE /\ fs[k].dlc = 1
      <4>1. Len(fs) = 1 /\ fs[1].polo = NONE /\ fs[1].dlc = 1
        BY <1>2, <3>1
      <4>2. k = 1
        BY <4>1
      <4>. QED  BY <4>1, <4>2
    <3>. QED  BY <3>1
  <2>. QED  BY <2>1, <2>2 DEF StationFrames
<1>4. fs \in Seq(StationFrames(r))
  BY <1>1, <1>3
<1>. QED  BY <1>4 DEF fs

\* Parameters, as they are written into a message.
LEMMA ParaTags ==
    ASSUME NEW p \in [ParaParts -> Tags]
    PROVE  \A i \in 0..(FrameCount(ParaLen) - 1) : p[i] \in Tags
  BY DEF ParaParts

LEMMA ShortTags ==
    ASSUME NEW len \in 0..255, len <= PACK, NEW t \in {NoTags} \cup [ParaParts -> Tags]
    PROVE  \A i \in 0..(FrameCount(len) - 1) : t[i] \in Tags
<1>1. FrameCount(len) = 1
  BY FrameCountFacts
<1>2. t[0] \in Tags
  BY Constants, ParaPartsInside DEF NoTags
<1>. QED  BY <1>1, <1>2

LEMMA FramesSent ==
    /\ \A g \in 0..255 : StartFrames(g) \in Seq(StationFrames(Host)) /\ Len(StartFrames(g)) = 1
    /\ \A n \in Ids : PollFrames(n) \in Seq(StationFrames(Host))
    /\ \A r \in Stations, cmd \in 0..255, p \in [ParaParts -> Tags] :
          ParaFrames(r, cmd, p) \in Seq(StationFrames(r))
<1>1. ASSUME NEW g \in 0..255
      PROVE  StartFrames(g) \in Seq(StationFrames(Host)) /\ Len(StartFrames(g)) = 1
  <2>1. START_CMD \in 0..15 /\ Host \in Ids /\ 0 \in 0..255 /\ 1 \in 0..255 /\ 1 <= PACK
    BY Constants DEF START_CMD
  <2>2. \A i \in 0..(FrameCount(1) - 1) : NoTags[i] \in Tags
    BY <2>1, ShortTags
  <2>3. FrameCount(1) = 1
    BY <2>1, FrameCountFacts
  <2>4. StartFrames(g) \in Seq(StationFrames(Host))
    <3>1. Host \in Ids /\ Host \in Stations
      BY Constants
    <3>2. START_CMD \in Settings => Host = Host /\ 1 = 1
      OBVIOUS
    <3>. QED
      BY ONLY g \in 0..255, <2>1, <2>2, <3>1, <3>2, SegmentsSent, Zenon DEF StartFrames
  <2>6. FramesOf(StartFrames(g), START_CMD, 1, g)
    BY ONLY g \in 0..255, <2>1, <2>2, SegmentsFacts, Zenon DEF StartFrames
  <2>5. Len(StartFrames(g)) = 1
    BY <2>3, <2>6 DEF FramesOf
  <2>. QED  BY <2>4, <2>5
<1>2. ASSUME NEW n \in Ids
      PROVE  PollFrames(n) \in Seq(StationFrames(Host))
  <2>1. /\ READ_MODULE_STATUS \in 0..15 /\ READ_MODULE_STATUS \notin Settings
        /\ 0 \in 0..255 /\ 0 <= PACK
    BY Constants DEF READ_MODULE_STATUS, Settings, START_CMD, FUNC_SELECT_CMD
  <2>2. \A i \in 0..(FrameCount(0) - 1) : NoTags[i] \in Tags
    BY <2>1, ShortTags
  <2>3. Host \in Stations
    BY Constants
  <2>4. READ_MODULE_STATUS \in Settings => Host = Host /\ 0 = 1
    BY <2>1
  <2>. QED
    BY ONLY n \in Ids, <2>1, <2>2, <2>3, <2>4, SegmentsSent, Zenon DEF PollFrames
<1>3. ASSUME NEW r \in Stations, NEW cmd \in 0..255, NEW p \in [ParaParts -> Tags]
      PROVE  ParaFrames(r, cmd, p) \in Seq(StationFrames(r))
  <2>1. PARA_DATA \in 0..15 /\ PARA_DATA \notin Settings /\ r \in Ids
    BY Constants DEF PARA_DATA, Settings, START_CMD, FUNC_SELECT_CMD
  <2>2. \A i \in 0..(FrameCount(ParaLen) - 1) : p[i] \in Tags
    BY ParaTags
  <2>3. ParaLen \in 0..255
    BY Constants
  <2>4. PARA_DATA \in Settings => r = Host /\ ParaLen = 1
    BY <2>1
  <2>. QED
    BY ONLY r \in Stations, cmd \in 0..255, <2>1, <2>2, <2>3, <2>4, SegmentsSent, Zenon
       DEF ParaFrames
<1>. QED  BY <1>1, <1>2, <1>3

\* Frames are added behind those that wait, as far as there is room.
LEMMA EnqueueFacts ==
    ASSUME NEW S, NEW q \in Seq(S), NEW fs \in Seq(S), Len(q) <= QUEUE_MAX
    PROVE  /\ Enqueue(q, fs) \in Seq(S)
           /\ Len(q) <= Len(Enqueue(q, fs)) /\ Len(Enqueue(q, fs)) <= QUEUE_MAX
           /\ \A k \in 1..Len(q) : Enqueue(q, fs)[k] = q[k]
           /\ \A k \in 1..Len(Enqueue(q, fs)) :
                 k > Len(q) => k - Len(q) \in 1..Len(fs) /\ Enqueue(q, fs)[k] = fs[k - Len(q)]
           /\ Len(q) + Len(fs) <= QUEUE_MAX => Len(Enqueue(q, fs)) = Len(q) + Len(fs)
<1>. DEFINE all == q \o fs
<1>0. QUEUE_MAX \in Nat /\ Len(q) \in Nat /\ Len(fs) \in Nat
  BY Constants
<1>1. /\ all \in Seq(S) /\ Len(all) = Len(q) + Len(fs)
      /\ \A k \in 1..Len(q) : all[k] = q[k]
      /\ \A k \in 1..Len(all) : k > Len(q) =>
            k - Len(q) \in 1..Len(fs) /\ all[k] = fs[k - Len(q)]
  OBVIOUS
<1>2. Enqueue(q, fs) = IF Len(all) <= QUEUE_MAX THEN all ELSE SubSeq(all, 1, QUEUE_MAX)
  BY DEF Enqueue
<1>. HIDE DEF all
<1>3. CASE Len(all) <= QUEUE_MAX
  <2>1. Enqueue(q, fs) = all
    BY <1>2, <1>3
  <2>. QED  BY ONLY <1>0, <1>1, <1>3, <2>1
<1>4. CASE ~(Len(all) <= QUEUE_MAX)
  <2>1. Enqueue(q, fs) = SubSeq(all, 1, QUEUE_MAX)
    BY <1>2, <1>4
  <2>2. QUEUE_MAX <= Len(all)
    BY <1>0, <1>1, <1>4
  <2>3. /\ SubSeq(all, 1, QUEUE_MAX) \in Seq(S) /\ Len(SubSeq(all, 1, QUEUE_MAX)) = QUEUE_MAX
        /\ \A k \in 1..QUEUE_MAX : SubSeq(all, 1, QUEUE_MAX)[k] = all[k]
    BY <1>0, <1>1, <2>2
  <2>. QED  BY ONLY <1>0, <1>1, <1>4, <2>1, <2>2, <2>3, Len(q) <= QUEUE_MAX
<1>. QED  BY <1>3, <1>4

-----------------------------------------------------------------------------
(* The invariant, by parts.                                                *)

\* What waits on a station is of its own making.
Queues(q) ==
    /\ q \in [Stations -> Seq(Frame)]
    /\ \A r \in Stations : q[r] \in Seq(StationFrames(r)) /\ Len(q[r]) <= QUEUE_MAX

Boxes(m) ==
    /\ m \in [Stations -> Seq(Frame)]
    /\ \A r \in Stations : m[r] \in Seq(StationFrames(r)) /\ Len(m[r]) <= MAILBOXES

\* The frame on the wire is in a mailbox.
WireInv ==
    /\ wire \in Stations \cup {Idle}
    /\ wire # Idle => mbox[wire] # <<>>

\* What is collected is sound.
RxInv ==
    /\ rx \in [Stations -> Assembly]
    /\ \A r \in Stations : Sound(rx[r])

DataInv ==
    /\ setting \in [Stations -> [Settings -> 0..255]]
    /\ user_paras_local \in [Stations -> [ParaParts -> Tags]]
    /\ user_paras_slave \in [Stations -> [ParaParts -> Tags]]
    /\ run \in [Stations -> {0, 1}]
    /\ link \in [Stations -> {0, 1}]
    /\ order \in [Settings -> 0..255]
    /\ halted \subseteq Stations

\* The places of the main loop between two statements that use the buffer.
Places == {"len", "fill", "call", "copy", "add"}

\* What the host's main loop is about to send: no data, one byte, a request of
\* three, or parameters; a button may turn any of them into one byte.  Frames are
\* counted only while they are queued.
Sendable(t) ==
    /\ t \in Todo
    /\ t.func \in Settings => t.len = 1
    /\ t.next < FrameCount(t.len)
    /\ t.at # "add" => t.next = 0
    /\ \/ t.len \in {0, 1, 3}
       \/ t.len = ParaLen /\ t.tags \in [ParaParts -> Tags]

TodoInv == todo # Idle => Sendable(todo)

Counters ==
    /\ index \in 1..LastStation
    /\ events \in 0..MaxEvents /\ faults \in 0..MaxFaults
    /\ alone \in BOOLEAN /\ uncut \in BOOLEAN /\ clean \in BOOLEAN

BusInv ==
    /\ Queues(canSendQueue) /\ Boxes(mbox) /\ WireInv /\ RxInv
    /\ DataInv /\ TodoInv /\ Counters

LEMMA BusInvType ==
    ASSUME BusInv
    PROVE  TypeOK /\ AssemblySound
<1>1. AssemblySound
  BY DEF BusInv, RxInv, AssemblySound, Sound
<1>2. 1..LastStation \subseteq Ids
  BY CanAssumption
<1>3. index \in Ids /\ todo \in Todo \cup {Idle}
  BY <1>2 DEF BusInv, Counters, TodoInv, Sendable
<1>. QED
  BY <1>1, <1>3 DEF BusInv, Queues, Boxes, WireInv, RxInv, DataInv, Counters, TypeOK

-----------------------------------------------------------------------------
(* What a station does with a frame.                                       *)

LEMMA FrameLists ==
    ASSUME NEW r \in Stations, NEW s \in Seq(StationFrames(r))
    PROVE  s \in Seq(Frame)
  BY DEF StationFrames

\* Adding frames to the queues.
LEMMA QueuesGrow ==
    ASSUME NEW q, Queues(q), NEW r \in Stations, NEW fs \in Seq(StationFrames(r))
    PROVE  /\ Enqueue(q[r], fs) \in Seq(StationFrames(r))
           /\ Enqueue(q[r], fs) \in Seq(Frame)
           /\ Len(Enqueue(q[r], fs)) <= QUEUE_MAX
<1>1. q[r] \in Seq(StationFrames(r)) /\ Len(q[r]) <= QUEUE_MAX
  BY DEF Queues
<1>. DEFINE S == StationFrames(r)
<1>. HIDE DEF S
<1>2. Enqueue(q[r], fs) \in Seq(S) /\ Len(Enqueue(q[r], fs)) <= QUEUE_MAX
  BY <1>1, EnqueueFacts DEF S
<1>. QED  BY <1>2, FrameLists DEF S

LEMMA HostEnqueues ==
    ASSUME NEW q, Queues(q), NEW fs \in Seq(StationFrames(Host))
    PROVE  Queues([q EXCEPT ![Host] = Enqueue(q[Host], fs)])
<1>. DEFINE e == Enqueue(q[Host], fs)
            d == [q EXCEPT ![Host] = e]
<1>1. Host \in Stations
  BY Constants
<1>2. /\ e \in Seq(StationFrames(Host)) /\ e \in Seq(Frame) /\ Len(e) <= QUEUE_MAX
  BY <1>1, QueuesGrow
<1>. HIDE DEF e
<1>3. Queues(d)
  BY <1>1, <1>2 DEF Queues
<1>. QED  BY <1>3 DEF e

\* Frames that set nothing.
Harmless(fs) == \A k \in 1..Len(fs) : fs[k].func \notin Settings

LEMMA SegmentsHarmless ==
    ASSUME NEW fs, NEW func, NEW len, NEW b0, FramesOf(fs, func, len, b0),
           func \notin Settings
    PROVE  Harmless(fs)
  BY DEF FramesOf, Harmless

LEMMA ParaFramesFacts ==
    ASSUME NEW r \in Stations, NEW cmd \in 0..255, NEW p \in [ParaParts -> Tags]
    PROVE  ParaFrames(r, cmd, p) \in Seq(StationFrames(r)) /\ Harmless(ParaFrames(r, cmd, p))
<1>1. PARA_DATA \in 0..15 /\ PARA_DATA \notin Settings /\ r \in Ids
  BY Constants DEF PARA_DATA, Settings, START_CMD, FUNC_SELECT_CMD
<1>2. \A i \in 0..(FrameCount(ParaLen) - 1) : p[i] \in Tags
  BY ParaTags
<1>3. FramesOf(ParaFrames(r, cmd, p), PARA_DATA, ParaLen, ParaLen)
  <2>1. ParaLen \in 0..255
    BY Constants
  <2>. QED
    BY ONLY cmd \in 0..255, <1>1, <1>2, <2>1, SegmentsFacts, Zenon DEF ParaFrames
<1>. QED  BY <1>1, <1>3, SegmentsHarmless, FramesSent

LEMMA StatusTags ==
    ASSUME NEW r \in Stations, NEW t,
           \A i \in 0..(FrameCount(STATUS_LEN) - 1) : t[i] \in Tags
    PROVE  LET fs == Segments(MODULE_STATUS, r, STATUS_LEN, STATUS_LEN, BeltNumber, t)
           IN  fs \in Seq(StationFrames(r)) /\ Harmless(fs)
<1>1. MODULE_STATUS \in 0..15 /\ MODULE_STATUS \notin Settings /\ r \in Ids
  BY Constants DEF MODULE_STATUS, Settings, START_CMD, FUNC_SELECT_CMD
<1>2. STATUS_LEN \in 0..255 /\ BeltNumber \in 0..255
  BY Constants
<1>. DEFINE fs == Segments(MODULE_STATUS, r, STATUS_LEN, STATUS_LEN, BeltNumber, t)
<1>3. FramesOf(fs, MODULE_STATUS, STATUS_LEN, STATUS_LEN)
  BY <1>1, <1>2, SegmentsFacts
<1>4. fs \in Seq(StationFrames(r))
  BY <1>1, <1>2, SegmentsSent
<1>. HIDE DEF fs
<1>5. Harmless(fs)
  BY <1>1, <1>3, SegmentsHarmless
<1>. QED  BY <1>4, <1>5 DEF fs

LEMMA StatusFramesFacts ==
    ASSUME NEW r \in Stations, run[r] \in {0, 1}
    PROVE  StatusFrames(r) \in Seq(StationFrames(r)) /\ Harmless(StatusFrames(r))
<1>. DEFINE t == [i \in 0..(FrameCount(STATUS_LEN) - 1) |-> Stat(run[r])]
<1>1. \A i \in 0..(FrameCount(STATUS_LEN) - 1) : t[i] \in Tags
  BY TagAssumption
<1>2. StatusFrames(r) = Segments(MODULE_STATUS, r, STATUS_LEN, STATUS_LEN, BeltNumber, t)
  BY DEF StatusFrames
<1>. HIDE DEF t
<1>. QED  BY <1>1, <1>2, StatusTags

\* Receiving keeps all types, and an answer sets nothing on the other stations.
LEMMA HandleFacts ==
    ASSUME BusInv, NEW r \in Stations, NEW f \in Frame, Wellformed(f)
    PROVE  /\ After(r, f) \in Assembly /\ Sound(After(r, f))
           /\ NewSetting(r, f) \in [Settings -> 0..255]
           /\ NewLocal(r, f) \in [ParaParts -> Tags]
           /\ NewSlave(r, f) \in [ParaParts -> Tags]
           /\ NewLink(r, f) \in {0, 1}
           /\ Answer(r, f) \in Seq(StationFrames(r)) /\ Harmless(Answer(r, f))
<1>. DEFINE a == After(r, f)
<1>1. rx[r] \in Assembly /\ Sound(rx[r])
  BY DEF BusInv, RxInv
<1>2. a \in Assembly /\ Sound(a)
  BY <1>1, ReceiveType, ReceiveSound DEF After
<1>. HIDE DEF a
<1>4. a.buff \in [Slots -> Chunk]
  BY <1>2, AssemblyFields
<1>5. /\ 0 \in Slots /\ ParaParts \subseteq Slots
      /\ \A i \in Slots : a.buff[i].b0 \in 0..255 /\ a.buff[i].tag \in Tags
  BY <1>4, ParaPartsInside DEF Chunk
<1>6. /\ setting[r] \in [Settings -> 0..255] /\ user_paras_local[r] \in [ParaParts -> Tags]
      /\ user_paras_slave[r] \in [ParaParts -> Tags] /\ run[r] \in {0, 1} /\ link[r] \in {0, 1}
  BY DEF BusInv, DataInv
<1>7. NewSetting(r, f) \in [Settings -> 0..255]
  <2>1. NewValue(f.func, a.buff[0].b0) \in 0..255
    BY <1>5 DEF NewValue
  <2>2. NewSetting(r, f) \in {setting[r], [setting[r] EXCEPT ![f.func] = NewValue(f.func, a.buff[0].b0)]}
    BY DEF NewSetting, a
  <2>. QED  BY <1>6, <2>1, <2>2
<1>8. Content(a) \in [ParaParts -> Tags]
  BY <1>5 DEF Content
<1>9. NewLocal(r, f) \in [ParaParts -> Tags] /\ NewSlave(r, f) \in [ParaParts -> Tags]
  BY <1>6, <1>8 DEF NewLocal, NewSlave, a
<1>10. NewLink(r, f) \in {0, 1}
  <2>1. a.buff[0].tag[3] \in {0, 1}
    BY <1>5, TagAssumption
  <2>2. NewLink(r, f) \in {link[r], a.buff[0].tag[3]}
    BY DEF NewLink, a
  <2>. QED  BY <1>6, <2>1, <2>2
<1>11. Answer(r, f) \in Seq(StationFrames(r)) /\ Harmless(Answer(r, f))
  <2>1. /\ READ_REPLY \in 0..255 /\ WRITE_REPLY \in 0..255
    BY DEF READ_REPLY, WRITE_REPLY
  <2>2. Answer(r, f) \in {ParaFrames(r, READ_REPLY, user_paras_local[r]),
                          ParaFrames(r, WRITE_REPLY, NewLocal(r, f)), StatusFrames(r), <<>>}
    BY DEF Answer
  <2>3. <<>> \in Seq(StationFrames(r)) /\ Harmless(<<>>)
    BY DEF Harmless
  <2>4. /\ ParaFrames(r, READ_REPLY, user_paras_local[r]) \in Seq(StationFrames(r))
        /\ Harmless(ParaFrames(r, READ_REPLY, user_paras_local[r]))
    BY <1>6, <2>1, ParaFramesFacts
  <2>5. /\ ParaFrames(r, WRITE_REPLY, NewLocal(r, f)) \in Seq(StationFrames(r))
        /\ Harmless(ParaFrames(r, WRITE_REPLY, NewLocal(r, f)))
    BY <1>9, <2>1, ParaFramesFacts
  <2>6. StatusFrames(r) \in Seq(StationFrames(r)) /\ Harmless(StatusFrames(r))
    BY <1>6, StatusFramesFacts
  <2>. QED  BY ONLY <2>2, <2>3, <2>4, <2>5, <2>6
<1>. QED  BY <1>2, <1>7, <1>9, <1>10, <1>11 DEF a

-----------------------------------------------------------------------------
(* Every step keeps the invariant.                                         *)

LEMMA InitInv == Init => BusInv
<1>. SUFFICES ASSUME Init PROVE BusInv
  OBVIOUS
<1>. USE DEF Init
<1>1. Queues(canSendQueue) /\ Boxes(mbox)
  BY Constants DEF Queues, Boxes, MAILBOXES
<1>2. WireInv
  BY DEF WireInv
<1>3. RxInv
  <2>1. NoChunk(Nil) \in Chunk
    BY TagAssumption DEF NoChunk, Chunk
  <2>2. [i \in Slots |-> NoChunk(Nil)] \in [Slots -> Chunk]
    BY <2>1
  <2>. DEFINE b == [i \in Slots |-> NoChunk(Nil)]
              e == [buff |-> b, polo |-> NONE, num |-> 0, bytes |-> 0, len |-> 0]
  <2>3. b \in [Slots -> Chunk]
    BY <2>2
  <2>4. rx = [r \in Stations |-> e]
    OBVIOUS
  <2>. HIDE DEF b
  <2>5. e \in Assembly
    BY <2>3, SegmentAssumption DEF Assembly
  <2>6. Sound(e)
    BY DEF Sound, NONE, FIRST
  <2>. QED  BY <2>4, <2>5, <2>6 DEF RxInv
<1>4. DataInv
  <2>1. \A r \in Stations : Para(r, 0) \in Tags
    BY TagAssumption
  <2>2. setting \in [Stations -> [Settings -> 0..255]]
    OBVIOUS
  <2>3. user_paras_local \in [Stations -> [ParaParts -> Tags]]
    BY <2>1
  <2>4. user_paras_slave \in [Stations -> [ParaParts -> Tags]]
    BY Constants
  <2>5. order \in [Settings -> 0..255] /\ halted \subseteq Stations
    OBVIOUS
  <2>. QED  BY <2>2, <2>3, <2>4, <2>5 DEF DataInv
<1>5. TodoInv
  BY DEF TodoInv
<1>6. Counters
  BY CanAssumption DEF Counters
<1>. QED  BY <1>1, <1>2, <1>3, <1>4, <1>5, <1>6 DEF BusInv

LEMMA AppendFacts ==
    ASSUME NEW S, NEW b \in Seq(S), NEW x \in S
    PROVE  /\ Append(b, x) \in Seq(S) /\ Len(Append(b, x)) = Len(b) + 1
           /\ Append(b, x) # <<>>
<1>1. Append(b, x) \in Seq(S) /\ Len(Append(b, x)) = Len(b) + 1
  OBVIOUS
<1>2. Len(b) \in Nat /\ Len(<<>>) = 0
  OBVIOUS
<1>3. Append(b, x) # <<>>
  <2>. SUFFICES ASSUME Append(b, x) = <<>> PROVE FALSE
    OBVIOUS
  <2>1. Len(b) + 1 = 0
    BY ONLY <1>1, <1>2, Append(b, x) = <<>>
  <2>. QED  BY ONLY <1>2, <2>1
<1>. QED  BY <1>1, <1>3

LEMMA LoadInv ==
    ASSUME BusInv, NEW s \in Stations, Load(s)
    PROVE  BusInv'
<1>1. /\ Queues(canSendQueue) /\ Boxes(mbox) /\ WireInv
  BY DEF BusInv
<1>2. /\ canSendQueue[s] \in Seq(StationFrames(s)) /\ canSendQueue[s] # <<>>
      /\ Len(canSendQueue[s]) <= QUEUE_MAX
      /\ mbox[s] \in Seq(StationFrames(s)) /\ Len(mbox[s]) < MAILBOXES
      /\ canSendQueue \in [Stations -> Seq(Frame)] /\ mbox \in [Stations -> Seq(Frame)]
  BY <1>1 DEF Queues, Boxes, Load
<1>. DEFINE t == Tail(canSendQueue[s])
            m == Append(mbox[s], Head(canSendQueue[s]))
<1>3. /\ t \in Seq(StationFrames(s)) /\ Len(t) <= QUEUE_MAX
      /\ m \in Seq(StationFrames(s)) /\ Len(m) <= MAILBOXES /\ m # <<>>
  <2>. DEFINE S == StationFrames(s)
              q == canSendQueue[s]
              b == mbox[s]
  <2>1. q \in Seq(S) /\ q # <<>> /\ Len(q) <= QUEUE_MAX /\ b \in Seq(S) /\ Len(b) < 3
    BY <1>2 DEF MAILBOXES
  <2>2. QUEUE_MAX \in Nat
    BY Constants
  <2>. HIDE DEF S, q, b
  <2>3. Tail(q) \in Seq(S) /\ Len(Tail(q)) <= QUEUE_MAX /\ Head(q) \in S
    BY <2>1, <2>2
  <2>4. /\ Append(b, Head(q)) \in Seq(S) /\ Len(Append(b, Head(q))) <= 3
        /\ Append(b, Head(q)) # <<>>
    <3>1. /\ Append(b, Head(q)) \in Seq(S) /\ Len(Append(b, Head(q))) = Len(b) + 1
          /\ Append(b, Head(q)) # <<>>
      BY ONLY <2>1, <2>3, AppendFacts
    <3>2. Len(b) \in Nat /\ Len(b) < 3
      BY ONLY <2>1
    <3>. QED  BY ONLY <3>1, <3>2
  <2>. QED  BY <2>3, <2>4 DEF S, q, b, MAILBOXES
<1>4. t \in Seq(Frame) /\ m \in Seq(Frame)
  BY <1>3, FrameLists
<1>5. /\ canSendQueue' = [canSendQueue EXCEPT ![s] = t] /\ mbox' = [mbox EXCEPT ![s] = m]
      /\ wire' = IF wire = Idle THEN s ELSE wire
      /\ UNCHANGED <<rx, setting, pvars, run, link, index, todo, events, faults, hvars>>
  BY DEF Load
<1>. HIDE DEF t, m
<1>6. Queues(canSendQueue)'
  BY <1>1, <1>3, <1>4, <1>5 DEF Queues
<1>7. Boxes(mbox)'
  BY <1>1, <1>3, <1>4, <1>5 DEF Boxes
<1>8. WireInv'
  BY <1>1, <1>2, <1>3, <1>5 DEF WireInv
<1>9. (RxInv /\ DataInv /\ TodoInv /\ Counters)'
  BY <1>5 DEF BusInv, RxInv, DataInv, TodoInv, Counters, pvars, hvars
<1>. QED  BY <1>6, <1>7, <1>8, <1>9 DEF BusInv

LEMMA ArbitrateFacts ==
    ASSUME NEW mb, NEW w, Arbitrate(mb, w)
    PROVE  w \in Stations \cup {Idle} /\ (w # Idle => mb[w] # <<>>)
  BY DEF Arbitrate, Waiting

LEMMA TransferInv ==
    ASSUME BusInv, NEW s \in Stations, NEW L \in SUBSET Stations, Transfer(s, L)
    PROVE  BusInv'
<1>. DEFINE f == Head(mbox[s])
            R == Stations \ (L \cup {s})
<1>1. Queues(canSendQueue) /\ Boxes(mbox) /\ WireInv /\ RxInv /\ DataInv /\ TodoInv /\ Counters
  BY DEF BusInv
<1>2. /\ wire = s /\ s # Idle
      /\ mbox[s] \in Seq(StationFrames(s)) /\ mbox[s] # <<>> /\ Len(mbox[s]) <= MAILBOXES
  BY <1>1, CanAssumption DEF Boxes, WireInv, Transfer
<1>3. f \in StationFrames(s)
  BY <1>2
<1>4. f \in Frame /\ Wellformed(f)
  BY <1>3 DEF StationFrames
<1>5. /\ rx' = [r \in Stations |-> IF r \in R THEN After(r, f) ELSE rx[r]]
      /\ setting' = [r \in Stations |-> IF r \in R THEN NewSetting(r, f) ELSE setting[r]]
      /\ user_paras_local' = [r \in Stations |->
                                IF r \in R THEN NewLocal(r, f) ELSE user_paras_local[r]]
      /\ user_paras_slave' = [r \in Stations |->
                                IF r \in R THEN NewSlave(r, f) ELSE user_paras_slave[r]]
      /\ link' = [r \in Stations |-> IF r \in R THEN NewLink(r, f) ELSE link[r]]
      /\ canSendQueue' = [r \in Stations |->
                            IF r \in R THEN Enqueue(canSendQueue[r], Answer(r, f))
                            ELSE canSendQueue[r]]
      /\ clean' = (clean /\ (f.func \in Settings => L = {}))
      /\ halted' = {r \in halted : ~(r \in R /\ Starts(r, f))}
      /\ mbox' = [mbox EXCEPT ![s] = Tail(mbox[s])]
      /\ Arbitrate(mbox', wire')
      /\ alone' \in BOOLEAN
      /\ faults + Cardinality(L) <= MaxFaults
      /\ faults' = faults + Cardinality(L)
      /\ UNCHANGED <<run, index, todo, events, uncut, order>>
  BY DEF Transfer
<1>. HIDE DEF f, R
<1>6. Queues(canSendQueue)'
  <2>1. ASSUME NEW r \in Stations
        PROVE  /\ canSendQueue'[r] \in Seq(StationFrames(r)) /\ canSendQueue'[r] \in Seq(Frame)
               /\ Len(canSendQueue'[r]) <= QUEUE_MAX
    <3>1. Answer(r, f) \in Seq(StationFrames(r))
      BY <1>4, HandleFacts
    <3>2. /\ Enqueue(canSendQueue[r], Answer(r, f)) \in Seq(StationFrames(r))
          /\ Enqueue(canSendQueue[r], Answer(r, f)) \in Seq(Frame)
          /\ Len(Enqueue(canSendQueue[r], Answer(r, f))) <= QUEUE_MAX
      BY <1>1, <3>1, QueuesGrow
    <3>3. canSendQueue[r] \in Seq(StationFrames(r)) /\ canSendQueue[r] \in Seq(Frame)
          /\ Len(canSendQueue[r]) <= QUEUE_MAX
      BY <1>1 DEF Queues
    <3>4. canSendQueue'[r] \in {Enqueue(canSendQueue[r], Answer(r, f)), canSendQueue[r]}
      BY <1>5
    <3>. QED  BY <3>2, <3>3, <3>4
  <2>2. canSendQueue' = [r \in Stations |-> canSendQueue'[r]]
    BY <1>5
  <2>3. canSendQueue' \in [Stations -> Seq(Frame)]
    BY <2>1, <2>2
  <2>. QED  BY <2>1, <2>3 DEF Queues
<1>7. Boxes(mbox)'
  <2>. DEFINE t == Tail(mbox[s])
  <2>1. t \in Seq(StationFrames(s)) /\ Len(t) <= MAILBOXES
    BY <1>2 DEF MAILBOXES
  <2>2. t \in Seq(Frame)
    BY <2>1, FrameLists
  <2>3. mbox' = [mbox EXCEPT ![s] = t]
    BY <1>5
  <2>. HIDE DEF t
  <2>. QED  BY <1>1, <2>1, <2>2, <2>3 DEF Boxes
<1>8. WireInv'
  BY <1>5, ArbitrateFacts DEF WireInv
<1>9. RxInv'
  <2>1. \A r \in Stations : After(r, f) \in Assembly /\ Sound(After(r, f))
    BY <1>4, HandleFacts
  <2>2. \A r \in Stations : rx'[r] \in Assembly /\ Sound(rx'[r])
    BY <1>1, <1>5, <2>1 DEF RxInv
  <2>. QED  BY <1>5, <2>2 DEF RxInv
<1>10. DataInv'
  <2>1. \A r \in Stations :
            /\ NewSetting(r, f) \in [Settings -> 0..255]
            /\ NewLocal(r, f) \in [ParaParts -> Tags] /\ NewSlave(r, f) \in [ParaParts -> Tags]
            /\ NewLink(r, f) \in {0, 1}
    BY <1>4, HandleFacts
  <2>2. setting' \in [Stations -> [Settings -> 0..255]]
    BY <1>1, <1>5, <2>1 DEF DataInv
  <2>3. user_paras_local' \in [Stations -> [ParaParts -> Tags]]
    BY <1>1, <1>5, <2>1 DEF DataInv
  <2>4. user_paras_slave' \in [Stations -> [ParaParts -> Tags]]
    BY <1>1, <1>5, <2>1 DEF DataInv
  <2>5. link' \in [Stations -> {0, 1}] /\ run' \in [Stations -> {0, 1}]
    BY <1>1, <1>5, <2>1 DEF DataInv
  <2>6. halted' \subseteq Stations
    BY <1>1, <1>5 DEF DataInv
  <2>. QED  BY <1>1, <1>5, <2>2, <2>3, <2>4, <2>5, <2>6 DEF DataInv
<1>11. TodoInv'
  BY <1>1, <1>5 DEF TodoInv
<1>12. Counters'
  <2>1. Cardinality(L) \in Nat
    <3>1. IsFiniteSet(Stations)
      BY CanAssumption, FS_Singleton, FS_Union DEF Stations
    <3>. QED  BY <3>1, FS_Subset, FS_CardinalityType
  <2>2. faults' \in 0..MaxFaults
    BY <1>1, <1>5, <2>1, CanAssumption DEF Counters
  <2>3. alone' \in BOOLEAN /\ clean' \in BOOLEAN
    BY <1>5
  <2>. QED  BY <1>1, <1>5, <2>2, <2>3 DEF Counters
<1>. QED  BY <1>6, <1>7, <1>8, <1>9, <1>10, <1>11, <1>12 DEF BusInv

LEMMA BusErrorInv ==
    ASSUME BusInv, BusError
    PROVE  BusInv'
<1>1. /\ faults' = faults + 1 /\ faults < MaxFaults /\ Arbitrate(mbox', wire')
      /\ UNCHANGED <<canSendQueue, mbox, rx, setting, pvars, run, link, index,
                     todo, events, hvars>>
  <2>1. Arbitrate(mbox, wire') /\ mbox' = mbox
    BY DEF BusError
  <2>2. Arbitrate(mbox', wire')
    BY <2>1 DEF Arbitrate, Waiting, Wins
  <2>. QED  BY <2>2 DEF BusError
<1>2. WireInv'
  BY <1>1, ArbitrateFacts DEF WireInv
<1>3. Counters'
  BY <1>1, CanAssumption DEF BusInv, Counters, hvars
<1>4. (Queues(canSendQueue) /\ Boxes(mbox) /\ RxInv /\ DataInv /\ TodoInv)'
  BY <1>1 DEF BusInv, Queues, Boxes, RxInv, DataInv, TodoInv, pvars, hvars
<1>. QED  BY <1>2, <1>3, <1>4 DEF BusInv

\* The messages the server's commands lead to.
LEMMA ShortMessage ==
    ASSUME NEW func \in 0..15, NEW id \in Ids, NEW len \in {0, 1, 3}, NEW b0 \in 0..255,
           NEW cmd \in 0..255, func \in Settings => len = 1
    PROVE  Sendable(Message(func, id, len, b0, cmd, NoTags))
<1>. DEFINE m == Message(func, id, len, b0, cmd, NoTags)
<1>0. len \in 0..RX_SIZE
  BY Constants
<1>1. m \in Todo
  BY <1>0 DEF Message, Todo
<1>2. m.func = func /\ m.len = len /\ m.next = 0
  BY DEF Message
<1>a. FrameCount(len) \in 1..256
  <2>1. len \in 0..255
    OBVIOUS
  <2>. QED  BY ONLY <2>1, FrameCountFacts
<1>. HIDE DEF m
<1>3. Sendable(m)
  BY <1>1, <1>2, <1>a DEF Sendable
<1>. QED  BY <1>3 DEF m

LEMMA LongMessage ==
    ASSUME NEW func \in 0..15 \ Settings, NEW id \in Ids, NEW b0 \in 0..255,
           NEW cmd \in 0..255, NEW tags \in [ParaParts -> Tags]
    PROVE  Sendable(Message(func, id, ParaLen, b0, cmd, tags))
<1>. DEFINE m == Message(func, id, ParaLen, b0, cmd, tags)
<1>0. ParaLen \in 0..RX_SIZE
  BY Constants
<1>1. m \in Todo
  BY <1>0 DEF Message, Todo
<1>2. m.func = func /\ m.len = ParaLen /\ m.tags = tags /\ m.next = 0
  BY DEF Message
<1>a. FrameCount(ParaLen) \in 1..256
  <2>1. ParaLen \in 0..255
    BY Constants
  <2>. QED  BY ONLY <2>1, FrameCountFacts
<1>. HIDE DEF m
<1>3. Sendable(m)
  BY <1>1, <1>2, <1>a DEF Sendable
<1>. QED  BY <1>3 DEF m

\* Setting the host keeps the types.
LEMMA HostSetType ==
    ASSUME BusInv, NEW func \in Settings, NEW b \in 0..255, HostSet(func, b)
    PROVE  /\ setting' \in [Stations -> [Settings -> 0..255]]
           /\ order' \in [Settings -> 0..255] /\ halted' \subseteq Stations
<1>1. /\ setting' = [setting EXCEPT ![Host][func] = NewValue(func, b)]
      /\ order' = [order EXCEPT ![func] = NewValue(func, b)]
      /\ halted' \subseteq halted
  BY DEF HostSet
<1>2. NewValue(func, b) \in 0..255
  BY DEF NewValue
<1>3. /\ setting \in [Stations -> [Settings -> 0..255]] /\ Host \in Stations
      /\ order \in [Settings -> 0..255] /\ halted \subseteq Stations
  BY Constants DEF BusInv, DataInv
<1>. QED  BY ONLY <1>1, <1>2, <1>3, func \in Settings

LEMMA ServerSetInv ==
    ASSUME BusInv, NEW func \in Settings, NEW b \in 0..255, ServerSet(func, b)
    PROVE  BusInv'
<1>1. /\ HostSet(func, b)
      /\ todo' = Message(func, Host, 1, b, 0, NoTags)
      /\ events < MaxEvents /\ events' = events + 1
      /\ UNCHANGED <<qvars, rx, pvars, run, link, index, faults, alone, uncut, clean>>
  BY DEF ServerSet, Event
<1>2. Sendable(Message(func, Host, 1, b, 0, NoTags))
  <2>1. func \in 0..15 /\ Host \in Ids /\ 1 \in {0, 1, 3} /\ 0 \in 0..255
    BY Constants DEF Settings, START_CMD, FUNC_SELECT_CMD
  <2>. QED  BY <2>1, ShortMessage
<1>3. TodoInv'
  BY <1>1, <1>2 DEF TodoInv
<1>4. DataInv'
  BY <1>1, HostSetType DEF BusInv, DataInv, pvars
<1>5. Counters'
  BY <1>1, CanAssumption DEF BusInv, Counters
<1>6. (Queues(canSendQueue) /\ Boxes(mbox) /\ WireInv /\ RxInv)'
  BY <1>1 DEF BusInv, Queues, Boxes, WireInv, RxInv, qvars
<1>. QED  BY <1>3, <1>4, <1>5, <1>6 DEF BusInv

\* A reset, or a request for parameters: a message and nothing else.
LEMMA ServerMessageInv ==
    ASSUME BusInv, NEW msg, Sendable(msg), Event, todo' = msg,
           UNCHANGED <<qvars, rx, setting, pvars, run, link, index, faults, hvars>>
    PROVE  BusInv'
<1>1. events < MaxEvents /\ events' = events + 1
  BY DEF Event
<1>2. TodoInv'
  BY DEF TodoInv
<1>3. Counters'
  BY <1>1, CanAssumption DEF BusInv, Counters, hvars
<1>4. (Queues(canSendQueue) /\ Boxes(mbox) /\ WireInv /\ RxInv /\ DataInv)'
  BY DEF BusInv, Queues, Boxes, WireInv, RxInv, DataInv, qvars, pvars, hvars
<1>. QED  BY <1>2, <1>3, <1>4 DEF BusInv

LEMMA ServerSendable ==
    /\ Sendable(Message(RESET_CMD, Host, 0, 0, 0, NoTags))
    /\ \A n \in Slaves : Sendable(Message(PARA_DATA, n, 3, 3, READ, NoTags))
    /\ \A n \in Slaves, v \in {0, 1} :
          Sendable(Message(PARA_DATA, n, ParaLen, ParaLen, WRITE,
                           [i \in ParaParts |-> Para(n, v)]))
<1>1. /\ RESET_CMD \in 0..15 \ Settings /\ PARA_DATA \in 0..15 \ Settings
      /\ READ \in 0..255 /\ WRITE \in 0..255
  BY DEF RESET_CMD, PARA_DATA, Settings, START_CMD, FUNC_SELECT_CMD, READ, WRITE
<1>2. /\ 0 \in {0, 1, 3} /\ 3 \in {0, 1, 3} /\ 0 \in 0..255 /\ 3 \in 0..255 /\ ParaLen \in 0..255
      /\ Host \in Ids /\ \A n \in Slaves : n \in Ids /\ n \in Stations
  BY Constants DEF Stations
<1>3. Sendable(Message(RESET_CMD, Host, 0, 0, 0, NoTags))
  <2>1. RESET_CMD \in 0..15 /\ Host \in Ids /\ 0 \in {0, 1, 3} /\ 0 \in 0..255
    BY <1>1, <1>2
  <2>2. RESET_CMD \in Settings => 0 = 1
    BY <1>1
  <2>. QED  BY ONLY <2>1, <2>2, ShortMessage, Zenon
<1>4. ASSUME NEW n \in Slaves
      PROVE  Sendable(Message(PARA_DATA, n, 3, 3, READ, NoTags))
  <2>1. PARA_DATA \in 0..15 /\ n \in Ids /\ 3 \in {0, 1, 3} /\ 3 \in 0..255 /\ READ \in 0..255
    BY <1>1, <1>2
  <2>2. PARA_DATA \in Settings => 3 = 1
    BY <1>1
  <2>. QED  BY ONLY <2>1, <2>2, ShortMessage, Zenon
<1>5. ASSUME NEW n \in Slaves, NEW v \in {0, 1}
      PROVE  Sendable(Message(PARA_DATA, n, ParaLen, ParaLen, WRITE,
                              [i \in ParaParts |-> Para(n, v)]))
  <2>. DEFINE t == [i \in ParaParts |-> Para(n, v)]
  <2>1. t \in [ParaParts -> Tags]
    BY <1>2, TagAssumption
  <2>. HIDE DEF t
  <2>2. Sendable(Message(PARA_DATA, n, ParaLen, ParaLen, WRITE, t))
    BY <1>1, <1>2, <2>1, LongMessage
  <2>. QED  BY <2>2 DEF t
<1>. QED  BY <1>3, <1>4, <1>5

LEMMA TodoFields ==
    ASSUME NEW t, Sendable(t)
    PROVE  /\ t.at \in Places /\ t.func \in 0..15 /\ t.id \in Ids
           /\ t.len \in 0..255 /\ t.b0 \in 0..255 /\ t.cmd \in 0..255
           /\ t.tags \in {NoTags} \cup [ParaParts -> Tags] /\ t.next \in Nat
           /\ \A i \in 0..(FrameCount(t.len) - 1) : t.tags[i] \in Tags
<1>1. /\ t.at \in Places /\ t.func \in 0..15 /\ t.id \in Ids
      /\ t.b0 \in 0..255 /\ t.cmd \in 0..255
      /\ t.tags \in {NoTags} \cup [ParaParts -> Tags] /\ t.next \in Nat
  BY DEF Sendable, Todo, Places
<1>2. CASE t.len \in {0, 1, 3}
  <2>1. t.len \in 0..255 /\ t.len <= PACK
    BY <1>2, Constants
  <2>. QED  BY <1>1, <2>1, ShortTags
<1>3. CASE t.len = ParaLen /\ t.tags \in [ParaParts -> Tags]
  BY <1>1, <1>3, Constants, ParaTags
<1>. QED  BY <1>2, <1>3 DEF Sendable

\* A record of the main loop with some fields replaced.
Replaced(c, t, p, l, b, n) ==
    /\ t \in Todo /\ p \in Places /\ l \in 0..RX_SIZE /\ b \in 0..255 /\ n \in Nat
    /\ c = [t EXCEPT !.at = p, !.len = l, !.b0 = b, !.next = n]

LEMMA TodoFrom ==
    ASSUME NEW c, NEW t, NEW p, NEW l, NEW b, NEW n, Replaced(c, t, p, l, b, n)
    PROVE  /\ c \in Todo /\ c # Idle
           /\ c.at = p /\ c.len = l /\ c.b0 = b /\ c.next = n
           /\ c.func = t.func /\ c.id = t.id /\ c.cmd = t.cmd /\ c.tags = t.tags
<1>1. /\ c.at = p /\ c.len = l /\ c.b0 = b /\ c.next = n
      /\ c.func = t.func /\ c.id = t.id /\ c.cmd = t.cmd /\ c.tags = t.tags
  BY DEF Todo, Replaced
<1>2. c \in Todo
  <2>. DEFINE D == 0..RX_SIZE
              E == 0..255
              G == {NoTags} \cup [ParaParts -> Tags]
              B == 0..15
  <2>1. Todo = [at : Places, func : B, id : Ids, len : D, b0 : E, cmd : E, tags : G, next : Nat]
    BY DEF Todo, Places
  <2>2. /\ t \in Todo /\ p \in Places /\ l \in D /\ b \in E /\ n \in Nat
        /\ c = [t EXCEPT !.at = p, !.len = l, !.b0 = b, !.next = n]
    BY DEF Replaced
  <2>. HIDE DEF B, D, E, G, Places
  <2>. QED  BY ONLY <2>1, <2>2
<1>. QED  BY <1>1, <1>2, IdleAssumption

\* The same when nothing but the place and the first byte is new.
Moved(c, t, p, b) ==
    /\ Sendable(t) /\ t.next = 0 /\ p \in Places /\ b \in 0..255
    /\ c = [t EXCEPT !.at = p, !.b0 = b]

LEMMA TodoStep ==
    ASSUME NEW c, NEW t, NEW p, NEW b, Moved(c, t, p, b)
    PROVE  /\ Sendable(c) /\ c \in Todo /\ c # Idle /\ c.at = p /\ c.b0 = b
           /\ c.len = t.len /\ c.next = t.next
           /\ c.func = t.func /\ c.id = t.id /\ c.cmd = t.cmd /\ c.tags = t.tags
<1>0. t \in Todo /\ t.next = 0 /\ p \in Places /\ b \in 0..255 /\ Sendable(t)
  BY DEF Moved, Sendable
<1>. DEFINE l == t.len
            n == t.next
<1>1. l \in 0..RX_SIZE /\ n \in Nat
  BY <1>0 DEF Todo
<1>2. Replaced(c, t, p, l, b, n)
  BY <1>0, <1>1 DEF Todo, Replaced, Moved
<1>3. /\ c \in Todo /\ c # Idle /\ c.at = p /\ c.len = l /\ c.b0 = b /\ c.next = n
      /\ c.func = t.func /\ c.id = t.id /\ c.cmd = t.cmd /\ c.tags = t.tags
  <2>. HIDE DEF l, n
  <2>. QED  BY ONLY <1>2, TodoFrom
<1>4. Sendable(c)
  BY <1>0, <1>3 DEF Sendable
<1>. QED  BY <1>3, <1>4

\* The steps of the main loop that only pass on to the next place.
LEMMA PassOn ==
    ASSUME BusInv, todo # Idle, todo.at # "add", NEW p \in Places, NEW b \in 0..255,
           todo' = [todo EXCEPT !.at = p, !.b0 = b], alone' \in BOOLEAN,
           UNCHANGED <<qvars, rx, setting, pvars, run, link, index, events, faults,
                       uncut, clean, order, halted>>
    PROVE  BusInv'
<1>1. Sendable(todo) /\ todo \in Todo /\ todo.next = 0
  BY DEF BusInv, TodoInv, Sendable
<1>2. Sendable(todo')
  <2>1. Moved(todo', todo, p, b)
    BY <1>1 DEF Moved
  <2>. QED  BY ONLY <2>1, TodoStep
<1>3. TodoInv'
  BY <1>2 DEF TodoInv, Sendable
<1>4. (Queues(canSendQueue) /\ Boxes(mbox) /\ WireInv /\ RxInv /\ DataInv /\ Counters)'
  BY DEF BusInv, Queues, Boxes, WireInv, RxInv, DataInv, Counters, qvars, pvars
<1>. QED  BY <1>3, <1>4 DEF BusInv

\* What these steps are: the next place, and the first byte.
NextPlace ==
    CASE todo.at = "len"  -> IF todo.func = RESET_CMD THEN "call" ELSE "fill"
      [] todo.at = "fill" -> "call"
      [] todo.at = "call" -> "copy"
      [] OTHER            -> "add"

NextByte == IF todo.at = "fill" THEN FirstByte ELSE todo.b0

Passing == SetLength \/ FillBuffer \/ CallSend \/ CopyFirst

LEMMA PassingFacts ==
    ASSUME BusInv, Passing
    PROVE  /\ todo # Idle /\ todo.at \in Places \ {"add"} /\ Sendable(todo) /\ todo \in Todo
           /\ NextPlace \in Places /\ NextByte \in 0..255
           /\ todo.func \in Settings => NextByte = todo.b0
           /\ todo' = [todo EXCEPT !.at = NextPlace, !.b0 = NextByte]
           /\ alone' \in BOOLEAN
           /\ UNCHANGED <<qvars, rx, setting, pvars, run, link, index, events, faults,
                          uncut, clean, order, halted>>
<1>0. todo # Idle
  BY DEF Passing, SetLength, FillBuffer, CallSend, CopyFirst
<1>1. Sendable(todo) /\ todo \in Todo
  BY <1>0 DEF BusInv, TodoInv, Sendable
<1>2. /\ todo.at \in Places /\ todo.len \in 0..255 /\ todo.b0 \in 0..255
  BY <1>1, TodoFields
<1>3. /\ NextPlace \in Places /\ NextByte \in 0..255
      /\ todo.func \in Settings => NextByte = todo.b0
  BY <1>2 DEF NextPlace, NextByte, FirstByte, Places, PARA_DATA, Settings, START_CMD,
              FUNC_SELECT_CMD
<1>4. \A p \in Places : [todo EXCEPT !.at = p] = [todo EXCEPT !.at = p, !.b0 = todo.b0]
  BY ONLY <1>1 DEF Todo
<1>5. /\ alone' \in BOOLEAN
      /\ UNCHANGED <<qvars, rx, setting, pvars, run, link, index, events, faults,
                     uncut, clean, order, halted>>
  BY DEF BusInv, Counters, Passing, SetLength, FillBuffer, CallSend, CopyFirst, hvars
<1>6. /\ todo.at \in Places \ {"add"}
      /\ todo' = [todo EXCEPT !.at = NextPlace, !.b0 = NextByte]
  <2>1. CASE SetLength
    <3>1. todo.at = "len" /\ todo' = [todo EXCEPT !.at = NextPlace] /\ NextByte = todo.b0
      BY <2>1 DEF SetLength, NextPlace, NextByte
    <3>2. todo' = [todo EXCEPT !.at = NextPlace, !.b0 = todo.b0]
      BY <1>3, <1>4, <3>1
    <3>. QED  BY <3>1, <3>2 DEF Places
  <2>2. CASE FillBuffer
    BY <2>2 DEF FillBuffer, NextPlace, NextByte, Places
  <2>3. CASE CallSend
    <3>1. todo.at = "call" /\ todo' = [todo EXCEPT !.at = NextPlace] /\ NextByte = todo.b0
      BY <2>3 DEF CallSend, NextPlace, NextByte
    <3>2. todo' = [todo EXCEPT !.at = NextPlace, !.b0 = todo.b0]
      BY <1>3, <1>4, <3>1
    <3>. QED  BY <3>1, <3>2 DEF Places
  <2>4. CASE CopyFirst
    <3>1. todo.at = "copy" /\ todo' = [todo EXCEPT !.at = NextPlace] /\ NextByte = todo.b0
      BY <2>4 DEF CopyFirst, NextPlace, NextByte
    <3>2. todo' = [todo EXCEPT !.at = NextPlace, !.b0 = todo.b0]
      BY <1>3, <1>4, <3>1
    <3>. QED  BY <3>1, <3>2 DEF Places
  <2>. QED  BY <2>1, <2>2, <2>3, <2>4 DEF Passing
<1>. QED  BY <1>0, <1>1, <1>3, <1>5, <1>6

LEMMA PassingInv ==
    ASSUME BusInv, Passing
    PROVE  BusInv'
<1>. DEFINE p == NextPlace
            b == NextByte
<1>1. /\ todo # Idle /\ todo.at # "add" /\ p \in Places /\ b \in 0..255
      /\ todo' = [todo EXCEPT !.at = p, !.b0 = b] /\ alone' \in BOOLEAN
      /\ UNCHANGED <<qvars, rx, setting, pvars, run, link, index, events, faults,
                     uncut, clean, order, halted>>
  BY PassingFacts
<1>. HIDE DEF p, b
<1>. QED  BY <1>1, PassOn

LEMMA TodoFramesFacts ==
    ASSUME Sendable(todo)
    PROVE  /\ TodoFrames \in Seq(StationFrames(Host))
           /\ FramesOf(TodoFrames, todo.func, todo.len, todo.b0)
<1>1. /\ todo.func \in 0..15 /\ todo.id \in Ids
      /\ todo.len \in 0..255 /\ todo.b0 \in 0..255 /\ todo.cmd \in 0..255
      /\ \A i \in 0..(FrameCount(todo.len) - 1) : todo.tags[i] \in Tags
  BY TodoFields
<1>2. todo.func \in Settings => todo.len = 1
  BY DEF Sendable
<1>3. Host \in Stations
  BY Constants
<1>. DEFINE func == todo.func
            id == todo.id
            len == todo.len
            b0 == todo.b0
            cmd == todo.cmd
            tags == todo.tags
<1>4. /\ func \in 0..15 /\ id \in Ids /\ len \in 0..255 /\ b0 \in 0..255 /\ cmd \in 0..255
      /\ \A i \in 0..(FrameCount(len) - 1) : tags[i] \in Tags
      /\ func \in Settings => len = 1
  BY <1>1, <1>2
<1>5. TodoFrames = Segments(func, id, len, b0, cmd, tags)
  BY DEF TodoFrames
<1>. HIDE DEF func, id, len, b0, cmd, tags
<1>6. FramesOf(TodoFrames, func, len, b0)
  BY ONLY <1>4, <1>5, SegmentsFacts
<1>7. TodoFrames \in Seq(StationFrames(Host))
  <2>1. func \in Settings => Host = Host /\ len = 1
    BY <1>4
  <2>. QED  BY ONLY <1>3, <1>4, <1>5, <2>1, SegmentsSent
<1>. QED  BY <1>6, <1>7 DEF func, len, b0

\* The frame that is queued next, and what is left to do.
NextFrame == TodoFrames[todo.next + 1]

LEMMA NextFrameFacts ==
    ASSUME Sendable(todo)
    PROVE  /\ todo.next \in Nat /\ Len(TodoFrames) = FrameCount(todo.len)
           /\ todo.next + 1 \in 1..Len(TodoFrames)
           /\ NextFrame \in StationFrames(Host) /\ NextFrame.func = todo.func
           /\ <<NextFrame>> \in Seq(StationFrames(Host))
<1>1. /\ TodoFrames \in Seq(StationFrames(Host))
      /\ Len(TodoFrames) = FrameCount(todo.len)
      /\ \A k \in 1..Len(TodoFrames) : TodoFrames[k].func = todo.func
  BY TodoFramesFacts DEF FramesOf
<1>2. todo.next \in Nat /\ todo.next < FrameCount(todo.len) /\ todo.len \in 0..255
  BY TodoFields DEF Sendable
<1>3. FrameCount(todo.len) \in 1..256
  BY <1>2, FrameCountFacts
<1>4. todo.next + 1 \in 1..Len(TodoFrames)
  BY ONLY <1>1, <1>2, <1>3
<1>5. NextFrame \in StationFrames(Host) /\ NextFrame.func = todo.func
  BY ONLY <1>1, <1>4 DEF NextFrame
<1>. QED  BY <1>1, <1>2, <1>4, <1>5

LEMMA AddFrameFacts ==
    ASSUME BusInv, AddFrame
    PROVE  /\ todo # Idle /\ Sendable(todo) /\ todo \in Todo
           /\ canSendQueue' = [canSendQueue EXCEPT ![Host] =
                                   Enqueue(canSendQueue[Host], <<NextFrame>>)]
           /\ \/ todo' = Idle
              \/ /\ Room(Host) /\ todo.next + 1 < FrameCount(todo.len) /\ todo.len > PACK
                 /\ todo' # Idle /\ Sendable(todo') /\ todo'.next = todo.next + 1
                 /\ todo'.at = "add" /\ todo'.func = todo.func /\ todo'.len = todo.len
                 /\ todo'.b0 = todo.b0 /\ todo'.id = todo.id /\ todo'.cmd = todo.cmd
                 /\ todo'.tags = todo.tags
           /\ todo' # Idle <=> Room(Host) /\ todo.next + 1 < FrameCount(todo.len)
           /\ clean' = (clean /\ (todo.func \in Settings => Room(Host)))
           /\ UNCHANGED <<mbox, wire, rx, setting, pvars, run, link, index, events, faults,
                          alone, uncut, order, halted>>
<1>1. /\ todo # Idle /\ todo.at = "add"
      /\ canSendQueue' = [canSendQueue EXCEPT ![Host] =
                              Enqueue(canSendQueue[Host], <<NextFrame>>)]
      /\ todo' = IF Room(Host) /\ todo.next + 1 < Len(TodoFrames)
                 THEN [todo EXCEPT !.next = todo.next + 1] ELSE Idle
      /\ clean' = (clean /\ (todo.func \in Settings => Room(Host)))
      /\ UNCHANGED <<mbox, wire, rx, setting, pvars, run, link, index, events, faults,
                     alone, uncut, order, halted>>
  BY DEF AddFrame, NextFrame
<1>2. Sendable(todo) /\ todo \in Todo
  BY <1>1 DEF BusInv, TodoInv, Sendable
<1>3. todo.next \in Nat /\ Len(TodoFrames) = FrameCount(todo.len) /\ todo.len \in 0..255
  BY <1>2, NextFrameFacts, TodoFields
<1>4. todo.len \in 0..RX_SIZE /\ todo.b0 \in 0..255
  BY <1>2 DEF Todo
<1>5. CASE Room(Host) /\ todo.next + 1 < FrameCount(todo.len)
  <2>. DEFINE n == todo.next + 1
              l == todo.len
              b == todo.b0
              a == "add"
              c == [todo EXCEPT !.at = a, !.len = l, !.b0 = b, !.next = n]
  <2>1. todo' = [todo EXCEPT !.next = n]
    BY <1>1, <1>3, <1>5
  <2>2. todo' = c
    BY ONLY <1>1, <1>2, <2>1 DEF Todo
  <2>3. n \in Nat /\ l \in 0..RX_SIZE /\ b \in 0..255 /\ a \in Places
    BY <1>3, <1>4 DEF Places
  <2>4. /\ c \in Todo /\ c # Idle /\ c.at = a /\ c.len = l /\ c.b0 = b /\ c.next = n
        /\ c.func = todo.func /\ c.id = todo.id /\ c.cmd = todo.cmd /\ c.tags = todo.tags
    <3>0. Replaced(c, todo, a, l, b, n)
      BY <1>2, <2>3 DEF Replaced
    <3>. HIDE DEF n, l, b, a, c
    <3>. QED  BY ONLY <3>0, TodoFrom
  <2>. HIDE DEF c
  <2>5. Sendable(c)
    BY <1>2, <1>5, <2>4 DEF Sendable
  <2>6. todo.len > PACK
    <3>. DEFINE m == todo.len
    <3>1. m \in 0..255 /\ todo.next \in Nat /\ todo.next + 1 < FrameCount(m) /\ PACK \in Nat
      BY <1>3, <1>5, Constants
    <3>. HIDE DEF m
    <3>2. m <= PACK => FrameCount(m) = 1
      BY ONLY <3>1, FrameCountFacts
    <3>3. m > PACK
      BY ONLY <3>1, <3>2
    <3>. QED  BY <3>3 DEF m
  <2>. QED  BY <1>1, <1>2, <1>5, <2>2, <2>4, <2>5, <2>6
<1>6. CASE ~(Room(Host) /\ todo.next + 1 < FrameCount(todo.len))
  BY <1>1, <1>2, <1>3, <1>6
<1>. QED  BY <1>5, <1>6

LEMMA AddFrameInv ==
    ASSUME BusInv, AddFrame
    PROVE  BusInv'
<1>1. <<NextFrame>> \in Seq(StationFrames(Host))
  BY AddFrameFacts, NextFrameFacts
<1>2. Queues([canSendQueue EXCEPT ![Host] = Enqueue(canSendQueue[Host], <<NextFrame>>)])
  BY <1>1, HostEnqueues DEF BusInv
<1>3. Queues(canSendQueue')
  BY <1>2, AddFrameFacts
<1>4. Queues(canSendQueue)'
  BY <1>3 DEF Queues
<1>5. TodoInv'
  <2>1. todo' = Idle \/ Sendable(todo')
    BY AddFrameFacts
  <2>. QED  BY <2>1 DEF TodoInv, Sendable
<1>6. Counters'
  <2>1. clean' \in BOOLEAN
    BY AddFrameFacts
  <2>. QED  BY <2>1, AddFrameFacts DEF BusInv, Counters
<1>7. (Boxes(mbox) /\ WireInv /\ RxInv /\ DataInv)'
  BY AddFrameFacts DEF BusInv, Boxes, WireInv, RxInv, DataInv, pvars
<1>. QED  BY <1>4, <1>5, <1>6, <1>7 DEF BusInv

\* What a button leaves of the message.
LEMMA OverwrittenFacts ==
    ASSUME NEW t, Sendable(t), NEW g \in 0..255
    PROVE  LET c == Overwritten(t, g)
           IN  /\ Sendable(c) /\ c # Idle /\ c.at = t.at /\ c.next = t.next
               /\ c.len = IF t.at \in {"fill", "call"} THEN 1 ELSE t.len
               /\ c.b0 = IF t.at \in {"call", "copy"} THEN g ELSE t.b0
               /\ c.func = t.func /\ c.id = t.id /\ c.cmd = t.cmd /\ c.tags = t.tags
<1>. DEFINE l == IF t.at \in {"fill", "call"} THEN 1 ELSE t.len
            b == IF t.at \in {"call", "copy"} THEN g ELSE t.b0
            p == t.at
            n == t.next
            c == [t EXCEPT !.at = p, !.len = l, !.b0 = b, !.next = n]
<1>1. /\ t \in Todo /\ t.len \in 0..RX_SIZE /\ t.b0 \in 0..255 /\ n \in Nat /\ p \in Places
      /\ 1 \in 0..RX_SIZE
  BY Constants DEF Sendable, Todo, Places
<1>2. l \in 0..RX_SIZE /\ b \in 0..255
  BY <1>1
<1>3. Overwritten(t, g) = [t EXCEPT !.len = l, !.b0 = b]
  BY DEF Overwritten
<1>4. Overwritten(t, g) = c
  <2>. HIDE DEF l, b
  <2>. QED  BY ONLY <1>1, <1>3 DEF Todo
<1>5. /\ c \in Todo /\ c # Idle /\ c.at = p /\ c.len = l /\ c.b0 = b /\ c.next = n
      /\ c.func = t.func /\ c.id = t.id /\ c.cmd = t.cmd /\ c.tags = t.tags
  <2>0. Replaced(c, t, p, l, b, n)
    BY <1>1, <1>2 DEF Replaced
  <2>. HIDE DEF l, b, p, n, c
  <2>. QED  BY ONLY <2>0, TodoFrom
<1>. HIDE DEF c
<1>6. FrameCount(1) = 1
  BY FrameCountFacts, Constants
<1>7. Sendable(c)
  <2>1. CASE t.at \in {"fill", "call"}
    BY <1>5, <1>6, <2>1 DEF Sendable
  <2>2. CASE t.at \notin {"fill", "call"}
    BY <1>5, <2>2 DEF Sendable
  <2>. QED  BY <2>1, <2>2
<1>. QED  BY <1>4, <1>5, <1>7

LEMMA ButtonInv ==
    ASSUME BusInv, NEW g \in 0..255, Button(g)
    PROVE  BusInv'
<1>1. /\ HostSet(START_CMD, g)
      /\ canSendQueue' = [canSendQueue EXCEPT ![Host] = Enqueue(canSendQueue[Host], StartFrames(g))]
      /\ todo' = IF todo = Idle THEN Idle ELSE Overwritten(todo, g)
      /\ uncut' = (uncut /\ ~Cut)
      /\ clean' = (clean /\ Room(Host) /\ ~Crossed)
      /\ events < MaxEvents /\ events' = events + 1
      /\ UNCHANGED <<mbox, wire, rx, pvars, run, link, index, faults, alone>>
  BY DEF Button, Event
<1>2. StartFrames(g) \in Seq(StationFrames(Host))
  BY FramesSent
<1>3. Queues(canSendQueue')
  BY <1>1, <1>2, HostEnqueues DEF BusInv
<1>4. Queues(canSendQueue)'
  BY <1>3 DEF Queues
<1>5. DataInv'
  <2>1. START_CMD \in Settings
    BY DEF Settings
  <2>. QED  BY <1>1, <2>1, HostSetType DEF BusInv, DataInv, pvars
<1>6. TodoInv'
  <2>1. CASE todo # Idle
    <3>1. Sendable(todo) /\ todo' = Overwritten(todo, g)
      BY <1>1, <2>1 DEF BusInv, TodoInv
    <3>2. Sendable(todo')
      BY <3>1, OverwrittenFacts
    <3>. QED  BY <3>2 DEF TodoInv, Sendable
  <2>2. CASE todo = Idle
    BY <1>1, <2>2 DEF TodoInv
  <2>. QED  BY <2>1, <2>2
<1>7. Counters'
  <2>1. clean' \in BOOLEAN /\ uncut' \in BOOLEAN
    BY <1>1
  <2>. QED  BY <1>1, <2>1, CanAssumption DEF BusInv, Counters
<1>8. (Boxes(mbox) /\ WireInv /\ RxInv)'
  BY <1>1 DEF BusInv, Boxes, WireInv, RxInv
<1>. QED  BY <1>4, <1>5, <1>6, <1>7, <1>8 DEF BusInv

LEMMA EmergencyInv ==
    ASSUME BusInv, NEW r \in Stations, Emergency(r)
    PROVE  BusInv'
<1>1. /\ setting' = [setting EXCEPT ![r][START_CMD] = 0] /\ halted' = halted \cup {r}
      /\ events < MaxEvents /\ events' = events + 1
      /\ UNCHANGED <<qvars, rx, pvars, run, link, index, todo, faults, alone, uncut,
                     clean, order>>
  BY DEF Emergency, Event
<1>2. setting' \in [Stations -> [Settings -> 0..255]] /\ halted' \subseteq Stations
  <2>1. /\ setting \in [Stations -> [Settings -> 0..255]] /\ halted \subseteq Stations
        /\ 0 \in 0..255
    BY DEF BusInv, DataInv
  <2>. QED  BY ONLY <1>1, <2>1, r \in Stations
<1>3. DataInv'
  BY <1>1, <1>2 DEF BusInv, DataInv, pvars
<1>4. Counters'
  BY <1>1, CanAssumption DEF BusInv, Counters
<1>5. (Queues(canSendQueue) /\ Boxes(mbox) /\ WireInv /\ RxInv /\ TodoInv)'
  BY <1>1 DEF BusInv, Queues, Boxes, WireInv, RxInv, TodoInv, qvars
<1>. QED  BY <1>3, <1>4, <1>5 DEF BusInv

LEMMA PollStatusInv ==
    ASSUME BusInv, PollStatus
    PROVE  BusInv'
<1>1. /\ canSendQueue' = [canSendQueue EXCEPT ![Host] =
                            Enqueue(canSendQueue[Host], PollFrames(PollTarget(index)))]
      /\ index' = NextIndex(index)
      /\ UNCHANGED <<mbox, wire, rx, setting, pvars, run, link, todo, events, faults, hvars>>
  BY DEF PollStatus
<1>2. index \in 1..LastStation /\ LastStation \in Nat
  BY CanAssumption DEF BusInv, Counters
<1>3. PollTarget(index) \in Ids
  BY <1>2, CanAssumption DEF PollTarget
<1>4. PollFrames(PollTarget(index)) \in Seq(StationFrames(Host))
  BY <1>3, FramesSent
<1>5. Queues(canSendQueue')
  BY <1>1, <1>4, HostEnqueues DEF BusInv
<1>6. Queues(canSendQueue)'
  BY <1>5 DEF Queues
<1>7. index' \in 1..LastStation
  BY <1>1, <1>2 DEF NextIndex
<1>8. Counters'
  BY <1>1, <1>7 DEF BusInv, Counters, hvars
<1>9. (Boxes(mbox) /\ WireInv /\ RxInv /\ DataInv /\ TodoInv)'
  BY <1>1 DEF BusInv, Boxes, WireInv, RxInv, DataInv, TodoInv, pvars, hvars
<1>. QED  BY <1>6, <1>8, <1>9 DEF BusInv

LEMMA RunChangesInv ==
    ASSUME BusInv, NEW r \in Slaves, RunChanges(r)
    PROVE  BusInv'
<1>1. /\ events < MaxEvents /\ events' = events + 1 /\ run' = [run EXCEPT ![r] = 1 - run[r]]
      /\ UNCHANGED <<qvars, rx, setting, pvars, link, index, todo, faults, hvars>>
  BY DEF RunChanges, Event
<1>2. run' \in [Stations -> {0, 1}]
  <2>1. run \in [Stations -> {0, 1}] /\ r \in Stations
    BY DEF BusInv, DataInv, Stations
  <2>2. 1 - run[r] \in {0, 1}
    BY <2>1
  <2>. QED  BY ONLY <1>1, <2>1, <2>2
<1>3. DataInv'
  BY <1>1, <1>2 DEF BusInv, DataInv, pvars, hvars
<1>4. Counters'
  BY <1>1, CanAssumption DEF BusInv, Counters, hvars
<1>5. (Queues(canSendQueue) /\ Boxes(mbox) /\ WireInv /\ RxInv /\ TodoInv)'
  BY <1>1 DEF BusInv, Queues, Boxes, WireInv, RxInv, TodoInv, qvars
<1>. QED  BY <1>3, <1>4, <1>5 DEF BusInv

LEMMA StepInv ==
    ASSUME BusInv, [Next]_vars
    PROVE  BusInv'
<1>1. CASE \E s \in Stations : Load(s)
  BY <1>1, LoadInv
<1>2. CASE Transfers
  BY <1>2, TransferInv DEF Transfers
<1>3. CASE BusError
  BY <1>3, BusErrorInv
<1>4. CASE MainLoop
  BY <1>4, PassingInv, AddFrameInv DEF MainLoop, Passing
<1>5. CASE PollStatus
  BY <1>5, PollStatusInv
<1>6. ASSUME NEW g \in Gears, ServerSet(START_CMD, g)
      PROVE  BusInv'
  <2>1. g \in 0..255 /\ START_CMD \in Settings
    BY CanAssumption DEF Settings
  <2>. QED  BY <1>6, <2>1, ServerSetInv
<1>b. ASSUME NEW g \in {0, 2}, Button(g)
      PROVE  BusInv'
  BY <1>b, ButtonInv
<1>7. ASSUME NEW b \in Flags, ServerSet(FUNC_SELECT_CMD, b)
      PROVE  BusInv'
  <2>1. b \in 0..255 /\ FUNC_SELECT_CMD \in Settings
    BY CanAssumption DEF Settings
  <2>. QED  BY <1>7, <2>1, ServerSetInv
<1>8. CASE ServerReset
  BY <1>8, ServerSendable, ServerMessageInv DEF ServerReset
<1>9. ASSUME NEW n \in Slaves, ServerRead(n) \/ ServerWrite(n, (events + 1) % 2)
      PROVE  BusInv'
  <2>1. CASE ServerRead(n)
    BY <2>1, ServerSendable, ServerMessageInv DEF ServerRead, ServerPara
  <2>2. CASE ServerWrite(n, (events + 1) % 2)
    <3>. DEFINE v == (events + 1) % 2
                m == Message(PARA_DATA, n, ParaLen, ParaLen, WRITE,
                             [i \in ParaParts |-> Para(n, v)])
    <3>1. events \in Nat
      BY CanAssumption DEF BusInv, Counters
    <3>2. v \in {0, 1}
      BY <3>1
    <3>3. ServerPara(m)
      BY <2>2 DEF ServerWrite
    <3>. HIDE DEF v
    <3>4. Sendable(m)
      BY <3>2, ServerSendable
    <3>. HIDE DEF m
    <3>. QED  BY <3>3, <3>4, ServerMessageInv DEF ServerPara
  <2>. QED  BY <1>9, <2>1, <2>2
<1>10. ASSUME NEW r \in Slaves, RunChanges(r)
       PROVE  BusInv'
  BY <1>10, RunChangesInv
<1>e. ASSUME NEW r \in Stations, Emergency(r)
      PROVE  BusInv'
  BY <1>e, EmergencyInv
<1>11. CASE UNCHANGED vars
  BY <1>11 DEF vars, BusInv, Queues, Boxes, WireInv, RxInv, DataInv, TodoInv, Counters
<1>. QED
  BY <1>1, <1>2, <1>3, <1>4, <1>5, <1>6, <1>b, <1>7, <1>8, <1>9, <1>10, <1>e, <1>11 DEF Next

\* The invariant, for every line.
LEMMA BusInvariant == Spec => []BusInv
  BY InitInv, StepInv, PTL DEF Spec

\* Type correctness: queues and mailboxes keep their limits, and the counters of
\* reassembly their width, whatever frames meet on the bus (can_bus.c, 7-13).
THEOREM CanTypeCorrect == Spec => []TypeOK
<1>1. BusInv => TypeOK
  BY BusInvType
<1>. QED  BY <1>1, BusInvariant, PTL

\* Reassembly is sound: the segments a station has collected are each at their
\* place, without gap, and inside can_recv_buff, however many stations send at
\* once and whatever is lost (can_bus.c, 160-194).
THEOREM SegmentsInPlace == Spec => []AssemblySound
<1>1. BusInv => AssemblySound
  BY BusInvType
<1>. QED  BY <1>1, BusInvariant, PTL

-----------------------------------------------------------------------------
(* All stations come to agree with the host.                               *)

\* The last frame of s with a function sets v, or there is none.
NoneOf(s, func) == \A k \in 1..Len(s) : s[k].func # func

LastIs(s, func, v) ==
    \E k \in 1..Len(s) :
        /\ s[k].func = func /\ NewValue(func, s[k].data.b0) = v
        /\ \A j \in 1..Len(s) : j > k => s[j].func # func

\* With q in the queue and m in the mailboxes of the host, the last frame still
\* to be sent sets v, or all have it.
Carried(func, v, q, m, all) ==
    \/ LastIs(q, func, v)
    \/ NoneOf(q, func) /\ LastIs(m, func, v)
    \/ NoneOf(q, func) /\ NoneOf(m, func) /\ all

\* A station does as ordered, or its emergency input has stopped it since.
Obeys(r, func) ==
    \/ setting[r][func] = order[func]
    \/ func = START_CMD /\ r \in halted

AllObey(func) == \A r \in Slaves : Obeys(r, func)

\* An order is on its way to all others, or has arrived everywhere: the last
\* message about it, in can_send_buff, in the queue or in a mailbox, says what was
\* ordered.
OnItsWay(func) ==
    IF todo # Idle /\ todo.func = func
    THEN NewValue(func, todo.b0) = order[func]
    ELSE Carried(func, order[func], canSendQueue[Host], mbox[Host], AllObey(func))

\* The host itself obeys, and who is stopped by the emergency input stands.
HaltInv ==
    /\ \A func \in Settings : Obeys(Host, func)
    /\ \A r \in halted : setting[r][START_CMD] = 0

SettingInv == HaltInv /\ (clean => \A func \in Settings : OnItsWay(func))

\* Frames of other functions change nothing.
LEMMA CarriedBehind ==
    ASSUME NEW S, NEW q \in Seq(S), NEW fs \in Seq(S), Len(q) <= QUEUE_MAX,
           NEW func, NEW v, NEW m, NEW all, NoneOf(fs, func),
           Carried(func, v, q, m, all)
    PROVE  Carried(func, v, Enqueue(q, fs), m, all)
<1>. DEFINE e == Enqueue(q, fs)
<1>1. /\ e \in Seq(S) /\ Len(q) <= Len(e) /\ Len(q) \in Nat /\ Len(e) \in Nat
      /\ \A k \in 1..Len(q) : e[k] = q[k]
      /\ \A k \in 1..Len(e) : k > Len(q) => k - Len(q) \in 1..Len(fs) /\ e[k] = fs[k - Len(q)]
  BY EnqueueFacts
<1>. HIDE DEF e
<1>2. \A k \in 1..Len(e) : k > Len(q) => e[k].func # func
  BY <1>1 DEF NoneOf
<1>3. ASSUME NoneOf(q, func)
      PROVE  NoneOf(e, func)
  BY <1>1, <1>2, <1>3 DEF NoneOf
<1>4. ASSUME LastIs(q, func, v)
      PROVE  LastIs(e, func, v)
  <2>1. PICK k \in 1..Len(q) :
            /\ q[k].func = func /\ NewValue(func, q[k].data.b0) = v
            /\ \A j \in 1..Len(q) : j > k => q[j].func # func
    BY <1>4 DEF LastIs
  <2>2. k \in 1..Len(e) /\ e[k] = q[k]
    BY <1>1
  <2>3. ASSUME NEW j \in 1..Len(e), j > k
        PROVE  e[j].func # func
    BY <1>1, <1>2, <2>1, <2>3
  <2>. QED  BY <2>1, <2>2, <2>3 DEF LastIs
<1>5. Carried(func, v, e, m, all)
  BY <1>3, <1>4 DEF Carried
<1>. QED  BY <1>5 DEF e

\* A new frame is the last one.
LEMMA CarriedNew ==
    ASSUME NEW S, NEW q \in Seq(S), NEW fs \in Seq(S), Len(q) < QUEUE_MAX, Len(fs) = 1,
           NEW func, NEW v, NEW m, NEW all,
           fs[1].func = func, NewValue(func, fs[1].data.b0) = v
    PROVE  Carried(func, v, Enqueue(q, fs), m, all)
<1>. DEFINE e == Enqueue(q, fs)
<1>0. QUEUE_MAX \in Nat /\ Len(q) \in Nat /\ Len(q) <= QUEUE_MAX /\ Len(q) + Len(fs) <= QUEUE_MAX
  BY Constants
<1>1. /\ Len(e) = Len(q) + Len(fs)
      /\ \A k \in 1..Len(e) : k > Len(q) => k - Len(q) \in 1..Len(fs) /\ e[k] = fs[k - Len(q)]
  BY <1>0, EnqueueFacts
<1>. HIDE DEF e
<1>2. Len(e) = Len(q) + 1 /\ Len(e) \in 1..Len(e)
  BY <1>0, <1>1
<1>3. e[Len(e)] = fs[1]
  BY <1>0, <1>1, <1>2
<1>4. LastIs(e, func, v)
  BY <1>2, <1>3 DEF LastIs
<1>. QED  BY <1>4 DEF e, Carried

\* Moving a frame into a mailbox keeps the order.
LEMMA CarriedLoad ==
    ASSUME NEW S, NEW q \in Seq(S), NEW m \in Seq(S), q # <<>>, NEW func, NEW v, NEW all,
           Carried(func, v, q, m, all)
    PROVE  Carried(func, v, Tail(q), Append(m, Head(q)), all)
<1>. DEFINE t == Tail(q)
            a == Append(m, Head(q))
<1>1. /\ Len(q) \in Nat /\ Len(q) > 0 /\ Len(t) = Len(q) - 1
      /\ \A k \in 1..Len(t) : t[k] = q[k + 1]
      /\ Len(m) \in Nat /\ Len(a) = Len(m) + 1 /\ a[Len(m) + 1] = q[1]
      /\ \A k \in 1..Len(m) : a[k] = m[k]
  OBVIOUS
<1>. HIDE DEF t, a
<1>2. ASSUME LastIs(q, func, v)
      PROVE  LastIs(t, func, v) \/ (NoneOf(t, func) /\ LastIs(a, func, v))
  <2>1. PICK k \in 1..Len(q) :
            /\ q[k].func = func /\ NewValue(func, q[k].data.b0) = v
            /\ \A j \in 1..Len(q) : j > k => q[j].func # func
    BY <1>2 DEF LastIs
  <2>2. CASE k = 1
    <3>1. NoneOf(t, func)
      <4>1. ASSUME NEW j \in 1..Len(t)
            PROVE  t[j].func # func
        <5>1. j + 1 \in 1..Len(q) /\ j + 1 > k /\ t[j] = q[j + 1]
          BY <1>1, <2>2
        <5>. QED  BY <2>1, <5>1
      <4>. QED  BY <4>1 DEF NoneOf
    <3>2. LastIs(a, func, v)
      <4>1. Len(m) + 1 \in 1..Len(a) /\ \A j \in 1..Len(a) : ~(j > Len(m) + 1)
        BY <1>1
      <4>2. a[Len(m) + 1].func = func /\ NewValue(func, a[Len(m) + 1].data.b0) = v
        BY <1>1, <2>1, <2>2
      <4>. QED  BY <4>1, <4>2 DEF LastIs
    <3>. QED  BY <3>1, <3>2
  <2>3. CASE k # 1
    <3>1. k - 1 \in 1..Len(t) /\ t[k - 1] = q[k]
      BY <1>1, <2>3
    <3>2. ASSUME NEW j \in 1..Len(t), j > k - 1
          PROVE  t[j].func # func
      <4>1. j + 1 \in 1..Len(q) /\ j + 1 > k /\ t[j] = q[j + 1]
        BY <1>1, <3>2
      <4>. QED  BY <2>1, <4>1
    <3>. QED  BY <2>1, <3>1, <3>2 DEF LastIs
  <2>. QED  BY <2>2, <2>3
<1>3. ASSUME NoneOf(q, func)
      PROVE  /\ NoneOf(t, func)
             /\ LastIs(m, func, v) => LastIs(a, func, v)
             /\ NoneOf(m, func) => NoneOf(a, func)
  <2>1. q[1].func # func
    BY <1>1, <1>3 DEF NoneOf
  <2>2. NoneOf(t, func)
    <3>1. ASSUME NEW j \in 1..Len(t)
          PROVE  t[j].func # func
      <4>1. j + 1 \in 1..Len(q) /\ t[j] = q[j + 1]
        BY <1>1
      <4>. QED  BY <1>3, <4>1 DEF NoneOf
    <3>. QED  BY <3>1 DEF NoneOf
  <2>3. \A j \in 1..Len(a) : j \in 1..Len(m) \/ a[j].func # func
    BY <1>1, <2>1
  <2>4. NoneOf(m, func) => NoneOf(a, func)
    BY <1>1, <2>3 DEF NoneOf
  <2>5. ASSUME LastIs(m, func, v)
        PROVE  LastIs(a, func, v)
    <3>1. PICK k \in 1..Len(m) :
              /\ m[k].func = func /\ NewValue(func, m[k].data.b0) = v
              /\ \A j \in 1..Len(m) : j > k => m[j].func # func
      BY <2>5 DEF LastIs
    <3>2. k \in 1..Len(a) /\ a[k] = m[k]
      BY <1>1
    <3>3. \A j \in 1..Len(a) : j > k => a[j].func # func
      BY <1>1, <2>3, <3>1
    <3>. QED  BY <3>1, <3>2, <3>3 DEF LastIs
  <2>. QED  BY <2>2, <2>4, <2>5
<1>4. Carried(func, v, t, a, all)
  BY <1>2, <1>3 DEF Carried
<1>. QED  BY <1>4 DEF t, a

\* When the first mailbox has been sent, the rest carries on, or this was the
\* last frame.
LEMMA CarriedSent ==
    ASSUME NEW S, NEW m \in Seq(S), m # <<>>, NEW func, NEW v
    PROVE  /\ NoneOf(m, func) => NoneOf(Tail(m), func) /\ Head(m).func # func
           /\ LastIs(m, func, v) =>
                 \/ LastIs(Tail(m), func, v)
                 \/ /\ NoneOf(Tail(m), func) /\ Head(m).func = func
                    /\ NewValue(func, Head(m).data.b0) = v
<1>. DEFINE t == Tail(m)
<1>1. /\ Len(m) \in Nat /\ Len(m) > 0 /\ Len(t) = Len(m) - 1 /\ Head(m) = m[1]
      /\ \A k \in 1..Len(t) : t[k] = m[k + 1]
  OBVIOUS
<1>. HIDE DEF t
<1>2. \A j \in 1..Len(t) : j + 1 \in 1..Len(m) /\ t[j] = m[j + 1]
  BY <1>1
<1>3. NoneOf(m, func) => NoneOf(t, func) /\ Head(m).func # func
  BY <1>1, <1>2 DEF NoneOf
<1>4. ASSUME LastIs(m, func, v)
      PROVE  \/ LastIs(t, func, v)
             \/ /\ NoneOf(t, func) /\ Head(m).func = func
                /\ NewValue(func, Head(m).data.b0) = v
  <2>1. PICK k \in 1..Len(m) :
            /\ m[k].func = func /\ NewValue(func, m[k].data.b0) = v
            /\ \A j \in 1..Len(m) : j > k => m[j].func # func
    BY <1>4 DEF LastIs
  <2>2. CASE k = 1
    <3>1. NoneOf(t, func)
      BY <1>1, <1>2, <2>1, <2>2 DEF NoneOf
    <3>. QED  BY <1>1, <2>1, <2>2, <3>1
  <2>3. CASE k # 1
    <3>1. k - 1 \in 1..Len(t) /\ t[k - 1] = m[k]
      BY <1>1, <2>3
    <3>2. ASSUME NEW j \in 1..Len(t), j > k - 1
          PROVE  t[j].func # func
      <4>1. j + 1 \in 1..Len(m) /\ j + 1 > k /\ t[j] = m[j + 1]
        BY <1>1, <1>2, <3>2
      <4>. QED  BY <2>1, <4>1
    <3>. QED  BY <2>1, <3>1, <3>2 DEF LastIs
  <2>. QED  BY <2>2, <2>3
<1>. QED  BY <1>3, <1>4 DEF t

\* Any station takes over the value of a frame that sets something; other frames
\* set nothing, and nothing is set by a slave.
LEMMA Delivery ==
    ASSUME BusInv, NEW r \in Stations, NEW s \in Stations, NEW f \in StationFrames(s),
           NEW func \in Settings
    PROVE  /\ f.func = func => s = Host /\ NewSetting(r, f)[func] = NewValue(func, f.data.b0)
           /\ f.func # func => NewSetting(r, f)[func] = setting[r][func]
<1>1. setting[r] \in [Settings -> 0..255] /\ rx[r] \in Assembly
  BY DEF BusInv, DataInv, RxInv
<1>2. f.func # func => NewSetting(r, f)[func] = setting[r][func]
  BY <1>1 DEF NewSetting
<1>3. ASSUME f.func = func
      PROVE  s = Host /\ NewSetting(r, f)[func] = NewValue(func, f.data.b0)
  <2>1. f \in Frame /\ s = Host /\ f.polo = NONE /\ f.dlc = 1
    BY <1>3 DEF StationFrames
  <2>2. After(r, f) = [rx[r] EXCEPT !.buff = CopyTo(rx[r].buff, 0, f), !.len = f.dlc]
    BY <2>1, ReceiveCases DEF After, ReceiveNone
  <2>. DEFINE c == CopyTo(rx[r].buff, 0, f)
  <2>3. After(r, f).buff = c
    <3>. HIDE DEF c
    <3>. QED  BY ONLY <1>1, <2>2 DEF Assembly, c
  <2>4. c[0].b0 = f.data.b0
    <3>1. rx[r].buff \in [Slots -> Chunk]
      BY <1>1, AssemblyFields
    <3>2. 0 \in Slots /\ 0 \div PACK = 0
      BY ParaPartsInside, SegmentAssumption
    <3>. QED  BY <2>1, <3>1, <3>2, CopyFacts
  <2>5. Finished(rx[r], f)
    BY <2>1 DEF Finished
  <2>6. NewSetting(r, f) = [setting[r] EXCEPT ![func] = NewValue(func, After(r, f).buff[0].b0)]
    BY <1>3, <2>5 DEF NewSetting
  <2>. HIDE DEF c
  <2>. QED  BY <1>1, <2>1, <2>3, <2>4, <2>6
<1>. QED  BY <1>2, <1>3


LEMMA TransferSetting ==
    ASSUME BusInv, SettingInv, NEW s \in Stations, NEW L \in SUBSET Stations, Transfer(s, L)
    PROVE  SettingInv'
<1>. DEFINE f == Head(mbox[s])
            R == Stations \ (L \cup {s})
<1>1. /\ Host \in Stations /\ Slaves \subseteq Stations /\ Host \notin Slaves
  BY CanAssumption DEF Stations
<1>2. /\ wire = s /\ s # Idle /\ mbox[s] \in Seq(StationFrames(s)) /\ mbox[s] # <<>>
      /\ mbox \in [Stations -> Seq(Frame)]
  BY CanAssumption DEF BusInv, Boxes, WireInv, Transfer
<1>3. f \in StationFrames(s)
  BY <1>2
<1>4. /\ setting' = [r \in Stations |-> IF r \in R THEN NewSetting(r, f) ELSE setting[r]]
      /\ canSendQueue' = [r \in Stations |->
                            IF r \in R THEN Enqueue(canSendQueue[r], Answer(r, f))
                            ELSE canSendQueue[r]]
      /\ clean' = (clean /\ (f.func \in Settings => L = {}))
      /\ halted' = {r \in halted : ~(r \in R /\ Starts(r, f))}
      /\ mbox' = [mbox EXCEPT ![s] = Tail(mbox[s])]
      /\ todo' = todo /\ order' = order
  BY DEF Transfer
<1>. HIDE DEF f, R
<1>5. START_CMD \in Settings /\ halted \subseteq Stations
  BY DEF Settings, BusInv, DataInv
<1>6. ASSUME NEW r \in Stations, f.func # START_CMD
      PROVE  r \in halted' <=> r \in halted
  BY <1>4, <1>6 DEF Starts
\* What r has after the frame.
<1>7. ASSUME NEW r \in Stations, NEW func \in Settings
      PROVE  /\ r \notin R \/ f.func # func => setting'[r][func] = setting[r][func]
             /\ r \in R /\ f.func = func =>
                    s = Host /\ setting'[r][func] = NewValue(func, f.data.b0)
  <2>1. CASE r \in R
    BY <1>3, <1>4, <2>1, Delivery
  <2>2. CASE r \notin R
    BY <1>4, <2>2
  <2>. QED  BY <2>1, <2>2
<1>8. ASSUME NEW r \in Stations, NEW func \in Settings, r \notin R \/ f.func # func, Obeys(r, func)
      PROVE  Obeys(r, func)'
  <2>1. setting'[r][func] = setting[r][func] /\ order'[func] = order[func]
    BY <1>4, <1>7, <1>8
  <2>2. func = START_CMD /\ r \in halted => r \in halted'
    <3>1. r \notin R => (r \in halted => r \in halted')
      BY <1>4
    <3>. QED  BY <1>6, <1>8, <3>1
  <2>. QED  BY <1>8, <2>1, <2>2 DEF Obeys
<1>9. HaltInv'
  <2>1. ASSUME NEW func \in Settings
        PROVE  Obeys(Host, func)'
    <3>1. Host \notin R \/ f.func # func
      BY <1>1, <1>3, Delivery DEF R
    <3>2. Obeys(Host, func)
      BY DEF SettingInv, HaltInv
    <3>. QED  BY <1>1, <1>8, <3>1, <3>2
  <2>2. ASSUME NEW r \in halted'
        PROVE  setting'[r][START_CMD] = 0
    <3>1. r \in halted /\ ~(r \in R /\ Starts(r, f)) /\ r \in Stations
      BY <1>4, <1>5
    <3>2. r \notin R \/ f.func # START_CMD
      <4>1. f.func = START_CMD => f.polo = NONE
        BY <1>3, <1>5 DEF StationFrames
      <4>. QED  BY <3>1, <4>1 DEF Starts, Finished
    <3>3. setting[r][START_CMD] = 0
      BY <3>1 DEF SettingInv, HaltInv
    <3>. QED  BY <1>5, <1>7, <3>1, <3>2, <3>3
  <2>. QED  BY <2>1, <2>2 DEF HaltInv
<1>10. ASSUME clean', NEW func \in Settings
       PROVE  OnItsWay(func)'
  <2>. DEFINE v == order[func]
              q == canSendQueue[Host]
              all == AllObey(func)
              new == AllObey(func)'
  <2>0. clean /\ OnItsWay(func) /\ (f.func = func => L = {})
    BY <1>4, <1>10 DEF SettingInv
  <2>a. order'[func] = v
    BY <1>4
  <2>2. ASSUME f.func # func
        PROVE  all => new
    BY <1>1, <1>8, <2>2 DEF AllObey
  <2>7. CASE todo # Idle /\ todo.func = func
    BY <1>4, <2>0, <2>7 DEF OnItsWay
  <2>8. CASE ~(todo # Idle /\ todo.func = func)
    <3>1. Carried(func, v, q, mbox[Host], all)
      BY <2>0, <2>8 DEF OnItsWay
    <3>3. CASE s = Host
      <4>1. canSendQueue'[Host] = q /\ mbox'[Host] = Tail(mbox[Host])
        BY <1>1, <1>2, <1>4, <3>3 DEF R
      <4>2. ASSUME f.func = func, NewValue(func, f.data.b0) = v
            PROVE  new
        <5>1. ASSUME NEW r \in Slaves
              PROVE  Obeys(r, func)'
          <6>1. r \in R /\ r \in Stations
            BY <1>1, <2>0, <3>3, <4>2 DEF R
          <6>2. setting'[r][func] = v
            BY <1>7, <4>2, <6>1
          <6>. QED  BY <2>a, <6>2 DEF Obeys
        <5>. QED  BY <5>1 DEF AllObey
      <4>. DEFINE m == mbox[Host]
                  S == StationFrames(Host)
      <4>3. m \in Seq(S) /\ m # <<>> /\ f = Head(m)
        BY <1>2, <3>3 DEF f
      <4>. HIDE DEF m, S
      <4>4. /\ NoneOf(m, func) => NoneOf(Tail(m), func) /\ f.func # func
            /\ LastIs(m, func, v) =>
                  \/ LastIs(Tail(m), func, v)
                  \/ /\ NoneOf(Tail(m), func) /\ f.func = func
                     /\ NewValue(func, f.data.b0) = v
        <5>. HIDE DEF v
        <5>. QED  BY <4>3, CarriedSent
      <4>5. Carried(func, v, q, Tail(m), new)
        <5>1. Carried(func, v, q, m, all)
          BY <3>1 DEF m
        <5>. HIDE DEF v, q, all, new
        <5>. QED  BY <2>2, <4>2, <4>4, <5>1 DEF Carried
      <4>. QED  BY <1>4, <2>a, <2>8, <4>1, <4>5 DEF OnItsWay, m
    <3>4. CASE s # Host
      <4>1. mbox'[Host] = mbox[Host]
        BY <1>1, <1>2, <1>4, <3>4
      <4>2. f.func # func
        BY <1>1, <1>3, <3>4, Delivery
      <4>3. Carried(func, v, canSendQueue'[Host], mbox[Host], all)
        <5>1. CASE Host \in R
          <6>. DEFINE fs == Answer(Host, f)
                      S == StationFrames(Host)
                      m == mbox[Host]
          <6>1. f \in Frame /\ Wellformed(f)
            BY <1>3 DEF StationFrames
          <6>2. fs \in Seq(S) /\ Harmless(fs)
            BY <1>1, <6>1, HandleFacts
          <6>3. NoneOf(fs, func)
            BY <6>2 DEF NoneOf, Harmless
          <6>4. q \in Seq(S) /\ Len(q) <= QUEUE_MAX
            BY <1>1 DEF BusInv, Queues
          <6>5. canSendQueue'[Host] = Enqueue(q, fs)
            BY <1>1, <1>4, <5>1
          <6>6. Carried(func, v, q, m, all)
            BY <3>1
          <6>. HIDE DEF fs, S, q, v, m, all
          <6>7. Carried(func, v, Enqueue(q, fs), m, all)
            BY <6>2, <6>3, <6>4, <6>6, CarriedBehind
          <6>. QED  BY <6>5, <6>7 DEF m
        <5>2. CASE Host \notin R
          BY <1>1, <1>4, <3>1, <5>2
        <5>. QED  BY <5>1, <5>2
      <4>4. Carried(func, v, canSendQueue'[Host], mbox[Host], new)
        <5>. HIDE DEF v, all, new
        <5>. QED  BY <2>2, <4>2, <4>3 DEF Carried
      <4>. QED  BY <1>4, <2>a, <2>8, <4>1, <4>4 DEF OnItsWay
    <3>. QED  BY <3>3, <3>4
  <2>. QED  BY <2>7, <2>8
<1>. QED  BY <1>9, <1>10 DEF SettingInv

\* Steps that set nothing.
LEMMA SameObeys ==
    ASSUME setting' = setting, order' = order, halted' = halted
    PROVE  /\ HaltInv <=> HaltInv'
           /\ \A func \in Settings : order'[func] = order[func] /\ (AllObey(func)' <=> AllObey(func))
  BY DEF HaltInv, Obeys, AllObey

LEMMA LoadSetting ==
    ASSUME BusInv, SettingInv, NEW s \in Stations, Load(s)
    PROVE  SettingInv'
<1>1. /\ canSendQueue' = [canSendQueue EXCEPT ![s] = Tail(canSendQueue[s])]
      /\ mbox' = [mbox EXCEPT ![s] = Append(mbox[s], Head(canSendQueue[s]))]
      /\ setting' = setting /\ todo' = todo /\ clean' = clean /\ canSendQueue[s] # <<>>
      /\ order' = order /\ halted' = halted
  BY DEF Load, hvars
<1>a. HaltInv'
  BY <1>1, SameObeys DEF SettingInv
<1>. SUFFICES ASSUME clean', NEW func \in Settings
              PROVE  OnItsWay(func)'
  BY <1>a DEF SettingInv
<1>2. OnItsWay(func)
  BY <1>1 DEF SettingInv
<1>3. /\ canSendQueue \in [Stations -> Seq(Frame)] /\ mbox \in [Stations -> Seq(Frame)]
      /\ Host \in Stations
  BY Constants DEF BusInv, Queues, Boxes
<1>. DEFINE v == order[func]
            all == AllObey(func)
<1>b. order'[func] = v /\ (AllObey(func)' <=> all)
  BY <1>1, SameObeys
<1>4. CASE s = Host
  <2>. DEFINE q == canSendQueue[Host]
              m == mbox[Host]
  <2>1. canSendQueue'[Host] = Tail(q) /\ mbox'[Host] = Append(m, Head(q))
    BY <1>1, <1>3, <1>4
  <2>2. q \in Seq(Frame) /\ m \in Seq(Frame) /\ q # <<>>
    BY <1>1, <1>3, <1>4
  <2>3. Carried(func, v, q, m, all) => Carried(func, v, Tail(q), Append(m, Head(q)), all)
    <3>. HIDE DEF q, m, v, all
    <3>. QED  BY <2>2, CarriedLoad
  <2>4. Carried(func, v, q, m, all) =>
            Carried(func, v, Tail(q), Append(m, Head(q)), AllObey(func)')
    <3>. HIDE DEF q, m, v, all
    <3>. QED  BY <1>b, <2>3 DEF Carried
  <2>. QED  BY <1>1, <1>2, <1>b, <2>1, <2>4 DEF OnItsWay
<1>5. CASE s # Host
  <2>1. canSendQueue'[Host] = canSendQueue[Host] /\ mbox'[Host] = mbox[Host]
    BY <1>1, <1>3, <1>5
  <2>. QED  BY <1>1, <1>2, <1>b, <2>1 DEF OnItsWay, Carried
<1>. QED  BY <1>4, <1>5

\* Steps that leave the settings and what is on its way alone.
LEMMA SameSetting ==
    ASSUME SettingInv, NEW t,
           setting' = setting, order' = order, halted' = halted,
           canSendQueue' = canSendQueue, mbox' = mbox, clean' = clean, todo' = t,
           \A func \in Settings :
              /\ (t # Idle /\ t.func = func) <=> (todo # Idle /\ todo.func = func)
              /\ todo # Idle /\ todo.func = func => t.b0 = todo.b0
    PROVE  SettingInv'
<1>a. HaltInv'
  BY SameObeys DEF SettingInv
<1>. SUFFICES ASSUME clean', NEW func \in Settings
              PROVE  OnItsWay(func)'
  BY <1>a DEF SettingInv
<1>1. OnItsWay(func)
  BY DEF SettingInv
<1>b. order'[func] = order[func] /\ (AllObey(func)' <=> AllObey(func))
  BY SameObeys
<1>2. CASE todo # Idle /\ todo.func = func
  BY <1>1, <1>2 DEF OnItsWay
<1>3. CASE ~(todo # Idle /\ todo.func = func)
  BY <1>1, <1>3, <1>b DEF OnItsWay, Carried
<1>. QED  BY <1>2, <1>3

\* What is ordered holds for the host, and what is not is left to all stations.
LEMMA HostSetObeys ==
    ASSUME BusInv, SettingInv, NEW func0 \in Settings, NEW b \in 0..255, HostSet(func0, b)
    PROVE  /\ HaltInv'
           /\ order'[func0] = NewValue(func0, b)
           /\ \A func \in Settings : func # func0 =>
                 order'[func] = order[func] /\ (AllObey(func) => AllObey(func)')
<1>1. /\ setting' = [setting EXCEPT ![Host][func0] = NewValue(func0, b)]
      /\ order' = [order EXCEPT ![func0] = NewValue(func0, b)]
      /\ halted' = IF func0 = START_CMD THEN halted \ {Host} ELSE halted
  BY DEF HostSet
<1>2. /\ setting \in [Stations -> [Settings -> 0..255]] /\ Host \in Stations
      /\ order \in [Settings -> 0..255] /\ halted \subseteq Stations
      /\ Slaves \subseteq Stations /\ Host \notin Slaves /\ START_CMD \in Settings
  BY CanAssumption DEF BusInv, DataInv, Stations, Settings
<1>3. /\ order'[func0] = NewValue(func0, b) /\ setting'[Host][func0] = NewValue(func0, b)
      /\ \A func \in Settings : func # func0 =>
            order'[func] = order[func] /\ setting'[Host][func] = setting[Host][func]
      /\ \A r \in Stations : r # Host => setting'[r] = setting[r]
  BY <1>1, <1>2
<1>4. ASSUME NEW func \in Settings
      PROVE  Obeys(Host, func)'
  <2>1. CASE func = func0
    BY <1>3, <2>1 DEF Obeys
  <2>2. CASE func # func0
    <3>1. Obeys(Host, func)
      BY DEF SettingInv, HaltInv
    <3>2. func = START_CMD => halted' = halted
      BY <1>1, <2>2
    <3>. QED  BY <1>3, <2>2, <3>1, <3>2 DEF Obeys
  <2>. QED  BY <2>1, <2>2
<1>5. ASSUME NEW r \in halted'
      PROVE  setting'[r][START_CMD] = 0
  <2>1. r \in halted /\ r \in Stations /\ setting[r][START_CMD] = 0
    BY <1>1, <1>2 DEF SettingInv, HaltInv
  <2>2. CASE r # Host
    BY <1>3, <2>1, <2>2
  <2>3. CASE r = Host
    <3>1. func0 # START_CMD
      BY <1>1, <2>3
    <3>. QED  BY <1>2, <1>3, <2>1, <2>3, <3>1
  <2>. QED  BY <2>2, <2>3
<1>6. ASSUME NEW func \in Settings, func # func0, AllObey(func)
      PROVE  AllObey(func)'
  <2>1. ASSUME NEW r \in Slaves
        PROVE  Obeys(r, func)'
    <3>1. Obeys(r, func) /\ setting'[r] = setting[r] /\ order'[func] = order[func]
      BY <1>2, <1>3, <1>6 DEF AllObey
    <3>2. r \in halted => r \in halted'
      BY <1>1, <1>2
    <3>. QED  BY <3>1, <3>2 DEF Obeys
  <2>. QED  BY <2>1 DEF AllObey
<1>7. HaltInv'
  BY <1>4, <1>5 DEF HaltInv
<1>. QED  BY <1>3, <1>6, <1>7

LEMMA ServerSetSetting ==
    ASSUME BusInv, SettingInv, NEW func0 \in Settings, NEW b \in 0..255, ServerSet(func0, b)
    PROVE  SettingInv'
<1>1. /\ HostSet(func0, b)
      /\ todo' = Message(func0, Host, 1, b, 0, NoTags) /\ todo = Idle
      /\ canSendQueue' = canSendQueue /\ mbox' = mbox /\ clean' = clean
  BY DEF ServerSet, Event, qvars
<1>2. /\ HaltInv' /\ order'[func0] = NewValue(func0, b)
      /\ \A func \in Settings : func # func0 =>
            order'[func] = order[func] /\ (AllObey(func) => AllObey(func)')
  BY <1>1, HostSetObeys
<1>. SUFFICES ASSUME clean', NEW func \in Settings
              PROVE  OnItsWay(func)'
  BY <1>2 DEF SettingInv
<1>4. todo'.func = func0 /\ todo'.b0 = b
  BY <1>1 DEF Message
<1>6. CASE func = func0
  <2>2. todo' # Idle
    <3>1. func0 \in 0..15 /\ Host \in Ids /\ 1 \in {0, 1, 3} /\ 0 \in 0..255
      BY Constants DEF Settings, START_CMD, FUNC_SELECT_CMD
    <3>2. Sendable(Message(func0, Host, 1, b, 0, NoTags))
      BY <3>1, ShortMessage
    <3>. QED  BY <1>1, <3>2, IdleAssumption DEF Sendable
  <2>. QED  BY <1>2, <1>4, <1>6, <2>2 DEF OnItsWay
<1>7. CASE func # func0
  <2>2. Carried(func, order[func], canSendQueue[Host], mbox[Host], AllObey(func))
    BY <1>1 DEF SettingInv, OnItsWay
  <2>3. Carried(func, order[func], canSendQueue[Host], mbox[Host], AllObey(func)')
    BY <1>2, <1>7, <2>2 DEF Carried
  <2>. QED  BY <1>1, <1>2, <1>4, <1>7, <2>3 DEF OnItsWay
<1>. QED  BY <1>6, <1>7

LEMMA EmergencySetting ==
    ASSUME BusInv, SettingInv, NEW r \in Stations, Emergency(r)
    PROVE  SettingInv'
<1>1. /\ setting' = [setting EXCEPT ![r][START_CMD] = 0] /\ halted' = halted \cup {r}
      /\ canSendQueue' = canSendQueue /\ mbox' = mbox /\ todo' = todo /\ clean' = clean
      /\ order' = order
  BY DEF Emergency, qvars
<1>2. /\ setting \in [Stations -> [Settings -> 0..255]] /\ halted \subseteq Stations
      /\ START_CMD \in Settings /\ Host \in Stations /\ Slaves \subseteq Stations
  BY DEF BusInv, DataInv, Stations, Settings
<1>3. /\ setting'[r][START_CMD] = 0
      /\ \A func \in Settings : func # START_CMD => setting'[r][func] = setting[r][func]
      /\ \A s \in Stations : s # r => setting'[s] = setting[s]
  BY <1>1, <1>2
<1>4. ASSUME NEW s \in Stations, NEW func \in Settings, Obeys(s, func)
      PROVE  Obeys(s, func)'
  BY <1>1, <1>3, <1>4 DEF Obeys
<1>5. HaltInv'
  <2>1. \A func \in Settings : Obeys(Host, func)'
    BY <1>2, <1>4 DEF SettingInv, HaltInv
  <2>2. \A s \in halted' : setting'[s][START_CMD] = 0
    BY <1>1, <1>2, <1>3 DEF SettingInv, HaltInv
  <2>. QED  BY <2>1, <2>2 DEF HaltInv
<1>6. ASSUME clean', NEW func \in Settings
      PROVE  OnItsWay(func)'
  <2>1. OnItsWay(func) /\ order'[func] = order[func]
    BY <1>1, <1>6 DEF SettingInv
  <2>2. AllObey(func) => AllObey(func)'
    BY <1>2, <1>4 DEF AllObey
  <2>. QED  BY <1>1, <2>1, <2>2 DEF OnItsWay, Carried
<1>. QED  BY <1>5, <1>6 DEF SettingInv

LEMMA PollFramesHarmless ==
    ASSUME NEW n \in Ids
    PROVE  Harmless(PollFrames(n))
<1>1. /\ READ_MODULE_STATUS \in 0..15 /\ READ_MODULE_STATUS \notin Settings
      /\ 0 \in 0..255 /\ 0 <= PACK
  BY Constants DEF READ_MODULE_STATUS, Settings, START_CMD, FUNC_SELECT_CMD
<1>2. \A i \in 0..(FrameCount(0) - 1) : NoTags[i] \in Tags
  BY <1>1, ShortTags
<1>3. FramesOf(PollFrames(n), READ_MODULE_STATUS, 0, 0)
  BY ONLY n \in Ids, <1>1, <1>2, SegmentsFacts, Zenon DEF PollFrames
<1>. QED  BY <1>1, <1>3, SegmentsHarmless


\* A frame that sets nothing is added to the host's queue.
LEMMA AddedSetting ==
    ASSUME BusInv, SettingInv, NEW fs \in Seq(StationFrames(Host)), NEW func \in Settings,
           NoneOf(fs, func), Carried(func, order[func], canSendQueue[Host], mbox[Host], AllObey(func)),
           setting' = setting, order' = order, halted' = halted, mbox' = mbox,
           canSendQueue' = [canSendQueue EXCEPT ![Host] = Enqueue(canSendQueue[Host], fs)],
           ~(todo' # Idle /\ todo'.func = func)
    PROVE  OnItsWay(func)'
<1>. DEFINE q == canSendQueue[Host]
            S == StationFrames(Host)
            v == order[func]
            m == mbox[Host]
            all == AllObey(func)
<1>1. q \in Seq(S) /\ Len(q) <= QUEUE_MAX
  BY Constants DEF BusInv, Queues
<1>2. canSendQueue'[Host] = Enqueue(q, fs)
  BY Constants DEF BusInv, Queues
<1>3. fs \in Seq(S) /\ Carried(func, v, q, m, all)
  OBVIOUS
<1>4. order'[func] = v /\ (AllObey(func)' <=> all)
  BY SameObeys
<1>. HIDE DEF S, v, m, q, all
<1>5. Carried(func, v, Enqueue(q, fs), m, all)
  BY <1>1, <1>3, CarriedBehind
<1>6. Carried(func, v, Enqueue(q, fs), m, AllObey(func)')
  BY <1>4, <1>5 DEF Carried
<1>. QED  BY <1>2, <1>4, <1>6 DEF OnItsWay, m

LEMMA PollSetting ==
    ASSUME BusInv, SettingInv, PollStatus
    PROVE  SettingInv'
<1>. DEFINE fs == PollFrames(PollTarget(index))
<1>1. /\ canSendQueue' = [canSendQueue EXCEPT ![Host] = Enqueue(canSendQueue[Host], fs)]
      /\ setting' = setting /\ todo' = todo /\ clean' = clean /\ mbox' = mbox
      /\ todo = Idle /\ order' = order /\ halted' = halted
  BY DEF PollStatus, hvars
<1>2. PollTarget(index) \in Ids
  BY CanAssumption DEF BusInv, Counters, PollTarget
<1>3. fs \in Seq(StationFrames(Host)) /\ Harmless(fs)
  BY <1>2, FramesSent, PollFramesHarmless
<1>. HIDE DEF fs
<1>4. HaltInv'
  BY <1>1, SameObeys DEF SettingInv
<1>5. ASSUME clean', NEW func \in Settings
      PROVE  OnItsWay(func)'
  <2>1. NoneOf(fs, func)
    BY <1>3 DEF NoneOf, Harmless
  <2>2. Carried(func, order[func], canSendQueue[Host], mbox[Host], AllObey(func))
    BY <1>1, <1>5 DEF SettingInv, OnItsWay
  <2>. QED  BY <1>1, <1>3, <2>1, <2>2, AddedSetting
<1>. QED  BY <1>4, <1>5 DEF SettingInv

LEMMA AddFrameSetting ==
    ASSUME BusInv, SettingInv, AddFrame
    PROVE  SettingInv'
<1>1. /\ todo # Idle /\ Sendable(todo)
      /\ canSendQueue' = [canSendQueue EXCEPT ![Host] = Enqueue(canSendQueue[Host], <<NextFrame>>)]
      /\ clean' = (clean /\ (todo.func \in Settings => Room(Host)))
      /\ setting' = setting /\ mbox' = mbox /\ order' = order /\ halted' = halted
      /\ todo' # Idle => todo'.func = todo.func /\ todo.len > PACK
  BY AddFrameFacts
<1>2. /\ <<NextFrame>> \in Seq(StationFrames(Host)) /\ NextFrame.func = todo.func
  BY <1>1, NextFrameFacts
<1>3. HaltInv'
  BY <1>1, SameObeys DEF SettingInv
<1>. SUFFICES ASSUME clean', NEW func \in Settings
              PROVE  OnItsWay(func)'
  BY <1>3 DEF SettingInv
<1>6. OnItsWay(func)
  BY <1>1 DEF SettingInv
<1>7. CASE todo.func = func
  <2>. DEFINE q == canSendQueue[Host]
              S == StationFrames(Host)
              v == order[func]
              m == mbox[Host]
              fs == <<NextFrame>>
              all == AllObey(func)'
  <2>1. todo.len = 1 /\ 1 <= PACK /\ 1 \in 0..255
    BY <1>1, <1>7, Constants DEF Sendable
  <2>2. FrameCount(1) = 1
    BY ONLY <2>1, FrameCountFacts
  <2>a. todo.next = 0
    BY <1>1, <2>1, <2>2, TodoFields DEF Sendable
  <2>b. todo' = Idle
    BY <1>1, <2>1, Constants
  <2>3. NextFrame.data.b0 = todo.b0
    <3>1. FramesOf(TodoFrames, todo.func, todo.len, todo.b0)
      BY <1>1, TodoFramesFacts
    <3>2. TodoFrames[1].data.b0 = todo.b0
      BY ONLY <2>1, <3>1 DEF FramesOf
    <3>. QED  BY <2>a, <3>2 DEF NextFrame
  <2>4. q \in Seq(S) /\ Len(q) < QUEUE_MAX
    BY <1>1, <1>7, Constants DEF BusInv, Queues, Room
  <2>5. /\ fs \in Seq(S) /\ Len(fs) = 1 /\ fs[1].func = func
        /\ NewValue(func, fs[1].data.b0) = v
    BY <1>1, <1>2, <1>6, <1>7, <2>3 DEF OnItsWay
  <2>6. canSendQueue'[Host] = Enqueue(q, fs) /\ order'[func] = v
    BY <1>1, Constants DEF BusInv, Queues
  <2>7. Carried(func, v, Enqueue(q, fs), m, all)
    <3>. HIDE DEF v, m, q, fs, S, all
    <3>. QED  BY <2>4, <2>5, CarriedNew
  <2>. HIDE DEF fs
  <2>. QED  BY <1>1, <2>b, <2>6, <2>7 DEF OnItsWay
<1>8. CASE todo.func # func
  <2>1. NoneOf(<<NextFrame>>, func)
    BY <1>2, <1>8 DEF NoneOf
  <2>2. Carried(func, order[func], canSendQueue[Host], mbox[Host], AllObey(func))
    BY <1>6, <1>8 DEF OnItsWay
  <2>3. ~(todo' # Idle /\ todo'.func = func)
    BY <1>1, <1>8
  <2>. QED  BY <1>1, <1>2, <2>1, <2>2, <2>3, AddedSetting
<1>. QED  BY <1>7, <1>8

LEMMA StartFramesFacts ==
    ASSUME NEW g \in 0..255
    PROVE  /\ StartFrames(g) \in Seq(StationFrames(Host)) /\ Len(StartFrames(g)) = 1
           /\ StartFrames(g)[1].func = START_CMD /\ StartFrames(g)[1].data.b0 = g
<1>1. START_CMD \in 0..15 /\ Host \in Ids /\ 0 \in 0..255 /\ 1 \in 0..255 /\ 1 <= PACK
  BY Constants DEF START_CMD
<1>2. \A i \in 0..(FrameCount(1) - 1) : NoTags[i] \in Tags
  BY <1>1, ShortTags
<1>3. FramesOf(StartFrames(g), START_CMD, 1, g)
  BY ONLY g \in 0..255, <1>1, <1>2, SegmentsFacts, Zenon DEF StartFrames
<1>4. StartFrames(g) \in Seq(StationFrames(Host)) /\ Len(StartFrames(g)) = 1
  BY FramesSent
<1>. DEFINE fs == StartFrames(g)
<1>5. FramesOf(fs, START_CMD, 1, g) /\ Len(fs) = 1
  BY <1>3, <1>4
<1>. HIDE DEF fs
<1>6. fs[1].func = START_CMD /\ (1 <= PACK => fs[1].data.b0 = g)
  BY ONLY <1>5 DEF FramesOf
<1>. QED  BY <1>1, <1>4, <1>6 DEF fs

LEMMA ButtonSetting ==
    ASSUME BusInv, SettingInv, NEW g \in 0..255, Button(g)
    PROVE  SettingInv'
<1>. DEFINE q == canSendQueue[Host]
            S == StationFrames(Host)
            m == mbox[Host]
            fs == StartFrames(g)
<1>1. /\ HostSet(START_CMD, g)
      /\ canSendQueue' = [canSendQueue EXCEPT ![Host] = Enqueue(q, fs)]
      /\ todo' = IF todo = Idle THEN Idle ELSE Overwritten(todo, g)
      /\ clean' = (clean /\ Room(Host) /\ ~Crossed)
      /\ mbox' = mbox
  BY DEF Button
<1>2. START_CMD \in Settings /\ Host \in Stations
  BY Constants DEF Settings
<1>3. /\ HaltInv' /\ order'[START_CMD] = NewValue(START_CMD, g)
      /\ \A func \in Settings : func # START_CMD =>
            order'[func] = order[func] /\ (AllObey(func) => AllObey(func)')
  BY <1>1, <1>2, HostSetObeys
<1>. SUFFICES ASSUME clean', NEW func \in Settings
              PROVE  OnItsWay(func)'
  BY <1>3 DEF SettingInv
<1>a. clean /\ Room(Host) /\ ~Crossed
  BY <1>1
<1>4. q \in Seq(S) /\ Len(q) < QUEUE_MAX
  BY <1>a, <1>2 DEF BusInv, Queues, Room
<1>5. canSendQueue'[Host] = Enqueue(q, fs)
  BY <1>1, <1>2 DEF BusInv, Queues
<1>6. fs \in Seq(S) /\ Len(fs) = 1 /\ fs[1].func = START_CMD /\ fs[1].data.b0 = g
  BY StartFramesFacts
<1>7. OnItsWay(func)
  BY <1>a DEF SettingInv
<1>8. todo # Idle => Sendable(todo) /\ todo.at \in Places
  BY TodoFields DEF BusInv, TodoInv
<1>9. todo # Idle =>
        /\ todo'.func = todo.func /\ todo' # Idle
        /\ todo'.b0 = IF todo.at \in {"call", "copy"} THEN g ELSE todo.b0
  BY <1>1, <1>8, OverwrittenFacts
<1>10. todo = Idle => todo' = Idle
  BY <1>1
<1>. HIDE DEF S, fs
<1>11. CASE todo # Idle /\ todo.func = func
  <2>2. CASE func = START_CMD
    <3>1. todo.at \in {"call", "copy"}
      BY <1>a, <1>8, <1>11, <2>2 DEF Crossed, Places
    <3>. QED  BY <1>3, <1>9, <1>11, <2>2, <3>1 DEF OnItsWay
  <2>3. CASE func # START_CMD
    <3>1. func = FUNC_SELECT_CMD
      BY <2>3 DEF Settings
    <3>2. todo.at \notin {"call", "copy"}
      BY <1>a, <1>11, <3>1 DEF Crossed
    <3>3. todo'.b0 = todo.b0 /\ order'[func] = order[func]
      BY <1>3, <1>9, <1>11, <2>3, <3>2
    <3>. QED  BY <1>7, <1>9, <1>11, <3>3 DEF OnItsWay
  <2>. QED  BY <2>2, <2>3
<1>12. CASE ~(todo # Idle /\ todo.func = func)
  <2>1. ~(todo' # Idle /\ todo'.func = func)
    BY <1>9, <1>10, <1>12
  <2>. DEFINE v == order'[func]
              all == AllObey(func)'
  <2>2. CASE func = START_CMD
    <3>1. fs[1].func = func /\ NewValue(func, fs[1].data.b0) = v
      BY <1>3, <1>6, <2>2
    <3>2. Carried(func, v, Enqueue(q, fs), m, all)
      <4>. HIDE DEF v, m, q, all
      <4>. QED  BY <1>4, <1>6, <3>1, CarriedNew
    <3>. QED  BY <1>1, <1>5, <2>1, <3>2 DEF OnItsWay
  <2>3. CASE func # START_CMD
    <3>1. Carried(func, v, q, m, AllObey(func))
      BY <1>3, <1>7, <1>12, <2>3 DEF OnItsWay
    <3>2. Carried(func, v, q, m, all)
      <4>1. AllObey(func) => all
        BY <1>3, <2>3
      <4>. HIDE DEF v, m, q, all
      <4>. QED  BY <3>1, <4>1 DEF Carried
    <3>3. NoneOf(fs, func)
      BY <1>6, <2>3 DEF NoneOf
    <3>4. Len(q) <= QUEUE_MAX
      BY <1>4, Constants
    <3>5. Carried(func, v, Enqueue(q, fs), m, all)
      <4>. HIDE DEF v, m, q, all
      <4>. QED  BY <1>4, <1>6, <3>2, <3>3, <3>4, CarriedBehind
    <3>. QED  BY <1>1, <1>5, <2>1, <3>5 DEF OnItsWay
  <2>. QED  BY <2>2, <2>3
<1>. QED  BY <1>11, <1>12

LEMMA StepSetting ==
    ASSUME BusInv, SettingInv, [Next]_vars
    PROVE  SettingInv'
<1>1. CASE \E s \in Stations : Load(s)
  BY <1>1, LoadSetting
<1>2. CASE Transfers
  BY <1>2, TransferSetting DEF Transfers
<1>3. CASE BusError
  BY <1>3, SameSetting DEF BusError, hvars
<1>4. CASE Passing
  <2>. DEFINE p == NextPlace
              b == NextByte
              c == [todo EXCEPT !.at = p, !.b0 = b]
  <2>1. /\ todo # Idle /\ Sendable(todo) /\ todo \in Todo /\ todo.next = 0
        /\ p \in Places /\ b \in 0..255 /\ (todo.func \in Settings => b = todo.b0)
        /\ todo' = c
        /\ setting' = setting /\ canSendQueue' = canSendQueue /\ mbox' = mbox
        /\ clean' = clean /\ order' = order /\ halted' = halted
    BY <1>4, PassingFacts DEF Sendable, qvars
  <2>. HIDE DEF p, b
  <2>a. Moved(c, todo, p, b)
    BY <2>1 DEF Moved
  <2>. HIDE DEF c
  <2>2. c # Idle /\ c.func = todo.func /\ c.b0 = b
    BY ONLY <2>a, TodoStep
  <2>. QED  BY <2>1, <2>2, SameSetting
<1>5. CASE AddFrame
  BY <1>5, AddFrameSetting
<1>6. CASE PollStatus
  BY <1>6, PollSetting
<1>7. ASSUME NEW g \in Gears, ServerSet(START_CMD, g)
      PROVE  SettingInv'
  <2>1. g \in 0..255 /\ START_CMD \in Settings
    BY CanAssumption DEF Settings
  <2>. QED  BY <1>7, <2>1, ServerSetSetting
<1>b. ASSUME NEW g \in {0, 2}, Button(g)
      PROVE  SettingInv'
  BY <1>b, ButtonSetting
<1>8. ASSUME NEW b \in Flags, ServerSet(FUNC_SELECT_CMD, b)
      PROVE  SettingInv'
  <2>1. b \in 0..255 /\ FUNC_SELECT_CMD \in Settings
    BY CanAssumption DEF Settings
  <2>. QED  BY <1>8, <2>1, ServerSetSetting
<1>9. ASSUME NEW msg, msg.func \notin Settings, todo = Idle, todo' = msg,
             UNCHANGED <<qvars, rx, setting, pvars, run, link, index, faults, hvars>>
      PROVE  SettingInv'
  BY <1>9, SameSetting DEF qvars, hvars
<1>10. /\ RESET_CMD \notin Settings /\ PARA_DATA \notin Settings
  BY DEF RESET_CMD, PARA_DATA, Settings, START_CMD, FUNC_SELECT_CMD
<1>11. CASE ServerReset
  BY <1>9, <1>10, <1>11 DEF ServerReset, Message
<1>12. ASSUME NEW n \in Slaves, ServerRead(n) \/ ServerWrite(n, (events + 1) % 2)
       PROVE  SettingInv'
  BY <1>9, <1>10, <1>12 DEF ServerRead, ServerWrite, ServerPara, Message
<1>13. ASSUME NEW r \in Slaves, RunChanges(r)
       PROVE  SettingInv'
  BY <1>13, SameSetting DEF RunChanges, qvars, hvars
<1>e. ASSUME NEW r \in Stations, Emergency(r)
      PROVE  SettingInv'
  BY <1>e, EmergencySetting
<1>14. CASE UNCHANGED vars
  BY <1>14, SameSetting DEF vars
<1>. QED
  BY <1>1, <1>2, <1>3, <1>4, <1>5, <1>6, <1>7, <1>b, <1>8, <1>11, <1>12, <1>13, <1>e, <1>14
  DEF Next, MainLoop, Passing

\* A command never leaves a line half stopped: once nothing is on its way any more,
\* every station has the block flag that was ordered last, and the gear that was
\* ordered last unless its own emergency input has stopped it since, for any
\* number of stations, of commands, of emergency stops and of errors on the wire,
\* as long as no frame of a setting was lost or found the queue full and no button
\* crossed a command of the server (fun.c, 109-120; can_bus.c, 308-327, 344-364;
\* logic_ctrl.c, 353-390, 466-503).
THEOREM SlavesFollowHost == Spec => []LineAgrees
<1>1. Init => SettingInv
  <2>. SUFFICES ASSUME Init PROVE SettingInv
    OBVIOUS
  <2>1. /\ Host \in Stations /\ Slaves \subseteq Stations
    BY DEF Stations
  <2>2. \A r \in Stations, func \in Settings : Obeys(r, func)
    BY DEF Init, Obeys
  <2>3. canSendQueue[Host] = <<>> /\ mbox[Host] = <<>> /\ todo = Idle /\ halted = {}
    BY <2>1 DEF Init
  <2>4. HaltInv
    BY <2>1, <2>2, <2>3 DEF HaltInv
  <2>5. ASSUME NEW func \in Settings
        PROVE  OnItsWay(func)
    <3>1. NoneOf(<<>>, func)
      BY DEF NoneOf
    <3>2. AllObey(func)
      BY <2>1, <2>2 DEF AllObey
    <3>. QED  BY <2>3, <3>1, <3>2 DEF OnItsWay, Carried
  <2>. QED  BY <2>4, <2>5 DEF SettingInv
<1>2. BusInv /\ SettingInv => LineAgrees
  <2>. SUFFICES ASSUME BusInv, SettingInv, Quiet, clean, NEW r \in Stations, NEW func \in Settings
                PROVE  setting[r][func] =
                          IF func = START_CMD /\ r \in halted THEN 0 ELSE order[func]
    BY DEF LineAgrees
  <2>1. Host \in Stations /\ (r = Host \/ r \in Slaves)
    BY DEF Stations
  <2>3. canSendQueue[Host] = <<>> /\ mbox[Host] = <<>> /\ todo = Idle
    BY <2>1 DEF Quiet
  <2>4. AllObey(func)
    <3>1. Carried(func, order[func], <<>>, <<>>, AllObey(func))
      BY <2>3 DEF SettingInv, OnItsWay
    <3>2. ~LastIs(<<>>, func, order[func])
      BY DEF LastIs
    <3>. QED  BY <3>1, <3>2 DEF Carried
  <2>5. Obeys(r, func)
    BY <2>1, <2>4 DEF AllObey, SettingInv, HaltInv
  <2>. QED  BY <2>5 DEF Obeys, SettingInv, HaltInv
<1>. QED  BY <1>1, <1>2, BusInvariant, StepSetting, PTL DEF Spec
=============================================================================
