-------------------------- MODULE CanMessageProofs --------------------------
(***************************************************************************)
(* Segmented messages that follow one another on the bus are not mixed,    *)
(* whatever is lost of them, except the first frame of one where the last  *)
(* of another was lost before, and whenever a button uses the host's       *)
(* buffer, except before the length in it is computed (ParasOwn and        *)
(* ReplyWhole of CanBus).  The invariant says of every frame on its way    *)
(* which message it may be of, of every receiver that what it has          *)
(* collected is of the message that is on its way, and of the host's main  *)
(* loop that the message it is queuing is that message.                    *)
(***************************************************************************)
EXTENDS CanBusProofs

-----------------------------------------------------------------------------
(* The invariant, by parts.                                                *)

\* The frames of a station in the order in which they are sent: those in the
\* mailboxes, then those in the queue.
Lines == [s \in Stations |-> mbox[s] \o canSendQueue[s]]

Long(f) == f.polo # NONE

\* All segments on their way are of one message of one station, its FIRST frame
\* before all others.
OneMessage(z) ==
    \A s, t \in Stations : \A i \in 1..Len(z[s]), j \in 1..Len(z[t]) :
        Long(z[s][i]) /\ Long(z[t][j]) =>
            /\ s = t
            /\ z[s][i].data.tag = z[t][j].data.tag
            /\ i < j => z[t][j].polo # FIRST

\* What a station has collected is of the message with this tag, except for a
\* first part that a request to read has overwritten, command included.
Agrees(a, tag) ==
    a.polo = FIRST =>
        /\ \A k \in 1..a.num : a.buff[k].tag = tag
        /\ a.buff[0].cmd # READ => a.buff[0].tag = tag

\* The FIRST frame has been sent.
Begun(l) == \A j \in 1..Len(l) : l[j].polo # FIRST

\* Once the FIRST frame of a message has been sent, the others collect nothing
\* but that message.
Collected(z, x) ==
    \A s, r \in Stations : \A i \in 1..Len(z[s]) :
        Long(z[s][i]) /\ r # s /\ Begun(z[s]) => Agrees(x[r], z[s][i].data.tag)

\* A single frame overwrites no more than the first byte, or it is a request to
\* read.  Parameter frames of one byte were cut by a button: the byte is 0 or 2.
SingleOK(f) ==
    /\ f.dlc \in {0, 1} \/ f.data.cmd = READ
    /\ f.func = PARA_DATA => f.dlc = 3 \/ (f.dlc = 1 /\ f.data.b0 # 1)

\* A segment of parameters of a slave carries its parameters.
SegmentOK(f) ==
    /\ f.dlc > 0
    /\ f.func = PARA_DATA =>
          /\ f.id \in Slaves => f.data.tag \in {Para(f.id, 0), Para(f.id, 1)}
          /\ f.polo = FINAL => f.num = FrameCount(ParaLen) - 1

\* A slave sends nothing in the name of others.
Proper(s, f) ==
    /\ s # Host => f.id = s
    /\ Long(f) => SegmentOK(f)
    /\ ~Long(f) => SingleOK(f)

AllProper(z) == \A s \in Stations : \A i \in 1..Len(z[s]) : Proper(s, z[s][i])

\* Long messages of the host are parameters for a slave.  A message about
\* parameters that a button has cut to one byte holds the button's byte.
TodoOK(t) ==
    /\ t.len > PACK =>
          /\ t.func = PARA_DATA /\ t.len = ParaLen /\ t.id \in Slaves
          /\ \E v \in {0, 1} : t.tags = [i \in ParaParts |-> Para(t.id, v)]
    /\ t.len = 3 => t.cmd = READ
    /\ t.func = PARA_DATA =>
          t.len \in {3, ParaLen} \/ (t.len = 1 /\ t.at \notin {"len", "fill"} /\ t.b0 # 1)

\* Parameters of one origin.
Whole(p) == \E t \in Tags : p = [i \in ParaParts |-> t]

Mine(r, p) == \E v \in {0, 1} : p = [i \in ParaParts |-> Para(r, v)]

Replied(p) ==
    \E t \in {Para(n, v) : n \in Slaves, v \in {0, 1}} \cup {Nil} : p = [i \in ParaParts |-> t]

OnTheBus(z, x) == OneMessage(z) /\ Collected(z, x) /\ AllProper(z)

InFlash ==
    /\ \A r \in Stations : Whole(user_paras_local[r])
    /\ \A r \in Slaves : Mine(r, user_paras_local[r])
    /\ Replied(user_paras_slave[Host])

NoSegments(z) == \A s \in Stations : \A i \in 1..Len(z[s]) : ~Long(z[s][i])

\* All segments on their way are sent by h and carry this tag.
SentAs(z, h, tag) ==
    \A s \in Stations : \A i \in 1..Len(z[s]) :
        Long(z[s][i]) => s = h /\ z[s][i].data.tag = tag

\* While the main loop queues a long message, all segments on their way are of
\* that message, and its FIRST frame is still in the queue.
Adding ==
    SegmentsLeft =>
        /\ SentAs(Lines, Host, todo.tags[0])
        /\ todo.next = 0 => NoSegments(Lines)
        /\ todo.next > 0 => \E k \in 1..Len(canSendQueue[Host]) :
                               canSendQueue[Host][k].polo = FIRST

MessageInv ==
    /\ uncut /\ todo # Idle => TodoOK(todo)
    /\ alone /\ uncut => OnTheBus(Lines, rx) /\ InFlash /\ Adding

-----------------------------------------------------------------------------
(* Lines.                                                                  *)

\* Index by index, e is l with the first frames of fs behind it.
Grown(l, e, fs) ==
    /\ e \in Seq(Frame) /\ Len(l) <= Len(e)
    /\ \A k \in 1..Len(l) : e[k] = l[k]
    /\ \A k \in 1..Len(e) : k > Len(l) => k - Len(l) \in 1..Len(fs) /\ e[k] = fs[k - Len(l)]

\* Putting a frame into a mailbox leaves the line as it is.
LEMMA LineLoad ==
    ASSUME NEW m \in Seq(Frame), NEW q \in Seq(Frame), q # <<>>
    PROVE  Append(m, Head(q)) \o Tail(q) = m \o q
<1>1. /\ Append(m, Head(q)) \in Seq(Frame) /\ Len(Append(m, Head(q))) = Len(m) + 1
      /\ Tail(q) \in Seq(Frame) /\ Len(Tail(q)) = Len(q) - 1 /\ Len(q) > 0
      /\ \A k \in 1..Len(m) : Append(m, Head(q))[k] = m[k]
      /\ Append(m, Head(q))[Len(m) + 1] = q[1]
      /\ \A k \in 1..(Len(q) - 1) : Tail(q)[k] = q[k + 1]
      /\ Len(m) \in Nat /\ Len(q) \in Nat
  OBVIOUS
<1>. DEFINE a == Append(m, Head(q))
            t == Tail(q)
<1>. HIDE DEF a, t
<1>2. a \o t \in Seq(Frame) /\ m \o q \in Seq(Frame) /\ Len(a \o t) = Len(m \o q)
      /\ Len(m \o q) = Len(m) + Len(q)
  BY <1>1 DEF a, t
<1>3. ASSUME NEW k \in 1..Len(m \o q)
      PROVE  (a \o t)[k] = (m \o q)[k]
  <2>1. CASE k <= Len(m)
    BY <1>1, <1>2, <2>1 DEF a, t
  <2>2. CASE k = Len(m) + 1
    BY <1>1, <1>2, <2>2 DEF a, t
  <2>3. CASE k > Len(m) + 1
    BY <1>1, <1>2, <2>3 DEF a, t
  <2>. QED  BY <1>1, <1>2, <2>1, <2>2, <2>3
<1>4. a \o t = m \o q
  BY <1>2, <1>3
<1>. QED  BY <1>4 DEF a, t

\* Sending a frame takes it off the line.
LEMMA LineSent ==
    ASSUME NEW m \in Seq(Frame), NEW q \in Seq(Frame), m # <<>>
    PROVE  /\ Tail(m) \o q \in Seq(Frame) /\ Len(m \o q) = Len(Tail(m) \o q) + 1
           /\ (m \o q)[1] = Head(m)
           /\ \A k \in 1..Len(Tail(m) \o q) : (Tail(m) \o q)[k] = (m \o q)[k + 1]
<1>1. /\ Tail(m) \in Seq(Frame) /\ Len(Tail(m)) = Len(m) - 1 /\ Len(m) > 0
      /\ \A k \in 1..(Len(m) - 1) : Tail(m)[k] = m[k + 1]
      /\ Len(m) \in Nat /\ Len(q) \in Nat /\ Head(m) = m[1]
  OBVIOUS
<1>. DEFINE t == Tail(m)
<1>. HIDE DEF t
<1>2. /\ t \o q \in Seq(Frame) /\ Len(t \o q) = Len(m) - 1 + Len(q)
      /\ Len(m \o q) = Len(m) + Len(q) /\ (m \o q)[1] = m[1]
  BY <1>1 DEF t
<1>3. ASSUME NEW k \in 1..Len(t \o q)
      PROVE  (t \o q)[k] = (m \o q)[k + 1]
  <2>1. CASE k <= Len(m) - 1
    BY <1>1, <1>2, <2>1 DEF t
  <2>2. CASE k > Len(m) - 1
    BY <1>1, <1>2, <2>2 DEF t
  <2>. QED  BY <1>1, <1>2, <2>1, <2>2
<1>. QED  BY <1>1, <1>2, <1>3 DEF t

LEMMA LineGrown ==
    ASSUME NEW m \in Seq(Frame), NEW q \in Seq(Frame), NEW fs \in Seq(Frame),
           Len(q) <= QUEUE_MAX
    PROVE  Grown(m \o q, m \o Enqueue(q, fs), fs)
<1>. DEFINE e == Enqueue(q, fs)
            l == m \o q
            g == m \o e
<1>1. /\ e \in Seq(Frame) /\ Len(q) <= Len(e)
      /\ \A k \in 1..Len(q) : e[k] = q[k]
      /\ \A k \in 1..Len(e) : k > Len(q) => k - Len(q) \in 1..Len(fs) /\ e[k] = fs[k - Len(q)]
  BY EnqueueFacts
<1>. HIDE DEF e
<1>2. /\ g \in Seq(Frame) /\ Len(g) = Len(m) + Len(e) /\ Len(l) = Len(m) + Len(q)
      /\ Len(m) \in Nat /\ Len(q) \in Nat /\ Len(e) \in Nat
      /\ \A k \in 1..Len(l) : l[k] = IF k <= Len(m) THEN m[k] ELSE q[k - Len(m)]
      /\ \A k \in 1..Len(g) : g[k] = IF k <= Len(m) THEN m[k] ELSE e[k - Len(m)]
  BY <1>1
<1>. HIDE DEF l, g
<1>3. ASSUME NEW k \in 1..Len(l)
      PROVE  g[k] = l[k]
  <2>1. k \in 1..Len(g)
    BY <1>1, <1>2
  <2>2. CASE k <= Len(m)
    BY <1>2, <2>1, <2>2
  <2>3. CASE ~(k <= Len(m))
    <3>1. k - Len(m) \in 1..Len(q)
      BY <1>2, <2>3
    <3>. QED  BY <1>1, <1>2, <2>1, <2>3, <3>1
  <2>. QED  BY <2>2, <2>3
<1>4. ASSUME NEW k \in 1..Len(g), k > Len(l)
      PROVE  k - Len(l) \in 1..Len(fs) /\ g[k] = fs[k - Len(l)]
  <2>1. k - Len(m) \in 1..Len(e) /\ k - Len(m) > Len(q) /\ ~(k <= Len(m))
    BY <1>2, <1>4
  <2>2. k - Len(m) - Len(q) = k - Len(l)
    BY <1>2
  <2>. QED  BY <1>1, <1>2, <2>1, <2>2
<1>5. Grown(l, g, fs)
  BY <1>1, <1>2, <1>3, <1>4 DEF Grown
<1>. QED  BY <1>5 DEF l, g, e
-----------------------------------------------------------------------------
(* What happens to the lines.                                              *)

\* A line that grows by single frames.
LEMMA SingleGrows ==
    ASSUME NEW z \in [Stations -> Seq(Frame)], NEW x, OnTheBus(z, x),
           NEW h \in Stations, NEW e, NEW fs, Grown(z[h], e, fs),
           \A k \in 1..Len(fs) : ~Long(fs[k]) /\ Proper(h, fs[k])
    PROVE  OnTheBus([z EXCEPT ![h] = e], x)
<1>. DEFINE y == [z EXCEPT ![h] = e]
            l == z[h]
<1>1. /\ y[h] = e /\ l \in Seq(Frame) /\ e \in Seq(Frame) /\ Len(l) \in Nat /\ Len(e) \in Nat
      /\ \A s \in Stations : s # h => y[s] = z[s]
  BY DEF Grown
<1>2. /\ Len(l) <= Len(e) /\ \A k \in 1..Len(l) : e[k] = l[k]
      /\ \A k \in 1..Len(e) : k > Len(l) => ~Long(e[k]) /\ Proper(h, e[k])
  BY DEF Grown
<1>. HIDE DEF y
<1>3. ASSUME NEW s \in Stations, NEW i \in 1..Len(y[s])
      PROVE  /\ Long(y[s][i]) => i \in 1..Len(z[s]) /\ y[s][i] = z[s][i]
             /\ Proper(s, y[s][i])
  <2>1. CASE s # h
    BY <1>1, <2>1 DEF OnTheBus, AllProper
  <2>2. CASE s = h /\ i <= Len(l)
    BY <1>1, <1>2, <2>2 DEF OnTheBus, AllProper
  <2>3. CASE s = h /\ i > Len(l)
    BY <1>1, <1>2, <2>3
  <2>. QED  BY <1>1, <2>1, <2>2, <2>3
<1>4. ASSUME NEW s \in Stations, Begun(y[s])
      PROVE  Begun(z[s])
  <2>1. CASE s # h
    BY <1>1, <1>4, <2>1
  <2>2. CASE s = h
    BY <1>1, <1>2, <1>4, <2>2 DEF Begun
  <2>. QED  BY <2>1, <2>2
<1>5. OneMessage(y)
  <2>. SUFFICES ASSUME NEW s \in Stations, NEW t \in Stations, NEW i \in 1..Len(y[s]),
                       NEW j \in 1..Len(y[t]), Long(y[s][i]), Long(y[t][j])
                PROVE  /\ s = t /\ y[s][i].data.tag = y[t][j].data.tag
                       /\ i < j => y[t][j].polo # FIRST
    BY DEF OneMessage
  <2>1. /\ i \in 1..Len(z[s]) /\ y[s][i] = z[s][i]
        /\ j \in 1..Len(z[t]) /\ y[t][j] = z[t][j]
    BY <1>3
  <2>2. OneMessage(z)
    BY DEF OnTheBus
  <2>. QED  BY ONLY s \in Stations, t \in Stations, Long(y[s][i]), Long(y[t][j]), <2>1, <2>2
            DEF OneMessage
<1>6. Collected(y, x)
  BY <1>3, <1>4 DEF OnTheBus, Collected
<1>7. AllProper(y)
  BY <1>3 DEF AllProper
<1>. QED  BY <1>5, <1>6, <1>7 DEF OnTheBus, y

\* The frames of a long message of station h.
LongMessageOf(h, fs) ==
    /\ fs \in Seq(Frame) /\ Len(fs) > 0 /\ fs[1].polo = FIRST
    /\ \A k \in 1..Len(fs) :
          /\ Long(fs[k]) /\ Proper(h, fs[k]) /\ fs[k].data.tag = fs[1].data.tag
          /\ k > 1 => fs[k].polo # FIRST

\* A line that grows by the frames of a long message, as far as they find room,
\* when there is no other on its way.
LEMMA LongGrows ==
    ASSUME NEW z \in [Stations -> Seq(Frame)], NEW x, NoSegments(z), AllProper(z),
           NEW h \in Stations, NEW e, NEW fs, Grown(z[h], e, fs), LongMessageOf(h, fs)
    PROVE  OnTheBus([z EXCEPT ![h] = e], x)
<1>. DEFINE y == [z EXCEPT ![h] = e]
            l == z[h]
<1>1. /\ y[h] = e /\ l \in Seq(Frame) /\ e \in Seq(Frame) /\ Len(l) \in Nat /\ Len(e) \in Nat
      /\ \A s \in Stations : s # h => y[s] = z[s]
  BY DEF Grown
<1>2. /\ Len(l) <= Len(e) /\ \A k \in 1..Len(l) : e[k] = l[k] /\ ~Long(e[k])
  BY DEF Grown, NoSegments
<1>3. \A k \in 1..Len(e) : k > Len(l) =>
          /\ Proper(h, e[k]) /\ e[k].data.tag = fs[1].data.tag
          /\ k > Len(l) + 1 => e[k].polo # FIRST
          /\ k = Len(l) + 1 => e[k].polo = FIRST
  <2>. SUFFICES ASSUME NEW k \in 1..Len(e), k > Len(l)
                PROVE  /\ Proper(h, e[k]) /\ e[k].data.tag = fs[1].data.tag
                       /\ k > Len(l) + 1 => e[k].polo # FIRST
                       /\ k = Len(l) + 1 => e[k].polo = FIRST
    OBVIOUS
  <2>. DEFINE n == k - Len(l)
  <2>1. n \in 1..Len(fs) /\ e[k] = fs[n]
    BY DEF Grown
  <2>2. (k > Len(l) + 1 => n > 1) /\ (k = Len(l) + 1 => n = 1)
    BY <1>1
  <2>. HIDE DEF n
  <2>. QED  BY <2>1, <2>2 DEF LongMessageOf
<1>. HIDE DEF y
<1>4. ASSUME NEW s \in Stations, NEW i \in 1..Len(y[s])
      PROVE  /\ Long(y[s][i]) => s = h /\ i > Len(l)
             /\ Proper(s, y[s][i])
  <2>1. CASE s # h
    BY <1>1, <2>1 DEF AllProper, NoSegments
  <2>2. CASE s = h /\ i <= Len(l)
    BY <1>1, <1>2, <2>2 DEF AllProper
  <2>3. CASE s = h /\ i > Len(l)
    BY <1>1, <1>3, <2>3
  <2>. QED  BY <1>1, <2>1, <2>2, <2>3
<1>5. OneMessage(y)
  <2>. SUFFICES ASSUME NEW s \in Stations, NEW t \in Stations, NEW i \in 1..Len(y[s]),
                       NEW j \in 1..Len(y[t]), Long(y[s][i]), Long(y[t][j])
                PROVE  /\ s = t /\ y[s][i].data.tag = y[t][j].data.tag
                       /\ i < j => y[t][j].polo # FIRST
    BY DEF OneMessage
  <2>1. s = h /\ t = h /\ i > Len(l) /\ j > Len(l)
    BY <1>4
  <2>2. i \in 1..Len(e) /\ j \in 1..Len(e) /\ (i < j => j > Len(l) + 1)
    BY <1>1, <2>1
  <2>. QED  BY <1>1, <1>3, <2>1, <2>2
<1>6. Collected(y, x)
  <2>. SUFFICES ASSUME NEW s \in Stations, NEW i \in 1..Len(y[s]), Long(y[s][i]), Begun(y[s])
                PROVE  FALSE
    BY DEF Collected
  <2>1. s = h /\ i > Len(l)
    BY <1>4
  <2>2. Len(l) + 1 \in 1..Len(e)
    BY <1>1, <2>1
  <2>. QED  BY <1>1, <1>3, <2>1, <2>2 DEF Begun
<1>7. AllProper(y)
  BY <1>4 DEF AllProper
<1>. QED  BY <1>5, <1>6, <1>7 DEF OnTheBus, y

\* A line that grows by further frames of the message that is on its way, whose
\* FIRST frame has not been sent.
LEMMA SegmentGrows ==
    ASSUME NEW z \in [Stations -> Seq(Frame)], NEW x, OnTheBus(z, x),
           NEW h \in Stations, NEW tag, SentAs(z, h, tag), ~Begun(z[h]),
           NEW e, NEW fs, Grown(z[h], e, fs),
           \A k \in 1..Len(fs) : /\ Proper(h, fs[k]) /\ fs[k].data.tag = tag
                                 /\ fs[k].polo # FIRST
    PROVE  OnTheBus([z EXCEPT ![h] = e], x)
<1>. DEFINE y == [z EXCEPT ![h] = e]
            l == z[h]
<1>1. /\ y[h] = e /\ l \in Seq(Frame) /\ e \in Seq(Frame) /\ Len(l) \in Nat /\ Len(e) \in Nat
      /\ \A s \in Stations : s # h => y[s] = z[s]
  BY DEF Grown
<1>2. /\ Len(l) <= Len(e) /\ \A k \in 1..Len(l) : e[k] = l[k]
      /\ \A k \in 1..Len(e) : k > Len(l) =>
            Proper(h, e[k]) /\ e[k].data.tag = tag /\ e[k].polo # FIRST
  BY DEF Grown
<1>. HIDE DEF y
<1>3. ASSUME NEW s \in Stations, NEW i \in 1..Len(y[s])
      PROVE  /\ Proper(s, y[s][i])
             /\ Long(y[s][i]) => /\ s = h /\ y[s][i].data.tag = tag
                                 /\ y[s][i].polo = FIRST =>
                                        i \in 1..Len(l) /\ y[s][i] = l[i]
  <2>1. CASE s # h
    BY <1>1, <2>1 DEF OnTheBus, AllProper, SentAs
  <2>2. CASE s = h /\ i <= Len(l)
    BY <1>1, <1>2, <2>2 DEF OnTheBus, AllProper, SentAs
  <2>3. CASE s = h /\ i > Len(l)
    BY <1>1, <1>2, <2>3
  <2>. QED  BY <1>1, <2>1, <2>2, <2>3
<1>4. ~Begun(y[h])
  <2>1. PICK k \in 1..Len(l) : l[k].polo = FIRST
    BY DEF Begun
  <2>2. k \in 1..Len(e) /\ e[k].polo = FIRST
    BY <1>1, <1>2, <2>1
  <2>. QED  BY <1>1, <2>2 DEF Begun
<1>5. OneMessage(y)
  <2>. SUFFICES ASSUME NEW s \in Stations, NEW t \in Stations, NEW i \in 1..Len(y[s]),
                       NEW j \in 1..Len(y[t]), Long(y[s][i]), Long(y[t][j])
                PROVE  /\ s = t /\ y[s][i].data.tag = y[t][j].data.tag
                       /\ i < j => y[t][j].polo # FIRST
    BY DEF OneMessage
  <2>1. s = h /\ t = h /\ y[s][i].data.tag = tag /\ y[t][j].data.tag = tag
    BY <1>3
  <2>2. ASSUME i < j, y[t][j].polo = FIRST
        PROVE  FALSE
    <3>1. j \in 1..Len(l) /\ y[t][j] = l[j]
      BY <1>3, <2>2
    <3>2. i \in 1..Len(l) /\ y[s][i] = l[i]
      BY <1>1, <1>2, <2>1, <2>2, <3>1
    <3>3. OneMessage(z)
      BY DEF OnTheBus
    <3>4. Long(z[h][i]) /\ Long(z[h][j])
      BY <3>1, <3>2
    <3>5. z[h][j].polo # FIRST
      BY ONLY h \in Stations, <2>2, <3>1, <3>2, <3>3, <3>4 DEF OneMessage
    <3>. QED  BY <2>2, <3>1, <3>5
  <2>. QED  BY <2>1, <2>2
<1>6. Collected(y, x)
  BY <1>3, <1>4 DEF Collected
<1>7. AllProper(y)
  BY <1>3 DEF AllProper
<1>. QED  BY <1>5, <1>6, <1>7 DEF OnTheBus, y
-----------------------------------------------------------------------------
(* What a frame does to what has been collected.                           *)

\* One byte at the head of the buffer changes neither origin nor command; any
\* other frame with data is all there is in its place.
LEMMA CopyTags ==
    ASSUME NEW buff \in [Slots -> Chunk], NEW f \in Frame, NEW off \in Nat,
           NEW i \in Slots, i = off \div PACK
    PROVE  /\ f.dlc = 0 \/ (f.dlc = 1 /\ off = 0) =>
                 /\ CopyTo(buff, off, f)[i].tag = buff[i].tag
                 /\ CopyTo(buff, off, f)[i].cmd = buff[i].cmd
           /\ f.dlc > 1 \/ (f.dlc = 1 /\ off # 0) => CopyTo(buff, off, f)[i] = f.data
<1>1. f.dlc \in Nat /\ f.data \in Chunk
  BY FrameFields
<1>2. ASSUME f.dlc = 0
      PROVE  CopyTo(buff, off, f)[i] = buff[i]
  BY <1>2 DEF CopyTo
<1>3. ASSUME f.dlc = 1, off = 0
      PROVE  /\ CopyTo(buff, off, f)[i].tag = buff[i].tag
             /\ CopyTo(buff, off, f)[i].cmd = buff[i].cmd
  <2>1. CopyTo(buff, off, f) = [buff EXCEPT ![i].b0 = f.data.b0]
    BY <1>3 DEF CopyTo
  <2>2. CopyTo(buff, off, f)[i] = [buff[i] EXCEPT !.b0 = f.data.b0]
    BY <2>1
  <2>3. buff[i] \in Chunk
    OBVIOUS
  <2>. QED  BY ONLY <2>2, <2>3 DEF Chunk
<1>4. ASSUME f.dlc > 1 \/ (f.dlc = 1 /\ off # 0)
      PROVE  CopyTo(buff, off, f)[i] = f.data
  <2>1. CopyTo(buff, off, f) = [buff EXCEPT ![i] = f.data]
    BY <1>1, <1>4 DEF CopyTo
  <2>. QED  BY <2>1
<1>. QED  BY <1>2, <1>3, <1>4

LEMMA SlotZero == 0 \in Slots /\ 0 \div PACK = 0
  BY ParaPartsInside, SegmentAssumption

\* Collected parts have a place in the buffer, and so has the next.
LEMMA PartsInside ==
    ASSUME NEW a \in Assembly, Sound(a), a.polo = FIRST
    PROVE  /\ \A k \in 0..(a.num + 1) : k \in Slots
           /\ a.bytes \in Nat /\ a.bytes # 0 /\ a.bytes \div PACK = a.num + 1 /\ a.num \in Nat
<1>1. /\ a.num \in Nat /\ PACK \in Nat /\ PACK > 0 /\ RX_SIZE \in Nat /\ a.bytes \in Nat
      /\ a.bytes = PACK * (a.num + 1) /\ a.bytes <= RX_SIZE
  BY AssemblyFields, SegmentAssumption DEF Sound
<1>2. a.bytes \div PACK = a.num + 1
  BY <1>1, DivExact
<1>3. ASSUME NEW k \in 0..(a.num + 1)
      PROVE  k \in Slots
  <2>1. PACK * k <= PACK * (a.num + 1)
    BY <1>1
  <2>2. PACK * k <= RX_SIZE
    BY <1>1, <2>1
  <2>. QED  BY <2>2, SlotInside
<1>4. a.bytes # 0
  BY <1>1
<1>. QED  BY <1>1, <1>2, <1>3, <1>4

\* A single frame between the segments.
LEMMA AgreesSingle ==
    ASSUME NEW a \in Assembly, Sound(a), NEW f \in Frame, f.polo = NONE, SingleOK(f),
           NEW tag, Agrees(a, tag)
    PROVE  Agrees(Receive(a, f), tag)
<1>. DEFINE b == CopyTo(a.buff, 0, f)
<1>1. Receive(a, f) = [a EXCEPT !.buff = b, !.len = f.dlc]
  BY ReceiveCases DEF ReceiveNone
<1>2. a.buff \in [Slots -> Chunk] /\ f.dlc \in Nat
  BY AssemblyFields, FrameFields
<1>. HIDE DEF b
<1>3. Receive(a, f).buff = b /\ Receive(a, f).polo = a.polo /\ Receive(a, f).num = a.num
  BY ONLY <1>1, a \in Assembly DEF Assembly
<1>4. SUFFICES ASSUME a.polo = FIRST
               PROVE  /\ \A k \in 1..a.num : b[k].tag = tag
                      /\ b[0].cmd # READ => b[0].tag = tag
  BY <1>3 DEF Agrees
<1>5. /\ \A k \in 1..a.num : a.buff[k].tag = tag
      /\ a.buff[0].cmd # READ => a.buff[0].tag = tag
  BY <1>4 DEF Agrees
<1>6. ASSUME NEW k \in 1..a.num
      PROVE  b[k].tag = tag
  <2>1. k \in Slots /\ k # 0
    BY <1>4, PartsInside
  <2>2. b[k] = a.buff[k]
    BY <1>2, <2>1, SlotZero, CopyFacts DEF b
  <2>. QED  BY <1>5, <2>2
<1>7. b[0].cmd # READ => b[0].tag = tag
  <2>1. CASE f.dlc = 0 \/ f.dlc = 1
    <3>1. b[0].tag = a.buff[0].tag /\ b[0].cmd = a.buff[0].cmd
      BY <1>2, <2>1, SlotZero, CopyTags DEF b
    <3>. QED  BY <1>5, <3>1
  <2>2. CASE f.dlc > 1
    <3>1. b[0] = f.data
      BY <1>2, <2>2, SlotZero, CopyTags DEF b
    <3>2. f.data.cmd = READ
      BY <2>2 DEF SingleOK
    <3>. QED  BY <3>1, <3>2
  <2>. QED  BY <1>2, <2>1, <2>2
<1>. QED  BY <1>6, <1>7

\* The FIRST frame begins anew.
LEMMA AgreesFirst ==
    ASSUME NEW a \in Assembly, NEW f \in Frame, f.polo = FIRST, Wellformed(f)
    PROVE  Agrees(Receive(a, f), f.data.tag)
<1>. DEFINE b == CopyTo(a.buff, 0, f)
<1>1. Receive(a, f) = [a EXCEPT !.buff = b, !.polo = FIRST, !.num = f.num, !.bytes = f.dlc]
  BY ReceiveCases DEF ReceiveFirst
<1>2. a.buff \in [Slots -> Chunk] /\ f.dlc = PACK /\ f.num = 0 /\ PACK > 1
  BY AssemblyFields, Constants DEF Wellformed
<1>. HIDE DEF b
<1>3. Receive(a, f).buff = b /\ Receive(a, f).num = f.num
  BY ONLY <1>1, a \in Assembly DEF Assembly
<1>4. b[0] = f.data
  BY <1>2, SlotZero, CopyTags DEF b
<1>. QED  BY <1>2, <1>3, <1>4 DEF Agrees

\* The buffer after a segment that fits: the parts before it are still there.
LEMMA NextPart ==
    ASSUME NEW a \in Assembly, Sound(a), NEW f \in Frame, a.polo = FIRST, SegmentOK(f)
    PROVE  LET b == CopyTo(a.buff, a.bytes, f)
           IN  /\ \A k \in 0..a.num : b[k] = a.buff[k]
               /\ b[a.num + 1] = f.data
<1>. DEFINE b == CopyTo(a.buff, a.bytes, f)
<1>1. /\ a.buff \in [Slots -> Chunk] /\ f.dlc \in Nat /\ f.dlc > 0
      /\ a.bytes \in Nat /\ a.bytes # 0 /\ a.bytes \div PACK = a.num + 1 /\ a.num \in Nat
      /\ \A k \in 0..(a.num + 1) : k \in Slots
  BY AssemblyFields, FrameFields, PartsInside DEF SegmentOK
<1>2. a.num + 1 \in Slots
  BY <1>1
<1>3. b[a.num + 1] = f.data
  <2>1. f.dlc > 1 \/ (f.dlc = 1 /\ a.bytes # 0)
    BY <1>1
  <2>. QED  BY <1>1, <1>2, <2>1, CopyTags
<1>4. ASSUME NEW k \in 0..a.num
      PROVE  b[k] = a.buff[k]
  <2>1. k \in Slots /\ k # a.num + 1
    BY <1>1
  <2>. QED  BY <1>1, <2>1, CopyFacts
<1>. HIDE DEF b
<1>5. (\A k \in 0..a.num : b[k] = a.buff[k]) /\ b[a.num + 1] = f.data
  BY <1>3, <1>4
<1>. QED  BY <1>5 DEF b

\* Another segment of the same message.
LEMMA AgreesNext ==
    ASSUME NEW a \in Assembly, Sound(a), NEW f \in Frame, f.polo \notin {NONE, FIRST},
           SegmentOK(f), Agrees(a, f.data.tag)
    PROVE  Agrees(Receive(a, f), f.data.tag)
<1>1. CASE f.polo = MIDDLE /\ Fits(a, f)
  <2>. DEFINE b == CopyTo(a.buff, a.bytes, f)
  <2>1. Receive(a, f) = [a EXCEPT !.buff = b, !.num = a.num + 1, !.bytes = a.bytes + f.dlc]
    BY <1>1, ReceiveCases DEF ReceiveMiddle
  <2>2. a.polo = FIRST /\ a.num \in Nat
    BY <1>1, AssemblyFields DEF Fits
  <2>3. (\A k \in 0..a.num : b[k] = a.buff[k]) /\ b[a.num + 1] = f.data
    BY <2>2, NextPart
  <2>. HIDE DEF b
  <2>4. Receive(a, f).buff = b /\ Receive(a, f).num = a.num + 1
    BY ONLY <2>1, a \in Assembly DEF Assembly
  <2>5. ASSUME NEW k \in 1..(a.num + 1)
        PROVE  b[k].tag = f.data.tag
    <3>1. CASE k = a.num + 1
      BY <2>3, <3>1
    <3>2. CASE k # a.num + 1
      <4>1. k \in 1..a.num /\ k \in 0..a.num
        BY <2>2, <3>2
      <4>. QED  BY <2>2, <2>3, <4>1 DEF Agrees
    <3>. QED  BY <3>1, <3>2
  <2>6. b[0] = a.buff[0]
    BY <2>2, <2>3
  <2>. QED  BY <2>2, <2>4, <2>5, <2>6 DEF Agrees
<1>2. CASE f.polo = FINAL /\ Fits(a, f)
  <2>1. Receive(a, f).polo = NONE
    <3>1. Receive(a, f) = [a EXCEPT !.buff = CopyTo(a.buff, a.bytes, f),
                                    !.len = a.bytes + f.dlc,
                                    !.polo = NONE, !.num = 0, !.bytes = 0]
      BY <1>2, ReceiveCases DEF ReceiveFinal
    <3>. QED  BY ONLY <3>1, a \in Assembly DEF Assembly
  <2>. QED  BY <2>1 DEF Agrees, NONE, FIRST
<1>3. CASE ~(f.polo \in {MIDDLE, FINAL} /\ Fits(a, f))
  BY <1>3, ReceiveCases
<1>. QED  BY <1>1, <1>2, <1>3

\* A frame has been sent by s and received by all others but those in L.
Received(s, f, L, x, y) ==
    \A r \in Stations :
        y[r] = IF r \in L \/ r = s THEN x[r] ELSE Receive(x[r], f)

LEMMA SentFrame ==
    ASSUME NEW z \in [Stations -> Seq(Frame)], NEW x \in [Stations -> Assembly],
           \A r \in Stations : Sound(x[r]), OnTheBus(z, x),
           NEW s \in Stations, NEW t \in Seq(Frame), NEW f \in Frame, Wellformed(f),
           Len(z[s]) = Len(t) + 1, z[s][1] = f, \A k \in 1..Len(t) : t[k] = z[s][k + 1],
           NEW L, NEW y, Received(s, f, L, x, y),
           f.polo = FIRST => \A r \in L \ {s} : r \in Stations => x[r].polo # FIRST
    PROVE  OnTheBus([z EXCEPT ![s] = t], y)
<1>. DEFINE w == [z EXCEPT ![s] = t]
<1>1. w[s] = t /\ \A q \in Stations : q # s => w[q] = z[q]
  OBVIOUS
<1>2. Len(t) \in Nat /\ z[s] \in Seq(Frame) /\ 1 \in 1..Len(z[s])
  OBVIOUS
<1>. HIDE DEF w
<1>3. ASSUME NEW q \in Stations, NEW i \in 1..Len(w[q])
      PROVE  \E k \in 1..Len(z[q]) : /\ w[q][i] = z[q][k] /\ (q = s => k = i + 1)
                                     /\ (q # s => k = i)
  <2>1. CASE q = s
    <3>1. i + 1 \in 1..Len(z[s]) /\ w[q][i] = z[s][i + 1]
      BY <1>1, <1>2, <2>1
    <3>. QED  BY <2>1, <3>1
  <2>2. CASE q # s
    BY <1>1, <2>2
  <2>. QED  BY <2>1, <2>2
<1>4. OneMessage(w)
  <2>. SUFFICES ASSUME NEW p \in Stations, NEW q \in Stations, NEW i \in 1..Len(w[p]),
                       NEW j \in 1..Len(w[q]), Long(w[p][i]), Long(w[q][j])
                PROVE  /\ p = q /\ w[p][i].data.tag = w[q][j].data.tag
                       /\ i < j => w[q][j].polo # FIRST
    BY DEF OneMessage
  <2>1. PICK k \in 1..Len(z[p]) : /\ w[p][i] = z[p][k] /\ (p = s => k = i + 1)
                                  /\ (p # s => k = i)
    BY <1>3
  <2>2. PICK n \in 1..Len(z[q]) : /\ w[q][j] = z[q][n] /\ (q = s => n = j + 1)
                                  /\ (q # s => n = j)
    BY <1>3
  <2>3. /\ p = q /\ z[p][k].data.tag = z[q][n].data.tag /\ (k < n => z[q][n].polo # FIRST)
    BY <2>1, <2>2 DEF OnTheBus, OneMessage
  <2>4. i < j => k < n
    BY <2>1, <2>2, <2>3
  <2>. QED  BY <2>1, <2>2, <2>3, <2>4
<1>5. AllProper(w)
  BY <1>3 DEF OnTheBus, AllProper
<1>6. Proper(s, f)
  BY <1>2 DEF OnTheBus, AllProper
<1>7. ASSUME NEW q \in Stations, NEW r \in Stations, NEW i \in 1..Len(w[q]),
             Long(w[q][i]), r # q, Begun(w[q])
      PROVE  Agrees(y[r], w[q][i].data.tag)
  <2>. DEFINE tag == w[q][i].data.tag
  <2>1. PICK k \in 1..Len(z[q]) : /\ w[q][i] = z[q][k] /\ (q = s => k = i + 1)
                                  /\ (q # s => k = i)
    BY <1>3
  <2>2. x[r] \in Assembly /\ Sound(x[r])
    OBVIOUS
  <2>3. y[r] = x[r] \/ (r \notin L /\ r # s /\ y[r] = Receive(x[r], f))
    BY DEF Received
  <2>4. ASSUME f.polo # FIRST
        PROVE  Agrees(x[r], tag)
    <3>1. Begun(z[q])
      <4>1. CASE q # s
        BY <1>1, <1>7, <4>1
      <4>2. CASE q = s
        <5>1. ASSUME NEW j \in 1..Len(z[s])
              PROVE  z[s][j].polo # FIRST
          <6>1. CASE j = 1
            BY <2>4, <6>1
          <6>2. CASE j # 1
            <7>1. j - 1 \in 1..Len(t) /\ (j - 1) + 1 = j
              BY <1>2, <6>2
            <7>2. t[j - 1] = z[s][j]
              BY <7>1
            <7>3. t[j - 1].polo # FIRST
              BY <1>1, <1>7, <4>2, <7>1 DEF Begun
            <7>. QED  BY <7>2, <7>3
          <6>. QED  BY <6>1, <6>2
        <5>. QED  BY <4>2, <5>1 DEF Begun
      <4>. QED  BY <4>1, <4>2
    <3>. QED  BY <1>7, <2>1, <3>1 DEF OnTheBus, Collected
  <2>5. ASSUME Long(f)
        PROVE  q = s /\ f.data.tag = tag
    BY <1>2, <1>7, <2>1, <2>5 DEF OnTheBus, OneMessage
  <2>. HIDE DEF tag
  <2>6. CASE f.polo = NONE
    <3>1. SingleOK(f) /\ f.polo # FIRST
      BY <1>6, <2>6 DEF Proper, Long, NONE, FIRST
    <3>2. Agrees(Receive(x[r], f), tag)
      BY <2>2, <2>4, <2>6, <3>1, AgreesSingle
    <3>. QED  BY <2>3, <2>4, <3>1, <3>2 DEF tag
  <2>7. CASE f.polo = FIRST
    <3>1. q = s /\ f.data.tag = tag
      BY <2>5, <2>7 DEF Long, NONE, FIRST
    <3>2. CASE r \in L
      <4>1. y[r] = x[r] /\ x[r].polo # FIRST
        BY <1>7, <2>7, <3>1, <3>2 DEF Received
      <4>. QED  BY <4>1 DEF Agrees
    <3>3. CASE r \notin L
      <4>1. y[r] = Receive(x[r], f)
        BY <1>7, <3>1, <3>3 DEF Received
      <4>2. Agrees(Receive(x[r], f), tag)
        BY <2>2, <2>7, <3>1, AgreesFirst
      <4>. QED  BY <4>1, <4>2 DEF tag
    <3>. QED  BY <3>2, <3>3
  <2>8. CASE f.polo \notin {NONE, FIRST}
    <3>1. f.data.tag = tag /\ SegmentOK(f) /\ Agrees(x[r], tag)
      BY <1>6, <2>4, <2>5, <2>8 DEF Proper, Long
    <3>2. Agrees(Receive(x[r], f), tag)
      BY <2>2, <2>8, <3>1, AgreesNext
    <3>. QED  BY <2>3, <3>1, <3>2 DEF tag
  <2>. QED  BY <2>6, <2>7, <2>8
<1>8. Collected(w, y)
  BY <1>7 DEF Collected
<1>. QED  BY <1>4, <1>5, <1>8 DEF OnTheBus, w
-----------------------------------------------------------------------------
(* The messages stations send.                                             *)

\* f is the k-th of the n frames of a message.
SegmentOf(f, k, n, func, id, len, cmd, tags) ==
    /\ f.polo = Polo(k - 1, n) /\ f.num = k - 1 /\ f.func = func /\ f.id = id
    /\ f.dlc = IF k < n THEN PACK ELSE len - PACK * (n - 1)
    /\ f.data.tag = tags[k - 1] /\ (k = 1 => f.data.cmd = cmd)

LEMMA SegmentFields ==
    ASSUME NEW func, NEW id, NEW len, NEW b0, NEW cmd, NEW tags,
           NEW k \in 1..FrameCount(len)
    PROVE  SegmentOf(Segments(func, id, len, b0, cmd, tags)[k], k, FrameCount(len),
                     func, id, len, cmd, tags)
<1>. DEFINE n == FrameCount(len)
            dlc(j) == IF j < n THEN PACK ELSE len - PACK * (n - 1)
            data(j) == [b0 |-> IF j = 1 THEN b0 ELSE 0, cmd |-> IF j = 1 THEN cmd ELSE 0,
                        tag |-> tags[j - 1], at |-> j - 1]
            frame(j) == [polo |-> Polo(j - 1, n), num |-> j - 1, func |-> func, id |-> id,
                         dlc |-> dlc(j), data |-> data(j)]
            fs == Segments(func, id, len, b0, cmd, tags)
<1>1. fs = [j \in 1..n |-> frame(j)]
  BY DEF Segments
<1>2. k \in 1..n
  OBVIOUS
<1>. HIDE DEF n, fs, frame
<1>3. fs[k] = frame(k)
  BY <1>1, <1>2
<1>4. /\ frame(k).polo = Polo(k - 1, n) /\ frame(k).num = k - 1 /\ frame(k).func = func
      /\ frame(k).id = id /\ frame(k).dlc = dlc(k)
      /\ frame(k).data.tag = tags[k - 1] /\ (k = 1 => frame(k).data.cmd = cmd)
  <2>. HIDE DEF dlc
  <2>. QED  BY DEF frame
<1>5. SegmentOf(frame(k), k, n, func, id, len, cmd, tags)
  BY <1>4 DEF SegmentOf
<1>. QED  BY <1>3, <1>5 DEF n, fs

\* No frame of a long message is without data.
LEMMA LastPart ==
    ASSUME NEW len \in 0..255, len > PACK
    PROVE  PACK * (FrameCount(len) - 1) < len
<1>1. PACK \in Nat /\ PACK > 0
  BY SegmentAssumption
<1>. DEFINE n == (len + PACK - 1) \div PACK
<1>2. len + PACK - 1 \in Nat /\ ~(len <= PACK)
  BY <1>1
<1>3. n \in Nat /\ PACK * n <= len + PACK - 1
  BY <1>1, <1>2, DivFacts
<1>4. FrameCount(len) = n
  BY <1>2 DEF FrameCount
<1>. HIDE DEF n
<1>5. PACK * n \in Nat /\ PACK * (n - 1) = PACK * n - PACK
  BY <1>1, <1>3, TimesFacts
<1>. QED  BY <1>1, <1>3, <1>4, <1>5

\* A message with parts of one origin that does not fit one frame; a slave sends it
\* in its own name, and the parameters of a slave are its own.
LongParts(h, func, id, len, b0, cmd, tags, tag) ==
    /\ h \in Stations /\ func \in 0..15 /\ id \in Ids /\ len \in 0..255
    /\ b0 \in 0..255 /\ cmd \in 0..255 /\ tag \in Tags /\ len > PACK
    /\ \A i \in 0..(FrameCount(len) - 1) : tags[i] = tag
    /\ h # Host => id = h
    /\ func = PARA_DATA =>
           /\ len = ParaLen
           /\ id \in Slaves => tag \in {Para(id, 0), Para(id, 1)}

LEMMA LongSegments ==
    ASSUME NEW h, NEW func, NEW id, NEW len, NEW b0, NEW cmd, NEW tags, NEW tag,
           LongParts(h, func, id, len, b0, cmd, tags, tag)
    PROVE  LongMessageOf(h, Segments(func, id, len, b0, cmd, tags))
<1>0. /\ h \in Stations /\ func \in 0..15 /\ id \in Ids /\ len \in 0..255
      /\ b0 \in 0..255 /\ cmd \in 0..255 /\ tag \in Tags /\ len > PACK
      /\ \A i \in 0..(FrameCount(len) - 1) : tags[i] = tag
      /\ h # Host => id = h
      /\ func = PARA_DATA =>
             /\ len = ParaLen
             /\ id \in Slaves => tag \in {Para(id, 0), Para(id, 1)}
  BY DEF LongParts
<1>. DEFINE fs == Segments(func, id, len, b0, cmd, tags)
            n == FrameCount(len)
<1>1. FramesOf(fs, func, len, b0)
  <2>1. /\ func \in 0..15 /\ id \in Ids /\ len \in 0..255 /\ b0 \in 0..255 /\ cmd \in 0..255
        /\ \A i \in 0..(FrameCount(len) - 1) : tags[i] \in Tags
    BY <1>0
  <2>. QED  BY ONLY <2>1, SegmentsFacts, Zenon
<1>2. \A k \in 1..n : SegmentOf(fs[k], k, n, func, id, len, cmd, tags)
  BY SegmentFields
<1>3. n \in 1..256 /\ n > 1
  BY ONLY <1>0, FrameCountFacts
<1>4. PACK * (n - 1) < len /\ PACK \in Nat /\ PACK > 0
  BY <1>0, LastPart, Constants
<1>5. fs \in Seq(Frame) /\ Len(fs) = n
  <2>. HIDE DEF fs
  <2>. QED  BY <1>1 DEF FramesOf
<1>6. func = PARA_DATA => n = FrameCount(ParaLen)
  BY <1>0
<1>7. \A i \in 0..(n - 1) : tags[i] = tag
  BY <1>0
<1>. HIDE DEF fs, n
<1>8. ASSUME NEW k \in 1..n
      PROVE  /\ fs[k].data.tag = tag /\ Long(fs[k]) /\ Proper(h, fs[k])
             /\ k = 1 => fs[k].polo = FIRST
             /\ k > 1 => fs[k].polo # FIRST
  <2>. DEFINE f == fs[k]
  <2>1. SegmentOf(f, k, n, func, id, len, cmd, tags)
    BY <1>2
  <2>. HIDE DEF f
  <2>2. k - 1 \in 0..(n - 1)
    BY <1>3
  <2>3. f.data.tag = tag
    BY <1>7, <2>1, <2>2 DEF SegmentOf
  <2>4. /\ f.polo # NONE /\ (k = 1 => f.polo = FIRST) /\ (k > 1 => f.polo # FIRST)
        /\ f.polo = FINAL => f.num = n - 1
    <3>1. f.polo = Polo(k - 1, n) /\ f.num = k - 1
      BY <2>1 DEF SegmentOf
    <3>. QED  BY <1>3, <3>1 DEF Polo, NONE, FIRST, MIDDLE, FINAL
  <2>5. f.dlc > 0
    <3>1. f.dlc = IF k < n THEN PACK ELSE len - PACK * (n - 1)
      BY <2>1 DEF SegmentOf
    <3>2. PACK * (n - 1) \in Int
      BY <1>3, <1>4
    <3>. QED  BY <1>0, <1>4, <3>1, <3>2
  <2>6. f.func = func /\ f.id = id
    BY <2>1 DEF SegmentOf
  <2>7. SegmentOK(f)
    BY <1>0, <1>6, <2>3, <2>4, <2>5, <2>6 DEF SegmentOK
  <2>8. Long(f) /\ Proper(h, f)
    BY <1>0, <2>4, <2>6, <2>7 DEF Long, Proper
  <2>. QED  BY <2>3, <2>4, <2>8 DEF f
<1>9. 1 \in 1..n
  BY <1>3
<1>10. LongMessageOf(h, fs)
  BY <1>3, <1>5, <1>8, <1>9 DEF LongMessageOf
<1>. QED  BY <1>10 DEF fs

\* A message that fits one frame.
ShortParts(func, id, len, b0, cmd, tags) ==
    /\ func \in 0..15 /\ id \in Ids /\ len \in 0..255 /\ b0 \in 0..255 /\ cmd \in 0..255
    /\ \A i \in 0..(FrameCount(len) - 1) : tags[i] \in Tags
    /\ len <= PACK /\ (len \in {0, 1} \/ cmd = READ)
    /\ func = PARA_DATA => len = 3 \/ (len = 1 /\ b0 # 1)

LEMMA ShortSegments ==
    ASSUME NEW func, NEW id, NEW len, NEW b0, NEW cmd, NEW tags,
           ShortParts(func, id, len, b0, cmd, tags)
    PROVE  LET fs == Segments(func, id, len, b0, cmd, tags)
           IN  \A k \in 1..Len(fs) : ~Long(fs[k]) /\ Proper(Host, fs[k])
<1>. DEFINE fs == Segments(func, id, len, b0, cmd, tags)
<1>0. /\ len \in 0..255 /\ len <= PACK /\ (len \in {0, 1} \/ cmd = READ)
      /\ func = PARA_DATA => len = 3 \/ (len = 1 /\ b0 # 1)
  BY DEF ShortParts
<1>1. FramesOf(fs, func, len, b0)
  <2>1. /\ func \in 0..15 /\ id \in Ids /\ len \in 0..255 /\ b0 \in 0..255 /\ cmd \in 0..255
        /\ \A i \in 0..(FrameCount(len) - 1) : tags[i] \in Tags
    BY DEF ShortParts
  <2>. QED  BY ONLY <2>1, SegmentsFacts, Zenon
<1>2. FrameCount(len) = 1
  BY ONLY <1>0, FrameCountFacts
<1>3. SegmentOf(fs[1], 1, FrameCount(len), func, id, len, cmd, tags)
  BY <1>2, SegmentFields
<1>. HIDE DEF fs
<1>4. Len(fs) = 1 /\ fs[1].polo = NONE /\ fs[1].dlc = len /\ fs[1].data.b0 = b0
  BY <1>0, <1>1, <1>2 DEF FramesOf
<1>5. fs[1].func = func /\ fs[1].data.cmd = cmd
  BY <1>3 DEF SegmentOf
<1>6. SingleOK(fs[1])
  BY <1>0, <1>4, <1>5 DEF SingleOK
<1>7. ~Long(fs[1]) /\ Proper(Host, fs[1])
  BY <1>4, <1>6 DEF Long, Proper
<1>8. \A k \in 1..Len(fs) : ~Long(fs[k]) /\ Proper(Host, fs[k])
  BY <1>4, <1>7
<1>. QED  BY <1>8 DEF fs
\* Parameters of one origin, those of a slave its own.
Fit(r, p) == Whole(p) /\ (r \in Slaves => Mine(r, p))

LEMMA ParaMessage ==
    ASSUME NEW r \in Stations, NEW cmd \in 0..255, NEW p, Fit(r, p)
    PROVE  LongMessageOf(r, ParaFrames(r, cmd, p))
<1>1. PICK t \in Tags : p = [i \in ParaParts |-> t]
  BY DEF Fit, Whole
<1>2. p[0] = t /\ \A i \in 0..(FrameCount(ParaLen) - 1) : p[i] = t
  BY <1>1, ParaPartsInside DEF ParaParts
<1>3. r \in Slaves => t \in {Para(r, 0), Para(r, 1)}
  <2>. SUFFICES ASSUME r \in Slaves PROVE t \in {Para(r, 0), Para(r, 1)}
    OBVIOUS
  <2>1. PICK v \in {0, 1} : p = [i \in ParaParts |-> Para(r, v)]
    BY DEF Fit, Mine
  <2>2. p[0] = Para(r, v)
    BY <2>1, ParaPartsInside
  <2>. QED  BY <1>2, <2>2
<1>4. PARA_DATA \in 0..15 /\ r \in Ids /\ ParaLen \in 0..255 /\ ParaLen > PACK
  BY Constants DEF PARA_DATA
<1>5. PARA_DATA = PARA_DATA => ParaLen = ParaLen /\ (r \in Slaves => t \in {Para(r, 0), Para(r, 1)})
  BY <1>3
<1>6. \A i \in 0..(FrameCount(ParaLen) - 1) : p[i] = t
  BY <1>2
<1>7. r # Host => r = r
  OBVIOUS
<1>8. LongParts(r, PARA_DATA, r, ParaLen, ParaLen, cmd, p, t)
  BY ONLY r \in Stations, cmd \in 0..255, t \in Tags, <1>4, <1>5, <1>6, <1>7 DEF LongParts
<1>. QED  BY ONLY <1>8, LongSegments DEF ParaFrames

LEMMA StatusMessage ==
    ASSUME NEW r \in Stations, run[r] \in {0, 1}
    PROVE  LongMessageOf(r, StatusFrames(r))
<1>. DEFINE t == [i \in 0..(FrameCount(STATUS_LEN) - 1) |-> Stat(run[r])]
            tag == Stat(run[r])
            len == STATUS_LEN
<1>1. (\A i \in 0..(FrameCount(len) - 1) : t[i] = tag) /\ tag \in Tags
  BY TagAssumption
<1>2. StatusFrames(r) = Segments(MODULE_STATUS, r, len, len, BeltNumber, t)
  BY DEF StatusFrames
<1>3. /\ MODULE_STATUS \in 0..15 /\ MODULE_STATUS # PARA_DATA /\ r \in Ids
      /\ len \in 0..255 /\ len > PACK /\ BeltNumber \in 0..255
  BY Constants DEF MODULE_STATUS, PARA_DATA
<1>. HIDE DEF t, tag, len
<1>4. /\ r # Host => r = r
      /\ MODULE_STATUS = PARA_DATA =>
            len = ParaLen /\ (r \in Slaves => tag \in {Para(r, 0), Para(r, 1)})
  BY <1>3
<1>5. LongParts(r, MODULE_STATUS, r, len, len, BeltNumber, t, tag)
  BY ONLY r \in Stations, <1>1, <1>3, <1>4 DEF LongParts
<1>. QED  BY ONLY <1>2, <1>5, LongSegments

\* What the host's main loop sends.
LEMMA TodoMessage ==
    ASSUME Sendable(todo), TodoOK(todo), todo.at = "add"
    PROVE  /\ todo.len > PACK => /\ LongMessageOf(Host, TodoFrames)
                                /\ TodoFrames[1].data.tag = todo.tags[0]
           /\ ~(todo.len > PACK) =>
                 \A k \in 1..Len(TodoFrames) : ~Long(TodoFrames[k]) /\ Proper(Host, TodoFrames[k])
<1>. DEFINE func == todo.func
            id == todo.id
            len == todo.len
            b0 == todo.b0
            cmd == todo.cmd
            tags == todo.tags
<1>1. /\ func \in 0..15 /\ id \in Ids /\ len \in 0..255 /\ b0 \in 0..255 /\ cmd \in 0..255
      /\ \A i \in 0..(FrameCount(len) - 1) : tags[i] \in Tags
  BY TodoFields
<1>2. TodoFrames = Segments(func, id, len, b0, cmd, tags)
  BY DEF TodoFrames
<1>3. Host \in Stations /\ Slaves \subseteq Stations /\ PACK \in Nat /\ PACK >= 3
  BY Constants DEF Stations
<1>4. ASSUME len > PACK
      PROVE  LongMessageOf(Host, TodoFrames) /\ TodoFrames[1].data.tag = tags[0]
  <2>1. func = PARA_DATA /\ len = ParaLen /\ id \in Slaves
    BY <1>4 DEF TodoOK
  <2>2. PICK v \in {0, 1} : tags = [i \in ParaParts |-> Para(id, v)]
    BY <1>4 DEF TodoOK
  <2>. DEFINE tag == Para(id, v)
  <2>3. tag \in Tags /\ tag \in {Para(id, 0), Para(id, 1)}
    BY <1>3, <2>1, TagAssumption
  <2>4. \A i \in 0..(FrameCount(len) - 1) : tags[i] = tag
    BY <2>1, <2>2 DEF ParaParts
  <2>. HIDE DEF func, id, len, b0, cmd, tags, tag
  <2>5. /\ Host # Host => id = Host
        /\ func = PARA_DATA => len = ParaLen /\ (id \in Slaves => tag \in {Para(id, 0), Para(id, 1)})
    BY <2>1, <2>3
  <2>6. LongParts(Host, func, id, len, b0, cmd, tags, tag)
    BY ONLY <1>1, <1>3, <1>4, <2>3, <2>4, <2>5 DEF LongParts
  <2>7. LongMessageOf(Host, TodoFrames)
    BY ONLY <1>2, <2>6, LongSegments
  <2>8. 1 \in 1..FrameCount(len)
    <3>1. len \in 0..255
      BY ONLY <1>1
    <3>2. FrameCount(len) \in 1..256
      BY ONLY <3>1, FrameCountFacts
    <3>. QED  BY ONLY <3>2
  <2>9. SegmentOf(TodoFrames[1], 1, FrameCount(len), func, id, len, cmd, tags)
    BY ONLY <1>2, <2>8, SegmentFields
  <2>. QED  BY ONLY <2>7, <2>9 DEF SegmentOf
<1>5. ASSUME ~(len > PACK)
      PROVE  \A k \in 1..Len(TodoFrames) : ~Long(TodoFrames[k]) /\ Proper(Host, TodoFrames[k])
  <2>1. len \in {0, 1, 3} /\ len <= PACK
    BY <1>1, <1>3, <1>5, Constants DEF Sendable
  <2>2. len \in {0, 1} \/ cmd = READ
    BY <2>1 DEF TodoOK
  <2>3. func = PARA_DATA => len = 3 \/ (len = 1 /\ b0 # 1)
    <3>1. len # ParaLen
      BY <2>1, <1>3, Constants
    <3>. QED  BY <3>1 DEF TodoOK
  <2>. HIDE DEF func, id, len, b0, cmd, tags
  <2>4. ShortParts(func, id, len, b0, cmd, tags)
    BY ONLY <1>1, <2>1, <2>2, <2>3 DEF ShortParts
  <2>. QED  BY ONLY <1>2, <2>4, ShortSegments
<1>. QED  BY <1>4, <1>5

LEMMA HostFrames ==
    /\ \A g \in 0..255 : \A k \in 1..Len(StartFrames(g)) :
          ~Long(StartFrames(g)[k]) /\ Proper(Host, StartFrames(g)[k])
    /\ \A n \in Ids : \A k \in 1..Len(PollFrames(n)) :
          ~Long(PollFrames(n)[k]) /\ Proper(Host, PollFrames(n)[k])
<1>0. /\ START_CMD \in 0..15 /\ READ_MODULE_STATUS \in 0..15 /\ Host \in Ids
      /\ 0 \in 0..255 /\ 1 \in 0..255 /\ 1 <= PACK /\ 0 <= PACK
      /\ START_CMD # PARA_DATA /\ READ_MODULE_STATUS # PARA_DATA
  BY Constants DEF START_CMD, READ_MODULE_STATUS, PARA_DATA
<1>1. ASSUME NEW g \in 0..255
      PROVE  \A k \in 1..Len(StartFrames(g)) :
                ~Long(StartFrames(g)[k]) /\ Proper(Host, StartFrames(g)[k])
  <2>. DEFINE l == 1
              z == 0
              t == NoTags
  <2>1. l \in 0..255 /\ l <= PACK /\ z \in 0..255 /\ l \in {0, 1}
    BY <1>0
  <2>2. \A i \in 0..(FrameCount(l) - 1) : t[i] \in Tags
    BY <1>0, ShortTags
  <2>3. StartFrames(g) = Segments(START_CMD, Host, l, g, z, t)
    BY DEF StartFrames
  <2>. HIDE DEF l, z, t
  <2>4. ShortParts(START_CMD, Host, l, g, z, t)
    BY ONLY g \in 0..255, <1>0, <2>1, <2>2 DEF ShortParts
  <2>. QED  BY ONLY <2>3, <2>4, ShortSegments
<1>2. ASSUME NEW n \in Ids
      PROVE  \A k \in 1..Len(PollFrames(n)) :
                ~Long(PollFrames(n)[k]) /\ Proper(Host, PollFrames(n)[k])
  <2>. DEFINE z == 0
              t == NoTags
  <2>1. z \in 0..255 /\ z <= PACK /\ z \in {0, 1}
    BY <1>0
  <2>2. \A i \in 0..(FrameCount(z) - 1) : t[i] \in Tags
    BY <1>0, ShortTags
  <2>3. PollFrames(n) = Segments(READ_MODULE_STATUS, n, z, z, z, t)
    BY DEF PollFrames
  <2>. HIDE DEF z, t
  <2>4. ShortParts(READ_MODULE_STATUS, n, z, z, z, t)
    BY ONLY n \in Ids, <1>0, <2>1, <2>2 DEF ShortParts
  <2>. QED  BY ONLY <2>3, <2>4, ShortSegments
<1>. QED  BY <1>1, <1>2
-----------------------------------------------------------------------------
(* What a station does with the parameters it has received.                *)

\* f comes from station s, and what r has collected is of its message.
Timely(s, r, f) ==
    /\ s \in Stations /\ r \in Stations /\ r # s
    /\ f \in Frame /\ Wellformed(f) /\ Proper(s, f)
    /\ f.polo \notin {NONE, FIRST} => Agrees(rx[r], f.data.tag)

\* A single frame asks for parameters or is ignored.
LEMMA SinglePara ==
    ASSUME BusInv, NEW s, NEW r, NEW f, Timely(s, r, f), f.polo = NONE
    PROVE  ParaCmd(r, f) \in {0, READ}
<1>. DEFINE a == rx[r]
            b == CopyTo(a.buff, 0, f)
            c == After(r, f)
<1>1. a \in Assembly /\ f \in Frame /\ SingleOK(f)
  BY DEF Timely, BusInv, RxInv, Proper, Long
<1>2. c = [a EXCEPT !.buff = b, !.len = f.dlc]
  BY ReceiveCases DEF ReceiveNone, After
<1>3. a.buff \in [Slots -> Chunk] /\ f.dlc \in Nat
  BY <1>1, AssemblyFields, FrameFields
<1>4. /\ f.dlc > 0 => b[0].b0 = f.data.b0
      /\ f.dlc > 1 => b[0] = f.data
  BY <1>1, <1>3, SlotZero, CopyFacts
<1>. HIDE DEF b, c
<1>5. c.buff = b /\ c.len = f.dlc
  BY ONLY <1>1, <1>2 DEF Assembly
<1>6. ASSUME f.func = PARA_DATA, LengthOK(c)
      PROVE  c.buff[0].cmd = READ
  <2>1. f.dlc # 1
    BY <1>1, <1>4, <1>5, <1>6 DEF LengthOK, SingleOK
  <2>2. f.dlc = 3 /\ f.data.cmd = READ
    BY <1>1, <1>6, <2>1 DEF SingleOK
  <2>. QED  BY <1>4, <1>5, <2>2
<1>. QED  BY <1>6 DEF ParaCmd, c

\* Parameters that are kept are all of one message.
LEMMA LongPara ==
    ASSUME BusInv, NEW s, NEW r, NEW f, Timely(s, r, f), ParaCmd(r, f) \notin {0, READ}
    PROVE  /\ f.func = PARA_DATA /\ (f.id = r \/ r = Host) /\ SegmentOK(f)
           /\ Content(After(r, f)) = [i \in ParaParts |-> f.data.tag]
<1>. DEFINE a == rx[r]
            b == CopyTo(a.buff, a.bytes, f)
            c == After(r, f)
<1>1. a \in Assembly /\ Sound(a) /\ f \in Frame
  BY DEF Timely, BusInv, RxInv
<1>2. f.polo # NONE
  BY SinglePara
<1>3. /\ Finished(a, f) /\ f.func = PARA_DATA /\ (f.id = r \/ r = Host)
      /\ ParaCmd(r, f) = c.buff[0].cmd
  BY DEF ParaCmd
<1>4. f.polo = FINAL /\ Fits(a, f)
  BY <1>2, <1>3 DEF Finished
<1>5. a.polo = FIRST /\ f.num = a.num + 1
  BY <1>4 DEF Fits
<1>6. SegmentOK(f) /\ Agrees(a, f.data.tag)
  BY <1>2, <1>4 DEF Timely, Proper, Long, FIRST, FINAL
<1>7. c = [a EXCEPT !.buff = b, !.len = a.bytes + f.dlc, !.polo = NONE, !.num = 0, !.bytes = 0]
  BY <1>4, ReceiveCases DEF ReceiveFinal, After
<1>8. (\A k \in 0..a.num : b[k] = a.buff[k]) /\ b[a.num + 1] = f.data
  BY <1>1, <1>5, <1>6, NextPart
<1>9. /\ \A k \in 1..a.num : a.buff[k].tag = f.data.tag
      /\ a.buff[0].cmd # READ => a.buff[0].tag = f.data.tag
  BY <1>5, <1>6 DEF Agrees
<1>10. a.num \in Nat /\ ParaParts = 0..(a.num + 1)
  <2>1. a.num \in Nat
    BY <1>1, AssemblyFields
  <2>2. FrameCount(ParaLen) - 1 = a.num + 1
    BY <1>3, <1>4, <1>5, <1>6 DEF SegmentOK
  <2>. QED  BY <2>1, <2>2 DEF ParaParts
<1>. HIDE DEF b, c
<1>11. c.buff = b
  BY ONLY <1>1, <1>7 DEF Assembly
<1>. HIDE DEF a
<1>12. b[0].cmd # READ
  BY <1>3, <1>11
<1>13. ASSUME NEW k \in ParaParts
       PROVE  b[k].tag = f.data.tag
  <2>1. CASE k = 0
    <3>1. b[0] = a.buff[0]
      BY <1>8, <1>10
    <3>. QED  BY <1>9, <1>12, <2>1, <3>1
  <2>2. CASE k = a.num + 1
    BY <1>8, <2>2
  <2>3. CASE k # 0 /\ k # a.num + 1
    <3>1. k \in 1..a.num /\ k \in 0..a.num
      BY <1>10, <2>3
    <3>. QED  BY <1>8, <1>9, <3>1
  <2>. QED  BY <2>1, <2>2, <2>3
<1>14. Content(c) = [i \in ParaParts |-> f.data.tag]
  BY <1>11, <1>13 DEF Content
<1>. QED  BY <1>3, <1>6, <1>14 DEF c

\* A slave keeps its own parameters, the host what a slave has sent.
LEMMA KeptParas ==
    ASSUME BusInv, NEW s, NEW r, NEW f, Timely(s, r, f)
    PROVE  /\ Fit(r, user_paras_local[r]) => Fit(r, NewLocal(r, f))
           /\ r = Host /\ Replied(user_paras_slave[Host]) => Replied(NewSlave(r, f))
<1>. DEFINE t == f.data.tag
<1>1. t \in Tags /\ s \in Stations /\ r \in Stations /\ r # s /\ (s # Host => f.id = s)
  <2>1. f \in Frame /\ f.data \in Chunk
    BY FrameFields DEF Timely
  <2>2. f.data.tag \in Tags
    BY ONLY <2>1 DEF Chunk
  <2>. QED  BY <2>2 DEF Timely, Proper
<1>2. ASSUME ParaCmd(r, f) \notin {0, READ}
      PROVE  /\ Content(After(r, f)) = [i \in ParaParts |-> t]
             /\ f.id = r \/ r = Host
             /\ f.id \in Slaves => t \in {Para(f.id, 0), Para(f.id, 1)}
  BY <1>2, LongPara DEF SegmentOK
<1>. HIDE DEF t
<1>3. Host \notin Slaves /\ \A q \in Stations : q # Host => q \in Slaves
  BY CanAssumption DEF Stations
<1>4. ASSUME Fit(r, user_paras_local[r]), ParaCmd(r, f) = WRITE
      PROVE  Fit(r, NewLocal(r, f))
  <2>1. NewLocal(r, f) = [i \in ParaParts |-> t] /\ (f.id = r \/ r = Host)
    BY <1>2, <1>4 DEF NewLocal, WRITE, READ
  <2>2. Whole(NewLocal(r, f))
    BY <1>1, <2>1 DEF Whole
  <2>3. ASSUME r \in Slaves
        PROVE  Mine(r, NewLocal(r, f))
    <3>1. f.id = r
      BY <1>3, <2>1, <2>3
    <3>2. t \in {Para(r, 0), Para(r, 1)}
      BY <1>2, <1>4, <2>3, <3>1 DEF WRITE, READ
    <3>. QED  BY <2>1, <3>2 DEF Mine
  <2>. QED  BY <2>2, <2>3 DEF Fit
<1>5. ASSUME Fit(r, user_paras_local[r]), ParaCmd(r, f) # WRITE
      PROVE  Fit(r, NewLocal(r, f))
  BY <1>5 DEF NewLocal
<1>6. ASSUME r = Host, ParaCmd(r, f) \in {READ_REPLY, WRITE_REPLY}
      PROVE  Replied(NewSlave(r, f))
  <2>1. ParaCmd(r, f) \notin {0, READ}
    BY <1>6 DEF READ_REPLY, WRITE_REPLY, READ
  <2>2. NewSlave(r, f) = [i \in ParaParts |-> t]
    BY <1>2, <1>6, <2>1 DEF NewSlave
  <2>3. s \in Slaves /\ f.id = s
    BY <1>1, <1>3, <1>6
  <2>4. t \in {Para(s, 0), Para(s, 1)}
    BY <1>2, <2>1, <2>3
  <2>5. t \in {Para(n, v) : n \in Slaves, v \in {0, 1}}
    BY <2>3, <2>4
  <2>. QED  BY <2>2, <2>5 DEF Replied
<1>7. ASSUME r = Host, Replied(user_paras_slave[Host]), ParaCmd(r, f) \notin {READ_REPLY, WRITE_REPLY}
      PROVE  Replied(NewSlave(r, f))
  BY <1>7 DEF NewSlave
<1>. QED  BY <1>4, <1>5, <1>6, <1>7

\* Only the station that is asked answers, and the answer is one long message.
LEMMA AnswerMessage ==
    ASSUME BusInv, NEW s, NEW r, NEW f, Timely(s, r, f), Fit(r, user_paras_local[r])
    PROVE  \/ Answer(r, f) = <<>>
           \/ LongMessageOf(r, Answer(r, f)) /\ (f.id = r \/ r = Host)
<1>1. r \in Stations /\ READ_REPLY \in 0..255 /\ WRITE_REPLY \in 0..255
  BY DEF Timely, READ_REPLY, WRITE_REPLY
<1>2. run[r] \in {0, 1}
  BY <1>1 DEF BusInv, DataInv
<1>. DEFINE asked == Finished(rx[r], f) /\ f.func = READ_MODULE_STATUS /\ f.id = r /\ r # Host
            p == ParaFrames(r, READ_REPLY, user_paras_local[r])
            w == ParaFrames(r, WRITE_REPLY, NewLocal(r, f))
            c == ParaCmd(r, f)
            t == StatusFrames(r)
<1>3. Answer(r, f) = CASE c = READ -> p [] c = WRITE -> w [] asked -> t [] OTHER -> <<>>
  BY DEF Answer
<1>4. /\ asked \in BOOLEAN /\ (asked => f.id = r /\ c # READ /\ c # WRITE)
      /\ c \in {READ, WRITE} => f.id = r \/ r = Host
  BY DEF ParaCmd, READ, WRITE, READ_MODULE_STATUS, PARA_DATA
<1>5. LongMessageOf(r, p) /\ LongMessageOf(r, w) /\ LongMessageOf(r, t)
  <2>1. Fit(r, NewLocal(r, f))
    BY KeptParas
  <2>. QED  BY <1>1, <1>2, <2>1, ParaMessage, StatusMessage
<1>6. READ # WRITE
  BY DEF READ, WRITE
<1>. HIDE DEF asked, p, w, c, t
<1>7. CASE c = READ
  <2>1. Answer(r, f) = p
    BY ONLY <1>3, <1>4, <1>6, <1>7, Zenon
  <2>. QED  BY <1>4, <1>5, <1>7, <2>1
<1>8. CASE c = WRITE
  <2>1. Answer(r, f) = w
    BY ONLY <1>3, <1>4, <1>6, <1>8, Zenon
  <2>. QED  BY <1>4, <1>5, <1>8, <2>1
<1>9. CASE asked
  <2>1. Answer(r, f) = t
    BY ONLY <1>3, <1>4, <1>9, Zenon
  <2>. QED  BY <1>4, <1>5, <1>9, <2>1
<1>10. CASE ~asked /\ c # READ /\ c # WRITE
  BY ONLY <1>3, <1>4, <1>10, Zenon
<1>. QED  BY <1>4, <1>7, <1>8, <1>9, <1>10
-----------------------------------------------------------------------------
(* Every step keeps the invariant.                                         *)

LineOf(m, q) == [r \in Stations |-> m[r] \o q[r]]

LEMMA NothingPending ==
    ASSUME NEW q \in [Stations -> Seq(Frame)], NEW m \in [Stations -> Seq(Frame)],
           ~LongPending(q, m)
    PROVE  NoSegments(LineOf(m, q))
<1>. DEFINE z == LineOf(m, q)
<1>. SUFFICES ASSUME NEW s \in Stations, NEW i \in 1..Len(z[s])
              PROVE  ~Long(z[s][i])
  BY DEF NoSegments
<1>1. /\ z[s] = m[s] \o q[s] /\ m[s] \in Seq(Frame) /\ q[s] \in Seq(Frame)
      /\ Len(m[s]) \in Nat /\ Len(q[s]) \in Nat
  BY DEF LineOf
<1>2. Len(z[s]) = Len(m[s]) + Len(q[s])
  BY <1>1
<1>3. CASE i <= Len(m[s])
  <2>1. i \in DOMAIN m[s] /\ z[s][i] = m[s][i]
    BY <1>1, <1>2, <1>3
  <2>. QED  BY <2>1 DEF LongPending, Long
<1>4. CASE i > Len(m[s])
  <2>1. i - Len(m[s]) \in DOMAIN q[s] /\ z[s][i] = q[s][i - Len(m[s])]
    BY <1>1, <1>2, <1>4
  <2>. QED  BY <2>1 DEF LongPending, Long
<1>. QED  BY <1>1, <1>3, <1>4

LEMMA NothingAdded ==
    ASSUME NEW q \in Seq(Frame), Len(q) <= QUEUE_MAX
    PROVE  Enqueue(q, <<>>) = q
<1>1. q \o <<>> = q
  OBVIOUS
<1>. QED  BY <1>1 DEF Enqueue

\* The frame that ends on the wire comes in time for all others.
LEMMA HeadTimely ==
    ASSUME BusInv, NEW z, OnTheBus(z, rx), NEW s \in Stations, z[s] \in Seq(Frame),
           z[s] # <<>>, NEW f \in Frame, Wellformed(f), z[s][1] = f,
           NEW r \in Stations, r # s
    PROVE  Timely(s, r, f)
<1>1. 1 \in 1..Len(z[s]) /\ Len(z[s]) \in Nat
  OBVIOUS
<1>2. Proper(s, f)
  BY <1>1 DEF OnTheBus, AllProper
<1>3. ASSUME f.polo \notin {NONE, FIRST}
      PROVE  Agrees(rx[r], f.data.tag)
  <2>1. ASSUME NEW j \in 1..Len(z[s])
        PROVE  z[s][j].polo # FIRST
    <3>1. CASE j = 1
      BY <1>3, <3>1
    <3>2. CASE j # 1
      <4>1. 1 < j
        BY <1>1, <3>2
      <4>2. Long(z[s][1])
        BY <1>3 DEF Long
      <4>3. Long(z[s][j]) => z[s][j].polo # FIRST
        BY <1>1, <4>1, <4>2 DEF OnTheBus, OneMessage
      <4>. QED  BY <4>3 DEF Long, NONE, FIRST
    <3>. QED  BY <3>1, <3>2
  <2>2. Begun(z[s])
    BY <2>1 DEF Begun
  <2>. QED  BY <1>1, <1>3, <2>2 DEF OnTheBus, Collected, Long
<1>. QED  BY <1>2, <1>3 DEF Timely

\* At most one station answers.
LEMMA OneAnswer ==
    ASSUME NEW s, NEW f, NEW h, NEW r, Timely(s, h, f), Timely(s, r, f),
           f.id = h \/ h = Host, f.id = r \/ r = Host
    PROVE  h = r
  BY DEF Timely, Proper

LEMMA LinesType ==
    ASSUME BusInv
    PROVE  /\ Lines \in [Stations -> Seq(Frame)] /\ Lines = LineOf(mbox, canSendQueue)
           /\ \A r \in Stations : /\ canSendQueue[r] \in Seq(Frame) /\ mbox[r] \in Seq(Frame)
                                  /\ Len(canSendQueue[r]) <= QUEUE_MAX
                                  /\ Lines[r] = mbox[r] \o canSendQueue[r]
           /\ canSendQueue \in [Stations -> Seq(Frame)] /\ mbox \in [Stations -> Seq(Frame)]
<1>1. /\ canSendQueue \in [Stations -> Seq(Frame)] /\ mbox \in [Stations -> Seq(Frame)]
      /\ \A r \in Stations : Len(canSendQueue[r]) <= QUEUE_MAX
  BY DEF BusInv, Queues, Boxes
<1>2. \A r \in Stations : mbox[r] \o canSendQueue[r] \in Seq(Frame)
  BY <1>1
<1>. QED  BY <1>1, <1>2 DEF Lines, LineOf

\* The line of a station that has sent a frame.
LEMMA SentLine ==
    ASSUME BusInv, NEW s \in Stations, mbox[s] # <<>>
    PROVE  LET t == Tail(mbox[s]) \o canSendQueue[s]
           IN  /\ t \in Seq(Frame) /\ Len(Lines[s]) = Len(t) + 1 /\ Lines[s][1] = Head(mbox[s])
               /\ \A k \in 1..Len(t) : t[k] = Lines[s][k + 1]
<1>. DEFINE m == mbox[s]
            q == canSendQueue[s]
            l == Lines[s]
            t == Tail(m) \o q
<1>1. m \in Seq(Frame) /\ q \in Seq(Frame) /\ m # <<>> /\ l = m \o q
  BY LinesType
<1>. HIDE DEF m, q, l
<1>2. /\ t \in Seq(Frame) /\ Len(m \o q) = Len(t) + 1 /\ (m \o q)[1] = Head(m)
      /\ \A k \in 1..Len(t) : t[k] = (m \o q)[k + 1]
  BY ONLY <1>1, LineSent
<1>3. t \in Seq(Frame) /\ Len(l) = Len(t) + 1 /\ l[1] = Head(m) /\ \A k \in 1..Len(t) : t[k] = l[k + 1]
  BY ONLY <1>1, <1>2
<1>. QED  BY <1>3 DEF m, q, l

\* The lines after a transfer.
LEMMA TransferLines ==
    ASSUME BusInv, OnTheBus(Lines, rx), \A r \in Stations : Fit(r, user_paras_local[r]),
           NEW s \in Stations, NEW L \in SUBSET Stations, Transfer(s, L), alone'
    PROVE  OnTheBus(Lines, rx)'
<1>. DEFINE f == Head(mbox[s])
            R == Stations \ (L \cup {s})
            z == Lines
            t == Tail(mbox[s]) \o canSendQueue[s]
            w == [z EXCEPT ![s] = t]
<1>1. /\ wire = s /\ s # Idle /\ mbox[s] \in Seq(StationFrames(s)) /\ mbox[s] # <<>>
  BY CanAssumption DEF BusInv, Boxes, WireInv, Transfer
<1>2. f \in Frame /\ Wellformed(f)
  <2>1. f \in StationFrames(s)
    BY <1>1
  <2>. QED  BY <2>1 DEF StationFrames
<1>3. /\ z \in [Stations -> Seq(Frame)] /\ z = LineOf(mbox, canSendQueue)
      /\ \A r \in Stations : /\ canSendQueue[r] \in Seq(Frame) /\ mbox[r] \in Seq(Frame)
                             /\ Len(canSendQueue[r]) <= QUEUE_MAX
                             /\ z[r] = mbox[r] \o canSendQueue[r]
      /\ canSendQueue \in [Stations -> Seq(Frame)] /\ mbox \in [Stations -> Seq(Frame)]
  BY LinesType
<1>4. /\ t \in Seq(Frame) /\ Len(z[s]) = Len(t) + 1 /\ z[s][1] = f
      /\ \A k \in 1..Len(t) : t[k] = z[s][k + 1]
  BY <1>1, SentLine
<1>5. /\ rx' = [r \in Stations |-> IF r \in R THEN After(r, f) ELSE rx[r]]
      /\ canSendQueue' = [r \in Stations |->
                            IF r \in R THEN Enqueue(canSendQueue[r], Answer(r, f))
                            ELSE canSendQueue[r]]
      /\ mbox' = [mbox EXCEPT ![s] = Tail(mbox[s])]
      /\ canSendQueue' # canSendQueue => ~LongPending(canSendQueue, mbox')
      /\ f.polo = FIRST => \A r \in L : rx[r].polo # FIRST
  BY DEF Transfer
<1>. HIDE DEF f, z, t
<1>6. z[s] # <<>>
  <2>1. Len(t) \in Nat
    BY <1>4
  <2>2. Len(z[s]) # 0
    BY <1>4, <2>1
  <2>. QED  BY <2>2
<1>7. OnTheBus(w, rx')
  <2>1. Received(s, f, L, rx, rx')
    BY <1>5 DEF Received, After
  <2>2. rx \in [Stations -> Assembly] /\ \A r \in Stations : Sound(rx[r])
    BY DEF BusInv, RxInv
  <2>3. f.polo = FIRST => \A r \in L \ {s} : r \in Stations => rx[r].polo # FIRST
    BY <1>5
  <2>4. OnTheBus(z, rx)
    BY DEF z
  <2>. DEFINE x == rx
              y == rx'
  <2>5. /\ x \in [Stations -> Assembly] /\ (\A r \in Stations : Sound(x[r])) /\ OnTheBus(z, x)
        /\ Received(s, f, L, x, y)
        /\ f.polo = FIRST => \A r \in L \ {s} : r \in Stations => x[r].polo # FIRST
    BY <2>1, <2>2, <2>3, <2>4
  <2>. HIDE DEF x, y
  <2>6. OnTheBus(w, y)
    BY <1>2, <1>3, <1>4, <2>5, SentFrame
  <2>. QED  BY <2>6 DEF y
<1>8. w = LineOf(mbox', canSendQueue)
  <2>1. ASSUME NEW r \in Stations
        PROVE  w[r] = mbox'[r] \o canSendQueue[r]
    BY <1>3, <1>5 DEF t
  <2>. QED  BY <1>3, <2>1 DEF LineOf
<1>9. Lines' = LineOf(mbox', canSendQueue')
  BY DEF Lines, LineOf
<1>10. CASE canSendQueue' = canSendQueue
  BY <1>7, <1>8, <1>9, <1>10
<1>11. CASE canSendQueue' # canSendQueue
  <2>1. \A r \in Stations : r # s => Timely(s, r, f)
    BY <1>2, <1>3, <1>4, <1>6, HeadTimely DEF z
  <2>2. \A r \in R : \/ Answer(r, f) = <<>>
                     \/ LongMessageOf(r, Answer(r, f)) /\ (f.id = r \/ r = Host)
    BY <2>1, AnswerMessage
  <2>3. PICK h \in Stations : canSendQueue'[h] # canSendQueue[h]
    BY <1>3, <1>5, <1>11
  <2>4. h \in R /\ Answer(h, f) # <<>>
    BY <1>3, <1>5, <2>3, NothingAdded
  <2>. DEFINE fs == Answer(h, f)
              e == mbox'[h] \o Enqueue(canSendQueue[h], fs)
  <2>5. LongMessageOf(h, fs) /\ (f.id = h \/ h = Host)
    BY <2>2, <2>4
  <2>6. \A r \in Stations : r # h => canSendQueue'[r] = canSendQueue[r]
    <3>. SUFFICES ASSUME NEW r \in R, r # h PROVE canSendQueue'[r] = canSendQueue[r]
      BY <1>5
    <3>1. Answer(r, f) = <<>>
      BY <2>1, <2>2, <2>4, <2>5, OneAnswer
    <3>. QED  BY <1>3, <1>5, <3>1, NothingAdded
  <2>7. mbox' \in [Stations -> Seq(Frame)]
    BY <1>1, <1>3, <1>5
  <2>8. w \in [Stations -> Seq(Frame)] /\ NoSegments(w)
    <3>1. w \in [Stations -> Seq(Frame)]
      BY <1>3, <1>4
    <3>. DEFINE m == mbox'
    <3>2. m \in [Stations -> Seq(Frame)] /\ ~LongPending(canSendQueue, m)
      BY <1>5, <1>11, <2>7
    <3>. HIDE DEF m, w
    <3>3. NoSegments(LineOf(m, canSendQueue))
      BY <1>3, <3>2, NothingPending
    <3>. QED  BY <1>8, <3>1, <3>3 DEF m
  <2>9. Grown(w[h], e, fs)
    <3>1. w[h] = mbox'[h] \o canSendQueue[h]
      BY <1>8 DEF LineOf
    <3>2. mbox'[h] \in Seq(Frame) /\ canSendQueue[h] \in Seq(Frame) /\ fs \in Seq(Frame)
          /\ Len(canSendQueue[h]) <= QUEUE_MAX
      BY <1>3, <2>5, <2>7 DEF LongMessageOf
    <3>. QED  BY <3>1, <3>2, LineGrown
  <2>10. AllProper(w)
    BY <1>7 DEF OnTheBus
  <2>11. Lines' = [w EXCEPT ![h] = e]
    <3>1. canSendQueue'[h] = Enqueue(canSendQueue[h], fs)
      BY <1>5, <2>4
    <3>2. ASSUME NEW r \in Stations
          PROVE  LineOf(mbox', canSendQueue')[r] = [w EXCEPT ![h] = e][r]
      BY <1>8, <2>6, <2>8, <3>1 DEF LineOf
    <3>3. LineOf(mbox', canSendQueue') = [r \in Stations |-> LineOf(mbox', canSendQueue')[r]]
      BY DEF LineOf
    <3>4. [w EXCEPT ![h] = e] = [r \in Stations |-> [w EXCEPT ![h] = e][r]]
      BY <2>8
    <3>. QED  BY <1>9, <3>2, <3>3, <3>4
  <2>. DEFINE y == rx'
  <2>. HIDE DEF w, e, fs, y
  <2>12. OnTheBus([w EXCEPT ![h] = e], y)
    BY <2>5, <2>8, <2>9, <2>10, LongGrows
  <2>. QED  BY <2>11, <2>12 DEF y
<1>. QED  BY <1>10, <1>11
LEMMA FlashParts ==
    InFlash <=> (\A r \in Stations : Fit(r, user_paras_local[r])) /\ Replied(user_paras_slave[Host])
<1>1. Slaves \subseteq Stations
  BY DEF Stations
<1>. QED  BY <1>1 DEF InFlash, Fit

\* What is in flash after a transfer.
LEMMA TransferFlash ==
    ASSUME BusInv, OnTheBus(Lines, rx), InFlash,
           NEW s \in Stations, NEW L \in SUBSET Stations, Transfer(s, L)
    PROVE  InFlash'
<1>. DEFINE f == Head(mbox[s])
            R == Stations \ (L \cup {s})
<1>1. mbox[s] \in Seq(StationFrames(s)) /\ mbox[s] # <<>>
  BY CanAssumption DEF BusInv, Boxes, WireInv, Transfer
<1>2. f \in Frame /\ Wellformed(f)
  <2>1. f \in StationFrames(s)
    BY <1>1
  <2>. QED  BY <2>1 DEF StationFrames
<1>3. /\ mbox[s] \in Seq(Frame) /\ canSendQueue[s] \in Seq(Frame)
      /\ Lines[s] = mbox[s] \o canSendQueue[s] /\ Lines[s] \in Seq(Frame)
  BY LinesType
<1>4. Lines[s] # <<>> /\ Lines[s][1] = f
  <2>. DEFINE t == Tail(mbox[s]) \o canSendQueue[s]
              l == Lines[s]
  <2>1. t \in Seq(Frame) /\ Len(l) = Len(t) + 1 /\ l[1] = f
    BY <1>1, SentLine
  <2>. HIDE DEF t, l
  <2>2. Len(t) \in Nat
    BY <2>1
  <2>3. Len(l) # 0
    BY <2>1, <2>2
  <2>4. l # <<>>
    BY <2>3
  <2>. QED  BY <2>1, <2>4 DEF l
<1>5. /\ user_paras_local' = [r \in Stations |->
                                IF r \in R THEN NewLocal(r, f) ELSE user_paras_local[r]]
      /\ user_paras_slave' = [r \in Stations |->
                                IF r \in R THEN NewSlave(r, f) ELSE user_paras_slave[r]]
  BY DEF Transfer
<1>. HIDE DEF f
<1>6. \A r \in R : Timely(s, r, f)
  <2>. DEFINE z == Lines
  <2>1. OnTheBus(z, rx) /\ z[s] \in Seq(Frame) /\ z[s] # <<>> /\ z[s][1] = f
    BY <1>3, <1>4
  <2>. HIDE DEF z
  <2>. QED  BY <1>2, <2>1, HeadTimely
<1>7. (\A r \in Stations : Fit(r, user_paras_local[r])) /\ Replied(user_paras_slave[Host])
  BY FlashParts
<1>8. ASSUME NEW r \in Stations
      PROVE  Fit(r, user_paras_local'[r])
  <2>1. CASE r \in R
    <3>1. Fit(r, NewLocal(r, f))
      BY <1>6, <1>7, <2>1, KeptParas
    <3>. QED  BY <1>5, <2>1, <3>1
  <2>2. CASE r \notin R
    BY <1>5, <1>7, <2>2
  <2>. QED  BY <2>1, <2>2
<1>9. Replied(user_paras_slave'[Host])
  <2>0. Host \in Stations
    BY Constants
  <2>1. CASE Host \in R
    <3>1. Replied(NewSlave(Host, f))
      BY <1>6, <1>7, <2>1, KeptParas
    <3>. QED  BY <1>5, <2>0, <2>1, <3>1
  <2>2. CASE Host \notin R
    BY <1>5, <1>7, <2>0, <2>2
  <2>. QED  BY <2>1, <2>2
<1>10. Slaves \subseteq Stations
  BY DEF Stations
<1>. QED  BY <1>8, <1>9, <1>10 DEF InFlash, Fit

\* The segments on their way are still of the message the main loop is queuing.
LEMMA TransferAdding ==
    ASSUME BusInv, Adding, NEW s \in Stations, NEW L \in SUBSET Stations, Transfer(s, L), alone'
    PROVE  Adding'
<1>. SUFFICES ASSUME SegmentsLeft PROVE Adding'
  BY DEF Transfer, Adding, SegmentsLeft
<1>1. /\ mbox' = [mbox EXCEPT ![s] = Tail(mbox[s])] /\ todo' = todo
      /\ canSendQueue' # canSendQueue => ~LongPending(canSendQueue, mbox')
  BY DEF Transfer
<1>2. canSendQueue' = canSendQueue
  <2>. DEFINE m == mbox'
  <2>1. canSendQueue' # canSendQueue => ~LongPending(canSendQueue, m)
    BY <1>1
  <2>. HIDE DEF m
  <2>. QED  BY <2>1 DEF LongPending
<1>3. wire = s /\ s # Idle /\ mbox[s] # <<>>
  BY CanAssumption DEF BusInv, Boxes, WireInv, Transfer
<1>4. /\ \A r \in Stations : /\ canSendQueue[r] \in Seq(Frame) /\ mbox[r] \in Seq(Frame)
                             /\ Lines[r] = mbox[r] \o canSendQueue[r]
      /\ mbox \in [Stations -> Seq(Frame)]
  BY LinesType
<1>5. ASSUME NEW r \in Stations, NEW i \in 1..Len(Lines'[r])
      PROVE  \E k \in 1..Len(Lines[r]) : Lines'[r][i] = Lines[r][k]
  <2>1. CASE r = s
    <3>1. Lines'[r] = Tail(mbox[s]) \o canSendQueue[s]
      BY <1>1, <1>2, <1>4, <2>1 DEF Lines
    <3>. DEFINE l == Lines[s]
                t == Tail(mbox[s]) \o canSendQueue[s]
    <3>2. /\ t \in Seq(Frame) /\ Len(l) = Len(t) + 1
          /\ \A k \in 1..Len(t) : t[k] = l[k + 1]
      BY <1>3, SentLine
    <3>. HIDE DEF l, t
    <3>a. Lines'[r] = t
      BY <3>1 DEF t
    <3>3. Len(t) \in Nat /\ i \in 1..Len(t)
      BY <3>2, <3>a
    <3>4. i + 1 \in 1..Len(l) /\ t[i] = l[i + 1]
      BY <3>2, <3>3
    <3>. QED  BY <2>1, <3>4, <3>a DEF l
  <2>2. CASE r # s
    <3>1. Lines'[r] = Lines[r]
      BY <1>1, <1>2, <1>4, <2>2 DEF Lines
    <3>. QED  BY <3>1
  <2>. QED  BY <2>1, <2>2
<1>6. /\ SentAs(Lines, Host, todo.tags[0])
      /\ todo.next = 0 => NoSegments(Lines)
      /\ todo.next > 0 => \E k \in 1..Len(canSendQueue[Host]) :
                             canSendQueue[Host][k].polo = FIRST
  BY DEF Adding
<1>7. SentAs(Lines', Host, todo.tags[0])
  BY <1>5, <1>6 DEF SentAs
<1>8. todo.next = 0 => NoSegments(Lines')
  BY <1>5, <1>6 DEF NoSegments
<1>9. SentAs(Lines, Host, todo.tags[0])' /\ (todo.next = 0 => NoSegments(Lines))'
  BY <1>1, <1>7, <1>8 DEF SentAs, NoSegments
<1>. QED  BY <1>1, <1>2, <1>6, <1>9 DEF Adding

LEMMA TransferMessage ==
    ASSUME BusInv, MessageInv, NEW s \in Stations, NEW L \in SUBSET Stations, Transfer(s, L)
    PROVE  MessageInv'
<1>1. todo' = todo /\ (alone' => alone) /\ uncut' = uncut
  BY DEF Transfer
<1>2. (uncut /\ todo # Idle => TodoOK(todo))'
  BY <1>1 DEF MessageInv
<1>3. ASSUME alone', uncut'
      PROVE  OnTheBus(Lines, rx)' /\ InFlash' /\ Adding'
  <2>1. OnTheBus(Lines, rx) /\ InFlash /\ Adding
    BY <1>1, <1>3 DEF MessageInv
  <2>2. \A r \in Stations : Fit(r, user_paras_local[r])
    BY <2>1, FlashParts
  <2>. QED  BY <1>3, <2>1, <2>2, TransferLines, TransferFlash, TransferAdding
<1>. QED  BY <1>2, <1>3 DEF MessageInv

\* Steps that leave the frames and the parameters alone.
LEMMA SameMessage ==
    ASSUME MessageInv, UNCHANGED <<canSendQueue, mbox, rx, user_paras_local, user_paras_slave>>,
           alone' => alone, uncut' => uncut,
           uncut' /\ todo' # Idle => TodoOK(todo'),
           alone' /\ uncut' /\ Adding => Adding'
    PROVE  MessageInv'
<1>1. Lines' = Lines
  BY DEF Lines
<1>2. OnTheBus(Lines, rx) => OnTheBus(Lines, rx)'
  BY <1>1
<1>3. InFlash => InFlash'
  BY DEF InFlash
<1>4. alone' /\ uncut' => OnTheBus(Lines, rx)' /\ InFlash' /\ Adding'
  BY <1>2, <1>3 DEF MessageInv
<1>. QED  BY <1>4 DEF MessageInv

\* Steps that leave the main loop alone as well.
LEMMA SameLoop ==
    ASSUME MessageInv, UNCHANGED <<canSendQueue, mbox, rx, user_paras_local, user_paras_slave>>,
           UNCHANGED <<todo, alone, uncut>>
    PROVE  MessageInv'
<1>1. Lines' = Lines
  BY DEF Lines
<1>2. Adding => Adding'
  BY <1>1 DEF Adding, SegmentsLeft
<1>3. uncut' /\ todo' # Idle => TodoOK(todo')
  BY DEF MessageInv
<1>. QED  BY <1>2, <1>3, SameMessage

LEMMA LoadMessage ==
    ASSUME BusInv, MessageInv, NEW s \in Stations, Load(s)
    PROVE  MessageInv'
<1>1. /\ canSendQueue[s] # <<>> /\ (s = Host => todo = Idle)
      /\ mbox' = [mbox EXCEPT ![s] = Append(mbox[s], Head(canSendQueue[s]))]
      /\ canSendQueue' = [canSendQueue EXCEPT ![s] = Tail(canSendQueue[s])]
      /\ UNCHANGED <<rx, user_paras_local, user_paras_slave, todo, alone, uncut>>
  BY DEF Load, pvars, hvars
<1>2. /\ canSendQueue[s] \in Seq(Frame) /\ mbox[s] \in Seq(Frame) /\ Host \in Stations
      /\ canSendQueue \in [Stations -> Seq(Frame)] /\ mbox \in [Stations -> Seq(Frame)]
  BY LinesType, Constants
<1>3. Append(mbox[s], Head(canSendQueue[s])) \o Tail(canSendQueue[s]) = mbox[s] \o canSendQueue[s]
  BY <1>1, <1>2, LineLoad
<1>4. ASSUME NEW r \in Stations
      PROVE  mbox'[r] \o canSendQueue'[r] = mbox[r] \o canSendQueue[r]
  BY <1>1, <1>2, <1>3
<1>5. Lines' = Lines
  BY <1>4 DEF Lines
<1>6. (OnTheBus(Lines, rx) => OnTheBus(Lines, rx)') /\ (InFlash => InFlash')
  BY <1>1, <1>5 DEF InFlash
<1>7. todo # Idle => canSendQueue'[Host] = canSendQueue[Host]
  BY <1>1, <1>2
<1>8. Adding => Adding'
  BY <1>1, <1>5, <1>7 DEF Adding, SegmentsLeft
<1>. QED  BY <1>1, <1>6, <1>8 DEF MessageInv

\* The host puts frames into its queue.
LEMMA HostLine ==
    ASSUME BusInv, NEW fs \in Seq(Frame), mbox' = mbox,
           canSendQueue' = [canSendQueue EXCEPT ![Host] = Enqueue(canSendQueue[Host], fs)]
    PROVE  LET e == mbox[Host] \o Enqueue(canSendQueue[Host], fs)
           IN  Lines' = [Lines EXCEPT ![Host] = e] /\ Grown(Lines[Host], e, fs)
<1>. DEFINE e == mbox[Host] \o Enqueue(canSendQueue[Host], fs)
<1>1. /\ Host \in Stations /\ canSendQueue[Host] \in Seq(Frame) /\ mbox[Host] \in Seq(Frame)
      /\ Len(canSendQueue[Host]) <= QUEUE_MAX
      /\ canSendQueue \in [Stations -> Seq(Frame)] /\ Lines \in [Stations -> Seq(Frame)]
      /\ \A r \in Stations : Lines[r] = mbox[r] \o canSendQueue[r]
  BY LinesType, Constants
<1>2. Grown(Lines[Host], e, fs)
  BY <1>1, LineGrown
<1>3. ASSUME NEW r \in Stations
      PROVE  mbox'[r] \o canSendQueue'[r] = [Lines EXCEPT ![Host] = e][r]
  BY <1>1
<1>4. Lines' = [r \in Stations |-> mbox'[r] \o canSendQueue'[r]]
  BY DEF Lines
<1>5. [Lines EXCEPT ![Host] = e] = [r \in Stations |-> [Lines EXCEPT ![Host] = e][r]]
  BY <1>1
<1>. QED  BY <1>2, <1>3, <1>4, <1>5

\* Single frames of the host.
LEMMA HostSingle ==
    ASSUME BusInv, OnTheBus(Lines, rx), NEW fs \in Seq(Frame), mbox' = mbox, rx' = rx,
           canSendQueue' = [canSendQueue EXCEPT ![Host] = Enqueue(canSendQueue[Host], fs)],
           \A k \in 1..Len(fs) : ~Long(fs[k]) /\ Proper(Host, fs[k])
    PROVE  OnTheBus(Lines, rx)'
<1>. DEFINE e == mbox[Host] \o Enqueue(canSendQueue[Host], fs)
            z == Lines
<1>1. Lines' = [z EXCEPT ![Host] = e] /\ Grown(z[Host], e, fs)
  BY HostLine
<1>2. Host \in Stations /\ z \in [Stations -> Seq(Frame)] /\ OnTheBus(z, rx)
  BY LinesType, Constants
<1>. HIDE DEF e, z
<1>3. OnTheBus([z EXCEPT ![Host] = e], rx)
  BY <1>1, <1>2, SingleGrows
<1>. QED  BY <1>1, <1>3

\* A long message of the host, when there is no other.
LEMMA HostLong ==
    ASSUME BusInv, OnTheBus(Lines, rx), NEW fs, mbox' = mbox, rx' = rx,
           canSendQueue' = [canSendQueue EXCEPT ![Host] = Enqueue(canSendQueue[Host], fs)],
           LongMessageOf(Host, fs), ~LongPending(canSendQueue, mbox)
    PROVE  OnTheBus(Lines, rx)'
<1>. DEFINE e == mbox[Host] \o Enqueue(canSendQueue[Host], fs)
            z == Lines
<1>1. fs \in Seq(Frame)
  BY DEF LongMessageOf
<1>2. Lines' = [z EXCEPT ![Host] = e] /\ Grown(z[Host], e, fs)
  BY <1>1, HostLine
<1>3. Host \in Stations /\ z \in [Stations -> Seq(Frame)] /\ AllProper(z)
  BY LinesType, Constants DEF OnTheBus
<1>4. NoSegments(z)
  BY LinesType, NothingPending
<1>. HIDE DEF e, z
<1>5. OnTheBus([z EXCEPT ![Host] = e], rx)
  BY <1>2, <1>3, <1>4, LongGrows
<1>. QED  BY <1>2, <1>5
\* Single frames of the host between those of the message it is queuing.
LEMMA SingleAdding ==
    ASSUME BusInv, Adding, NEW fs \in Seq(Frame), mbox' = mbox,
           canSendQueue' = [canSendQueue EXCEPT ![Host] = Enqueue(canSendQueue[Host], fs)],
           \A k \in 1..Len(fs) : ~Long(fs[k]),
           SegmentsLeft' => /\ SegmentsLeft
                            /\ todo'.next = todo.next /\ todo'.tags = todo.tags
    PROVE  Adding'
<1>. SUFFICES ASSUME SegmentsLeft' PROVE Adding'
  BY DEF Adding
<1>0. /\ SegmentsLeft /\ SentAs(Lines, Host, todo.tags[0])
      /\ todo.next = 0 => NoSegments(Lines)
      /\ todo.next > 0 => \E k \in 1..Len(canSendQueue[Host]) :
                             canSendQueue[Host][k].polo = FIRST
      /\ todo'.next = todo.next /\ todo'.tags = todo.tags
  BY DEF Adding
<1>. DEFINE e == mbox[Host] \o Enqueue(canSendQueue[Host], fs)
            z == Lines
            l == z[Host]
<1>1. Lines' = [z EXCEPT ![Host] = e] /\ Grown(l, e, fs)
  BY HostLine
<1>2. /\ Host \in Stations /\ z \in [Stations -> Seq(Frame)] /\ l \in Seq(Frame)
      /\ Len(canSendQueue[Host]) <= QUEUE_MAX /\ canSendQueue[Host] \in Seq(Frame)
      /\ canSendQueue \in [Stations -> Seq(Frame)]
  BY LinesType, Constants
<1>. HIDE DEF e, z
<1>3. /\ e \in Seq(Frame) /\ Len(l) \in Nat /\ Len(e) \in Nat
      /\ Len(l) <= Len(e) /\ \A k \in 1..Len(l) : e[k] = l[k]
      /\ \A k \in 1..Len(e) : k > Len(l) => ~Long(e[k])
  BY <1>1, <1>2 DEF Grown
<1>4. ASSUME NEW s \in Stations, NEW i \in 1..Len(Lines'[s]), Long(Lines'[s][i])
      PROVE  i \in 1..Len(z[s]) /\ Lines'[s][i] = z[s][i]
  <2>1. CASE s # Host
    BY <1>1, <1>2, <2>1
  <2>2. CASE s = Host
    <3>1. Lines'[s] = e
      BY <1>1, <1>2, <2>2
    <3>2. i <= Len(l)
      BY <1>3, <1>4, <3>1
    <3>. QED  BY <1>3, <2>2, <3>1, <3>2
  <2>. QED  BY <2>1, <2>2
<1>5. SentAs(Lines', Host, todo.tags[0]) /\ (todo.next = 0 => NoSegments(Lines'))
  <2>1. SentAs(z, Host, todo.tags[0]) /\ (todo.next = 0 => NoSegments(z))
    BY <1>0 DEF z
  <2>. DEFINE y == Lines'
  <2>2. \A s \in Stations : \A i \in 1..Len(y[s]) :
            Long(y[s][i]) => i \in 1..Len(z[s]) /\ y[s][i] = z[s][i]
    BY <1>4
  <2>. HIDE DEF y
  <2>3. SentAs(y, Host, todo.tags[0]) /\ (todo.next = 0 => NoSegments(y))
    BY ONLY <2>1, <2>2 DEF SentAs, NoSegments
  <2>. QED  BY <2>3 DEF y
<1>6. todo.next > 0 => \E k \in 1..Len(canSendQueue'[Host]) : canSendQueue'[Host][k].polo = FIRST
  <2>. DEFINE q == canSendQueue[Host]
              n == Enqueue(q, fs)
  <2>1. canSendQueue'[Host] = n
    BY <1>2
  <2>2. n \in Seq(Frame) /\ Len(q) <= Len(n) /\ \A k \in 1..Len(q) : n[k] = q[k]
    BY <1>2, EnqueueFacts
  <2>3. todo.next > 0 => \E k \in 1..Len(q) : q[k].polo = FIRST
    BY <1>0
  <2>4. q \in Seq(Frame)
    BY <1>2
  <2>. HIDE DEF q, n
  <2>5. todo.next > 0 => \E k \in 1..Len(n) : n[k].polo = FIRST
    BY <2>2, <2>3, <2>4
  <2>. QED  BY <2>1, <2>5
<1>7. /\ SentAs(Lines', Host, todo'.tags[0]) /\ (todo'.next = 0 => NoSegments(Lines'))
      /\ todo'.next > 0 => \E k \in 1..Len(canSendQueue'[Host]) : canSendQueue'[Host][k].polo = FIRST
  BY <1>0, <1>5, <1>6
<1>8. SentAs(Lines, Host, todo.tags[0])' /\ (todo.next = 0 => NoSegments(Lines))'
  BY <1>7 DEF SentAs, NoSegments
<1>. QED  BY <1>7, <1>8 DEF Adding

\* The next frame of a message of the host that fits no single frame.
LEMMA HostSegment ==
    ASSUME BusInv, OnTheBus(Lines, rx), Adding, Sendable(todo), TodoOK(todo),
           AddFrame, todo.len > PACK
    PROVE  /\ OnTheBus(Lines, rx)'
           /\ Adding'
<1>. DEFINE f == NextFrame
            fs == <<f>>
            q == canSendQueue[Host]
            n == Enqueue(q, fs)
            e == mbox[Host] \o n
            z == Lines
            l == z[Host]
            tag == todo.tags[0]
<1>1. /\ todo # Idle /\ todo.at = "add" /\ mbox' = mbox /\ rx' = rx
      /\ canSendQueue' = [canSendQueue EXCEPT ![Host] = n]
      /\ \/ todo' = Idle
         \/ /\ Room(Host) /\ todo' # Idle /\ todo'.next = todo.next + 1
            /\ todo'.tags = todo.tags
  BY AddFrameFacts DEF AddFrame
<1>2. SegmentsLeft
  BY <1>1 DEF SegmentsLeft
<1>3. /\ SentAs(z, Host, tag) /\ (todo.next = 0 => NoSegments(z))
      /\ todo.next > 0 => \E k \in 1..Len(q) : q[k].polo = FIRST
  BY <1>2 DEF Adding
<1>4. /\ todo.next + 1 \in 1..Len(TodoFrames) /\ f = TodoFrames[todo.next + 1]
      /\ f \in StationFrames(Host) /\ todo.next \in Nat
  BY NextFrameFacts, TodoFields DEF NextFrame
<1>5. LongMessageOf(Host, TodoFrames) /\ TodoFrames[1].data.tag = tag
  BY <1>1, TodoMessage
<1>6. /\ Long(f) /\ Proper(Host, f) /\ f.data.tag = tag
      /\ todo.next = 0 => f.polo = FIRST
      /\ todo.next > 0 => f.polo # FIRST
  <2>. DEFINE t == TodoFrames
              k == todo.next + 1
  <2>1. k \in 1..Len(t) /\ f = t[k] /\ (todo.next = 0 => k = 1) /\ (todo.next > 0 => k > 1)
    BY <1>4
  <2>2. LongMessageOf(Host, t) /\ t[1].data.tag = tag
    BY <1>5
  <2>. HIDE DEF t, k, f, tag
  <2>. QED  BY <2>1, <2>2 DEF LongMessageOf
<1>7. fs \in Seq(Frame) /\ Len(fs) = 1 /\ fs[1] = f /\ f \in Frame
  <2>1. f \in Frame
    BY <1>4 DEF StationFrames
  <2>. HIDE DEF f
  <2>. QED  BY <2>1
<1>8. Lines' = [z EXCEPT ![Host] = e] /\ Grown(l, e, fs)
  <2>. HIDE DEF f
  <2>. QED  BY <1>1, <1>7, HostLine
<1>9. /\ Host \in Stations /\ z \in [Stations -> Seq(Frame)] /\ OnTheBus(z, rx) /\ AllProper(z)
      /\ q \in Seq(Frame) /\ Len(q) <= QUEUE_MAX /\ canSendQueue \in [Stations -> Seq(Frame)]
      /\ l = mbox[Host] \o q /\ mbox[Host] \in Seq(Frame) /\ l \in Seq(Frame)
  BY LinesType, Constants DEF OnTheBus
<1>10. /\ n \in Seq(Frame) /\ Len(q) <= Len(n) /\ \A k \in 1..Len(q) : n[k] = q[k]
       /\ \A k \in 1..Len(n) : k > Len(q) => k - Len(q) \in 1..Len(fs) /\ n[k] = fs[k - Len(q)]
       /\ Len(q) + 1 <= QUEUE_MAX => Len(n) = Len(q) + 1
  <2>1. /\ n \in Seq(Frame) /\ Len(q) <= Len(n) /\ \A k \in 1..Len(q) : n[k] = q[k]
        /\ \A k \in 1..Len(n) : k > Len(q) => k - Len(q) \in 1..Len(fs) /\ n[k] = fs[k - Len(q)]
    <3>. HIDE DEF f, fs, q
    <3>. QED  BY <1>7, <1>9, EnqueueFacts
  <2>2. Len(q) + 1 <= QUEUE_MAX => Len(n) = Len(q) + 1
    <3>. HIDE DEF f, q
    <3>1. Len(q \o <<f>>) = Len(q) + 1
      BY <1>7, <1>9
    <3>. QED  BY <3>1 DEF Enqueue
  <2>. QED  BY <2>1, <2>2
<1>. HIDE DEF f, fs, q, n, e, z, tag
<1>11. OnTheBus([z EXCEPT ![Host] = e], rx)
  <2>1. CASE todo.next = 0
    <3>1. LongMessageOf(Host, fs)
      BY <1>6, <1>7, <2>1 DEF LongMessageOf
    <3>. QED  BY <1>3, <1>8, <1>9, <2>1, <3>1, LongGrows
  <2>2. CASE todo.next > 0
    <3>1. ~Begun(l)
      <4>1. PICK k \in 1..Len(q) : q[k].polo = FIRST
        BY <1>3, <2>2
      <4>. DEFINE m == mbox[Host]
      <4>2. m \in Seq(Frame) /\ q \in Seq(Frame) /\ l = m \o q
        BY <1>9
      <4>. HIDE DEF m, l
      <4>3. Len(m) + k \in 1..Len(l) /\ l[Len(m) + k] = q[k]
        BY <4>2
      <4>. QED  BY <4>1, <4>3 DEF Begun
    <3>2. \A k \in 1..Len(fs) : /\ Proper(Host, fs[k]) /\ fs[k].data.tag = tag
                                /\ fs[k].polo # FIRST
      BY <1>6, <1>7, <2>2
    <3>. QED  BY <1>3, <1>8, <1>9, <3>1, <3>2, SegmentGrows
  <2>. QED  BY <1>4, <2>1, <2>2
<1>12. OnTheBus(Lines, rx)'
  BY <1>1, <1>8, <1>11
<1>13. Adding'
  <2>. SUFFICES ASSUME todo' # Idle PROVE Adding'
    BY DEF Adding, SegmentsLeft
  <2>1. Room(Host) /\ todo'.next = todo.next + 1 /\ todo'.tags = todo.tags
    BY <1>1
  <2>2. Len(n) = Len(q) + 1 /\ Len(q) \in Nat
    BY <1>9, <1>10, <2>1, Constants DEF Room, q
  <2>3. \E k \in 1..Len(n) : n[k].polo = FIRST
    <3>1. CASE todo.next = 0
      <4>1. n[Len(q) + 1] = fs[1]
        BY <1>10, <2>2
      <4>. QED  BY <1>6, <1>7, <2>2, <3>1, <4>1
    <3>2. CASE todo.next > 0
      BY <1>3, <1>10, <2>2, <3>2
    <3>. QED  BY <1>4, <3>1, <3>2
  <2>4. canSendQueue'[Host] = n
    BY <1>1, <1>9
  <2>5. /\ e \in Seq(Frame) /\ Len(l) \in Nat /\ Len(e) \in Nat
        /\ Len(l) <= Len(e) /\ \A k \in 1..Len(l) : e[k] = l[k]
        /\ \A k \in 1..Len(e) : k > Len(l) => e[k].data.tag = tag
    BY <1>6, <1>7, <1>8, <1>9 DEF Grown
  <2>6. ASSUME NEW s \in Stations, NEW i \in 1..Len(Lines'[s]), Long(Lines'[s][i])
        PROVE  s = Host /\ Lines'[s][i].data.tag = tag
    <3>1. CASE s # Host
      BY <1>3, <1>8, <1>9, <2>6, <3>1 DEF SentAs
    <3>2. CASE s = Host
      <4>1. Lines'[s] = e
        BY <1>8, <1>9, <3>2
      <4>2. CASE i <= Len(l)
        BY <1>3, <1>9, <2>5, <2>6, <3>2, <4>1, <4>2 DEF SentAs
      <4>3. CASE i > Len(l)
        BY <2>5, <3>2, <4>1, <4>3
      <4>. QED  BY <2>5, <3>2, <4>1, <4>2, <4>3
    <3>. QED  BY <3>1, <3>2
  <2>7. SentAs(Lines', Host, todo'.tags[0])
    BY <2>1, <2>6 DEF SentAs, tag
  <2>8. SentAs(Lines, Host, todo.tags[0])' /\ todo'.next > 0
    BY <1>4, <2>1, <2>7 DEF SentAs
  <2>9. \E k \in 1..Len(canSendQueue'[Host]) : canSendQueue'[Host][k].polo = FIRST
    BY <2>3, <2>4
  <2>. QED  BY <2>8, <2>9 DEF Adding
<1>. QED  BY <1>12, <1>13

LEMMA AddFrameMessage ==
    ASSUME BusInv, MessageInv, AddFrame
    PROVE  MessageInv'
<1>1. /\ todo # Idle /\ todo.at = "add" /\ Sendable(todo)
      /\ canSendQueue' = [canSendQueue EXCEPT ![Host] =
                              Enqueue(canSendQueue[Host], <<NextFrame>>)]
      /\ \/ todo' = Idle
         \/ /\ todo.len > PACK /\ todo' # Idle
            /\ todo'.at = "add" /\ todo'.func = todo.func /\ todo'.len = todo.len
            /\ todo'.b0 = todo.b0 /\ todo'.id = todo.id /\ todo'.cmd = todo.cmd
            /\ todo'.tags = todo.tags
      /\ UNCHANGED <<mbox, rx, user_paras_local, user_paras_slave, alone, uncut>>
  BY AddFrameFacts DEF AddFrame, pvars
<1>2. uncut' /\ todo' # Idle => TodoOK(todo')
  <2>. SUFFICES ASSUME uncut', todo' # Idle PROVE TodoOK(todo')
    OBVIOUS
  <2>1. TodoOK(todo)
    BY <1>1 DEF MessageInv
  <2>2. /\ todo'.at = todo.at /\ todo'.func = todo.func /\ todo'.len = todo.len
        /\ todo'.b0 = todo.b0 /\ todo'.id = todo.id /\ todo'.cmd = todo.cmd
        /\ todo'.tags = todo.tags
    BY <1>1
  <2>. QED  BY ONLY <2>1, <2>2 DEF TodoOK
<1>3. ASSUME alone', uncut'
      PROVE  OnTheBus(Lines, rx)' /\ InFlash' /\ Adding'
  <2>1. OnTheBus(Lines, rx) /\ InFlash /\ Adding /\ TodoOK(todo)
    BY <1>1, <1>3 DEF MessageInv
  <2>2. InFlash'
    BY <1>1, <2>1 DEF InFlash
  <2>3. CASE todo.len > PACK
    BY <1>1, <2>1, <2>2, <2>3, HostSegment
  <2>4. CASE ~(todo.len > PACK)
    <3>. DEFINE f == NextFrame
                fs == <<f>>
                t == TodoFrames
    <3>1. /\ todo.next + 1 \in 1..Len(t) /\ f = t[todo.next + 1]
          /\ f \in StationFrames(Host)
      BY <1>1, NextFrameFacts DEF NextFrame
    <3>2. \A k \in 1..Len(t) : ~Long(t[k]) /\ Proper(Host, t[k])
      BY <1>1, <2>1, <2>4, TodoMessage
    <3>3. f \in Frame /\ ~Long(f) /\ Proper(Host, f)
      BY <3>1, <3>2 DEF StationFrames
    <3>. HIDE DEF f
    <3>4. fs \in Seq(Frame) /\ \A k \in 1..Len(fs) : ~Long(fs[k]) /\ Proper(Host, fs[k])
      BY <3>3
    <3>5. canSendQueue' = [canSendQueue EXCEPT ![Host] = Enqueue(canSendQueue[Host], fs)]
      BY <1>1 DEF f
    <3>. HIDE DEF fs
    <3>6. OnTheBus(Lines, rx)'
      BY <1>1, <2>1, <3>4, <3>5, HostSingle
    <3>7. Adding'
      BY <1>1, <2>4 DEF Adding, SegmentsLeft
    <3>. QED  BY <2>2, <3>6, <3>7
  <2>. QED  BY <2>3, <2>4
<1>. QED  BY <1>2, <1>3 DEF MessageInv

\* The steps of the main loop before it queues the first frame.
LEMMA PassingMessage ==
    ASSUME BusInv, MessageInv, Passing
    PROVE  MessageInv'
<1>. DEFINE p == NextPlace
            b == NextByte
<1>1. /\ todo # Idle /\ todo.at \in Places \ {"add"} /\ Sendable(todo)
      /\ p \in Places /\ b \in 0..255
      /\ todo' = [todo EXCEPT !.at = p, !.b0 = b]
      /\ UNCHANGED <<canSendQueue, mbox, rx, user_paras_local, user_paras_slave, uncut>>
  BY PassingFacts DEF qvars, pvars
<1>2. /\ todo.at = "len" => p \in {"call", "fill"} /\ b = todo.b0
      /\ todo.at = "fill" => p = "call" /\ b = FirstByte
      /\ todo.at = "call" => p = "copy" /\ b = todo.b0
      /\ todo.at = "copy" => p = "add" /\ b = todo.b0
  BY DEF NextPlace, NextByte
<1>3. /\ alone' => alone
      /\ todo.at = "call" /\ alone' /\ todo.len > PACK => ~LongPending(canSendQueue, mbox)
  <2>1. CASE CallSend
    BY <2>1 DEF CallSend
  <2>2. CASE SetLength \/ FillBuffer \/ CopyFirst
    BY <2>2 DEF SetLength, FillBuffer, CopyFirst, hvars
  <2>. QED  BY <2>1, <2>2 DEF Passing
<1>4. Moved(todo', todo, p, b)
  BY <1>1 DEF Moved, Sendable
<1>. HIDE DEF p, b
<1>5. /\ todo' # Idle /\ todo'.at = p /\ todo'.b0 = b
      /\ todo'.len = todo.len /\ todo'.next = todo.next
      /\ todo'.func = todo.func /\ todo'.id = todo.id /\ todo'.cmd = todo.cmd
      /\ todo'.tags = todo.tags
  BY ONLY <1>4, TodoStep
<1>6. todo.next = 0
  BY <1>4 DEF Moved
<1>7. uncut' => TodoOK(todo')
  <2>. SUFFICES ASSUME uncut' PROVE TodoOK(todo')
    OBVIOUS
  <2>1. TodoOK(todo)
    BY <1>1 DEF MessageInv
  <2>2. todo.func = PARA_DATA =>
           todo'.len \in {3, ParaLen} \/ (todo'.len = 1 /\ todo'.at \notin {"len", "fill"} /\ todo'.b0 # 1)
    BY <1>1, <1>2, <1>5, <2>1 DEF TodoOK, Places
  <2>. QED  BY ONLY <1>5, <2>1, <2>2 DEF TodoOK
<1>8. ASSUME alone', uncut', Adding
      PROVE  Adding'
  <2>1. Lines' = Lines
    BY <1>1 DEF Lines
  <2>2. CASE todo.at \in {"len", "fill"}
    BY <1>2, <1>5, <2>2 DEF Adding, SegmentsLeft
  <2>3. CASE todo.at = "call"
    <3>. SUFFICES ASSUME todo.len > PACK PROVE Adding'
      BY <1>5 DEF Adding, SegmentsLeft
    <3>1. NoSegments(Lines)
      BY <1>3, <1>8, <2>3, LinesType, NothingPending
    <3>2. SentAs(Lines, Host, todo'.tags[0])
      BY <3>1 DEF SentAs, NoSegments
    <3>3. SentAs(Lines, Host, todo.tags[0])' /\ NoSegments(Lines)' /\ todo'.next = 0
      BY <1>5, <1>6, <2>1, <3>1, <3>2
    <3>. QED  BY <3>3 DEF Adding
  <2>4. CASE todo.at = "copy"
    <3>1. SegmentsLeft' => SegmentsLeft
      BY <1>1, <1>5, <2>4 DEF SegmentsLeft
    <3>. QED  BY <1>1, <1>5, <1>8, <2>1, <3>1 DEF Adding
  <2>. QED  BY <1>1, <2>2, <2>3, <2>4 DEF Places
<1>. QED  BY <1>1, <1>3, <1>7, <1>8, SameMessage

LEMMA PollMessage ==
    ASSUME BusInv, MessageInv, PollStatus
    PROVE  MessageInv'
<1>. DEFINE fs == PollFrames(PollTarget(index))
<1>1. /\ canSendQueue' = [canSendQueue EXCEPT ![Host] = Enqueue(canSendQueue[Host], fs)]
      /\ todo = Idle
      /\ UNCHANGED <<mbox, rx, user_paras_local, user_paras_slave, todo, alone, uncut>>
  BY DEF PollStatus, pvars, hvars
<1>2. PollTarget(index) \in Ids
  BY CanAssumption DEF BusInv, Counters, PollTarget
<1>3. fs \in Seq(Frame)
  <2>1. fs \in Seq(StationFrames(Host)) /\ Host \in Stations
    BY <1>2, FramesSent, Constants
  <2>. QED  BY <2>1, FrameLists
<1>4. \A k \in 1..Len(fs) : ~Long(fs[k]) /\ Proper(Host, fs[k])
  BY <1>2, HostFrames
<1>. HIDE DEF fs
<1>5. OnTheBus(Lines, rx) => OnTheBus(Lines, rx)'
  BY <1>1, <1>3, <1>4, HostSingle
<1>6. InFlash => InFlash'
  BY <1>1 DEF InFlash
<1>7. Adding'
  BY <1>1 DEF Adding, SegmentsLeft
<1>. QED  BY <1>1, <1>5, <1>6, <1>7 DEF MessageInv

\* A button cuts what the main loop is about to send to its own byte, or replaces
\* its first byte.
LEMMA ButtonMessage ==
    ASSUME BusInv, MessageInv, NEW g \in {0, 2}, Button(g)
    PROVE  MessageInv'
<1>. DEFINE fs == StartFrames(g)
            c == Overwritten(todo, g)
<1>1. /\ canSendQueue' = [canSendQueue EXCEPT ![Host] = Enqueue(canSendQueue[Host], fs)]
      /\ todo' = IF todo = Idle THEN Idle ELSE c
      /\ uncut' = (uncut /\ ~Cut)
      /\ UNCHANGED <<mbox, rx, user_paras_local, user_paras_slave, alone>>
  BY DEF Button, pvars
<1>2. g \in 0..255 /\ g # 1
  OBVIOUS
<1>3. fs \in Seq(Frame)
  <2>1. fs \in Seq(StationFrames(Host)) /\ Host \in Stations
    BY <1>2, FramesSent, Constants
  <2>. QED  BY <2>1, FrameLists
<1>4. \A k \in 1..Len(fs) : ~Long(fs[k]) /\ Proper(Host, fs[k])
  BY <1>2, HostFrames
<1>. HIDE DEF fs
<1>5. OnTheBus(Lines, rx) => OnTheBus(Lines, rx)'
  BY <1>1, <1>3, <1>4, HostSingle
<1>6. InFlash => InFlash'
  BY <1>1 DEF InFlash
<1>7. ASSUME todo # Idle
      PROVE  /\ c # Idle /\ c.at = todo.at /\ c.next = todo.next
             /\ c.len = IF todo.at \in {"fill", "call"} THEN 1 ELSE todo.len
             /\ c.b0 = IF todo.at \in {"call", "copy"} THEN g ELSE todo.b0
             /\ c.func = todo.func /\ c.id = todo.id /\ c.cmd = todo.cmd /\ c.tags = todo.tags
             /\ todo.at \in Places
  <2>1. Sendable(todo)
    BY <1>7 DEF BusInv, TodoInv
  <2>. QED  BY <1>2, <2>1, OverwrittenFacts, TodoFields
<1>. HIDE DEF c
<1>8. uncut' /\ todo' # Idle => TodoOK(todo')
  <2>. SUFFICES ASSUME uncut', todo' # Idle PROVE TodoOK(todo')
    OBVIOUS
  <2>1. todo # Idle /\ todo' = c /\ TodoOK(todo)
    BY <1>1 DEF MessageInv
  <2>2. todo.at = "fill" => todo.func # PARA_DATA
    BY <1>1, <2>1 DEF Cut
  <2>3. ~(1 > PACK)
    BY Constants
  <2>4. c.len > PACK \/ c.len = 3 => c.len = todo.len
    BY <1>7, <2>1, <2>3
  <2>5. c.func = PARA_DATA =>
           c.len \in {3, ParaLen} \/ (c.len = 1 /\ c.at \notin {"len", "fill"} /\ c.b0 # 1)
    BY <1>2, <1>7, <2>1, <2>2 DEF TodoOK, Places
  <2>6. /\ c.func = todo.func /\ c.id = todo.id /\ c.cmd = todo.cmd /\ c.tags = todo.tags
    BY <1>7, <2>1
  <2>7. TodoOK(c)
    BY ONLY <2>1, <2>4, <2>5, <2>6 DEF TodoOK
  <2>. QED  BY <2>1, <2>7
<1>9. SegmentsLeft' => SegmentsLeft /\ todo'.next = todo.next /\ todo'.tags = todo.tags
  BY <1>1, <1>7 DEF SegmentsLeft
<1>10. Adding => Adding'
  <2>1. \A k \in 1..Len(fs) : ~Long(fs[k])
    BY <1>4
  <2>. QED  BY <1>1, <1>3, <1>9, <2>1, SingleAdding
<1>. QED  BY <1>1, <1>5, <1>6, <1>8, <1>10 DEF MessageInv

\* The messages of the server.
LEMMA ServerOK ==
    /\ \A func \in Settings, b \in 0..255 : TodoOK(Message(func, Host, 1, b, 0, NoTags))
    /\ TodoOK(Message(RESET_CMD, Host, 0, 0, 0, NoTags))
    /\ \A n \in Slaves : TodoOK(Message(PARA_DATA, n, 3, 3, READ, NoTags))
    /\ \A n \in Slaves, v \in {0, 1} :
          TodoOK(Message(PARA_DATA, n, ParaLen, ParaLen, WRITE, [i \in ParaParts |-> Para(n, v)]))
<1>1. /\ PARA_DATA \notin Settings /\ RESET_CMD # PARA_DATA
      /\ ~(0 > PACK) /\ ~(1 > PACK) /\ ~(3 > PACK) /\ ParaLen # 3
  BY Constants DEF PARA_DATA, Settings, START_CMD, FUNC_SELECT_CMD, RESET_CMD
<1>2. ASSUME NEW func \in Settings, NEW b \in 0..255
      PROVE  TodoOK(Message(func, Host, 1, b, 0, NoTags))
  <2>. DEFINE m == Message(func, Host, 1, b, 0, NoTags)
  <2>1. m.func = func /\ m.len = 1
    BY DEF Message
  <2>. HIDE DEF m
  <2>2. TodoOK(m)
    BY <1>1, <2>1 DEF TodoOK
  <2>. QED  BY <2>2 DEF m
<1>3. TodoOK(Message(RESET_CMD, Host, 0, 0, 0, NoTags))
  <2>. DEFINE m == Message(RESET_CMD, Host, 0, 0, 0, NoTags)
  <2>1. m.func = RESET_CMD /\ m.len = 0
    BY DEF Message
  <2>. HIDE DEF m
  <2>2. TodoOK(m)
    BY <1>1, <2>1 DEF TodoOK
  <2>. QED  BY <2>2 DEF m
<1>4. ASSUME NEW n \in Slaves
      PROVE  TodoOK(Message(PARA_DATA, n, 3, 3, READ, NoTags))
  <2>. DEFINE m == Message(PARA_DATA, n, 3, 3, READ, NoTags)
  <2>1. m.len = 3 /\ m.cmd = READ
    BY DEF Message
  <2>. HIDE DEF m
  <2>2. TodoOK(m)
    BY <1>1, <2>1 DEF TodoOK
  <2>. QED  BY <2>2 DEF m
<1>5. ASSUME NEW n \in Slaves, NEW v \in {0, 1}
      PROVE  TodoOK(Message(PARA_DATA, n, ParaLen, ParaLen, WRITE, [i \in ParaParts |-> Para(n, v)]))
  <2>. DEFINE t == [i \in ParaParts |-> Para(n, v)]
              m == Message(PARA_DATA, n, ParaLen, ParaLen, WRITE, t)
  <2>1. m.func = PARA_DATA /\ m.id = n /\ m.len = ParaLen /\ m.tags = t
    <3>. HIDE DEF t
    <3>. QED  BY DEF Message
  <2>. HIDE DEF m
  <2>2. TodoOK(m)
    BY <1>1, <2>1 DEF TodoOK
  <2>. QED  BY <2>2 DEF m
<1>. QED  BY <1>2, <1>3, <1>4, <1>5

LEMMA StepMessage ==
    ASSUME BusInv, MessageInv, [Next]_vars
    PROVE  MessageInv'
<1>1. CASE \E s \in Stations : Load(s)
  BY <1>1, LoadMessage
<1>2. CASE Transfers
  BY <1>2, TransferMessage DEF Transfers
<1>3. CASE BusError
  BY <1>3, SameLoop DEF BusError, pvars, hvars
<1>4. CASE Passing
  BY <1>4, PassingMessage
<1>5. CASE AddFrame
  BY <1>5, AddFrameMessage
<1>6. CASE PollStatus
  BY <1>6, PollMessage
<1>7. ASSUME NEW g \in {0, 2}, Button(g)
      PROVE  MessageInv'
  BY <1>7, ButtonMessage
<1>8. ASSUME NEW msg, TodoOK(msg), msg.at = "len", todo' = msg,
             UNCHANGED <<canSendQueue, mbox, rx, user_paras_local, user_paras_slave, alone, uncut>>
      PROVE  MessageInv'
  <2>1. Adding'
    BY <1>8 DEF Adding, SegmentsLeft
  <2>. QED  BY <1>8, <2>1, SameMessage
<1>9. ASSUME NEW func \in Settings, NEW b \in 0..255, ServerSet(func, b)
      PROVE  MessageInv'
  <2>. DEFINE msg == Message(func, Host, 1, b, 0, NoTags)
  <2>1. TodoOK(msg)
    BY ServerOK
  <2>2. /\ todo' = msg
        /\ UNCHANGED <<canSendQueue, mbox, rx, user_paras_local, user_paras_slave, alone, uncut>>
    BY <1>9 DEF ServerSet, qvars, pvars
  <2>3. msg.at = "len"
    BY DEF Message
  <2>. HIDE DEF msg
  <2>. QED  BY <1>8, <2>1, <2>2, <2>3
<1>a. Gears \subseteq 0..255 /\ Flags \subseteq 0..255 /\ START_CMD \in Settings
      /\ FUNC_SELECT_CMD \in Settings
  BY CanAssumption DEF Settings
<1>10. ASSUME NEW msg, TodoOK(msg), msg.at = "len", todo' = msg,
              UNCHANGED <<qvars, rx, setting, pvars, run, link, index, faults, hvars>>
       PROVE  MessageInv'
  BY <1>8, <1>10 DEF qvars, pvars, hvars
<1>11. CASE ServerReset
  <2>. DEFINE msg == Message(RESET_CMD, Host, 0, 0, 0, NoTags)
  <2>1. TodoOK(msg) /\ msg.at = "len"
    BY ServerOK DEF Message
  <2>2. /\ todo' = msg
        /\ UNCHANGED <<qvars, rx, setting, pvars, run, link, index, faults, hvars>>
    BY <1>11 DEF ServerReset
  <2>. HIDE DEF msg
  <2>. QED  BY <1>10, <2>1, <2>2
<1>12. ASSUME NEW n \in Slaves, ServerRead(n)
       PROVE  MessageInv'
  <2>. DEFINE msg == Message(PARA_DATA, n, 3, 3, READ, NoTags)
  <2>1. TodoOK(msg) /\ msg.at = "len"
    BY ServerOK DEF Message
  <2>2. /\ todo' = msg
        /\ UNCHANGED <<qvars, rx, setting, pvars, run, link, index, faults, hvars>>
    BY <1>12 DEF ServerRead, ServerPara
  <2>. HIDE DEF msg
  <2>. QED  BY <1>10, <2>1, <2>2
<1>13. ASSUME NEW n \in Slaves, ServerWrite(n, (events + 1) % 2)
       PROVE  MessageInv'
  <2>. DEFINE v == (events + 1) % 2
              t == [i \in ParaParts |-> Para(n, v)]
              msg == Message(PARA_DATA, n, ParaLen, ParaLen, WRITE, t)
  <2>1. events \in Nat
    BY CanAssumption DEF BusInv, Counters
  <2>2. v \in {0, 1}
    BY <2>1
  <2>3. /\ todo' = msg
        /\ UNCHANGED <<qvars, rx, setting, pvars, run, link, index, faults, hvars>>
    BY <1>13 DEF ServerWrite, ServerPara
  <2>. HIDE DEF v
  <2>4. TodoOK(msg)
    BY <2>2, ServerOK
  <2>5. msg.at = "len"
    <3>. HIDE DEF t
    <3>. QED  BY DEF Message
  <2>. HIDE DEF msg
  <2>. QED  BY <1>10, <2>3, <2>4, <2>5
<1>14. ASSUME NEW r \in Slaves, RunChanges(r)
       PROVE  MessageInv'
  BY <1>14, SameLoop DEF RunChanges, qvars, pvars, hvars
<1>b. ASSUME NEW r \in Stations, Emergency(r)
      PROVE  MessageInv'
  BY <1>b, SameLoop DEF Emergency, qvars, pvars
<1>15. CASE UNCHANGED vars
  BY <1>15, SameLoop DEF vars
<1>16. CASE \E g \in Gears : ServerSet(START_CMD, g)
  BY <1>9, <1>16, <1>a
<1>17. CASE \E b \in Flags : ServerSet(FUNC_SELECT_CMD, b)
  BY <1>9, <1>17, <1>a
<1>. QED
  BY <1>1, <1>2, <1>3, <1>4, <1>5, <1>6, <1>7, <1>11, <1>12, <1>13, <1>14, <1>15, <1>16, <1>17,
     <1>b
  DEF Next, MainLoop, Passing

LEMMA InitMessage == Init => MessageInv
<1>. SUFFICES ASSUME Init PROVE MessageInv
  OBVIOUS
<1>1. todo = Idle
  BY DEF Init
<1>2. \A s \in Stations : Len(Lines[s]) = 0
  <2>. DEFINE e == <<>>
  <2>1. \A s \in Stations : mbox[s] = e /\ canSendQueue[s] = e
    BY DEF Init
  <2>2. Len(e \o e) = 0
    <3>1. e \in Seq(Frame) /\ Len(e) = 0
      OBVIOUS
    <3>. HIDE DEF e
    <3>. QED  BY ONLY <3>1
  <2>. HIDE DEF e
  <2>3. \A s \in Stations : Lines[s] = e \o e
    BY <2>1 DEF Lines
  <2>. QED  BY <2>2, <2>3
<1>3. OnTheBus(Lines, rx)
  <2>1. \A s \in Stations : \A i \in 1..Len(Lines[s]) : FALSE
    BY <1>2
  <2>. QED  BY <2>1 DEF OnTheBus, OneMessage, Collected, AllProper
<1>4. InFlash
  <2>1. /\ Host \in Stations /\ Slaves \subseteq Stations
        /\ \A r \in Stations : Para(r, 0) \in Tags
    BY TagAssumption DEF Stations
  <2>2. /\ \A r \in Stations : user_paras_local[r] = [i \in ParaParts |-> Para(r, 0)]
        /\ user_paras_slave[Host] = [i \in ParaParts |-> Nil]
    BY <2>1 DEF Init
  <2>3. \A r \in Stations : Whole(user_paras_local[r])
    BY <2>1, <2>2 DEF Whole
  <2>4. \A r \in Slaves : Mine(r, user_paras_local[r])
    BY <2>1, <2>2 DEF Mine
  <2>5. Replied(user_paras_slave[Host])
    BY <2>2 DEF Replied
  <2>. QED  BY <2>3, <2>4, <2>5 DEF InFlash
<1>5. Adding
  BY <1>1 DEF Adding, SegmentsLeft
<1>. QED  BY <1>1, <1>3, <1>4, <1>5 DEF MessageInv

LEMMA MessageInvariant == Spec => []MessageInv
  BY InitMessage, StepMessage, BusInvariant, PTL DEF Spec

-----------------------------------------------------------------------------
\* Whatever is lost of segmented messages or dropped by a full queue, a slave keeps
\* one complete set of the parameters the server sent to it, for any number of
\* stations and any lengths, as long as these messages follow one another on the bus,
\* no station that is left with a message without its end loses the first frame of
\* the next, and no button is pressed between the setting of can_send_len and its use
\* as the first byte of a message about parameters; buttons at all other places of the
\* main loop do no harm (can_bus.c, 71-76, 168-200, 236-313).
THEOREM SlavesKeepTheirParas == Spec => []ParasOwn
<1>1. MessageInv => ParasOwn
  BY DEF MessageInv, InFlash, Mine, ParasOwn, ParasMine
<1>. QED  BY <1>1, MessageInvariant, PTL

\* Under the same conditions, what the host passes on to the server as the answer of
\* a slave is one complete set of parameters of one slave: no answer is mixed with
\* another or with what the slaves sent before (can_bus.c, 66-70, 77-81, 168-200).
THEOREM RepliesAreWhole == Spec => []ReplyWhole
<1>1. MessageInv => ReplyWhole
  BY DEF MessageInv, InFlash, Replied, ReplyWhole
<1>. QED  BY <1>1, MessageInvariant, PTL
=============================================================================
