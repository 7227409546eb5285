------------------------------- MODULE CanBus -------------------------------
(***************************************************************************)
(* The stations of a line on one CAN bus (can_bus.c; main.c 151-170;       *)
(* fun.c 82-123; logic_ctrl.c 353-390, 466-503): start commands from the   *)
(* host's buttons and from the server, emergency stops of single stations, *)
(* parameters read and written through the host, status of the modules     *)
(* polled by the host.                                                     *)
(*                                                                         *)
(* The host's main loop and its buttons, handled in SysTick, share         *)
(* can_send_buff and can_send_len.  The tick can fall between any two of   *)
(* the statements with which the main loop fills and sends them, so these  *)
(* are steps of their own; each use of the two reads them from memory.     *)
(*                                                                         *)
(* Each station has the software queue canSendQueue, emptied by the main   *)
(* loop into three transmit mailboxes.  CAN_Configuration (stm32f107.c,    *)
(* 61-99) sets TXFP, so that a station sends its mailboxes in the order    *)
(* they were filled; among the stations the lowest identifier wins.  A     *)
(* frame on the wire is not interrupted; when it ends, all that wait take  *)
(* part in the next arbitration.  A receiver may lose a frame when its     *)
(* interrupt is held up (three frames fit the receive FIFO), and an error  *)
(* on the wire leads to a new arbitration.                                 *)
(***************************************************************************)
EXTENDS CanSegment, FiniteSets

CONSTANTS
    Idle,         \* no frame, no message
    Host,         \* the host, station 1
    Slaves,       \* the other stations
    Down,         \* Down_Stream_No of each station, 0 for none
    LastStation,  \* 30: the host polls the stations 2 to LastStation + 1
    QUEUE_MAX,    \* canSendQueueSize - 1
    ParaLen,      \* 3 + sizeof(USER_PARAS_T)
    BeltNumber,   \* Belt_Number of every station
    Gears,        \* gears of start commands, 0 for stop
    Flags,        \* values of the block disable flag
    MaxEvents,    \* bound: commands, requests and changes of status
    MaxFaults     \* bound: frames lost by receivers and errors on the wire

Stations == {Host} \cup Slaves
STATUS_LEN == 3 + 10 * BeltNumber
ParaParts == 0..(FrameCount(ParaLen) - 1)

ASSUME CanAssumption ==
    /\ Host \notin Slaves /\ IsFiniteSet(Slaves) /\ Idle \notin Stations
    /\ Stations \subseteq 1..255
    /\ 0..(LastStation + 1) \cup Stations \subseteq Ids
    /\ Down \in [Stations -> Stations \cup {0}]
    /\ LastStation \in Nat \ {0} /\ QUEUE_MAX \in Nat \ {0}
    /\ BeltNumber \in 1..10
    /\ Gears \subseteq 0..255 /\ 0 \in Gears
    /\ Flags \subseteq 0..255
    /\ ParaLen \in (PACK + 1)..255 /\ STATUS_LEN > PACK
    /\ ParaLen <= RX_SIZE /\ STATUS_LEN <= RX_SIZE
    /\ ParaLen # STATUS_LEN               \* 229 bytes against 103 at most
    /\ MaxEvents \in Nat /\ MaxFaults \in Nat

\* The server's versions of a station's parameters, and the status words.
Para(r, v) == <<"para", r, v>>
Stat(b) == <<"stat", 0, b>>
Nil == <<"nil", 0, 0>>

ASSUME TagAssumption ==
    /\ \A r \in Stations, v \in {0, 1} : Para(r, v) \in Tags
    /\ {Stat(0), Stat(1), Nil} \subseteq Tags
    /\ \A t \in Tags : t[3] \in {0, 1}

VARIABLES
    canSendQueue,      \* frames waiting in memory, per station
    mbox,              \* frames in the transmit mailboxes, per station
    wire,              \* the station whose frame is being sent, or Idle
    rx,                \* reassembly, per station
    setting,           \* g_speed_gear_status and g_block_disable_flag, by the
                       \* function that sets them, per station
    user_paras_local,  \* parameters in flash and memory, by parts, per station
    user_paras_slave,  \* parameters received in a reply, per station
    run,               \* run bit of the first belt, per station
    link,              \* g_link_down_stream_status, per station
    index,             \* modulestate_index of the host
    todo,              \* what the host's main loop is about to send, can_send_buff
                       \* and can_send_len with it, or Idle
    events, faults,    \* events and faults so far
    alone,             \* history: no two segmented messages on their way at once,
                       \* and no FIRST frame lost by a station that collects
    uncut,             \* history: no message about parameters cut to one byte
                       \* before that byte was computed
    clean,             \* history: no setting lost or crossed so far
    order,             \* history: what server or buttons ordered last
    halted             \* history: stations stopped by their emergency input since
                       \* their last start command

qvars == <<canSendQueue, mbox, wire>>
pvars == <<user_paras_local, user_paras_slave>>
hvars == <<alone, uncut, clean, order, halted>>
vars == <<canSendQueue, mbox, wire, rx, setting, user_paras_local,
          user_paras_slave, run, link, index, todo, events, faults, alone, uncut,
          clean, order, halted>>

-----------------------------------------------------------------------------
(* Sending                                                                 *)

EnqueueAll(q, frames) == q \o frames

\* AddCanSendData2Queue for one frame after the other: those that find the
\* queue full are dropped without notice.
Enqueue(q, frames) ==
    LET all == q \o frames
    IN  IF Len(all) <= QUEUE_MAX THEN all ELSE SubSeq(all, 1, QUEUE_MAX)

\* Segments of some message are still on their way, or to be queued.
SegmentsLeft == todo # Idle /\ todo.at \in {"copy", "add"} /\ todo.len > PACK

LongPending(q, mb) ==
    \/ SegmentsLeft
    \/ \E r \in Stations :
        \/ \E k \in DOMAIN q[r] : q[r][k].polo # NONE
        \/ \E k \in DOMAIN mb[r] : mb[r][k].polo # NONE

Room(r) == Len(canSendQueue[r]) < QUEUE_MAX

\* One byte, or no data at all.
NoTags == [i \in {0} |-> Nil]
StartFrames(g) == Segments(START_CMD, Host, 1, g, 0, NoTags)
PollFrames(n) == Segments(READ_MODULE_STATUS, n, 0, 0, 0, NoTags)

\* can_bus_send_read_user_paras, can_bus_send_write_user_paras and the two
\* replies: length, command, parameters; addressed by the station they are of.
READ == 1
WRITE == 2
READ_REPLY == 145
WRITE_REPLY == 146

ParaFrames(r, cmd, paras) == Segments(PARA_DATA, r, ParaLen, ParaLen, cmd, paras)

\* can_bus_send_module_status: length, number of belts, their status.
StatusFrames(r) ==
    Segments(MODULE_STATUS, r, STATUS_LEN, STATUS_LEN, BeltNumber,
             [i \in 0..(FrameCount(STATUS_LEN) - 1) |-> Stat(run[r])])

\* The stations that have something to send, and those of them that may win
\* the next arbitration.
Waiting(mb) == {r \in Stations : mb[r] # <<>>}

Wins(mb, r) == \A q \in Waiting(mb) : ExtId(Head(mb[r])) <= ExtId(Head(mb[q]))

Arbitrate(mb, w) ==
    \/ Waiting(mb) = {} /\ w = Idle
    \/ \E r \in Waiting(mb) : Wins(mb, r) /\ w = r

MAILBOXES == 3

LoadDropping(s) ==
    /\ canSendQueue[s] # <<>>
    /\ s = Host => todo = Idle
    /\ mbox' = IF Len(mbox[s]) < MAILBOXES
               THEN [mbox EXCEPT ![s] = Append(@, Head(canSendQueue[s]))] ELSE mbox
    /\ wire' = IF wire = Idle THEN s ELSE wire
    /\ canSendQueue' = [canSendQueue EXCEPT ![s] = Tail(@)]
    /\ UNCHANGED <<rx, setting, pvars, run, link, index, todo, events, faults, hvars>>

\* can_send_frame_process with CAN_Transmit: the oldest frame goes into an
\* empty mailbox; without one it stays in the queue.  The same main loop fills
\* the host's buffer.
Load(s) ==
    /\ canSendQueue[s] # <<>>
    /\ s = Host => todo = Idle
    /\ Len(mbox[s]) < MAILBOXES
    /\ mbox' = [mbox EXCEPT ![s] = Append(@, Head(canSendQueue[s]))]
    /\ wire' = IF wire = Idle THEN s ELSE wire
    /\ canSendQueue' = [canSendQueue EXCEPT ![s] = Tail(@)]
    /\ UNCHANGED <<rx, setting, pvars, run, link, index, todo, events, faults, hvars>>

-----------------------------------------------------------------------------
(* Receiving: what station r does with frame f                             *)

Settings == {START_CMD, FUNC_SELECT_CMD}

After(r, f) == Receive(rx[r], f)

\* para_data_recv_process and module_status_recv_process start with the same
\* test; only the low byte of the length is compared, since pbuf[1]>>8 is 0.
LengthOK(a) == a.buff[0].b0 = a.len

\* The parameters a message carries.
Content(a) == [i \in ParaParts |-> a.buff[i].tag]

\* A command on parameters that r carries out, or 0.
ParaCmd(r, f) ==
    LET a == After(r, f) IN
    IF /\ Finished(rx[r], f)
       /\ f.func = PARA_DATA
       /\ f.id = r \/ r = Host
       /\ LengthOK(a)
    THEN a.buff[0].cmd ELSE 0

\* write_user_paras and read_user_paras; ParamStore has their steps.
NewLocal(r, f) == IF ParaCmd(r, f) = WRITE THEN Content(After(r, f))
                  ELSE user_paras_local[r]

NewSlave(r, f) == IF ParaCmd(r, f) \in {READ_REPLY, WRITE_REPLY}
                  THEN Content(After(r, f)) ELSE user_paras_slave[r]

\* Speed_Ctrl_Process on g_speed_gear_status: EMERGENCY_STOP (0xEE) is a stop.
\* g_block_disable_flag is set to the byte as it is.
NewValue(func, b) == IF func = START_CMD /\ b = 238 THEN 0 ELSE b

NewSetting(r, f) ==
    IF Finished(rx[r], f) /\ f.func \in Settings
    THEN [setting[r] EXCEPT ![f.func] = NewValue(f.func, After(r, f).buff[0].b0)]
    ELSE setting[r]

Starts(r, f) == Finished(rx[r], f) /\ f.func = START_CMD

\* module_status_recv_process: the status of the station downstream.
NewLink(r, f) ==
    LET a == After(r, f) IN
    IF /\ Finished(rx[r], f)
       /\ f.func = MODULE_STATUS /\ f.id = Down[r]
       /\ LengthOK(a) /\ a.buff[0].cmd # 0
    THEN a.buff[0].tag[3] ELSE link[r]

\* The answers of a slave, sent from its CAN interrupt.
Answer(r, f) ==
    CASE ParaCmd(r, f) = READ ->
            ParaFrames(r, READ_REPLY, user_paras_local[r])
      [] ParaCmd(r, f) = WRITE ->
            ParaFrames(r, WRITE_REPLY, NewLocal(r, f))
      [] Finished(rx[r], f) /\ f.func = READ_MODULE_STATUS /\ f.id = r /\ r # Host ->
            StatusFrames(r)
      [] OTHER -> <<>>

\* The frame on the wire ends; the stations in L lose it, all others but the
\* sender handle it in CAN1_RX0_IRQHandler; the bus is arbitrated again.
Transfer(s, L) ==
    /\ wire = s
    /\ L \subseteq Stations \ {s} /\ faults + Cardinality(L) <= MaxFaults
    /\ LET f == Head(mbox[s])
           R == Stations \ (L \cup {s})
       IN  /\ rx' = [r \in Stations |-> 
                            IF r \in R THEN After(r, f) ELSE rx[r]]
           /\ setting' = [r \in Stations |->
                            IF r \in R THEN NewSetting(r, f) ELSE setting[r]]
           /\ user_paras_local' = [r \in Stations |->
                            IF r \in R THEN NewLocal(r, f) ELSE user_paras_local[r]]
           /\ user_paras_slave' = [r \in Stations |->
                            IF r \in R THEN NewSlave(r, f) ELSE user_paras_slave[r]]
           /\ link' = [r \in Stations |-> IF r \in R THEN NewLink(r, f) ELSE link[r]]
           /\ canSendQueue' = [r \in Stations |->
                            IF r \in R THEN Enqueue(canSendQueue[r], Answer(r, f))
                            ELSE canSendQueue[r]]
           /\ clean' = (clean /\ (f.func \in Settings => L = {}))
           /\ halted' = {r \in halted : ~(r \in R /\ Starts(r, f))}
    /\ mbox' = [mbox EXCEPT ![s] = Tail(@)]
    /\ Arbitrate(mbox', wire')
    /\ alone' = (/\ alone
                 /\ canSendQueue' # canSendQueue => ~LongPending(canSendQueue, mbox')
                 /\ Head(mbox[s]).polo = FIRST => \A r \in L : rx[r].polo # FIRST)
    /\ faults' = faults + Cardinality(L)
    /\ UNCHANGED <<run, index, todo, events, uncut, order>>

\* An error on the wire: the frame stays in its mailbox (NART is off).
BusError ==
    /\ wire # Idle
    /\ faults < MaxFaults
    /\ faults' = faults + 1
    /\ Arbitrate(mbox, wire')
    /\ UNCHANGED <<canSendQueue, mbox, rx, setting, pvars, run, link, index,
                   todo, events, hvars>>

-----------------------------------------------------------------------------
(* The host                                                                *)

Event == events < MaxEvents /\ events' = events + 1

Message(func, id, len, b0, cmd, tags) ==
    [at |-> "len", func |-> func, id |-> id, len |-> len, b0 |-> b0,
     cmd |-> cmd, tags |-> tags, next |-> 0]

\* A parameter transfer is under way somewhere.
Pending(funcs) ==
    \/ todo # Idle /\ todo.func \in funcs
    \/ \E r \in Stations :
        \/ \E k \in DOMAIN canSendQueue[r] : canSendQueue[r][k].func \in funcs
        \/ \E k \in DOMAIN mbox[r] : mbox[r][k].func \in funcs

\* The gear or the flag of the host is set; order keeps what was ordered.
HostSet(func, b) ==
    /\ setting' = [setting EXCEPT ![Host][func] = NewValue(func, b)]
    /\ order' = [order EXCEPT ![func] = NewValue(func, b)]
    /\ halted' = IF func = START_CMD THEN halted \ {Host} ELSE halted

\* recv_msg_process, first step: the command is carried out on the host itself,
\* then the message to the others is prepared in can_send_buff and sent from it.
ServerSet(func, b) ==
    /\ todo = Idle /\ Event
    /\ HostSet(func, b)
    /\ todo' = Message(func, Host, 1, b, 0, NoTags)
    /\ UNCHANGED <<qvars, rx, pvars, run, link, index, faults, alone, uncut, clean>>

ServerReset ==
    /\ todo = Idle /\ Event
    /\ todo' = Message(RESET_CMD, Host, 0, 0, 0, NoTags)
    /\ UNCHANGED <<qvars, rx, setting, pvars, run, link, index, faults, hvars>>

ServerPara(msg) ==
    /\ todo = Idle /\ Event
    /\ todo' = msg
    /\ UNCHANGED <<qvars, rx, setting, pvars, run, link, index, faults, hvars>>

ServerRead(n) == ServerPara(Message(PARA_DATA, n, 3, 3, READ, NoTags))

\* Parameters written one after the other differ: see Next.
ServerWrite(n, v) ==
    ServerPara(Message(PARA_DATA, n, ParaLen, ParaLen, WRITE,
                       [i \in ParaParts |-> Para(n, v)]))

\* can_send_len is set; a reset has nothing to put into the buffer.
SetLength ==
    /\ todo # Idle /\ todo.at = "len"
    /\ todo' = [todo EXCEPT !.at = IF todo.func = RESET_CMD THEN "call" ELSE "fill"]
    /\ UNCHANGED <<qvars, rx, setting, pvars, run, link, index, events, faults, hvars>>

\* can_send_buff is filled; messages about parameters begin with their length,
\* taken from can_send_len.
FirstByte == IF todo.func = PARA_DATA THEN todo.len ELSE todo.b0

FillBuffer ==
    /\ todo # Idle /\ todo.at = "fill"
    /\ todo' = [todo EXCEPT !.at = "call", !.b0 = FirstByte]
    /\ UNCHANGED <<qvars, rx, setting, pvars, run, link, index, events, faults, hvars>>

\* The call of can_bus_send_msg passes the length by value ...
CallSend ==
    /\ todo # Idle /\ todo.at = "call"
    /\ todo' = [todo EXCEPT !.at = "copy"]
    /\ alone' = (alone /\ (todo.len > PACK => ~LongPending(canSendQueue, mbox)))
    /\ UNCHANGED <<qvars, rx, setting, pvars, run, link, index, events, faults,
                   uncut, clean, order, halted>>

\* ... and copies the first byte into the first frame.
CopyFirst ==
    /\ todo # Idle /\ todo.at = "copy"
    /\ todo' = [todo EXCEPT !.at = "add"]
    /\ UNCHANGED <<qvars, rx, setting, pvars, run, link, index, events, faults, hvars>>

TodoFrames == Segments(todo.func, todo.id, todo.len, todo.b0, todo.cmd, todo.tags)

\* The next frame is queued.  Nothing leaves the queue before the main loop is
\* back: after a frame that found it full the others are dropped as well.
AddFrame ==
    /\ todo # Idle /\ todo.at = "add"
    /\ canSendQueue' = [canSendQueue EXCEPT ![Host] =
                            Enqueue(@, <<TodoFrames[todo.next + 1]>>)]
    /\ todo' = IF Room(Host) /\ todo.next + 1 < Len(TodoFrames)
               THEN [todo EXCEPT !.next = @ + 1] ELSE Idle
    /\ clean' = (clean /\ (todo.func \in Settings => Room(Host)))
    /\ UNCHANGED <<mbox, wire, rx, setting, pvars, run, link, index, events, faults,
                   alone, uncut, order, halted>>

\* The start and stop buttons, handled in SysTick: the same buffer is used,
\* whatever the main loop was doing with it.
Overwritten(t, g) ==
    [t EXCEPT !.len = IF t.at \in {"fill", "call"} THEN 1 ELSE @,
              !.b0 = IF t.at \in {"call", "copy"} THEN g ELSE @]

Crossed ==
    /\ todo # Idle
    /\ \/ todo.func = START_CMD /\ todo.at \in {"len", "fill", "add"}
       \/ todo.func = FUNC_SELECT_CMD /\ todo.at \in {"call", "copy"}

Cut == todo # Idle /\ todo.func = PARA_DATA /\ todo.at = "fill"

Button(g) ==
    /\ Event
    /\ HostSet(START_CMD, g)
    /\ canSendQueue' = [canSendQueue EXCEPT ![Host] = Enqueue(@, StartFrames(g))]
    /\ todo' = IF todo = Idle THEN Idle ELSE Overwritten(todo, g)
    /\ uncut' = (uncut /\ ~Cut)
    /\ clean' = (clean /\ Room(Host) /\ ~Crossed)
    /\ UNCHANGED <<mbox, wire, rx, pvars, run, link, index, faults, alone>>

\* Speed_Ctrl_Process(EMERGENCY_STOP) from the emergency input of station r,
\* handled in SysTick: nothing is sent.
Emergency(r) ==
    /\ Event
    /\ setting' = [setting EXCEPT ![r][START_CMD] = 0]
    /\ halted' = halted \cup {r}
    /\ UNCHANGED <<qvars, rx, pvars, run, link, index, todo, faults, alone, uncut,
                   clean, order>>

\* sec_process, every 500 ms: the next station is asked for its status.  The
\* period is long against the transfer of one status.
NextIndex(i) == IF i + 1 > LastStation THEN 1 ELSE i + 1

PollTargetBefore(i) == i

PollTarget(i) == i + 1

PollStatus ==
    /\ todo = Idle
    /\ ~Pending({READ_MODULE_STATUS, MODULE_STATUS})
    /\ canSendQueue' = [canSendQueue EXCEPT ![Host] = Enqueue(@, PollFrames(PollTarget(index)))]
    /\ index' = NextIndex(index)
    /\ UNCHANGED <<mbox, wire, rx, setting, pvars, run, link, todo, events, faults, hvars>>

\* The first belt of r starts or stops.
RunChanges(r) ==
    /\ Event
    /\ run' = [run EXCEPT ![r] = 1 - @]
    /\ UNCHANGED <<qvars, rx, setting, pvars, link, index, todo, faults, hvars>>

-----------------------------------------------------------------------------
Init ==
    /\ canSendQueue = [r \in Stations |-> <<>>]
    /\ mbox = [r \in Stations |-> <<>>]
    /\ wire = Idle
    /\ rx = [r \in Stations |-> [buff |-> [i \in Slots |-> NoChunk(Nil)], polo |-> NONE,
                                 num |-> 0, bytes |-> 0, len |-> 0]]
    /\ setting = [r \in Stations |-> [func \in Settings |-> 0]]
    /\ user_paras_local = [r \in Stations |-> [i \in ParaParts |-> Para(r, 0)]]
    /\ user_paras_slave = [r \in Stations |-> [i \in ParaParts |-> Nil]]
    /\ run = [r \in Stations |-> 0]
    /\ link = [r \in Stations |-> 0]
    /\ index = 1
    /\ todo = Idle
    /\ events = 0 /\ faults = 0
    /\ alone = TRUE /\ uncut = TRUE /\ clean = TRUE
    /\ order = [func \in Settings |-> 0]
    /\ halted = {}

Transfers == \E s \in Stations, L \in SUBSET Stations : Transfer(s, L)

MainLoop == SetLength \/ FillBuffer \/ CallSend \/ CopyFirst \/ AddFrame

Next ==
    \/ \E s \in Stations : Load(s)
    \/ Transfers \/ BusError
    \/ MainLoop \/ PollStatus
    \/ \E g \in Gears : ServerSet(START_CMD, g)
    \/ \E g \in {0, 2} : Button(g)
    \/ \E b \in Flags : ServerSet(FUNC_SELECT_CMD, b)
    \/ ServerReset
    \/ \E n \in Slaves : ServerRead(n) \/ ServerWrite(n, (events + 1) % 2)
    \/ \E r \in Slaves : RunChanges(r)
    \/ \E r \in Stations : Emergency(r)

Spec == Init /\ [][Next]_vars

\* The controllers send what waits, every main loop goes round and fills free
\* mailboxes, and the half second comes again and again; nothing is assumed of
\* server and operators.
FairSpec ==
    /\ Spec
    /\ WF_vars(Transfers) /\ \A s \in Stations : WF_vars(Load(s))
    /\ WF_vars(MainLoop) /\ SF_vars(PollStatus)

-----------------------------------------------------------------------------
Todo == [at : {"len", "fill", "call", "copy", "add"}, func : 0..15, id : Ids,
         len : 0..RX_SIZE, b0 : 0..255, cmd : 0..255,
         tags : {NoTags} \cup [ParaParts -> Tags], next : Nat]

ASSUME IdleAssumption == Idle \notin Todo

\* Every variable has its type; in particular the segment counters stay in the
\* range of their u8 and u16 and inside can_recv_buff (can_bus.c, 7-13).
TypeOK ==
    /\ canSendQueue \in [Stations -> Seq(Frame)]
    /\ \A r \in Stations : Len(canSendQueue[r]) <= QUEUE_MAX
    /\ mbox \in [Stations -> Seq(Frame)]
    /\ \A r \in Stations : Len(mbox[r]) <= MAILBOXES
    /\ wire \in Stations \cup {Idle}
    /\ rx \in [Stations -> Assembly]
    /\ setting \in [Stations -> [Settings -> 0..255]]
    /\ user_paras_local \in [Stations -> [ParaParts -> Tags]]
    /\ user_paras_slave \in [Stations -> [ParaParts -> Tags]]
    /\ run \in [Stations -> {0, 1}]
    /\ link \in [Stations -> {0, 1}]
    /\ index \in Ids
    /\ todo \in Todo \cup {Idle}
    /\ events \in 0..MaxEvents /\ faults \in 0..MaxFaults
    /\ alone \in BOOLEAN /\ uncut \in BOOLEAN /\ clean \in BOOLEAN
    /\ order \in [Settings -> 0..255]
    /\ halted \subseteq Stations

\* What a station has collected between a FIRST frame and now is, whoever sent
\* it and whatever was lost or overtaken, a sequence of segments each at the
\* place it has in its own message, without gap, and within can_recv_buff
\* (can_bus.c, 160-194).
AssemblySound ==
    \A r \in Stations :
        LET a == rx[r] IN
        a.polo = FIRST =>
            /\ a.bytes = PACK * (a.num + 1)
            /\ a.bytes <= RX_SIZE
            /\ \A i \in 0..a.num : a.buff[i].at = i

\* A slave never has anything in its flash but one complete set of parameters
\* that the server sent to this station (can_bus.c, 71-76, 168-200: "the slave
\* saves the parameters it has received to flash").
ParasMine ==
    \A r \in Slaves : \E v \in {0, 1} :
        user_paras_local[r] = [i \in ParaParts |-> Para(r, v)]

\* This holds as long as segmented messages follow one another on the bus,
\* with any single frames between their segments, any segments lost by receivers
\* or dropped by a full queue, and messages cut to one byte by a button: it is up
\* to the numbers of the segments and the length in the first.  Two things are
\* excepted.  The FIRST frame of the next message may not be lost by a station
\* that is left with a message without its end: the numbers of the segments that
\* follow may fit what it has.  And no button may be pressed between the setting
\* of can_send_len and the use of it as the first byte of a message about
\* parameters (can_bus.c, 271-272 and 290-291): then the message is one byte that
\* says 1, passes the test of the length, and the station it is addressed to runs
\* the command an earlier message has left in its buffer, a write for another
\* station included.
ParasOwn == alone /\ uncut => ParasMine

\* Likewise, what the host passes on to the server as the reply of a slave is
\* one complete set of parameters the server once sent to one slave, or nothing
\* yet (can_bus.c, 66-70 and 77-81).
ReplyWhole ==
    alone /\ uncut => \E t \in {Para(n, v) : n \in Slaves, v \in {0, 1}} \cup {Nil} :
        user_paras_slave[Host] = [i \in ParaParts |-> t]

\* When nothing is on its way any more, all stations have the block flag that was
\* ordered last, and all but those stopped by their own emergency input since
\* have the gear that was ordered last, so that a command never leaves a line
\* half stopped, not even when frames were sent again after an error - unless a
\* frame was lost or found the queue full, or a button was pressed at a place of
\* the main loop where its command crosses the one of the server.  A station
\* stopped by its emergency input tells no other and stands until the next start
\* command (fun.c, 109-120; can_bus.c, 308-327, 344-364; logic_ctrl.c, 353-390,
\* 466-503).
Quiet ==
    /\ todo = Idle
    /\ \A r \in Stations : canSendQueue[r] = <<>> /\ mbox[r] = <<>>

LineAgrees ==
    Quiet /\ clean => \A r \in Stations, func \in Settings :
        setting[r][func] = IF func = START_CMD /\ r \in halted THEN 0 ELSE order[func]

\* A station learns the state of the slave downstream of it, whatever was lost
\* before (main.c, 161-170; can_bus.c, 105-126, 217-219).  There is no such
\* promise when the host is the station downstream: it is never polled, and
\* its status is not sent on the bus.
NeighbourLearns ==
    \A r \in Stations :
        Down[r] \in Slaves => <>[](link[r] = run[Down[r]])
=============================================================================
