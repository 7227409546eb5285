---------------------------- MODULE ModbusMaster ----------------------------
(***************************************************************************)
(* The RS485 master of a station: Modbus_RTU_Comm_Process, called from the *)
(* main loop, shares comm_node.comm_interval, uart1_tmr, uart1_commu_state *)
(* and the receive buffer with the 1 ms tick (uart_recv_timeout) and the   *)
(* USART1 receive interrupt.  Both interrupts preempt the main loop        *)
(* between any two of its statements, so the statements that touch the     *)
(* shared state are steps of their own.  The inverters and the wire are    *)
(* the environment.                                                        *)
(***************************************************************************)
EXTENDS Naturals, Sequences

CONSTANTS
    Inverters,         \* station numbers on the bus
    RwFlags,           \* 0 read status, 1 write speed, 2 reset protection
    Intervals,         \* comm_interval of queued commands
    Retries,           \* comm_retry of queued commands
    RECV_WAIT,         \* 50 ticks to wait for the first byte of an answer
    BYTE_GAP,          \* 5 ticks of silence end a frame
    RETRY_INTERVAL,    \* 20 ticks before a retransmission
    DEFAULT_INTERVAL,  \* 15 ticks, used for a queued comm_interval of 0
    BUFF_SIZE,         \* UART1_BUFF_SIZE
    ReplyLen,          \* bytes of an answer
    Slow,              \* inverters that may answer after RECV_WAIT
    MaxNoise,          \* bound: bytes of noise on the wire
    MaxWire,           \* bound: bytes on the wire at once
    MaxPreempt         \* ticks that can fall into one window of statements

ASSUME ConstantsAssumption ==
    /\ Inverters # {} /\ 0 \notin Inverters
    /\ RwFlags \subseteq 0..2 /\ RwFlags # {}
    /\ Intervals \subseteq Nat /\ Intervals # {}
    /\ Retries \subseteq Nat /\ Retries # {}
    /\ RECV_WAIT \in Nat \ {0}
    /\ BYTE_GAP \in Nat \ {0}
    /\ RETRY_INTERVAL \in Nat \ {0}
    /\ DEFAULT_INTERVAL \in Nat \ {0}
    /\ BUFF_SIZE \in Nat \ {0}
    /\ ReplyLen \in Nat \ {0}
    /\ Slow \subseteq Inverters
    /\ MaxNoise \in Nat
    /\ MaxWire \in Nat
    /\ MaxPreempt \in Nat

\* The engine is only sound if no timer can run out inside the window of
\* main-loop statements in which it is set.
TimingOK ==
    /\ DEFAULT_INTERVAL > MaxPreempt
    /\ RETRY_INTERVAL > MaxPreempt
    /\ BYTE_GAP > MaxPreempt
    /\ \A i \in Intervals : i # 0 => i > MaxPreempt

Commands == [rw_flag : RwFlags, inverter_no : Inverters,
             comm_interval : Intervals, comm_retry : Retries]

\* What the history keeps of a command.
Orders == [inverter_no : Inverters, comm_retry : Retries]
Order(c) == [inverter_no |-> c.inverter_no, comm_retry |-> c.comm_retry]

\* The function code of a request, and of its answer.
FuncCode(rw) == IF rw = 0 THEN 3 ELSE 16

\* Byte pos of an answer of inverter no, or a corrupted byte.  The CRC is taken
\* to detect everything that is not one whole answer.
Broken == [no |-> 0, fn |-> 0, pos |-> 0]
Bytes == [no : Inverters, fn : {3, 16}, pos : 1..ReplyLen] \cup {Broken}
Answer(i, f) == [k \in 1..ReplyLen |-> [no |-> i, fn |-> f, pos |-> k]]

VARIABLES
    pc,                \* where the main loop stands in the engine
    comm_busy_flag,
    comm_node,
    uart1_commu_state,
    uart1_tmr,
    recv,              \* the first uart1_recv_count bytes of uart1_recv_buff
    slack,             \* ticks since the main loop entered its window, 0 outside
    fault485,          \* bit 0 of inverter_status_buffer[i].fault_code
    wire,              \* bytes on their way to the master
    req,               \* request an inverter holds: [fn, cur], or None
    noise,             \* bytes of noise so far
    due,               \* ticks an inverter that is not Slow still has to answer
    cmd, sent, exec,   \* history: command as queued, transmissions, carried out
    disturbed          \* history: inverters whose wait something else than their
                       \* answer came into, and may have cut short

mvars == <<pc, comm_busy_flag, comm_node, uart1_commu_state, uart1_tmr, recv,
           slack, fault485>>
evars == <<wire, req, noise, due>>
hvars == <<cmd, sent, exec, disturbed>>
vars  == <<mvars, evars, hvars>>

None == [fn |-> 0, cur |-> 0]
Requests == [fn : {3, 16}, cur : {0, 1}] \cup {None}

PCs == {"loop", "copied", "taken", "sending", "sent", "armed", "cleared", "rearm"}
CommStates == {"SEND_READY", "SEND_DATA", "RECV_DATA", "RECV_DATA_END"}

\* Where a tick can fall any number of times: at the top of the main loop,
\* which also serves the network, and during the blocking transmission.
OpenPC == {"loop", "sending"}

Init ==
    /\ pc = "loop"
    /\ comm_busy_flag = 0
    /\ comm_node = [rw_flag |-> 0, inverter_no |-> 0, comm_interval |-> 0, comm_retry |-> 0]
    /\ uart1_commu_state = "SEND_READY"
    /\ uart1_tmr = 0
    /\ recv = <<>>
    /\ slack = 0
    /\ fault485 = [i \in Inverters |-> 0]
    /\ wire = <<>>
    /\ req = [i \in Inverters |-> None]
    /\ noise = 0
    /\ due = [i \in Inverters |-> 0]
    /\ cmd \in Orders
    /\ sent = 0
    /\ exec = 0
    /\ disturbed = {}

-----------------------------------------------------------------------------
(* The main loop: Modbus_RTU_Comm_Process                                  *)

\* Idle and the queue holds c: comm_node = *comm_node_tmp.  Once an inverter has
\* had its time, nothing of an earlier wait is left.
Take(c) ==
    /\ pc = "loop"
    /\ comm_busy_flag = 0
    /\ comm_node' = c
    /\ pc' = "copied"
    /\ slack' = 0
    /\ req' = [i \in Inverters |-> [req[i] EXCEPT !.cur = 0]]
    /\ cmd' = Order(c)
    /\ sent' = 0
    /\ exec' = 0
    /\ disturbed' = IF due[c.inverter_no] = 0 THEN disturbed \ {c.inverter_no}
                    ELSE disturbed
    /\ UNCHANGED <<comm_busy_flag, uart1_commu_state, uart1_tmr, recv,
                   fault485, wire, noise, due>>

\* if(comm_interval == 0) comm_interval = 15
EffectiveAsQueued(n) == n
Effective(n) == IF n = 0 THEN DEFAULT_INTERVAL ELSE n

\* The interval is made effective, comm_busy_flag = 1.
Accept ==
    /\ pc = "copied"
    /\ comm_node' = [comm_node EXCEPT !.comm_interval = Effective(@)]
    /\ comm_busy_flag' = 1
    /\ pc' = "taken"
    /\ UNCHANGED <<uart1_commu_state, uart1_tmr, recv, slack, fault485, evars, hvars>>

\* uart1_commu_state = SEND_READY, of a new command or of a retry
SetReady ==
    /\ pc \in {"taken", "rearm"}
    /\ uart1_commu_state' = "SEND_READY"
    /\ recv' = IF pc = "rearm" THEN <<>> ELSE recv
    /\ pc' = "loop"
    /\ slack' = 0
    /\ UNCHANGED <<comm_busy_flag, comm_node, uart1_tmr, fault485, evars, hvars>>

\* SEND_DATA: build the frame and enter the blocking transmission.
StartSend ==
    /\ pc = "loop"
    /\ comm_busy_flag = 1
    /\ uart1_commu_state = "SEND_DATA"
    /\ pc' = "sending"
    /\ UNCHANGED <<comm_busy_flag, comm_node, uart1_commu_state, uart1_tmr,
                   recv, slack, fault485, evars, hvars>>

\* The last byte has left; the inverter holds the request from here on, and has
\* RECV_WAIT ticks to answer it.
EndSend ==
    /\ pc = "sending"
    /\ req' = [req EXCEPT ![comm_node.inverter_no] =
                  [fn |-> FuncCode(comm_node.rw_flag), cur |-> 1]]
    /\ due' = [due EXCEPT ![comm_node.inverter_no] =
                  IF comm_node.inverter_no \in Slow THEN 0 ELSE RECV_WAIT]
    /\ sent' = sent + 1
    /\ pc' = "sent"
    /\ slack' = 0
    /\ UNCHANGED <<comm_busy_flag, comm_node, uart1_commu_state, uart1_tmr,
                   recv, fault485, wire, noise, cmd, exec, disturbed>>

ArmTimerFirst ==
    \/ /\ pc = "sent"
       /\ uart1_tmr' = RECV_WAIT
       /\ pc' = "armed"
       /\ slack' = 0
       /\ UNCHANGED <<recv, uart1_commu_state>>
    \/ /\ pc = "armed"
       /\ recv' = <<>>
       /\ pc' = "cleared"
       /\ UNCHANGED <<uart1_commu_state, uart1_tmr, slack>>
    \/ /\ pc = "cleared"
       /\ uart1_commu_state' = "RECV_DATA"
       /\ pc' = "loop"
       /\ slack' = 0
       /\ UNCHANGED <<uart1_tmr, recv>>

\* The three assignments that end uart1_send.
ArmReceive ==
    \/ /\ pc = "sent"
       /\ uart1_commu_state' = "RECV_DATA"
       /\ pc' = "armed"
       /\ slack' = 0
       /\ UNCHANGED <<recv, uart1_tmr>>
    \/ /\ pc = "armed"
       /\ recv' = <<>>
       /\ pc' = "cleared"
       /\ UNCHANGED <<uart1_commu_state, uart1_tmr, slack>>
    \/ /\ pc = "cleared"
       /\ uart1_tmr' = RECV_WAIT
       /\ pc' = "loop"
       /\ slack' = 0
       /\ UNCHANGED <<uart1_commu_state, recv>>

Arm == ArmReceive /\ UNCHANGED <<comm_busy_flag, comm_node, fault485, evars, hvars>>

\* comm_recv_rw_comand returns 1: one whole answer, of the right station,
\* with the right function code.
ValidReplyOfAny == \E i \in Inverters : recv = Answer(i, FuncCode(comm_node.rw_flag))
Awaited == Answer(comm_node.inverter_no, FuncCode(comm_node.rw_flag))
ValidReply == recv = Awaited

\* Nothing came but the answer or the beginning of it.
Undisturbed == Len(recv) <= ReplyLen /\ \A k \in 1..Len(recv) : recv[k] = Awaited[k]

NoteDisturbance ==
    disturbed' = IF Undisturbed \/ comm_node.inverter_no \in Slow THEN disturbed
                 ELSE disturbed \cup {comm_node.inverter_no}

\* RECV_DATA_END with a valid answer.
Succeed ==
    /\ pc = "loop"
    /\ comm_busy_flag = 1
    /\ uart1_commu_state = "RECV_DATA_END"
    /\ ValidReply
    /\ fault485' = [fault485 EXCEPT ![comm_node.inverter_no] = 0]
    /\ comm_busy_flag' = 0
    /\ recv' = <<>>
    /\ UNCHANGED <<pc, comm_node, uart1_commu_state, uart1_tmr, slack, evars, hvars>>

\* comm_retry--
OneLessForgotten(n) == n
OneLess(n) == n - 1

\* RECV_DATA_END without one, and a retry left: comm_retry--, comm_interval = 20.
Retry ==
    /\ pc = "loop"
    /\ comm_busy_flag = 1
    /\ uart1_commu_state = "RECV_DATA_END"
    /\ ~ValidReply
    /\ comm_node.comm_retry > 0
    /\ comm_node' = [comm_node EXCEPT !.comm_retry = OneLess(@),
                                      !.comm_interval = RETRY_INTERVAL]
    /\ pc' = "rearm"
    /\ slack' = 0
    /\ NoteDisturbance
    /\ UNCHANGED <<comm_busy_flag, uart1_commu_state, uart1_tmr, recv,
                   fault485, evars, cmd, sent, exec>>

\* RECV_DATA_END without one, no retry left: the 485 fault.
GiveUp ==
    /\ pc = "loop"
    /\ comm_busy_flag = 1
    /\ uart1_commu_state = "RECV_DATA_END"
    /\ ~ValidReply
    /\ comm_node.comm_retry = 0
    /\ fault485' = [fault485 EXCEPT ![comm_node.inverter_no] = 1]
    /\ comm_busy_flag' = 0
    /\ recv' = <<>>
    /\ NoteDisturbance
    /\ UNCHANGED <<pc, comm_node, uart1_commu_state, uart1_tmr, slack, evars,
                   cmd, sent, exec>>

-----------------------------------------------------------------------------
(* The interrupts                                                          *)

\* An inverter that is not Slow has answered RECV_WAIT ticks after the request
\* reached it, however long the master waits, or not at all: then a request it
\* still holds is dropped, and of an answer under way only a broken rest arrives.
TimeUp == {i \in Inverters : due[i] = 1}

Silenced(w, S) == [k \in 1..Len(w) |->
                      IF w[k].no \in S THEN Broken ELSE w[k]]

\* The time ends early for an inverter that has nothing to send any more.
Owing(w, r) == {i \in Inverters : r[i] # None \/ \E k \in 1..Len(w) : w[k].no = i}

Settle(w, r) == [i \in Inverters |-> IF i \in Owing(w, r) THEN due[i] ELSE 0]

\* A timer that is not running stays at 0.
CountDownUnguarded(n) == n - 1
CountDown(n) == IF n = 0 THEN 0 ELSE n - 1

TmrExpires == uart1_tmr = 1
IntervalExpires == comm_node.comm_interval = 1

\* uart_recv_timeout, called from SysTick by Time_Update.
Tick ==
    /\ \/ uart1_tmr # 0 \/ comm_node.comm_interval # 0
       \/ \E i \in Inverters : due[i] # 0
    /\ pc \in OpenPC \/ slack < MaxPreempt
    /\ slack' = IF pc \in OpenPC THEN slack ELSE slack + 1
    /\ uart1_tmr' = CountDown(uart1_tmr)
    /\ comm_node' = [comm_node EXCEPT !.comm_interval = CountDown(@)]
    /\ uart1_commu_state' = IF IntervalExpires THEN "SEND_DATA"
                            ELSE IF TmrExpires THEN "RECV_DATA_END"
                            ELSE uart1_commu_state
    /\ due' = [i \in Inverters |-> CountDown(due[i])]
    /\ wire' = Silenced(wire, TimeUp)
    /\ req' = [i \in Inverters |-> IF i \in TimeUp THEN None ELSE req[i]]
    /\ UNCHANGED <<pc, comm_busy_flag, recv, fault485, noise, hvars>>

\* if(uart1_commu_state == RECV_DATA)
ListeningAlways == TRUE
Listening == uart1_commu_state = "RECV_DATA"

\* USART1_IRQHandler: a byte arrives.  It is dropped unless the engine
\* waits for it, and no longer counted once the buffer is full.
RxByte ==
    /\ wire # <<>>
    /\ wire' = Tail(wire)
    /\ IF Listening
       THEN /\ uart1_tmr' = BYTE_GAP
            /\ recv' = IF Len(recv) < BUFF_SIZE THEN Append(recv, Head(wire))
                       ELSE recv
       ELSE UNCHANGED <<uart1_tmr, recv>>
    /\ due' = Settle(wire', req)
    /\ UNCHANGED <<pc, comm_busy_flag, comm_node, uart1_commu_state, slack,
                   fault485, req, noise, hvars>>

-----------------------------------------------------------------------------
(* The environment: inverters and wire                                     *)

\* Inverter i carries out the request it holds; its answer may be lost.
Respond(i) ==
    /\ req[i] # None
    /\ req' = [req EXCEPT ![i] = None]
    /\ exec' = IF req[i].cur = 1 THEN 1 ELSE exec
    /\ \/ /\ Len(wire) + ReplyLen <= MaxWire
          /\ wire' = wire \o Answer(i, req[i].fn)
       \/ wire' = wire
    /\ due' = Settle(wire', req')
    /\ UNCHANGED <<mvars, noise, cmd, sent, disturbed>>

\* The request never reached inverter i, or not in one piece.
LoseRequest(i) ==
    /\ req[i] # None
    /\ req' = [req EXCEPT ![i] = None]
    /\ due' = Settle(wire, req')
    /\ UNCHANGED <<mvars, wire, noise, hvars>>

\* A corrupted byte.
Noise ==
    /\ noise < MaxNoise
    /\ Len(wire) < MaxWire
    /\ noise' = noise + 1
    /\ wire' = Append(wire, Broken)
    /\ UNCHANGED <<mvars, req, due, hvars>>

-----------------------------------------------------------------------------
Main ==
    \/ \E c \in Commands : Take(c)
    \/ Accept
    \/ SetReady
    \/ StartSend
    \/ EndSend
    \/ Arm
    \/ Succeed
    \/ Retry
    \/ GiveUp

Environment ==
    \/ \E i \in Inverters : Respond(i) \/ LoseRequest(i)
    \/ Noise

Next == Main \/ Tick \/ RxByte \/ Environment

Spec == Init /\ [][Next]_vars

\* The main loop never stops once a command is in hand, the tick never
\* stops, and a byte on the wire arrives.  Nothing is asked of the inverters.
Busy == Accept \/ SetReady \/ StartSend \/ EndSend \/ Arm \/ Succeed \/ Retry \/ GiveUp
FairSpec == Spec /\ WF_vars(Busy) /\ WF_vars(Tick) /\ WF_vars(RxByte)

-----------------------------------------------------------------------------
\* The engine's own state ...
EngineTypeOK ==
    /\ pc \in PCs
    /\ comm_busy_flag \in {0, 1}
    /\ comm_node \in [rw_flag : 0..2, inverter_no : Inverters \cup {0},
                      comm_interval : Nat, comm_retry : Nat]
    /\ uart1_commu_state \in CommStates
    /\ uart1_tmr \in Nat
    /\ slack \in 0..MaxPreempt
    /\ fault485 \in [Inverters -> {0, 1}]

\* ... and the bytes, requests and history around it.
WireTypeOK ==
    /\ recv \in Seq(Bytes)
    /\ wire \in Seq(Bytes)
    /\ req \in [Inverters -> Requests]
    /\ noise \in 0..MaxNoise
    /\ due \in [Inverters -> 0..RECV_WAIT]
    /\ cmd \in Orders
    /\ sent \in Nat
    /\ exec \in {0, 1}
    /\ disturbed \subseteq Inverters \cup {0}

\* Every variable has its type in every state; in particular the timers and
\* comm_retry, unsigned in the code, are never decremented below 0
\* (modbus_rtu.c, lines 97-107 and 532-534).
TypeOK == EngineTypeOK /\ WireTypeOK

\* The engine never waits for an event that cannot come: at the top of the
\* main loop a command in hand is either due or has the timer running that
\* will make it due.  Nothing else in the firmware restarts the engine, so a
\* state without this property ends all RS485 traffic, emergency stop included
\* (modbus_rtu.c, lines 95-113 against 499-545).
NoHang ==
    pc = "loop" /\ comm_busy_flag = 1 =>
        /\ uart1_commu_state = "SEND_READY" => comm_node.comm_interval > 0
        /\ uart1_commu_state = "RECV_DATA" => uart1_tmr > 0

\* The receive timeout and the command interval never run at the same time,
\* and neither runs while the engine is idle or transmitting; so no expiry
\* can overwrite the state another one has set (modbus_rtu.c, lines 97-112).
OneTimer ==
    /\ uart1_tmr = 0 \/ comm_node.comm_interval = 0
    /\ pc \in {"sending", "sent"} \/ (pc = "loop" /\ comm_busy_flag = 0) =>
          uart1_tmr = 0 /\ comm_node.comm_interval = 0

\* The inductive strengthening of NoHang and OneTimer: for each place of the
\* main loop, what the timers and the state can be.  The sums with slack say
\* that no timer set in a window of statements can run out inside it, so that
\* uart_recv_timeout never changes uart1_commu_state between two of the
\* assignments it would undo (modbus_rtu.c, lines 508-514, 128-130, 535-536).
TimerInv ==
    /\ pc = "loop" /\ comm_busy_flag = 0 =>
          /\ uart1_tmr = 0 /\ comm_node.comm_interval = 0
          /\ uart1_commu_state # "RECV_DATA"
    /\ pc = "loop" /\ comm_busy_flag = 1 =>
          \/ /\ uart1_commu_state = "SEND_READY"
             /\ uart1_tmr = 0 /\ comm_node.comm_interval > 0
          \/ /\ uart1_commu_state = "RECV_DATA"
             /\ uart1_tmr > 0 /\ comm_node.comm_interval = 0
          \/ /\ uart1_commu_state \in {"SEND_DATA", "RECV_DATA_END"}
             /\ uart1_tmr = 0 /\ comm_node.comm_interval = 0
    /\ pc = "copied" =>
          /\ uart1_tmr = 0 /\ uart1_commu_state # "RECV_DATA"
          /\ \/ comm_node.comm_interval = 0
             \/ comm_node.comm_interval + slack > MaxPreempt
    /\ pc \in {"taken", "rearm"} =>
          /\ comm_busy_flag = 1
          /\ uart1_tmr = 0 /\ uart1_commu_state # "RECV_DATA"
          /\ comm_node.comm_interval + slack > MaxPreempt
    /\ pc \in {"sending", "sent"} =>
          /\ comm_busy_flag = 1 /\ uart1_commu_state = "SEND_DATA"
          /\ uart1_tmr = 0 /\ comm_node.comm_interval = 0
    /\ pc \in {"armed", "cleared"} =>
          /\ comm_busy_flag = 1 /\ uart1_commu_state = "RECV_DATA"
          /\ comm_node.comm_interval = 0
          /\ uart1_tmr = 0 \/ uart1_tmr + slack >= BYTE_GAP

\* A command is reported as carried out only if it was: the answer that ends
\* it is its own, not noise, not that of another inverter and not that of an
\* earlier command, whatever comes into the wait for it.  Nothing more than
\* station and function code is compared, so this rests on the timers: excepted
\* are inverters that may answer late, and those with an earlier wait into which
\* something else came, until RECV_WAIT has passed since: 5 ms after a foreign
\* byte the master goes on, and the answer may come into a later wait
\* (modbus_rtu.c, lines 389-400 and 435-439; stm32f10x_it.c, 141-151).
AckMeansExecuted ==
    pc = "loop" /\ comm_busy_flag = 1 /\ uart1_commu_state = "RECV_DATA_END"
        /\ ValidReply /\ comm_node.inverter_no \notin Slow \cup disturbed => exec = 1

\* The same for every inverter, slow ones included: what the comment at
\* modbus_rtu.c:439 says of a write that has been answered.
WriteSucceeded ==
    pc = "loop" /\ comm_busy_flag = 1 /\ uart1_commu_state = "RECV_DATA_END"
        /\ comm_node.rw_flag # 0 /\ ValidReply => exec = 1

\* Every command is brought to an end, whatever the inverters and the wire
\* do (modbus_rtu.c, lines 517-545).
CommandEnds == comm_busy_flag = 1 ~> comm_busy_flag = 0

\* A command is transmitted once its comm_interval has passed.  The interval
\* of a start command is the Start_Delay_Time of its belt, which logic_ctrl.h
\* documents as a delay in milliseconds.
DelayThenSend == comm_busy_flag = 1 /\ sent = 0 ~> sent > 0

\* The engine implements the abstract link: one command at a time, at most
\* comm_retry + 1 transmissions, the fault bit raised only when the last one
\* has gone unanswered, success reported only for what was carried out, with the
\* exceptions of AckMeansExecuted.
Link == INSTANCE CommandLink WITH
            Commands <- Orders,
            pending <- IF pc = "copied" THEN 1 ELSE comm_busy_flag,
            tries <- sent, done <- exec, doubtful <- disturbed
LinkSpec == Link!Spec
=============================================================================
