---------------------------- MODULE BeltStation ----------------------------
(***************************************************************************)
(* One control station: the operator's and the neighbours' commands, the   *)
(* queue of commands to the inverters, the RS485 link that carries them    *)
(* out, the status it reads back, and the automatic functions driven by    *)
(* that status: linkage with the neighbouring belts, light barriers, block *)
(* detection, restart after a reset, periodic restart of stopped belts.    *)
(*                                                                         *)
(* Speed_Ctrl_Process, Reset_Ctrl_Handle, the linkage handlers and the     *)
(* module status handler run in the SysTick and CAN interrupts; the link,  *)
(* the block check and the two restart functions run in the main loop, as  *)
(* does Speed_Ctrl_Process for a command of the server to the host.        *)
(* The link is that of CommandLink with no slow inverter; the queue is an  *)
(* intact ring of RingQueue.  Delays are left to the interleaving.         *)
(***************************************************************************)
EXTENDS Naturals, Sequences

CONSTANTS
    N,            \* Belt_Number; belt 1 is the first upstream
    Gears,        \* speed gears other than 0
    Switch,       \* Func_Select_Switch of each belt, as a set of functions
    DownStream,   \* 1 if a Down_Stream_No is configured
    QCAP,         \* commands the queue can hold: uartSendQueueSize - 1
    COMM_RETRY,   \* retries of a write
    BLOCK_TIME,   \* Block_Check_Time
    MaxBacklog,   \* bound: commands queued when a periodic function comes round
    Preempt,      \* interrupts may hit the restart and block-check functions
    Server,       \* the station is the host, and the server sends commands
    Lossy,        \* requests and answers on the bus may be lost
    MaxTrips,     \* bound: inverter trips
    MaxOps        \* bound: operator, neighbour and sensor events

Belts == 1..N

ASSUME StationAssumption ==
    /\ N \in Nat \ {0}
    /\ Gears \subseteq Nat \ {0} /\ Gears # {}
    /\ Switch \in [Belts -> SUBSET {"link", "block", "photo", "io"}]
    /\ DownStream \in {0, 1}
    /\ QCAP \in Nat /\ QCAP >= N
    /\ COMM_RETRY \in Nat /\ BLOCK_TIME \in Nat \ {0}
    /\ MaxBacklog \in Nat
    /\ Preempt \in BOOLEAN /\ Server \in BOOLEAN /\ Lossy \in BOOLEAN
    /\ MaxTrips \in Nat /\ MaxOps \in Nat

VARIABLES
    gear,       \* g_speed_gear_status
    queue,      \* uartSendQueue
    \* inverter_status_buffer[b].fault_code, bit by bit
    run, block, fault485, trip,
    lamp, out,               \* L_ALARM_OUT, B_RUN_x_OUT
    emergency, stream,       \* debounced inputs
    link_down,               \* g_link_down_stream_status
    block_disable,           \* g_block_disable_flag
    block_cnt,               \* block_check_time_cnt
    reset_timer, reset_flag, \* reset_start_time_cnt # 0, reset_start_flag
    polling,                 \* polling_num
    \* the link: phase, comm_node, retries left, g_speed_set_sta
    phase, cur, retry, set_sta,
    \* the main loop inside a function that walks over the belts
    mpc, idx, built,
    \* the inverters
    dev, dev_trip,
    \* history: the link gave up on a stop; a stop of the server found the
    \* queue full; trips and events so far
    abandoned, overrun, trips, ops

bits == <<run, block, fault485, trip>>
outs == <<lamp, out>>
inputs == <<emergency, stream, link_down, block_disable>>
timers == <<block_cnt, reset_timer, reset_flag, polling>>
link == <<phase, cur, retry, set_sta>>
walk == <<mpc, idx, built>>
devs == <<dev, dev_trip, trips>>
gaveup == <<abandoned, overrun>>
vars == <<gear, queue, bits, outs, inputs, timers, link, walk, devs, gaveup, ops>>

-----------------------------------------------------------------------------
Write(b, s) == [rw |-> 1, no |-> b, gear |-> s]
Read(b) == [rw |-> 0, no |-> b, gear |-> 0]
ResetCmd(b) == [rw |-> 2, no |-> b, gear |-> 0]

\* AddUartSendData2Queue for each command of cs in turn.
Min2(a, c) == IF a < c THEN a ELSE c
Enqueue(q, cs) == q \o SubSeq(cs, 1, Min2(Len(cs), QCAP - Len(q)))

\* get_inverter_fault_status
Faulty(b) == fault485[b] = 1 \/ block[b] = 1 \/ trip[b] = 1

Has(b, f) == f \in Switch[b]
SomeIo == \E b \in Belts : Has(b, "io")

\* May the last belt deliver?  (link_down_status)
DownAllowed ==
    IF DownStream = 1 THEN link_down ELSE IF SomeIo THEN stream ELSE 1

Zero == [b \in Belts |-> 0]

Init ==
    /\ gear = 0 /\ queue = <<>>
    /\ run = Zero /\ block = Zero /\ fault485 = Zero /\ trip = Zero
    /\ lamp = 0 /\ out = Zero
    /\ emergency = 0 /\ stream = 0 /\ link_down = 0
    /\ block_disable = 0
    /\ block_cnt = Zero /\ reset_timer = 0 /\ reset_flag = 0 /\ polling = 0
    /\ phase = "idle" /\ cur = Read(1) /\ retry = 0 /\ set_sta = 0
    /\ mpc = "loop" /\ idx = 0 /\ built = <<>>
    /\ dev = Zero /\ dev_trip = Zero /\ trips = 0
    /\ abandoned = Zero /\ overrun = 0 /\ ops = 0

-----------------------------------------------------------------------------
(* Interrupts.  An interrupt may come at any time, but with ~Preempt not   *)
(* inside a function that walks over the belts.                            *)

Interrupt ==
    /\ mpc = "loop" \/ Preempt
    /\ ops < MaxOps
    /\ ops' = ops + 1

StopsButLast == [i \in 1..(N - 1) |-> Write(i, 0)]
Stops == [i \in Belts |-> Write(i, 0)]
Starts(s) == [i \in Belts |-> Write(N + 1 - i, s)]
Changes(s) == [i \in Belts |-> Write(i, s)]

\* InitUartSendQueue and the stop commands.
StopAllKeepingQueue == Enqueue(queue, Stops)
StopAll == Enqueue(<<>>, Stops)

\* Speed_Ctrl_Process(s): the start and stop buttons, START_CMD frames.
SpeedCtrl(s) ==
    /\ Interrupt
    /\ queue' = IF s = 0 THEN StopAll
                ELSE IF gear = 0 THEN Enqueue(queue, Starts(s))
                ELSE Enqueue(queue, Changes(s))
    /\ gear' = s
    /\ UNCHANGED <<bits, outs, inputs, timers, link, walk, devs, gaveup>>

\* Speed_Ctrl_Process(s) called by the main loop of the host, for the server.
\* It empties the queue for a stop ...  (If an interrupt stops the line between
\* its two looks at the gear, it does nothing at all.)
SpeedBegin(s) ==
    /\ mpc = "loop" /\ Server
    /\ ops < MaxOps /\ ops' = ops + 1
    /\ queue' = IF s = 0 THEN <<>> ELSE queue
    /\ built' = IF s = 0 THEN Stops ELSE IF gear = 0 THEN Starts(s) ELSE Changes(s)
    /\ mpc' = "speed" /\ idx' = 1
    /\ UNCHANGED <<gear, bits, outs, inputs, timers, link, devs, gaveup>>

\* ... adds the commands one by one ...
SpeedAdd ==
    /\ mpc = "speed" /\ idx <= N
    /\ queue' = Enqueue(queue, <<built[idx]>>)
    /\ overrun' = IF Len(queue) = QCAP /\ built[idx].gear = 0 THEN 1 ELSE overrun
    /\ idx' = idx + 1
    /\ UNCHANGED <<gear, bits, outs, inputs, timers, link, mpc, built, devs,
                   abandoned, ops>>

\* ... and sets the gear.
SpeedEnd ==
    /\ mpc = "speed" /\ idx = N + 1
    /\ gear' = built[1].gear
    /\ mpc' = "loop" /\ idx' = 0 /\ built' = <<>>
    /\ UNCHANGED <<queue, bits, outs, inputs, timers, link, devs, gaveup, ops>>

\* The emergency stop, on both edges ...
EmergencyEdge ==
    /\ Interrupt
    /\ emergency' = 1 - emergency
    /\ queue' = StopAll
    /\ gear' = 0
    /\ UNCHANGED <<bits, outs, stream, link_down, block_disable, timers,
                   link, walk, devs, gaveup>>

\* ... and repeated while it is on.
EmergencyRepeat ==
    /\ Interrupt
    /\ emergency = 1
    /\ queue' = StopAll
    /\ gear' = 0
    /\ UNCHANGED <<bits, outs, inputs, timers, link, walk, devs, gaveup>>

\* s lists the belts with an inverter fault, in order.
Tripped(s) ==
    /\ {s[k] : k \in 1..Len(s)} = {b \in Belts : trip[b] = 1}
    /\ \A k \in 1..Len(s) : \A j \in 1..(k - 1) : s[j] < s[k]

BeltLists == UNION {[1..n -> Belts] : n \in 0..N}

BlocksKept == block
BlocksAfterReset == Zero

\* Reset_Ctrl_Handle: the reset button, RESET_CMD frames.
ResetCtrl ==
    /\ Interrupt
    /\ block' = BlocksAfterReset
    /\ \E s \in BeltLists :
          /\ Tripped(s)
          /\ queue' = Enqueue(queue, [k \in 1..Len(s) |-> ResetCmd(s[k])])
    /\ lamp' = 0
    /\ reset_timer' = 1
    /\ UNCHANGED <<gear, run, fault485, trip, out, inputs, block_cnt,
                   reset_flag, polling, link, walk, devs, gaveup>>

\* Time_Update: 500 ticks later.
ResetTimer ==
    /\ mpc = "loop" \/ Preempt
    /\ reset_timer = 1
    /\ reset_timer' = 0
    /\ reset_flag' = 1
    /\ UNCHANGED <<gear, queue, bits, outs, inputs, block_cnt, polling, link,
                   walk, devs, gaveup, ops>>

\* Linkage_Stream_Ctrl_Handle(b - 1, flag)
LinkageCmds(b, flag) ==
    IF ~Has(b, "link") THEN <<>>
    ELSE IF flag = 1
         THEN IF run[b] = 0 /\ ~Faulty(b) THEN <<Write(b, gear)>> ELSE <<>>
         ELSE IF ~Has(b, "photo") /\ run[b] = 1 THEN <<Write(b, 0)>> ELSE <<>>

\* Linkage_stream_extra_signal(N - 1, 1)
ExtraSignalCmds ==
    IF SomeIo /\ Has(N, "link") /\ run[N] = 0 /\ ~Faulty(N)
    THEN <<Write(N, gear)>> ELSE <<>>

\* The downstream release: an edge, or the repetition while it is on.
StreamSignal(level) ==
    /\ Interrupt
    /\ stream = 1 \/ level = 1
    /\ stream' = level
    /\ queue' = IF level = 1 THEN Enqueue(queue, ExtraSignalCmds) ELSE queue
    /\ UNCHANGED <<gear, bits, outs, emergency, link_down, block_disable,
                   timers, link, walk, devs, gaveup>>

\* Linkage_Stop_Photo_Ctrl_Handle(b - 1)
PhotoCmds(b) ==
    IF /\ Has(b, "photo") /\ Has(b, "link")
       /\ run[b] = 1
       /\ (IF b = N THEN DownAllowed ELSE run[b + 1]) = 0
    THEN <<Write(b, 0)>> ELSE <<>>

\* A light barrier: an edge, or the repetition while it is covered.  (The
\* block check reads the undebounced pin: see BlockCovered.)
PhotoSignal(b) ==
    /\ Interrupt
    /\ queue' = Enqueue(queue, PhotoCmds(b))
    /\ UNCHANGED <<gear, bits, outs, inputs, timers, link, walk, devs, gaveup>>

\* module_status_recv_process for the downstream station.
DownStreamStatus(level) ==
    /\ Interrupt
    /\ DownStream = 1
    /\ queue' = IF level # link_down THEN Enqueue(queue, LinkageCmds(N, level)) ELSE queue
    /\ link_down' = level
    /\ UNCHANGED <<gear, bits, outs, emergency, stream, block_disable,
                   timers, link, walk, devs, gaveup>>

\* FUNC_SELECT_CMD frames.
FuncSelect ==
    /\ Interrupt
    /\ block_disable' = 1 - block_disable
    /\ UNCHANGED <<gear, queue, bits, outs, emergency, stream, link_down,
                   timers, link, walk, devs, gaveup>>

-----------------------------------------------------------------------------
(* The link: Modbus_RTU_Comm_Process, one command in hand at a time.       *)

Take ==
    /\ mpc = "loop" /\ phase = "idle" /\ queue # <<>>
    /\ cur' = Head(queue)
    /\ queue' = Tail(queue)
    /\ retry' = IF Head(queue).rw = 0 THEN 0 ELSE COMM_RETRY
    /\ phase' = "ready"
    /\ UNCHANGED <<gear, bits, outs, inputs, timers, set_sta, walk,
                   devs, gaveup, ops>>

\* What an inverter does with a frame (external).
Running(b, s) == IF s > 0 /\ dev_trip[b] = 0 THEN 1 ELSE 0
DeviceExecutes(c, s) ==
    /\ dev' = IF c.rw = 1 THEN [dev EXCEPT ![c.no] = Running(c.no, s)] ELSE dev
    /\ dev_trip' = IF c.rw = 2 THEN [dev_trip EXCEPT ![c.no] = 0] ELSE dev_trip

\* The gear that is put into the frame: the emergency stop overrides.
SentGearAsQueued(c) == c.gear
SentGear(c) == IF emergency = 1 THEN 0 ELSE c.gear

\* g_speed_set_sta after the frame is built.
SpeedSetKept(c) == IF c.rw = 1 /\ SentGear(c) # 0 THEN 1 ELSE set_sta
SpeedSet(c) == IF c.rw # 1 THEN set_sta ELSE IF SentGear(c) = 0 THEN 0 ELSE 1

\* comm_send_rw_comand, and the fate of the frame and of the answer.
Transmit(fate) ==
    /\ mpc = "loop" /\ phase = "ready"
    /\ fate = "ok" \/ Lossy
    /\ set_sta' = SpeedSet(cur)
    /\ IF fate = "lost" THEN UNCHANGED <<dev, dev_trip>>
       ELSE DeviceExecutes(cur, SentGear(cur))
    /\ phase' = IF fate = "ok" THEN "answered" ELSE "silent"
    /\ UNCHANGED <<gear, queue, bits, outs, inputs, timers, cur, retry, walk,
                   trips, gaveup, ops>>

\* A write or a reset is acknowledged (comm_recv_rw_comand, rw_flag 1 and 2).
Acknowledged ==
    /\ mpc = "loop" /\ phase = "answered" /\ cur.rw # 0
    /\ out' = [out EXCEPT ![cur.no] = set_sta]
    /\ fault485' = [fault485 EXCEPT ![cur.no] = 0]
    /\ phase' = "idle"
    /\ abandoned' = IF cur.rw = 1 THEN [abandoned EXCEPT ![cur.no] = 0] ELSE abandoned
    /\ UNCHANGED <<gear, queue, run, block, trip, lamp, inputs, timers,
                   cur, retry, set_sta, walk, devs, overrun, ops>>

\* A status arrives: the linkage command for the belt upstream is built ...
\* The status is the inverter's at this moment: a trip after the answer left
\* it is the same as one after its arrival.
StatusArrives ==
    /\ mpc = "loop" /\ phase = "answered" /\ cur.rw = 0
    /\ mpc' = "status"
    /\ built' = IF cur.no > 1 /\ run[cur.no] # dev[cur.no]
                THEN LinkageCmds(cur.no - 1, dev[cur.no]) ELSE <<>>
    /\ UNCHANGED <<gear, queue, bits, outs, inputs, timers, link, idx, devs,
                   gaveup, ops>>

\* ... and added, and the status is stored; the block bit is kept.
StatusStored ==
    /\ mpc = "status"
    /\ queue' = Enqueue(queue, built)
    /\ run' = [run EXCEPT ![cur.no] = dev[cur.no]]
    /\ trip' = [trip EXCEPT ![cur.no] = dev_trip[cur.no]]
    /\ fault485' = [fault485 EXCEPT ![cur.no] = 0]
    /\ phase' = "idle"
    /\ mpc' = "loop" /\ built' = <<>>
    /\ UNCHANGED <<gear, block, outs, inputs, timers, cur, retry, set_sta, idx,
                   devs, gaveup, ops>>

\* No valid answer: again, or the communication fault.
Retry ==
    /\ mpc = "loop" /\ phase = "silent" /\ retry > 0
    /\ retry' = retry - 1
    /\ phase' = "ready"
    /\ UNCHANGED <<gear, queue, bits, outs, inputs, timers, cur, set_sta,
                   walk, devs, gaveup, ops>>

GiveUp ==
    /\ mpc = "loop" /\ phase = "silent" /\ retry = 0
    /\ fault485' = [fault485 EXCEPT ![cur.no] = 1]
    /\ phase' = "idle"
    /\ abandoned' = IF cur.rw = 1 /\ cur.gear = 0
                    THEN [abandoned EXCEPT ![cur.no] = 1] ELSE abandoned
    /\ UNCHANGED <<gear, queue, run, block, trip, outs, inputs, timers, cur,
                   retry, set_sta, walk, devs, overrun, ops>>

-----------------------------------------------------------------------------
(* The periodic functions of the main loop.  Each builds a command from    *)
(* the state it reads, then adds it; interrupts may fall between the two.  *)

NextPolledLate(p) == IF p > N THEN 1 ELSE p + 1
NextPolled(p) == IF p + 1 > N THEN 1 ELSE p + 1

\* main_msone_process: the status of the next belt is asked for.
Poll ==
    /\ mpc = "loop" /\ Len(queue) < MaxBacklog
    /\ polling' = NextPolled(polling)
    /\ queue' = Enqueue(queue, <<Read(polling')>>)
    /\ UNCHANGED <<gear, bits, outs, inputs, block_cnt, reset_timer, reset_flag,
                   link, walk, devs, gaveup, ops>>

BackToLoop == mpc' = "loop" /\ idx' = 0 /\ built' = <<>>

RestartLastOnly(b) ==
    IF b = N /\ Has(N, "link") /\ DownAllowed = 1 /\ run[b] = 0 /\ ~Faulty(b)
    THEN <<Write(b, gear)>> ELSE <<>>

\* main_upload_run_state: the start it gives belt b, if any.
RestartCmds(b) ==
    IF /\ IF b = N THEN Has(N, "link") /\ DownAllowed = 1 ELSE run[b + 1] = 1
       /\ run[b] = 0 /\ ~Faulty(b)
    THEN <<Write(b, gear)>> ELSE <<>>

UploadBegin ==
    /\ mpc = "loop" /\ gear # 0 /\ Len(queue) < MaxBacklog
    /\ mpc' = "upload" /\ idx' = N /\ built' = RestartCmds(N)
    /\ UNCHANGED <<gear, queue, bits, outs, inputs, timers, link, devs, gaveup, ops>>

\* The gear is looked at again only before the belts upstream of the last.
UploadNext ==
    /\ mpc = "upload"
    /\ queue' = Enqueue(queue, built)
    /\ IF idx = 1 \/ (idx = N /\ gear = 0) THEN BackToLoop
       ELSE mpc' = "upload" /\ idx' = idx - 1 /\ built' = RestartCmds(idx - 1)
    /\ UNCHANGED <<gear, bits, outs, inputs, timers, link, devs, gaveup, ops>>

\* Reset_Start_Inverter_Handle: every stopped belt, its faults not looked at.
ResetStartCmds(b) == IF run[b] = 0 THEN <<Write(b, gear)>> ELSE <<>>

ResetStartBegin ==
    /\ mpc = "loop" /\ gear # 0 /\ reset_flag = 1
    /\ reset_flag' = 0
    /\ IF stream = 0 THEN mpc' = "restart" /\ idx' = N /\ built' = ResetStartCmds(N)
       ELSE UNCHANGED walk
    /\ UNCHANGED <<gear, queue, bits, outs, inputs, block_cnt, reset_timer,
                   polling, link, devs, gaveup, ops>>

ResetStartNext ==
    /\ mpc = "restart"
    /\ queue' = Enqueue(queue, built)
    /\ IF idx = 1 THEN BackToLoop
       ELSE mpc' = "restart" /\ idx' = idx - 1 /\ built' = ResetStartCmds(idx - 1)
    /\ UNCHANGED <<gear, bits, outs, inputs, timers, link, devs, gaveup, ops>>

\* Block_Check_Ctrl_Handle, once a second.
BlockBegin ==
    /\ mpc = "loop" /\ block_disable # 1
    /\ \E b \in Belts : Has(b, "block") /\ run[b] = 1
    /\ mpc' = "block" /\ idx' = 1
    /\ UNCHANGED <<gear, queue, bits, outs, inputs, timers, link, built, devs,
                   gaveup, ops>>

NextBelt ==
    IF idx = N THEN BackToLoop
    ELSE mpc' = "block" /\ idx' = idx + 1 /\ UNCHANGED built

Checked(b) == Has(b, "block") /\ run[b] = 1

\* A belt that is not checked, or whose barrier is clear.
BlockClear ==
    /\ mpc = "block"
    /\ block_cnt' = IF Checked(idx) THEN [block_cnt EXCEPT ![idx] = 0] ELSE block_cnt
    /\ NextBelt
    /\ UNCHANGED <<gear, queue, bits, outs, inputs, reset_timer, reset_flag,
                   polling, link, devs, gaveup, ops>>

\* The barrier is covered.
BlockCovered ==
    /\ mpc = "block" /\ Checked(idx)
    /\ ops < MaxOps /\ ops' = ops + 1
    /\ IF block_cnt[idx] + 1 >= BLOCK_TIME
       THEN /\ block_cnt' = [block_cnt EXCEPT ![idx] = 0]
            /\ queue' = Enqueue(queue, <<Write(idx, 0)>>)
            /\ lamp' = 1
            /\ mpc' = "blocked" /\ UNCHANGED <<idx, built>>
       ELSE /\ block_cnt' = [block_cnt EXCEPT ![idx] = @ + 1]
            /\ UNCHANGED <<queue, lamp>>
            /\ NextBelt
    /\ UNCHANGED <<gear, bits, out, inputs, reset_timer, reset_flag,
                   polling, link, devs, gaveup>>

\* The block bit is set after the lamp.
BlockBit ==
    /\ mpc = "blocked"
    /\ block' = [block EXCEPT ![idx] = 1]
    /\ NextBelt
    /\ UNCHANGED <<gear, queue, run, fault485, trip, outs, inputs, timers, link,
                   devs, gaveup, ops>>

\* An inverter trips (external).  The station sees it only by reading the
\* status, so that a trip inside one of its functions may be taken as later.
Trip(b) ==
    /\ mpc = "loop" /\ trips < MaxTrips /\ dev[b] = 1
    /\ trips' = trips + 1
    /\ dev_trip' = [dev_trip EXCEPT ![b] = 1]
    /\ dev' = [dev EXCEPT ![b] = 0]
    /\ UNCHANGED <<gear, queue, bits, outs, inputs, timers, link, walk, gaveup, ops>>

-----------------------------------------------------------------------------
Interrupts ==
    \/ \E s \in {0} \union Gears : SpeedCtrl(s)
    \/ EmergencyEdge \/ EmergencyRepeat \/ ResetCtrl \/ FuncSelect
    \/ \E level \in {0, 1} : StreamSignal(level) \/ DownStreamStatus(level)
    \/ \E b \in Belts : PhotoSignal(b)

Link ==
    \/ Take \/ Acknowledged \/ StatusArrives \/ StatusStored \/ Retry \/ GiveUp
    \/ \E fate \in {"ok", "lost", "unanswered"} : Transmit(fate)

Periodic ==
    \/ ResetTimer \/ Poll \/ UploadBegin \/ UploadNext
    \/ ResetStartBegin \/ ResetStartNext
    \/ BlockBegin \/ BlockClear \/ BlockCovered \/ BlockBit

Commanded == SpeedAdd \/ SpeedEnd \/ \E s \in {0} \union Gears : SpeedBegin(s)

Next == Interrupts \/ Commanded \/ Link \/ Periodic \/ \E b \in Belts : Trip(b)

Spec == Init /\ [][Next]_vars

(* The main loop never stops: every pass calls the link, and the periodic  *)
(* functions come round again whatever the others do in between.           *)
FairSpec ==
    /\ Spec
    /\ SF_vars(Link) /\ SF_vars(Poll) /\ SF_vars(UploadBegin)
    /\ WF_vars(UploadNext) /\ WF_vars(ResetStartNext)
    /\ WF_vars(BlockClear \/ BlockBit) /\ WF_vars(SpeedAdd \/ SpeedEnd)

-----------------------------------------------------------------------------
Commands ==
    [rw : {0, 2}, no : Belts, gear : {0}] \union
    [rw : {1}, no : Belts, gear : {0} \union Gears]

(* The variables have their types; no command for a belt that does not     *)
(* exist is ever built, queued or in hand, and the queue never overflows.  *)
TypeOK ==
    /\ gear \in {0} \union Gears
    /\ queue \in Seq(Commands) /\ Len(queue) <= QCAP
    /\ built \in Seq(Commands) /\ Len(built) <= N
    /\ {run, block, fault485, trip, out, dev, dev_trip, abandoned}
           \subseteq [Belts -> {0, 1}]
    /\ {lamp, emergency, stream, link_down, block_disable, reset_timer,
        reset_flag, set_sta, overrun} \subseteq {0, 1}
    /\ block_cnt \in [Belts -> 0..(BLOCK_TIME - 1)]
    /\ polling \in 0..N /\ idx \in 0..(N + 1)
    /\ phase \in {"idle", "ready", "answered", "silent"}
    /\ cur \in Commands /\ retry \in 0..COMM_RETRY
    /\ mpc \in {"loop", "speed", "status", "upload", "restart", "block", "blocked"}
    /\ trips \in 0..MaxTrips /\ ops \in 0..MaxOps

\* A stop for belt b is queued or in hand, still to be executed.
StopQueued(b) == \E i \in 1..Len(queue) : queue[i] = Write(b, 0)
InHand(b, starts) ==
    /\ phase \in {"ready", "silent"} /\ cur.rw = 1 /\ cur.no = b
    /\ starts <=> cur.gear # 0

(* Once the line is commanded to stop, every belt that still runs has its  *)
(* stop on the way, whatever linkage, barriers, resets and restarts do in  *)
(* between, unless the link has given up on that very stop                 *)
(* (Speed_Ctrl_Process, logic_ctrl.c 520-534, against its producers).      *)
(* While the main loop itself is inside that function nothing is sent.     *)
StopWins ==
    gear = 0 /\ mpc # "speed" => \A b \in Belts :
        dev[b] = 1 => StopQueued(b) \/ InHand(b, FALSE) \/ abandoned[b] = 1

(* The lamp is lit as long as a belt is blocked (logic_ctrl.c, lines       *)
(* 769-770 and 787-803).                                                   *)
AlarmShowsBlock == mpc # "blocked" /\ lamp = 0 => block = Zero

(* While the emergency stop is on, every belt that still runs has a write  *)
(* on the way, and each write is sent as a stop: not even a start pressed  *)
(* meanwhile, a linkage or a retry sets a belt in motion                   *)
(* (comm_send_rw_comand, modbus_rtu.c 199-340, logic_ctrl.c 451-479). Not  *)
(* claimed once the commands of interrupts filled the queue under a stop   *)
(* of the server.                                                          *)
WriteQueued(b) == \E i \in 1..Len(queue) : queue[i].rw = 1 /\ queue[i].no = b
EmergencyWins ==
    emergency = 1 /\ mpc # "speed" /\ overrun = 0 => \A b \in Belts :
        dev[b] = 1 => WriteQueued(b) \/ InHand(b, TRUE) \/ InHand(b, FALSE)
                        \/ abandoned[b] = 1

(* Once a stopped line has nothing left to send, no run output is on,      *)
(* although one flag, set by the last write to any belt, drives them all   *)
(* and is also copied to an output when a reset is acknowledged            *)
(* (g_speed_set_sta, modbus_rtu.c 345-371 and 439-475).                    *)
OutputsFollowStop ==
    gear = 0 /\ queue = <<>> /\ phase = "idle" /\ mpc = "loop" =>
        \A b \in Belts : out[b] = 1 => abandoned[b] = 1

(* A line commanded to stop stops, except for belts whose stop the link    *)
(* has given up (logic_ctrl.c 520-534, modbus_rtu.c 499-545).              *)
LineStops ==
    gear = 0 ~> (gear # 0 \/ \A b \in Belts : dev[b] = 0 \/ abandoned[b] = 1)

Healthy(b) ==
    dev_trip[b] = 0 /\ trip[b] = 0 /\ block[b] = 0 /\ fault485[b] = 0

(* A line that stays commanded to run, released downstream and without     *)
(* faults, gets all its belts running and keeps them so (main_upload_run_  *)
(* state, main.c 292-361).                                                 *)
LineRecovers ==
    <>[](gear # 0 /\ emergency = 0 /\ DownAllowed = 1 /\ \A b \in Belts : Healthy(b))
        => <>[](\A b \in Belts : dev[b] = 1)

(* A linked belt without accumulation does not go on delivering to a belt  *)
(* that stands: the linkage of modbus_rtu.c 408-421.                       *)
UpstreamStops ==
    \A b \in 1..(N - 1) :
        Has(b, "link") /\ ~Has(b, "photo") =>
            (dev[b] = 1 /\ dev[b + 1] = 0) ~> ~(dev[b] = 1 /\ dev[b + 1] = 0)
=============================================================================
