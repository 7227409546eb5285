# Verification of the conveyor I/O control firmware

TLA+ models, TLC runs and TLAPS proofs for the firmware in
`src/EXP_IOT_CTRL_PROJECT/Project` (STM32F107, C). One station drives up to ten
conveyor belts through inverters on an RS485 bus, exchanges commands and status
with its neighbours over CAN and, if it is station 1 (the host), talks to a
server over UDP.

## 1. The system

### Scheduling
One main loop (`main.c` 193-219) and four interrupts. SysTick (1 ms), USART1 and
CAN1_RX0 share a preemption level, so they do not interrupt each other; the
Ethernet interrupt is below them; all of them interrupt the main loop. No code
masks interrupts. Everything that the main loop shares with an interrupt is
therefore open to every interleaving of its memory accesses.

### Components

| Component | State | Operations | Runs in |
|---|---|---|---|
| RS485 master (`modbus_rtu.c`, `stm32f10x_it.c`) | `comm_busy_flag`, `comm_node`, `uart1_commu_state`, `uart1_tmr`, receive buffer, bit 0 of each `fault_code` | take a command, wait its interval, transmit, receive, retry, give up | main loop; timers in SysTick; bytes in USART1 |
| Ring queues (`logic_ctrl.c`, `can_bus.c`, `fun.c`) | `front`, `rear`, slots | init, add, get, peek | all contexts |
| Input scan (`logic_ctrl.c` 141-480) | debounced state, middle state, confirm count, period count of ten inputs | one scan per millisecond, calls the handlers | SysTick |
| Belt control (`logic_ctrl.c` 483-834, `main.c` 292-388) | `g_speed_gear_status`, status of each belt, downstream status, lamp and run outputs, block counters, restart flag | start, stop, change speed, emergency stop, reset, linkage, light barrier stop, block check, restart after reset, periodic restart, polling | interrupts and main loop |
| CAN (`can_bus.c`, `main.c` 151-170) | transmit queue, transmit buffer, mailboxes, reassembly buffer and segment counters, `g_link_down_stream_status`, `modulestate_index` | segment, send, reassemble, dispatch, poll the stations | sending: main loop, SysTick, CAN1_RX0; receiving: CAN1_RX0; polling: main loop |
| Server link (`fun.c`, `udpclient.c`) | receive and send buffer, connection state, message queue, `user_paras_slave` | connect, check and execute messages, queue and send replies and status | main loop; the lwIP callback that fills the receive buffer in the Ethernet interrupt; messages queued by CAN1_RX0 and SysTick too |
| Parameters (`logic_ctrl.c` 836-880) | one flash page, `user_paras_local` | erase and write, read and check | start-up, main loop (host), CAN1_RX0 (slave) |

They interact through shared variables and the queues: the input scan, the CAN
handlers and the server commands call the belt control; the belt control puts
commands into the inverter queue; the RS485 master takes them out, writes the
status of the belt, and calls the linkage of the belt upstream when that status
changes. The host carries out a command of the server on itself and passes it on
to the slaves over CAN, asks one slave after the other for its status, and sends
what it learns to the server; the status on the bus is also what the station
upstream links its last belt to.

### What is hard
* two contexts changing one queue; a stop that empties the queue under a reader,
  or in the main loop, between an interrupt's commands;
* timers counted down by the tick between two assignments of the main loop;
* late, lost and corrupted answers on the bus, retries, and a foreign byte that
  makes the master go on while an answer is still to come;
* commands built from a state that an interrupt changes before they are queued;
* decisions taken from the last status read, which may be old;
* messages in segments that share one reassembly buffer, whoever sent them;
* one transmit buffer filled by the main loop and by interrupts, with a length
  that is set before it is used;
* a reset between erasing a page, writing it, reading it back and confirming it,
  and a flash that refuses to be erased or written without anybody looking;
* a receive buffer handed over by a state variable alone;
* what must happen in the end: a command ends, a stopped line stops, a released
  line runs again, an emergency stop is repeated, a neighbour's state is learned,
  a reply leaves.

`PROJECT.json` lists the hazards with their lines and the properties that cover
them, and says of the rest why they are not covered.

### What makes each component correct
* RS485 master: it never waits for an event that cannot come; one command at a
  time, at most `comm_retry` + 1 transmissions, the fault bit exactly when the
  last one failed, success only for what was carried out by an inverter that
  answers in time; every command ends.
* Queues: bounded FIFO; a slot handed out is stable until it is read.
* Input scan: an edge is confirmed after exactly its debounce time; a handler
  with a period is called again within it.
* Belt control: a stop is never overtaken by a start; a line told to stop stops;
  a line told to run, without faults, runs; lamp and outputs tell the truth; a
  belt does not deliver to one that stands.
* CAN: what is put together is one message as it was sent; parameters reach the
  station they are for, whole; all stations end up with the gear ordered last,
  unless their own emergency input stopped them; a station learns the state of
  the one downstream.
* Server link: each datagram is handled once; every reply leaves; what the server
  is told to be stored is stored.
* Parameters: the page holds one version, or was broken by an interrupted write or
  by the hardware; a station works with what is in its page.

## 2. The modules

* **`CommandLink`** – the promise of the RS485 link: `Accept`, `Send`, `Execute`,
  `Disturb`, `Succeed`, `GiveUp`.
* **`ModbusMaster`** – the engine. `pc` is the place of the main loop inside it;
  the statements that touch state shared with an interrupt are separate actions
  (`Take`, `Accept`, `SetReady`; `EndSend` and the three disjuncts of
  `ArmReceive`; `Retry` then `SetReady`). `Tick` is `uart_recv_timeout`, `RxByte`
  the USART1 interrupt. Inverters and wire are environment: a request may be
  lost, carried out with or without an answer. An inverter that is not in `Slow`
  has sent its whole answer `RECV_WAIT` ticks after it got the request, or never
  does; `due` counts these ticks down for each inverter, independently of the
  timer of the master, which a foreign byte sets to 5 ms. So the answer of an
  inverter that is on time can come into the wait for a later command, as in the
  code. Inverters in `Slow` answer at any time. A byte is station, function code
  and position, so that mixed, cut and corrupted frames are told apart; the CRC is
  taken to detect all of them. `slack` counts the ticks inside one window of
  statements, at most `MaxPreempt`. `disturbed` is history: the inverters for
  whose answer the master waited when it received anything else than that answer
  or its beginning, until a command is taken for them whose predecessor's time is
  over. `LinkSpec` is the refinement to `CommandLink`.
* **`BoundedFifo`**, **`RingQueue`** – the abstract queue, and the ring the four
  queues share. The low context (the main loop) takes one step per memory
  access, the high context (SysTick, CAN) runs an operation in one step.
  `LowAdds`, `LowClears` and `HighClears` select the use of each queue: all for the
  inverter queue of the host, whose main loop clears it for the server's stop
  (`fun.c` 110, `logic_ctrl.c` 522) in two stores, `LowClearFirst` and
  `LowClearSecond`, in the order the compiler likes; all but `LowClears` for that of a
  slave; `LowAdds` for the module status, CAN and message queues of the host; none
  for the CAN queue of a slave, to which only its CAN interrupt adds. `raced`
  records that the high context hit a window of the low one.
* **`InputScan`** – one input of any kind: reset, light barrier, start, stop,
  downstream release, emergency. `last`, `streak`, `quiet` and `calls` are
  history.
* **`BeltStation`** – one station: interrupt handlers (`SpeedCtrl`,
  `EmergencyEdge`, `EmergencyRepeat`, `ResetCtrl`, `StreamSignal`,
  `PhotoSignal`, `DownStreamStatus`, `FuncSelect`), link (`Take`, `Transmit`,
  `Acknowledged`, `StatusArrives`, `StatusStored`, `Retry`, `GiveUp`) and main-loop
  functions (`Poll`, `Upload...`, `ResetStart...`, `Block...`). With `Server` the
  station is the host: `SpeedBegin`, `SpeedAdd` and `SpeedEnd` are
  `Speed_Ctrl_Process` called by its main loop for the server, which clears the
  queue, adds one command after the other and sets the gear last, where
  `SpeedCtrl` is the same function in an interrupt, in one step. The server's
  reset (`fun.c` 114) and block flag (118) are the steps `ResetCtrl` and
  `FuncSelect` of the interrupts; of the first only the place of its commands among
  those of an interrupt could differ. The link is the one `CommandLink` promises
  without slow or doubtful inverters, the queue the one `BoundedFifo` promises. Functions that build a command and then queue it have
  a step for each; `mpc`, `idx` and `built` say where the main loop stands.
  Delays and periods are left to the interleaving. A gear other than 0 stands
  for one whose configured speed is not 0. `PhotoSignal` is the debounced
  barrier; the block check reads the pin itself, so that its value is free in
  `BlockCovered`/`BlockClear`.
* **`CanSegment`** – segmentation and reassembly as operators: `Segments` gives
  the frames of a message, `Receive` the reassembly after a frame, `Finished`
  says whether the frame completes a message. Lengths are in bytes as in the
  code; the contents are kept per frame: the bytes the code compares, the place
  the frame had in its message and whose data it carries. The buffer is never
  cleared: a message of one byte leaves the rest of the one before it behind.
* **`CanBus`** – a line of stations. `Load` is `can_send_frame_process`,
  `Transfer(s, L)` the end of a frame on the wire with everything its receivers
  do in the CAN interrupt, their answers included; the stations in `L` lose it.
  `stm32f107.c` 77 sets `CAN_TXFP`, so that a station sends its mailboxes in the
  order they were filled, and different stations are arbitrated by identifier.
  `BusError` repeats a frame. The host's commands take the steps of the code:
  carried out on the host (`ServerSet`), `can_send_len` set (`SetLength`),
  `can_send_buff` filled, of a parameter message with the length as byte 0
  (`FillBuffer`), `can_bus_send_msg` called with the length as it is then
  (`CallSend`), the first frame copied (`CopyFirst`), the frames queued one by one
  (`AddFrame`). `Button`, in SysTick, may come between any of them and uses the same
  buffer: `Overwritten` says what is then left of the message of the main loop.
  Buttons send the gears 0 and 2 only (`logic_ctrl.c` 353-390). `Emergency(r)` is
  `Speed_Ctrl_Process(EMERGENCY_STOP)` from the emergency input of a station, which
  sets its gear to 0 and sends nothing. History: `alone` says that no two segmented
  messages were on their way at once, and that no station left with an unfinished
  message lost the FIRST frame of the next; `uncut` that no button fell between
  `SetLength` and `FillBuffer` of a message about parameters; `clean` that every
  setting got through; `order` is what server or buttons ordered last, `halted` the
  stations their emergency input stopped since their last start command.
* **`ParamRegister`**, **`ParamStore`** – the page as a register that a write
  breaks and makes whole again, and `write_user_paras` and `read_user_paras` word
  by word with a `Reset` at any step. The hardware may refuse or time out
  (`EraseFails`, which may have reached the words of a set in `Partial`;
  `ProgramFails`, for the words in `Weak`); the code looks at neither result and goes
  on. `want`, `good`, `mixed` and `failed` are history: the version last programmed,
  how far, whether an erasure was cut short, and whether the hardware refused
  anything since the page was last erased.
* **`HostLink`** – the host between server and line, on top of `ParamStore`: the
  receive callback (`Datagram`, `Oversized`), `udp_client_process` (`NothingReceived`
  to `Reopen`, `Creating` to `NothingToSend`), `send_message_to_server` (`NoMessage`
  to `BuildReply`), the interrupts that queue messages, and `HostReset`. The line
  is reduced to requests on the bus that are answered or lost; `CanBus` has it in
  detail. lwIP is external: `udp_new`, `udp_connect` and `pbuf_alloc` may fail.
* **`ModbusMasterProofs`**, **`RingQueueProofs`**, **`InputScanProofs`**,
  **`BeltStationProofs`**, **`CanBusProofs`**, **`CanMessageProofs`**,
  **`ParamStoreProofs`**, **`HostLinkProofs`** – theorems.
* **`MCModbus`**, **`MCRingQueue`**, **`MCInputScan`**, **`MCBeltStation`**,
  **`MCCanBus`**, **`MCHostLink`** – instances.

Operators with a name like `SentGearAsQueued`, `NewTailOld` or `LoadDropping`
just before a definition are faulty variants of it. No specification uses them:
they are substituted to see that a property notices the fault.

## 3. The runs

| Run | Checks | Result |
|---|---|---|
| `modbus_engine` | `TypeOK`, `NoHang`, `OneTimer`, `TimerInv`, `AckMeansExecuted`, `LinkSpec`, `CommandEnds` | holds |
| `modbus_delay` | `DelayThenSend` with an interval of 1 ms | violated |
| `modbus_late_ack` | `WriteSucceeded` for slow inverters | violated |
| `ring_contexts` | `TypeOK`, `QueueIntact`, `SlotStable`, `RingInv`, `FifoUntilRace` | holds |
| `input_scan` | `TypeOK`, `CalledAgain`, `ScanInv`, `ExactDebounce` | holds |
| `belt_station` | `TypeOK`, `StopWins`, `AlarmShowsBlock`, `EmergencyWins` | holds |
| `belt_live` | `OutputsFollowStop`, `LineStops`, `LineRecovers` | holds |
| `belt_preempted` | `StopWins` with interrupts inside main-loop functions | violated |
| `belt_linkage` | `UpstreamStops` | violated |
| `can_bus` | `TypeOK`, `AssemblySound`, `ParasOwn`, `ReplyWhole`, `LineAgrees`, `NeighbourLearns` | holds |
| `can_mixed` | `ParasMine`, without any fault | violated |
| `host_link` | `TypeOK`, `FlashShape`, `RunsWhatIsStored`, `BufferEmptyWhenOpen`, `HandledOnce`, `AckedIsStored`, `RegisterSpec`, `RepliesEnd` | holds |

The violated ones are the findings of `PROJECT.json`:

1. A start or stop delay configured as 1 ms may run out between
   `modbus_rtu.c` 508 and 514. The engine then stays in `SEND_READY` without a
   timer: the station sends nothing any more, emergency stops included.
2. Answers are matched by station and function code. One that comes after the
   timeout acknowledges the next write to the same inverter.
3. A stop that interrupts a function between building and queueing a start is
   followed by that start: the gear is 0, the belt runs.
4. Linkage acts on changes of the status. A belt that starts and trips before
   its first status read leaves the belt upstream running.
5. Segments are joined whoever sent them. While the host writes the parameters
   of one station and asks another for its status, the numbers and the length
   can fit, and a station burns and confirms a mixture of both.

What the passing runs do not claim, because the code does not provide it:

* The queues are changed from interrupts and main loop without protection:
  `QueueIntact`, `SlotStable` and `FifoUntilRace` hold until an interrupt hits a
  window of the main loop (`raced`); after that an element can be lost or an old
  one come out again.
* `AckMeansExecuted` and `LinkSpec` except, besides `Slow` inverters, those in
  `disturbed`. One foreign byte in a wait makes the master go on 5 ms later; the
  inverter, still within its 50 ms, may answer into the wait for the retransmission
  or for the next command to it, and is believed. TLC shows this with one byte of
  noise and no slow inverter when the exception is dropped. A foreign byte in the
  wait of the command in hand itself, and one in the wait for another inverter, do no
  harm, which is what the property says.
* `StopWins` and `AlarmShowsBlock` of `belt_station` are for interrupts between,
  not inside, the functions of the main loop. Inside them finding 3 applies, and on
  the host one thing more: a start button pressed between the adds of a server's
  stop leaves its starts behind some of the stops, and the gear 0. TLC shows this
  for `Preempt` and `Server` both TRUE and a queue of 8. `EmergencyWins` holds there
  too, as long as the commands of interrupts have not filled the queue while the
  server's stop was being added (`overrun`).
* The acknowledgement of a protection reset sets the run output of its belt from
  the last speed write to any belt. `OutputsFollowStop` says that this does no
  lasting harm to a stopped line.
* `ParasOwn` and `ReplyWhole` are for segmented messages that do not overlap
  (`alone`); otherwise finding 5 applies. A length in the first frame tells
  parameters from status; only its low byte is compared, which does for messages
  of less than 256 bytes. They hold for any number of lost frames but one kind:
  the FIRST frame of a message, lost by a station that was left with one without
  its end. With the final segment of one message and the first of the next lost,
  two messages of the same length are joined; TLC shows this with two losses when
  that clause of `alone` is dropped.
* `ParasOwn` and `ReplyWhole` are also for messages that were not cut at the one
  place where that does harm (`uncut`). A button that falls between `can_send_len =`
  and its use in the next line (`can_bus.c` 271-272, 290-291) makes a message about
  parameters one byte long and that byte 1: it passes the test of the length
  (line 57), and the station it is addressed to runs what an earlier message left
  in its buffer as command and parameters. With two slaves of two belts each and
  without any fault TLC finds, when `uncut` is dropped: station 3 hears the status of
  station 2, whose third byte, the number of belts, is 2; the server writes the
  parameters of station 3 and a button falls into that window; station 3 takes the 2
  for the write command and burns the status as its parameters. At every other place
  of the main loop a button does no harm to parameters: that is checked and proved.
* `LineAgrees` is for settings that were neither lost nor dropped from a full
  queue nor crossed by a button pressed at a place of the main loop where the two
  commands reach host and slaves in different order, or where one takes the
  other's byte (`clean`, `Crossed`). Nothing repeats a setting. The emergency input
  stops its own station only and sends nothing: that station has gear 0 until the
  next start command (`halted`), the others go on with the gear ordered.
* `NeighbourLearns` is for slaves: the host is never polled and does not send its
  own status on the bus.
* `HandledOnce` excepts datagrams too long for the receive buffer, whose length
  is taken from a variable that was not set.
* `AckedIsStored` is for a server that waits for the answer to one parameter
  request before the next (`overlap`): there is one `user_paras_slave` for all.
* Where the flash refused to be erased or programmed (`failed`), the page may hold
  words of two versions: `FlashShape` is not claimed, `RegisterSpec` calls the page
  broken until the next erasure, and `AckedIsStored` says no more than that the
  server was told what the page holds, not that it holds what the server sent.

### Bounds
* `modbus_*`: the times 50, 5, 20 and 15 are scaled; in `modbus_engine` to 5, 2, 2
  and 2 ticks, all of them above `MaxPreempt` = 1. A wait cut short by noise, a retry
  interval and a second transmission fit into the 5 ticks an inverter has to
  answer, so that its answer does meet a later wait. Two inverters are needed for the
  answer of one to meet the wait for the other, answers of two bytes for a cut one.
  `MaxWire` = 2: one answer is on the wire at a time, or part of one with a byte of
  noise. The proofs hold for all values.
* `ring_contexts`: 4 slots and two values: the ring wraps, fills and empties within
  every window; again proved for all sizes.
* `input_scan`: times 5, 10, 2 and 20, periods 30 and 50 instead of 50, 100, 20,
  200, 300 and 2000. Proved for all times below 255.
* `belt_*`: two belts, so that each is once the last and once upstream; one gear;
  a queue of three, so that it does get full; three or four events from
  operators, neighbours and sensors, at most one trip. `MaxBacklog` = 1 lets the
  periodic functions run only while the queue is empty: their periods, 501 and
  800 ms, are long against the service of a command. `belt_station` has a lossy
  bus and no trips, `belt_live` trips and a reliable bus; the product of both
  does not fit a run. `belt_station` has commands of the server (`Server`), the others not. The
  safety properties are proved for all of this together, and for every number of
  belts, gears and events.
* `can_bus`: host and one slave, two events (commands, buttons, requests, changes
  of status, emergencies), two faults; parameters of three frames, status of two, a
  queue of four, so that it does get full. Two events are enough for a button inside
  a command, at each of its places, for an emergency before or after one and for a
  transfer during a change of status; a third, or a second slave, does not fit a
  run. `can_mixed`: two slaves, one event, no fault.
  The four safety properties besides `TypeOK`, and `TypeOK` itself, are proved for
  any number of all of these.
* `host_link`: one slave, one belt of one word besides the head of the page, two
  datagrams, one reset by power and any number by command, a message queue of
  two and one status, so that both get full. The second version of the
  parameters is out of range in one word, so that the checks do something. The
  replies copy as many belts as the parameters name; the model copies all
  words. The hardware fails once, in erasing, having reached no word or two, or in
  programming word 3. The proofs hold for all sizes and numbers.

### Fairness
`ModbusMaster`: weak fairness of the main loop's steps once a command is in
hand, of the tick and of the arrival of bytes on the wire; none of the
inverters. `BeltStation`: strong fairness of the link, polling and the periodic
restart, because each pass of the loop calls the link and the timers bring the
others round whatever runs in between (their guards are only disabled by other
functions that end, or by the bound `MaxBacklog`); weak fairness of functions
that have begun. None of operators, sensors, neighbours, trips. `CanBus`: weak
fairness of the bus, of each station's filling of its mailboxes and of the
host's main loop, strong fairness of polling, which its period brings round
again; faults are bounded, not fair. `HostLink`: weak fairness of the main loop
and of the line (a request is answered or lost), strong fairness of creating and
connecting, which are tried in every pass: a connection that is refused for ever
would keep replies for ever. None of the server.

`LineStops` and `LineRecovers` say what remains open: a stop the link has given
up on is not repeated by anybody, and recovery is only claimed while no fault is
shown and the last status from downstream is a release.

## 4. The proofs

Checked by TLAPS, for all values of the constants that satisfy the named
assumptions of each module.

* `ModbusMasterProofs`: `TypeCorrect`; `TimersSound`, `EngineAlive` and
  `TimersExclusive`: under `TimingOK`, which says that no timer can run out inside
  the window of statements in which it is set, `TimerInv`, and from it `NoHang` and
  `OneTimer`, hold. Neither of these two is inductive: inside a window the timer
  set first may be counted down before the state is set. `TimerInv` adds, for
  every place of the main loop, which timers run, and that timer plus ticks
  already spent in the window exceed what the window can still take.
  `modbus_delay` shows that `TimingOK` is needed.
  `AckIsHonest` (`AckMeansExecuted`) follows the bytes and the time of every
  inverter that is not slow: `TimeInv` says that one whose `RECV_WAIT` ticks are over
  has nothing left to send, `WaitInv` that while the master waits and has received
  nothing, the inverter's time ends no later than the wait. An expiry with an empty
  buffer is therefore the end of the answer too, and one after the beginning of the
  answer is no harm: only foreign bytes make the two clocks differ, and they put the
  inverter into `disturbed` until its time is over. For the others `Sound` says that
  the first byte of an answer is in one place only - to be sent, on the wire or in the
  buffer -, is being waited for and is of the command in hand, which was carried
  out. `EngineIsLink` is the refinement
  `LinkSpec`, one lemma for every kind of step; `CountInv` ties the number of
  transmissions to what is left of `comm_retry` at every place of the main loop.
* `RingQueueProofs`: `RingTypeCorrect`; `IntactUntilRace` (`QueueIntact`) and
  `SlotsStable` (`SlotStable`), from `RingSound` (`RingInv`), which places every
  element and says that what the low context has checked or loaded is still true;
  `NoRace`: a queue whose low context only takes, and that is never cleared, is
  never raced: the CAN queue of a slave is a FIFO for good. `RingIsFifo`
  (`FifoUntilRace`) is the refinement: until a race each step is one of
  `BoundedFifo` or none.
* `InputScanProofs`: `ScanTypeCorrect`, `NothingLeftOver` (`ScanInv`: the confirm
  counter is the number of equal samples in a row, or 0), and from it
  `HandlersRepeat` and `DebounceIsExact`.
* `BeltStationProofs`: `StationTypeCorrect`, with `WalkInv` (a walk over the belts
  stays on them; a status is only stored for a read). `StopIsFinal` (`StopWins`),
  `OutputsEndOff` (`OutputsFollowStop`) and `BlockIsShown` (`AlarmShowsBlock`) are
  for `~Preempt`, interrupts between but not inside the main-loop functions that
  walk over the belts; `belt_preempted` shows that they are not true otherwise.
  `StopWins` looks at belts that run and needs to know why nothing will start
  them: `GearInv` says that what is built is for the gear now set and that a
  stopped line has no start in its queue, `HeldInv` that the stops of a stopped
  line are still all queued behind a start that was already in hand, and that a
  stop that was answered was carried out. `OutputInv` adds that the flag with
  which an acknowledgement sets an output is still set only while no stop has
  been transmitted, and that an output that is on has its stop to come. `SpeedInv`
  says that inside a server's stop the queue holds the stops added so far and
  nothing else, so that at its end it holds them all.
  `LampFirst` says that the lamp is lit before the block is recorded.
  `EmergencyIsFinal` (`EmergencyWins`) holds wherever interrupts fall, because a
  transmission under emergency sends a stop whatever was queued; `EmergencyInv`
  adds the moment between the answer and its acknowledgement, and the stops that a
  command of the server is about to add.
* `CanBusProofs`: lemmas about `FrameCount`, `Segments`, `CopyTo`, `Receive` and
  `Enqueue` for all lengths, buffers and queues, among them that the frames of a
  message know their place and only the last is not full (`Wellformed`), and that
  receiving such a frame keeps the collected segments sound, whoever sent it.
  From these `CanTypeCorrect` and `SegmentsInPlace` (`AssemblySound`); the
  inductive invariant `BusInv` adds that all that waits is well-formed, that
  settings are single frames of the host, that what is prepared in
  `can_send_buff` is one of the four kinds of message or was cut to one byte by a
  button, and that the frame on the wire is in a mailbox. `SlavesFollowHost`
  (`LineAgrees`) needs to follow a setting on its way: `SettingInv` says that a station
  in `halted` has gear 0, that the host has what was ordered unless it is one of
  them, and that, as long as `clean`, the last message about a setting in the buffer,
  the queue or the mailboxes of the host carries what was ordered last, or, if there
  is none, all slaves not in `halted` have it.
* `CanMessageProofs`: `SlavesKeepTheirParas` (`ParasOwn`) and `RepliesAreWhole`
  (`ReplyWhole`). Both speak of the flash and of a reply, and say nothing of the
  frames and buffers these come from, so neither is inductive. `MessageInv` adds,
  as long as `alone` and `uncut`: the segments on their way, mailboxes before queue,
  are all of one message of one station, its FIRST frame before the others
  (`OneMessage`), and those the main loop has still to queue belong to it (`Adding`);
  once that frame is out, what the other stations have collected is of that
  message alone (`Collected`), but for a first part overwritten by a read
  request, whose command is then a read and never a write or a reply; every frame
  is one its sender may send (`Proper`): a slave speaks in its own name, sends its
  own parameters, and the number of the FINAL frame fixes the length; a parameter
  message cut to one byte by a button holds a gear, 0 or 2, where the length is
  tested, and is refused, which is where `uncut` is needed: cut before the length is
  copied it would hold 1; and the flash of each slave holds a set of its own
  (`InFlash`). The proof goes from the parts of a message to what a queue with
  segments refused when full still holds, to what one reception does to the
  buffer, and then action by action.
* `ParamStoreProofs`: `ShapeHolds`, `StoredIsUsed` and the refinement
  `StoreIsRegister`, from one inductive invariant that says for every step of
  `write_user_paras` and `read_user_paras` which words of the page are of the
  version being written and which are erased, and which words of the memory
  already agree with the page. `FlashShape` alone is not inductive: it says
  nothing of the loop variable.
* `HostLinkProofs`: `HostUsesStore` shows that every step of the host is a step of
  the store or leaves it alone, so that the three results carry over (`HostShape`,
  `HostWorksWithStored`, `HostRegister`); `BufferEmpty` and `CommandsOnce` follow
  from what each place of the main loop allows the connection state and the
  buffer to be; `ConfirmedIsStored` (`AckedIsStored`) needs, in addition, that
  with no overlap at most one reply exists in all of bus, queue and send buffer,
  and that it carries what is stored. `HostTypeCorrect` includes that no queue
  outgrows its array.

Each inductive invariant was checked with TLC, as an invariant of the component's
run, before it was proved.

Assumptions about constants that the proofs use, and where they come from: a
request of three bytes fits one CAN frame (`PACK` >= 3; it is 8); a table of
stations to poll that is not empty (`LastStation`; it is 30); the queue of inverter
commands has room for one command per belt (`QCAP` >= `N`), so that a stop, which
empties the queue first, is never dropped; the status words carry a bit in the
place where the linkage reads one (`Tags`); `Idle` is neither a station nor a
message.

Only model-checked: liveness under fairness (`CommandEnds`, `LineStops`,
`LineRecovers`, `NeighbourLearns`, `RepliesEnd`), which is beyond the prover. Every
invariant and every action property of a passing run, and every refinement, is
proved; the five violated properties are refuted by TLC.

## 5. Plan

Done: the RS485 master, the queues, the input scan, the belt control, the CAN bus,
the server link and the parameter page, in this order. Left, in the order of
their worth:

1. `BeltStation` with a status stored in the steps of the code, and the emergency
   input read twice by a transmission.
2. Times: the period of the repeated emergency stop against the time the link
   needs for silent inverters; the age of the downstream status; the age of the
   block counter.

## 6. Not modelled

* Board set-up (`stm32f107.c`): register writes without logic. What the models
  take from it are the interrupt priorities and the mailbox order.
* lwIP glue (`netconf.c`), station number and MAC address: run once at start, or
  thin calls into the vendored stack.
* LED and heartbeat; the CAN frame that enters the boot loader, which no station
  sends; the boot loader itself, which is not in the repository.
* `Libraries` and `Utilities`: the STM32 peripheral and Ethernet drivers, CMSIS,
  lwIP and other vendored code. They are more than nine tenths of the lines of
  the repository; the firmware's own code is the 4 300 lines or so of
  `Project/src` and `Project/inc`, and the models are of these.
* `B_RUN_STA_OUT` always mirrors the gear, `B_STREAM_OUT` the first belt's status
  bit; neither is a variable. The contents of status words beyond run bit and
  fault code are passed on unread.
* The byte stored behind a full receive buffer (`stm32f10x_it.c` 145) is outside
  the model.
