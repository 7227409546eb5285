------------------------- MODULE BeltStationProofs -------------------------
(***************************************************************************)
(* Proofs about BeltStation, for every number of belts, choice of          *)
(* functions, size of the queue and number of retries.                     *)
(***************************************************************************)
EXTENDS BeltStation, TLAPS

\* The commands the station builds are commands.
LEMMA CommandsBuilt ==
    ASSUME NEW b \in Belts, NEW s \in {0} \union Gears
    PROVE  Write(b, s) \in Commands /\ Read(b) \in Commands /\ ResetCmd(b) \in Commands
  BY DEF Write, Read, ResetCmd, Commands

LEMMA CommandFields ==
    ASSUME NEW c \in Commands
    PROVE  c.rw \in {0, 1, 2} /\ c.no \in Belts /\ c.gear \in {0} \union Gears
  BY DEF Commands

\* What Enqueue adds comes after what is there, and is taken from the list given.
LEMMA EnqueueFacts ==
    ASSUME NEW q \in Seq(Commands), Len(q) <= QCAP, NEW cs \in Seq(Commands)
    PROVE  /\ Enqueue(q, cs) \in Seq(Commands)
           /\ Len(q) <= Len(Enqueue(q, cs)) /\ Len(Enqueue(q, cs)) <= QCAP
           /\ \A i \in 1..Len(q) : Enqueue(q, cs)[i] = q[i]
           /\ \A i \in 1..Len(Enqueue(q, cs)) :
                 i > Len(q) => \E k \in 1..Len(cs) : Enqueue(q, cs)[i] = cs[k]
<1>. DEFINE m == Min2(Len(cs), QCAP - Len(q))
            t == SubSeq(cs, 1, m)
<1>1. m \in Nat /\ m <= Len(cs) /\ m + Len(q) <= QCAP
  BY StationAssumption DEF Min2
<1>2. /\ t \in Seq(Commands) /\ Len(t) = m
      /\ \A k \in 1..m : t[k] = cs[k]
  BY <1>1
<1>. HIDE DEF m, t
<1>3. /\ q \o t \in Seq(Commands) /\ Len(q \o t) = Len(q) + m
      /\ \A i \in 1..Len(q) : (q \o t)[i] = q[i]
      /\ \A i \in 1..(Len(q) + m) : i > Len(q) => (q \o t)[i] = t[i - Len(q)]
  <2>1. Len(q) \in Nat /\ Len(t) = m
    BY <1>2
  <2>2. q \o t \in Seq(Commands) /\ Len(q \o t) = Len(q) + m
    <3>1. q \in Seq(Commands) /\ t \in Seq(Commands)
      BY <1>2
    <3>2. q \o t \in Seq(Commands)
      BY ONLY <3>1
    <3>3. Len(q \o t) = Len(q) + Len(t)
      BY ONLY <3>1
    <3>. QED  BY ONLY <2>1, <3>2, <3>3
  <2>3. \A i \in 1..Len(q) : (q \o t)[i] = q[i]
    BY ONLY q \in Seq(Commands), <1>2
  <2>4. \A i \in 1..(Len(q) + m) : i > Len(q) => (q \o t)[i] = t[i - Len(q)]
    BY ONLY q \in Seq(Commands), <1>1, <1>2, <2>1
  <2>. QED  BY ONLY <2>2, <2>3, <2>4
<1>4. \A i \in 1..(Len(q) + m) : i > Len(q) => i - Len(q) \in 1..m
  BY <1>1
<1>5. Enqueue(q, cs) = q \o t
  BY DEF Enqueue, m, t
<1>6. ASSUME NEW i \in 1..Len(q \o t), i > Len(q)
      PROVE  \E k \in 1..Len(cs) : (q \o t)[i] = cs[k]
  <2>1. i - Len(q) \in 1..m /\ (q \o t)[i] = t[i - Len(q)]
    BY <1>3, <1>4, <1>6
  <2>2. i - Len(q) \in 1..Len(cs) /\ (q \o t)[i] = cs[i - Len(q)]
    BY <1>1, <1>2, <2>1
  <2>. QED  BY <2>2
<1>7. Len(q) <= Len(q \o t) /\ Len(q \o t) <= QCAP
  BY <1>1, <1>3, StationAssumption
<1>. QED  BY ONLY <1>3, <1>5, <1>6, <1>7

\* The lists of commands the station builds.
LEMMA ListsBuilt ==
    ASSUME NEW s \in {0} \union Gears
    PROVE  Stops \in Seq(Commands) /\ Starts(s) \in Seq(Commands) /\ Changes(s) \in Seq(Commands)
<1>1. \A i \in Belts : N + 1 - i \in Belts
  BY StationAssumption DEF Belts
<1>2. \A i \in Belts : /\ Write(i, 0) \in Commands /\ Write(i, s) \in Commands
                       /\ Write(N + 1 - i, s) \in Commands
  BY <1>1, CommandsBuilt
<1>. QED  BY <1>2, StationAssumption DEF Stops, Starts, Changes, Belts

LEMMA ResetList ==
    ASSUME NEW s \in BeltLists
    PROVE  /\ [k \in 1..Len(s) |-> ResetCmd(s[k])] \in Seq(Commands)
           /\ \A k \in 1..Len(s) : ResetCmd(s[k]).gear = 0
<1>1. PICK n \in 0..N : s \in [1..n -> Belts]
  BY DEF BeltLists
<1>2. s \in Seq(Belts) /\ Len(s) = n /\ n \in Nat
  BY <1>1, StationAssumption
<1>3. \A k \in 1..Len(s) : ResetCmd(s[k]) \in Commands
  BY <1>2, CommandsBuilt
<1>4. \A k \in 1..Len(s) : ResetCmd(s[k]).gear = 0
  BY DEF ResetCmd
<1>. QED  BY <1>2, <1>3, <1>4

\* All belts are being stopped, or all are given a gear.
Stopping == \A b \in Belts : built[b] = Write(b, 0)

\* Inductive with TypeOK: a walk over the belts stays on them, a status is
\* stored for the read in hand, and a command of the server is one for all belts.
WalkInv ==
    /\ mpc = "speed" =>
        /\ idx \in 1..(N + 1) /\ Len(built) = N
        /\ Stopping \/ (built[1].gear # 0)
    /\ mpc \in {"upload", "restart", "block", "blocked"} => idx \in Belts
    /\ mpc = "status" => phase = "answered" /\ cur.rw = 0

\* At most one command, a stop or one for the gear set.
Short(cs) ==
    /\ cs \in Seq(Commands) /\ Len(cs) <= 1
    /\ \A i \in 1..Len(cs) : cs[i].gear \in {0, gear}

\* The commands of the automatic functions.
LEMMA ShortLists ==
    ASSUME TypeOK, NEW b \in Belts, NEW flag
    PROVE  /\ Short(LinkageCmds(b, flag)) /\ Short(ExtraSignalCmds) /\ Short(PhotoCmds(b))
           /\ Short(RestartCmds(b)) /\ Short(ResetStartCmds(b))
           /\ Short(<<Read(b)>>) /\ Short(<<Write(b, 0)>>) /\ Short(<<>>)
<1>1. gear \in {0} \union Gears /\ N \in Belts
  BY StationAssumption DEF TypeOK, Belts
<1>2. ASSUME NEW c \in Commands, c.gear \in {0, gear}
      PROVE  Short(<<c>>)
  BY <1>2 DEF Short
<1>3. Short(<<>>)
  BY DEF Short
<1>4. ASSUME NEW d \in Belts
      PROVE  /\ Short(<<Write(d, gear)>>) /\ Short(<<Write(d, 0)>>) /\ Short(<<Read(d)>>)
  <2>1. /\ Write(d, gear) \in Commands /\ Write(d, 0) \in Commands /\ Read(d) \in Commands
    BY <1>1, CommandsBuilt
  <2>2. Write(d, gear).gear = gear /\ Write(d, 0).gear = 0 /\ Read(d).gear = 0
    BY DEF Write, Read
  <2>. QED  BY <1>2, <2>1, <2>2
<1>. QED  BY <1>1, <1>3, <1>4 DEF LinkageCmds, ExtraSignalCmds, PhotoCmds, RestartCmds, ResetStartCmds

\* Adding a list to the queue keeps its type.
LEMMA QueueAdds ==
    ASSUME TypeOK, NEW cs \in Seq(Commands)
    PROVE  Enqueue(queue, cs) \in Seq(Commands) /\ Len(Enqueue(queue, cs)) <= QCAP
  BY EnqueueFacts DEF TypeOK

LEMMA StopAllType == StopAll \in Seq(Commands) /\ Len(StopAll) <= QCAP
<1>1. <<>> \in Seq(Commands) /\ Len(<<>>) <= QCAP
  BY StationAssumption
<1>. QED  BY <1>1, ListsBuilt, EnqueueFacts DEF StopAll

\* An interrupt keeps the types.
LEMMA InterruptTypes ==
    ASSUME TypeOK, WalkInv, Interrupts
    PROVE  TypeOK' /\ WalkInv'
<1>. USE DEF Interrupt, bits, outs, inputs, timers, link, walk, devs, gaveup
<1>0. ops < MaxOps /\ ops' = ops + 1 => ops' \in 0..MaxOps
  BY StationAssumption DEF TypeOK
<1>1. ASSUME NEW s \in {0} \union Gears, SpeedCtrl(s)
      PROVE  TypeOK' /\ WalkInv'
  <2>1. queue' \in Seq(Commands) /\ Len(queue') <= QCAP
    BY <1>1, ListsBuilt, QueueAdds, StopAllType DEF SpeedCtrl
  <2>. QED  BY <1>0, <1>1, <2>1 DEF SpeedCtrl, TypeOK, WalkInv, Stopping, Write
<1>2. CASE EmergencyEdge \/ EmergencyRepeat
  <2>1. emergency' \in {0, 1} /\ gear' = 0
    BY <1>2 DEF EmergencyEdge, EmergencyRepeat, TypeOK
  <2>. QED
    BY <1>0, <1>2, <2>1, StopAllType
         DEF EmergencyEdge, EmergencyRepeat, TypeOK, WalkInv, Stopping, Write
<1>3. CASE ResetCtrl
  <2>1. PICK s \in BeltLists : queue' = Enqueue(queue, [k \in 1..Len(s) |-> ResetCmd(s[k])])
    BY <1>3 DEF ResetCtrl
  <2>2. [k \in 1..Len(s) |-> ResetCmd(s[k])] \in Seq(Commands)
    BY ResetList
  <2>3. queue' \in Seq(Commands) /\ Len(queue') <= QCAP
    BY <2>1, <2>2, QueueAdds
  <2>4. block' \in [Belts -> {0, 1}]
    BY <1>3 DEF ResetCtrl, BlocksAfterReset, Zero
  <2>. QED  BY <1>0, <1>3, <2>3, <2>4 DEF ResetCtrl, TypeOK, WalkInv, Stopping, Write
<1>4. CASE FuncSelect
  BY <1>0, <1>4 DEF FuncSelect, TypeOK, WalkInv, Stopping, Write
<1>5. ASSUME NEW level \in {0, 1}, StreamSignal(level) \/ DownStreamStatus(level)
      PROVE  TypeOK' /\ WalkInv'
  <2>1. queue' \in Seq(Commands) /\ Len(queue') <= QCAP
    <3>1. N \in Belts
      BY StationAssumption DEF Belts
    <3>2. ExtraSignalCmds \in Seq(Commands) /\ LinkageCmds(N, level) \in Seq(Commands)
      BY <3>1, ShortLists DEF Short
    <3>. QED  BY <1>5, <3>2, QueueAdds DEF StreamSignal, DownStreamStatus, TypeOK
  <2>. QED  BY <1>0, <1>5, <2>1 DEF StreamSignal, DownStreamStatus, TypeOK, WalkInv, Stopping, Write
<1>6. ASSUME NEW b \in Belts, PhotoSignal(b)
      PROVE  TypeOK' /\ WalkInv'
  <2>1. queue' \in Seq(Commands) /\ Len(queue') <= QCAP
    BY <1>6, ShortLists, QueueAdds DEF PhotoSignal, Short
  <2>. QED  BY <1>0, <1>6, <2>1 DEF PhotoSignal, TypeOK, WalkInv, Stopping, Write
<1>. QED  BY <1>1, <1>2, <1>3, <1>4, <1>5, <1>6 DEF Interrupts

\* What Speed_Ctrl_Process adds for a stop, a start and a change of gear.
LEMMA SpeedLists ==
    ASSUME NEW s \in {0} \union Gears
    PROVE  /\ Len(Stops) = N /\ \A b \in Belts : Stops[b] = Write(b, 0)
           /\ Len(Starts(s)) = N /\ Starts(s)[1].gear = s
           /\ Len(Changes(s)) = N /\ Changes(s)[1].gear = s
<1>1. N \in Nat /\ 1 \in Belts
  BY StationAssumption DEF Belts
<1>. QED  BY <1>1 DEF Stops, Starts, Changes, Belts, Write

\* A command of the server keeps the types.
LEMMA CommandedTypes ==
    ASSUME TypeOK, WalkInv, Commanded
    PROVE  TypeOK' /\ WalkInv'
<1>. USE DEF bits, outs, inputs, timers, link, walk, devs, gaveup
<1>0. N \in Nat /\ 1 \in Belts /\ 1 \in 0..(N + 1) /\ 0 \in 0..(N + 1) /\ 1 \in 1..(N + 1)
  BY StationAssumption DEF Belts
<1>1. ASSUME NEW s \in {0} \union Gears, SpeedBegin(s)
      PROVE  TypeOK' /\ WalkInv'
  <2>1. ops' \in 0..MaxOps
    BY <1>1, StationAssumption DEF SpeedBegin, TypeOK
  <2>2. queue' \in Seq(Commands) /\ Len(queue') <= QCAP
    BY <1>1, StationAssumption DEF SpeedBegin, TypeOK
  <2>3. built' \in Seq(Commands) /\ Len(built') = N /\ Len(built') <= N
    BY <1>0, <1>1, ListsBuilt, SpeedLists DEF SpeedBegin
  <2>4. (\A b \in Belts : built'[b] = Write(b, 0)) \/ built'[1].gear # 0
    <3>1. CASE s = 0
      BY <1>1, <3>1, SpeedLists DEF SpeedBegin
    <3>2. CASE s # 0
      BY <1>1, <3>2, SpeedLists DEF SpeedBegin
    <3>. QED  BY <3>1, <3>2
  <2>5. Stopping' \/ built'[1].gear # 0
    BY <2>4 DEF Stopping, Write
  <2>6. mpc' = "speed" /\ idx' = 1
    BY <1>1 DEF SpeedBegin
  <2>7. TypeOK'
    BY <1>0, <1>1, <2>1, <2>2, <2>3, <2>6 DEF SpeedBegin, TypeOK
  <2>. QED  BY <1>0, <2>3, <2>5, <2>6, <2>7 DEF WalkInv
<1>2. CASE SpeedAdd
  <2>1. idx \in 1..(N + 1) /\ Len(built) = N /\ idx \in 1..N
    BY <1>0, <1>2 DEF SpeedAdd, WalkInv
  <2>2. built[idx] \in Commands /\ <<built[idx]>> \in Seq(Commands)
    BY <2>1 DEF TypeOK
  <2>3. queue' \in Seq(Commands) /\ Len(queue') <= QCAP
    BY <1>2, <2>2, QueueAdds DEF SpeedAdd
  <2>4. idx' \in 1..(N + 1) /\ idx' \in 0..(N + 1) /\ overrun' \in {0, 1}
    BY <1>0, <1>2, <2>1 DEF SpeedAdd, TypeOK
  <2>5. mpc' = "speed" /\ mpc = "speed" /\ built' = built
    BY <1>2 DEF SpeedAdd
  <2>6. Stopping' \/ built'[1].gear # 0
    BY <2>5 DEF WalkInv, Stopping, Write
  <2>7. TypeOK'
    BY <1>2, <2>3, <2>4, <2>5 DEF SpeedAdd, TypeOK
  <2>. QED  BY <2>1, <2>4, <2>5, <2>6, <2>7 DEF WalkInv
<1>3. CASE SpeedEnd
  <2>1. built[1] \in Commands
    <3>1. built \in Seq(Commands) /\ Len(built) = N /\ 1 \in 1..N
      BY <1>0, <1>3 DEF SpeedEnd, WalkInv, TypeOK, Belts
    <3>. QED  BY <3>1
  <2>2. gear' \in {0} \union Gears
    BY <1>3, <2>1, CommandFields DEF SpeedEnd
  <2>3. mpc' = "loop" /\ idx' = 0 /\ built' = <<>>
    BY <1>3 DEF SpeedEnd
  <2>4. built' \in Seq(Commands) /\ Len(built') <= N
    BY <1>0, <2>3
  <2>. QED  BY <1>0, <1>3, <2>2, <2>3, <2>4 DEF SpeedEnd, TypeOK, WalkInv
<1>. QED  BY <1>1, <1>2, <1>3 DEF Commanded

\* The link keeps the types.
LEMMA LinkTypes ==
    ASSUME TypeOK, WalkInv, Link
    PROVE  TypeOK' /\ WalkInv'
<1>. USE DEF bits, outs, inputs, timers, link, walk, devs, gaveup
<1>0. cur \in Commands /\ cur.no \in Belts
  BY CommandFields DEF TypeOK
<1>1. CASE Take
  <2>1. /\ Head(queue) \in Commands /\ Tail(queue) \in Seq(Commands)
        /\ Len(Tail(queue)) <= QCAP
    BY <1>1, StationAssumption DEF Take, TypeOK
  <2>2. retry' \in 0..COMM_RETRY
    BY <1>1, StationAssumption DEF Take
  <2>. QED  BY <1>1, <2>1, <2>2 DEF Take, TypeOK, WalkInv
<1>2. CASE Acknowledged
  BY <1>0, <1>2 DEF Acknowledged, TypeOK, WalkInv
<1>3. CASE StatusArrives
  <2>1. built' \in Seq(Commands) /\ Len(built') <= N
    <3>1. cur.no > 1 => cur.no - 1 \in Belts
      BY <1>0, StationAssumption DEF Belts
    <3>2. cur.no > 1 => Short(LinkageCmds(cur.no - 1, dev[cur.no]))
      BY <3>1, ShortLists
    <3>3. <<>> \in Seq(Commands) /\ Len(<<>>) <= N
      BY StationAssumption
    <3>. QED  BY <1>3, <3>2, <3>3, StationAssumption DEF StatusArrives, Short
  <2>. QED  BY <1>3, <2>1 DEF StatusArrives, TypeOK, WalkInv
<1>4. CASE StatusStored
  <2>1. queue' \in Seq(Commands) /\ Len(queue') <= QCAP
    BY <1>4, QueueAdds DEF StatusStored, TypeOK
  <2>2. built' \in Seq(Commands) /\ Len(built') <= N
    BY <1>4, StationAssumption DEF StatusStored
  <2>. QED  BY <1>0, <1>4, <2>1, <2>2 DEF StatusStored, TypeOK, WalkInv
<1>5. CASE Retry
  <2>1. retry' \in 0..COMM_RETRY
    BY <1>5, StationAssumption DEF Retry, TypeOK
  <2>. QED  BY <1>5, <2>1 DEF Retry, TypeOK, WalkInv
<1>6. CASE GiveUp
  BY <1>0, <1>6 DEF GiveUp, TypeOK, WalkInv
<1>7. ASSUME NEW fate \in {"ok", "lost", "unanswered"}, Transmit(fate)
      PROVE  TypeOK' /\ WalkInv'
  <2>1. dev' \in [Belts -> {0, 1}] /\ dev_trip' \in [Belts -> {0, 1}]
    BY <1>0, <1>7 DEF Transmit, DeviceExecutes, Running, TypeOK
  <2>2. set_sta' \in {0, 1}
    BY <1>7 DEF Transmit, SpeedSet, TypeOK
  <2>. QED  BY <1>7, <2>1, <2>2 DEF Transmit, TypeOK, WalkInv
<1>. QED  BY <1>1, <1>2, <1>3, <1>4, <1>5, <1>6, <1>7 DEF Link

\* The periodic functions keep the types.
LEMMA PeriodicTypes ==
    ASSUME TypeOK, WalkInv, Periodic
    PROVE  TypeOK' /\ WalkInv'
<1>. USE DEF bits, outs, inputs, timers, link, walk, devs, gaveup
<1>0. /\ N \in Belts /\ 1 \in Belts /\ 0 \in 0..N /\ 0 \in 0..(N + 1)
      /\ \A b \in Belts : b \in 0..(N + 1) /\ (b # 1 => b - 1 \in Belts) /\ (b # N => b + 1 \in Belts)
  BY StationAssumption DEF Belts
<1>1. CASE ResetTimer
  BY <1>1 DEF ResetTimer, TypeOK, WalkInv, Stopping, Write
<1>2. CASE Poll
  <2>1. polling' \in Belts /\ polling' \in 0..N
    BY <1>2, StationAssumption DEF Poll, NextPolled, TypeOK, Belts
  <2>2. queue' \in Seq(Commands) /\ Len(queue') <= QCAP
    <3>1. Short(<<Read(polling')>>)
      BY <2>1, ShortLists
    <3>. QED  BY <1>2, <3>1, QueueAdds DEF Poll, Short
  <2>. QED  BY <1>2, <2>1, <2>2 DEF Poll, TypeOK, WalkInv
<1>3. CASE UploadBegin
  <2>1. Short(RestartCmds(N))
    BY <1>0, ShortLists
  <2>2. mpc' = "upload" /\ idx' = N /\ built' \in Seq(Commands) /\ Len(built') <= N
    BY <1>3, <2>1, StationAssumption DEF UploadBegin, Short
  <2>. QED  BY <1>0, <1>3, <2>2 DEF UploadBegin, TypeOK, WalkInv
<1>4. CASE UploadNext
  <2>1. queue' \in Seq(Commands) /\ Len(queue') <= QCAP
    BY <1>4, QueueAdds DEF UploadNext, TypeOK
  <2>2. idx \in Belts
    BY <1>4 DEF UploadNext, WalkInv
  <2>3. idx # 1 => Short(RestartCmds(idx - 1))
    BY <1>0, <2>2, ShortLists
  <2>a. built' = <<>> => built' \in Seq(Commands) /\ Len(built') <= N
    BY StationAssumption
  <2>4. \/ mpc' = "loop" /\ idx' = 0 /\ built' = <<>>
        \/ /\ mpc' = "upload" /\ idx' \in Belts
           /\ built' \in Seq(Commands) /\ Len(built') <= N
    BY <1>0, <1>4, <2>2, <2>3 DEF UploadNext, BackToLoop, Short
  <2>5. /\ built' \in Seq(Commands) /\ Len(built') <= N /\ idx' \in 0..(N + 1)
        /\ mpc' # "loop" => mpc' = "upload" /\ idx' \in Belts
    BY <1>0, <2>4, <2>a, StationAssumption
  <2>. QED  BY <1>4, <2>1, <2>5 DEF UploadNext, TypeOK, WalkInv
<1>5. CASE ResetStartBegin
  <2>1. Short(ResetStartCmds(N))
    BY <1>0, ShortLists
  <2>2. \/ UNCHANGED walk
        \/ mpc' = "restart" /\ idx' = N /\ built' \in Seq(Commands) /\ Len(built') <= N
    BY <1>5, <2>1, StationAssumption DEF ResetStartBegin, Short
  <2>. QED  BY <1>0, <1>5, <2>2 DEF ResetStartBegin, TypeOK, WalkInv
<1>6. CASE ResetStartNext
  <2>1. queue' \in Seq(Commands) /\ Len(queue') <= QCAP
    BY <1>6, QueueAdds DEF ResetStartNext, TypeOK
  <2>2. idx \in Belts
    BY <1>6 DEF ResetStartNext, WalkInv
  <2>3. idx # 1 => Short(ResetStartCmds(idx - 1))
    BY <1>0, <2>2, ShortLists
  <2>a. built' = <<>> => built' \in Seq(Commands) /\ Len(built') <= N
    BY StationAssumption
  <2>4. \/ mpc' = "loop" /\ idx' = 0 /\ built' = <<>>
        \/ /\ mpc' = "restart" /\ idx' \in Belts
           /\ built' \in Seq(Commands) /\ Len(built') <= N
    BY <1>0, <1>6, <2>2, <2>3 DEF ResetStartNext, BackToLoop, Short
  <2>5. /\ built' \in Seq(Commands) /\ Len(built') <= N /\ idx' \in 0..(N + 1)
        /\ mpc' # "loop" => mpc' = "restart" /\ idx' \in Belts
    BY <1>0, <2>4, <2>a, StationAssumption
  <2>. QED  BY <1>6, <2>1, <2>5 DEF ResetStartNext, TypeOK, WalkInv
<1>7. CASE BlockBegin
  BY <1>0, <1>7 DEF BlockBegin, TypeOK, WalkInv
<1>8. ASSUME NextBelt, idx \in Belts
      PROVE  /\ built' \in Seq(Commands) /\ Len(built') <= N /\ idx' \in 0..(N + 1)
             /\ mpc' # "loop" => mpc' = "block" /\ idx' \in Belts
  <2>1. built \in Seq(Commands) /\ Len(built) <= N
    BY DEF TypeOK
  <2>2. CASE idx = N
    <3>1. mpc' = "loop" /\ idx' = 0 /\ built' = <<>>
      BY <1>8, <2>2 DEF NextBelt, BackToLoop
    <3>2. built' \in Seq(Commands) /\ Len(built') <= N
      BY <3>1, StationAssumption
    <3>. QED  BY <1>0, <3>1, <3>2, StationAssumption
  <2>3. CASE idx # N
    <3>1. mpc' = "block" /\ idx' = idx + 1 /\ built' = built
      BY <1>8, <2>3 DEF NextBelt
    <3>. QED  BY ONLY <1>0, <1>8, <2>1, <2>3, <3>1
  <2>. QED  BY <2>2, <2>3
<1>9. CASE BlockClear
  <2>1. block_cnt' \in [Belts -> 0..(BLOCK_TIME - 1)]
    <3>1. 0 \in 0..(BLOCK_TIME - 1)
      BY StationAssumption
    <3>2. block_cnt \in [Belts -> 0..(BLOCK_TIME - 1)]
      BY DEF TypeOK
    <3>3. block_cnt' = [block_cnt EXCEPT ![idx] = 0] \/ block_cnt' = block_cnt
      BY <1>9 DEF BlockClear
    <3>. QED  BY ONLY <3>1, <3>2, <3>3
  <2>2. NextBelt /\ idx \in Belts
    BY <1>9 DEF BlockClear, WalkInv
  <2>. QED  BY <1>8, <1>9, <2>1, <2>2 DEF BlockClear, TypeOK, WalkInv
<1>10. CASE BlockCovered
  <2>1. idx \in Belts
    BY <1>10 DEF BlockCovered, WalkInv
  <2>2. block_cnt' \in [Belts -> 0..(BLOCK_TIME - 1)]
    <3>1. block_cnt \in [Belts -> 0..(BLOCK_TIME - 1)] /\ block_cnt[idx] \in 0..(BLOCK_TIME - 1)
      BY <2>1 DEF TypeOK
    <3>2. PICK n \in 0..(BLOCK_TIME - 1) : block_cnt' = [block_cnt EXCEPT ![idx] = n]
      <4>1. CASE block_cnt[idx] + 1 >= BLOCK_TIME
        BY <1>10, <4>1, StationAssumption DEF BlockCovered
      <4>2. CASE ~(block_cnt[idx] + 1 >= BLOCK_TIME)
        <5>1. block_cnt[idx] + 1 \in 0..(BLOCK_TIME - 1)
          BY <3>1, <4>2, StationAssumption
        <5>2. block_cnt' = [block_cnt EXCEPT ![idx] = block_cnt[idx] + 1]
          BY <1>10, <4>2 DEF BlockCovered
        <5>. QED  BY <5>1, <5>2
      <4>. QED  BY <4>1, <4>2
    <3>. QED  BY ONLY <3>1, <3>2
  <2>3. queue' \in Seq(Commands) /\ Len(queue') <= QCAP
    <3>1. Short(<<Write(idx, 0)>>)
      BY <2>1, ShortLists
    <3>. QED  BY <1>10, <3>1, QueueAdds DEF BlockCovered, Short, TypeOK
  <2>4. /\ built' \in Seq(Commands) /\ Len(built') <= N /\ idx' \in 0..(N + 1)
        /\ mpc' # "loop" => mpc' \in {"block", "blocked"} /\ idx' \in Belts
    BY <1>0, <1>8, <1>10, <2>1 DEF BlockCovered, TypeOK
  <2>5. ops' \in 0..MaxOps /\ lamp' \in {0, 1}
    BY <1>10, StationAssumption DEF BlockCovered, TypeOK
  <2>. QED  BY <1>10, <2>2, <2>3, <2>4, <2>5 DEF BlockCovered, TypeOK, WalkInv
<1>11. CASE BlockBit
  <2>1. NextBelt /\ idx \in Belts
    BY <1>11 DEF BlockBit, WalkInv
  <2>2. block' \in [Belts -> {0, 1}]
    BY <1>11, <2>1 DEF BlockBit, TypeOK
  <2>3. /\ built' \in Seq(Commands) /\ Len(built') <= N /\ idx' \in 0..(N + 1)
        /\ mpc' # "loop" => mpc' = "block" /\ idx' \in Belts
    BY <1>8, <2>1
  <2>. QED  BY <1>11, <2>2, <2>3 DEF BlockBit, TypeOK, WalkInv
<1>. QED
  BY <1>1, <1>2, <1>3, <1>4, <1>5, <1>6, <1>7, <1>9, <1>10, <1>11 DEF Periodic

LEMMA TypeStep ==
    ASSUME TypeOK, WalkInv, [Next]_vars
    PROVE  TypeOK' /\ WalkInv'
<1>1. ASSUME NEW b \in Belts, Trip(b)
      PROVE  TypeOK' /\ WalkInv'
  <2>0. /\ trips \in 0..MaxTrips /\ trips < MaxTrips /\ trips' = trips + 1
        /\ MaxTrips \in Nat
    BY <1>1, StationAssumption DEF Trip, TypeOK
  <2>1. trips' \in 0..MaxTrips
    BY ONLY <2>0
  <2>. QED  BY <1>1, <2>1 DEF Trip, TypeOK, WalkInv, bits, outs, inputs, timers, link, walk, gaveup
<1>2. CASE UNCHANGED vars
  BY <1>2
         DEF vars, TypeOK, WalkInv, Stopping, Write, bits, outs, inputs, timers, link, walk, devs, gaveup
<1>. QED  BY <1>1, <1>2, InterruptTypes, CommandedTypes, LinkTypes, PeriodicTypes DEF Next

LEMMA InitTypes == Init => TypeOK /\ WalkInv
<1>. SUFFICES ASSUME Init PROVE TypeOK /\ WalkInv
  OBVIOUS
<1>1. Zero \in [Belts -> {0, 1}] /\ Zero \in [Belts -> 0..(BLOCK_TIME - 1)]
  BY StationAssumption DEF Zero
<1>2. cur \in Commands
  BY CommandsBuilt, StationAssumption DEF Init, Belts
<1>3. 0 \in 0..N /\ 0 \in 0..(N + 1) /\ 0 \in 0..MaxTrips /\ 0 \in 0..MaxOps /\ 0 \in 0..COMM_RETRY /\ 0 <= QCAP
  BY StationAssumption
<1>4. <<>> \in Seq(Commands) /\ Len(<<>>) = 0
  OBVIOUS
<1>. QED  BY <1>1, <1>2, <1>3, <1>4 DEF Init, TypeOK, WalkInv

\* TypeOK with what makes it inductive.
LEMMA WalkCorrect == Spec => [](TypeOK /\ WalkInv)
<1>1. TypeOK /\ WalkInv /\ [Next]_vars => TypeOK' /\ WalkInv'
  BY TypeStep
<1>. QED  BY <1>1, InitTypes, PTL DEF Spec

\* For every configuration: the types, no command for a belt that does not
\* exist, and never more commands in the queue than it holds, whatever the
\* interrupts do to the functions of the main loop (app_cfg.h, queue.c,
\* logic_ctrl.c).
THEOREM StationTypeCorrect == Spec => []TypeOK
  BY WalkCorrect, PTL
-----------------------------------------------------------------------------
(* The lamp.                                                               *)

\* Inductive with AlarmShowsBlock: the lamp is lit before the bit is set.
LampFirst == mpc = "blocked" => lamp = 1

LEMMA AlarmStep ==
    ASSUME ~Preempt, LampFirst, AlarmShowsBlock, [Next]_vars
    PROVE  LampFirst' /\ AlarmShowsBlock'
<1>. USE DEF LampFirst, AlarmShowsBlock, bits, outs, walk
<1>1. CASE Interrupts
  <2>1. mpc = "loop"
    BY <1>1 DEF Interrupts, Interrupt, SpeedCtrl, EmergencyEdge, EmergencyRepeat, ResetCtrl,
                FuncSelect, StreamSignal, DownStreamStatus, PhotoSignal
  <2>2. mpc' = mpc
    BY <1>1 DEF Interrupts, SpeedCtrl, EmergencyEdge, EmergencyRepeat, ResetCtrl,
                FuncSelect, StreamSignal, DownStreamStatus, PhotoSignal
  <2>3. block' = Zero \/ UNCHANGED <<block, lamp>>
    BY <1>1 DEF Interrupts, SpeedCtrl, EmergencyEdge, EmergencyRepeat, ResetCtrl,
                FuncSelect, StreamSignal, DownStreamStatus, PhotoSignal, BlocksAfterReset
  <2>4. Zero' = Zero
    BY DEF Zero
  <2>. QED  BY <2>1, <2>2, <2>3, <2>4
<1>2. ASSUME UNCHANGED <<block, lamp>>, mpc' # "blocked", mpc # "blocked"
      PROVE  LampFirst' /\ AlarmShowsBlock'
  <2>1. Zero' = Zero
    BY DEF Zero
  <2>. QED  BY <1>2, <2>1
<1>3. CASE Link
  <2>1. mpc \in {"loop", "status"} /\ mpc' \in {"loop", "status"} /\ UNCHANGED <<block, lamp>>
    BY <1>3 DEF Link, Take, Acknowledged, StatusArrives, StatusStored, Retry, GiveUp, Transmit
  <2>. QED  BY <1>2, <2>1
<1>9. CASE Commanded
  <2>1. mpc # "blocked" /\ mpc' # "blocked" /\ UNCHANGED <<block, lamp>>
    BY <1>9 DEF Commanded, SpeedBegin, SpeedAdd, SpeedEnd
  <2>. QED  BY <1>2, <2>1
<1>4. CASE Poll \/ UploadBegin \/ UploadNext \/ ResetStartBegin \/ ResetStartNext
             \/ BlockBegin \/ BlockClear
  <2>1. mpc # "blocked" /\ mpc' # "blocked" /\ UNCHANGED <<block, lamp>>
    BY <1>4 DEF Poll, UploadBegin, UploadNext, ResetStartBegin, ResetStartNext,
                BlockBegin, BlockClear, NextBelt, BackToLoop
  <2>. QED  BY <1>2, <2>1
<1>5. CASE ResetTimer \/ \E b \in Belts : Trip(b)
  <2>1. mpc = "loop" /\ mpc' = mpc /\ UNCHANGED <<block, lamp>>
    BY <1>5 DEF ResetTimer, Trip
  <2>. QED  BY <1>2, <2>1
<1>6. CASE BlockCovered
  <2>1. mpc # "blocked" /\ block' = block
    BY <1>6 DEF BlockCovered
  <2>2. lamp' = 1 \/ (lamp' = lamp /\ mpc' # "blocked")
    BY <1>6 DEF BlockCovered, NextBelt, BackToLoop
  <2>3. Zero' = Zero
    BY DEF Zero
  <2>. QED  BY <2>1, <2>2, <2>3
<1>7. CASE BlockBit
  <2>1. lamp' = 1 /\ mpc' # "blocked"
    BY <1>7 DEF BlockBit, NextBelt, BackToLoop
  <2>. QED  BY <2>1
<1>8. CASE UNCHANGED vars
  <2>1. UNCHANGED <<block, lamp, mpc>> /\ Zero' = Zero
    BY <1>8 DEF vars, Zero
  <2>. QED  BY <2>1
<1>. QED  BY <1>1, <1>3, <1>4, <1>5, <1>6, <1>7, <1>8, <1>9 DEF Next, Periodic

\* Where no interrupt falls into the block check, no reset puts the lamp out
\* under a block that is still to be recorded: a blocked belt is always shown
\* (logic_ctrl.c, lines 769-770 and 787-803).
THEOREM BlockIsShown == ASSUME ~Preempt PROVE Spec => []AlarmShowsBlock
<1>1. Init => LampFirst /\ AlarmShowsBlock
  BY DEF Init, LampFirst, AlarmShowsBlock
<1>2. LampFirst /\ AlarmShowsBlock /\ [Next]_vars => LampFirst' /\ AlarmShowsBlock'
  BY AlarmStep
<1>. QED  BY <1>1, <1>2, PTL DEF Spec

-----------------------------------------------------------------------------
(* Stops.                                                                  *)

AllStopsQueued == \A b \in Belts : StopQueued(b)

\* A stop or an emergency stop: the queue holds the stops and nothing else.
Flush ==
    /\ queue' = StopAll /\ gear' = 0
    /\ UNCHANGED <<out, phase, cur, set_sta, dev, abandoned, overrun>>

\* What is queued stays, in its place.
Extends ==
    /\ Len(queue) <= Len(queue')
    /\ \A i \in 1..Len(queue) : queue'[i] = queue[i]

\* At most, commands are added.
Adds ==
    /\ Extends
    /\ gear' = 0 => gear = 0
    /\ UNCHANGED <<emergency, out, phase, cur, set_sta, dev, abandoned, overrun>>
    /\ mpc = "speed" => UNCHANGED <<mpc, idx, built>>

\* The stops of all belts fit into the emptied queue.
LEMMA StopAllFacts ==
    /\ \A b \in Belts : \E i \in 1..Len(StopAll) : StopAll[i] = Write(b, 0)
    /\ \A i \in 1..Len(StopAll) : StopAll[i].gear = 0
<1>1. Stops \in Seq(Commands) /\ Len(Stops) = N
  BY ListsBuilt, StationAssumption DEF Stops, Belts
<1>2. Min2(Len(Stops), QCAP - Len(<<>>)) = N
  BY <1>1, StationAssumption DEF Min2
<1>3. StopAll = SubSeq(Stops, 1, N)
  BY <1>1, <1>2 DEF StopAll, Enqueue
<1>4. Len(StopAll) = N /\ \A i \in 1..N : StopAll[i] = Stops[i]
  BY <1>1, <1>3, StationAssumption
<1>5. \A i \in 1..N : StopAll[i] = Write(i, 0)
  BY <1>4 DEF Stops, Belts
<1>. QED  BY <1>4, <1>5 DEF Belts, Write

LEMMA FlushQueuesAll ==
    ASSUME Flush
    PROVE  AllStopsQueued' /\ \A b \in Belts : StopQueued(b)'
  BY StopAllFacts DEF Flush, AllStopsQueued, StopQueued, Write

\* A queued stop stays queued when commands are added.
LEMMA ExtendsKeepsStops ==
    ASSUME TypeOK, Extends, queue' \in Seq(Commands)
    PROVE  /\ \A b \in Belts : StopQueued(b) => StopQueued(b)'
           /\ AllStopsQueued => AllStopsQueued'
<1>1. Len(queue) \in Nat /\ Len(queue') \in Nat
  BY DEF TypeOK
<1>2. ASSUME NEW b \in Belts, StopQueued(b)
      PROVE  StopQueued(b)'
  <2>1. PICK i \in 1..Len(queue) : queue[i] = Write(b, 0)
    BY <1>2 DEF StopQueued
  <2>2. i \in 1..Len(queue') /\ queue'[i] = Write(b, 0)
    BY <1>1, <2>1 DEF Extends
  <2>. QED  BY <2>2 DEF StopQueued, Write
<1>. QED  BY <1>2 DEF AllStopsQueued

\* A queued stop that is taken is the command in hand.
LEMMA TakeKeepsStops ==
    ASSUME TypeOK, Take, NEW b \in Belts, StopQueued(b), cur' # Write(b, 0)
    PROVE  StopQueued(b)'
<1>1. /\ queue \in Seq(Commands) /\ queue # <<>>
      /\ queue' = Tail(queue) /\ cur' = Head(queue)
  BY DEF TypeOK, Take
<1>2. PICK i \in 1..Len(queue) : queue[i] = Write(b, 0)
  BY DEF StopQueued
<1>3. i # 1
  BY <1>1, <1>2
<1>4. i - 1 \in 1..Len(queue') /\ queue'[i - 1] = Write(b, 0)
  BY <1>1, <1>2, <1>3
<1>. QED  BY <1>4 DEF StopQueued, Write
\* Everything that is done to the queue, the command in hand, the outputs and
\* the inverters.
LEMMA StepShape ==
    ASSUME TypeOK, WalkInv, [Next]_vars
    PROVE  \/ Commanded \/ Flush \/ Adds \/ Take \/ Acknowledged \/ StatusStored \/ Retry \/ GiveUp
           \/ \E fate \in {"ok", "lost", "unanswered"} : Transmit(fate)
           \/ \E b \in Belts : Trip(b)
<1>. USE DEF bits, outs, inputs, timers, link, walk, devs, gaveup
<1>0. /\ N \in Belts /\ 0 \notin Gears
      /\ queue \in Seq(Commands) /\ Len(queue) <= QCAP
  BY StationAssumption DEF Belts, TypeOK
<1>1. ASSUME NEW cs \in Seq(Commands), queue' = Enqueue(queue, cs)
      PROVE  Extends
  BY <1>0, <1>1, EnqueueFacts DEF Extends
<1>2. ASSUME queue' = queue
      PROVE  Extends
  BY <1>0, <1>2 DEF Extends
<1>3. ASSUME NEW s \in {0} \union Gears, SpeedCtrl(s)
      PROVE  Flush \/ Adds
  <2>1. CASE s = 0
    BY <1>3, <2>1 DEF SpeedCtrl, Flush
  <2>2. CASE s # 0
    <3>1. Extends
      BY <1>1, <1>3, <2>2, ListsBuilt DEF SpeedCtrl
    <3>. QED  BY <1>0, <1>3, <2>2, <3>1 DEF SpeedCtrl, Adds
  <2>. QED  BY <2>1, <2>2
<1>4. CASE EmergencyEdge \/ EmergencyRepeat
  BY <1>4 DEF EmergencyEdge, EmergencyRepeat, Flush
<1>5. CASE ResetCtrl
  <2>1. PICK s \in BeltLists : queue' = Enqueue(queue, [k \in 1..Len(s) |-> ResetCmd(s[k])])
    BY <1>5 DEF ResetCtrl
  <2>2. [k \in 1..Len(s) |-> ResetCmd(s[k])] \in Seq(Commands)
    BY ResetList
  <2>3. Extends
    BY <1>1, <2>1, <2>2
  <2>. QED  BY <1>5, <2>3 DEF ResetCtrl, Adds
<1>6. CASE FuncSelect \/ ResetTimer \/ StatusArrives \/ UploadBegin \/ ResetStartBegin
             \/ BlockBegin \/ BlockClear \/ BlockBit
  <2>1. queue' = queue
    BY <1>6 DEF FuncSelect, ResetTimer, StatusArrives, UploadBegin, ResetStartBegin,
                BlockBegin, BlockClear, BlockBit
  <2>2. UNCHANGED <<gear, emergency, out, phase, cur, set_sta, dev, abandoned, overrun>>
    BY <1>6 DEF FuncSelect, ResetTimer, StatusArrives, UploadBegin, ResetStartBegin,
                BlockBegin, BlockClear, BlockBit
  <2>3. mpc = "speed" => UNCHANGED <<mpc, idx, built>>
    BY <1>6 DEF FuncSelect, ResetTimer, StatusArrives, UploadBegin, ResetStartBegin,
                BlockBegin, BlockClear, BlockBit
  <2>. QED  BY <1>2, <2>1, <2>2, <2>3 DEF Adds
<1>7. ASSUME NEW level \in {0, 1}, StreamSignal(level) \/ DownStreamStatus(level)
      PROVE  Adds
  <2>1. ExtraSignalCmds \in Seq(Commands) /\ LinkageCmds(N, level) \in Seq(Commands)
    BY <1>0, ShortLists DEF Short
  <2>2. Extends
    BY <1>1, <1>2, <1>7, <2>1 DEF StreamSignal, DownStreamStatus
  <2>. QED  BY <1>7, <2>2 DEF StreamSignal, DownStreamStatus, Adds
<1>8. ASSUME NEW b \in Belts, PhotoSignal(b)
      PROVE  Adds
  <2>1. PhotoCmds(b) \in Seq(Commands)
    BY ShortLists DEF Short
  <2>2. Extends
    BY <1>1, <1>8, <2>1 DEF PhotoSignal
  <2>. QED  BY <1>8, <2>2 DEF PhotoSignal, Adds
<1>9. CASE Poll
  <2>1. polling' \in Belts
    BY <1>9, StationAssumption DEF Poll, NextPolled, TypeOK, Belts
  <2>2. <<Read(polling')>> \in Seq(Commands)
    BY <2>1, ShortLists DEF Short
  <2>3. Extends
    BY <1>1, <1>9, <2>2 DEF Poll
  <2>. QED  BY <1>9, <2>3 DEF Poll, Adds
<1>10. CASE UploadNext \/ ResetStartNext
  <2>1. Extends
    BY <1>1, <1>10 DEF UploadNext, ResetStartNext, TypeOK
  <2>. QED  BY <1>10, <2>1 DEF UploadNext, ResetStartNext, Adds
<1>11. CASE BlockCovered
  <2>1. idx \in Belts
    BY <1>11 DEF BlockCovered, WalkInv
  <2>2. <<Write(idx, 0)>> \in Seq(Commands)
    BY <2>1, ShortLists DEF Short
  <2>3. Extends
    BY <1>1, <1>2, <1>11, <2>2 DEF BlockCovered
  <2>. QED  BY <1>11, <2>3 DEF BlockCovered, Adds
<1>12. CASE UNCHANGED vars
  <2>1. Extends
    BY <1>2, <1>12 DEF vars
  <2>. QED  BY <1>12, <2>1 DEF vars, Adds
<1>. QED
  BY <1>3, <1>4, <1>5, <1>6, <1>7, <1>8, <1>9, <1>10, <1>11, <1>12
     DEF Next, Interrupts, Link, Periodic

\* Inductive where no interrupt falls into the functions that walk over the
\* belts: what is built is for the gear set, and a stopped line has no start in
\* its queue.
GearInv ==
    /\ mpc \in {"loop", "block", "blocked"} => built = <<>>
    /\ mpc # "speed" => \A i \in 1..Len(built) : built[i].gear \in {0, gear}
    /\ mpc # "speed" /\ gear = 0 => \A i \in 1..Len(queue) : queue[i].gear = 0

\* The main loop is not inside a command of the server, and none begins.
Elsewhere == mpc # "speed" /\ ~Commanded

LEMMA GearStep ==
    ASSUME ~Preempt, TypeOK, WalkInv, GearInv, Elsewhere, [Next]_vars
    PROVE  GearInv'
<1>. USE DEF bits, outs, inputs, timers, link, walk, devs, gaveup
<1>. DEFINE Built == /\ mpc \in {"loop", "block", "blocked"} => built = <<>>
                     /\ \A i \in 1..Len(built) : built[i].gear \in {0, gear}
            Queued == gear = 0 => \A i \in 1..Len(queue) : queue[i].gear = 0
<1>0. /\ N \in Belts /\ 0 \notin Gears
      /\ queue \in Seq(Commands) /\ Len(queue) <= QCAP /\ built \in Seq(Commands)
      /\ \A b \in Belts : b # 1 => b - 1 \in Belts
  BY StationAssumption DEF Belts, TypeOK
<1>a. Built /\ Queued
  BY DEF GearInv, Elsewhere
<1>b. SUFFICES Built' /\ Queued'
  BY DEF GearInv
<1>1. ASSUME NEW cs \in Seq(Commands), \A k \in 1..Len(cs) : cs[k].gear \in {0, gear},
             queue' = Enqueue(queue, cs), gear' = gear
      PROVE  Queued'
  <2>. SUFFICES ASSUME gear = 0, NEW i \in 1..Len(queue')
                PROVE  queue'[i].gear = 0
    BY <1>1
  <2>1. CASE i \in 1..Len(queue)
    BY <1>0, <1>1, <1>a, <2>1, EnqueueFacts
  <2>2. CASE i \notin 1..Len(queue)
    <3>1. i > Len(queue)
      BY <1>0, <2>2
    <3>2. PICK k \in 1..Len(cs) : queue'[i] = cs[k]
      BY <1>0, <1>1, <3>1, EnqueueFacts
    <3>. QED  BY <1>1, <3>2
  <2>. QED  BY <2>1, <2>2
<1>2. ASSUME NEW cs, Short(cs), queue' = Enqueue(queue, cs), gear' = gear
      PROVE  Queued'
  BY <1>1, <1>2 DEF Short
<1>3. ASSUME UNCHANGED <<queue, gear>>
      PROVE  Queued'
  BY <1>3, <1>a
<1>4. ASSUME built' = <<>>
      PROVE  Built'
  BY <1>4
<1>5. ASSUME Short(built'), gear' = gear, mpc' \notin {"loop", "block", "blocked"}
      PROVE  Built'
  BY <1>5 DEF Short
<1>6. CASE Interrupts
  <2>1. mpc = "loop" /\ UNCHANGED walk
    BY <1>6 DEF Interrupts, Interrupt, SpeedCtrl, EmergencyEdge, EmergencyRepeat, ResetCtrl,
                FuncSelect, StreamSignal, DownStreamStatus, PhotoSignal
  <2>2. Built'
    BY <1>4, <1>a, <2>1
  <2>3. ASSUME Flush
        PROVE  Queued'
    BY <2>3, StopAllFacts DEF Flush
  <2>4. ASSUME NEW s \in {0} \union Gears, SpeedCtrl(s)
        PROVE  Queued'
    <3>1. CASE s = 0
      BY <2>3, <2>4, <3>1 DEF SpeedCtrl, Flush
    <3>2. CASE s # 0
      BY <2>4, <3>2 DEF SpeedCtrl
    <3>. QED  BY <3>1, <3>2
  <2>5. CASE EmergencyEdge \/ EmergencyRepeat
    BY <2>2, <2>3, <2>5 DEF EmergencyEdge, EmergencyRepeat, Flush
  <2>6. CASE ResetCtrl
    <3>1. PICK s \in BeltLists : queue' = Enqueue(queue, [k \in 1..Len(s) |-> ResetCmd(s[k])])
      BY <2>6 DEF ResetCtrl
    <3>. DEFINE cs == [k \in 1..Len(s) |-> ResetCmd(s[k])]
    <3>2. cs \in Seq(Commands) /\ \A k \in 1..Len(s) : cs[k].gear = 0
      BY ResetList
    <3>3. Len(cs) = Len(s)
      <4>1. Len(s) \in Nat
        BY StationAssumption DEF BeltLists
      <4>. QED  BY <4>1
    <3>4. gear' = gear /\ queue' = Enqueue(queue, cs)
      BY <2>6, <3>1 DEF ResetCtrl
    <3>. HIDE DEF cs
    <3>. QED  BY <1>1, <2>2, <3>2, <3>3, <3>4
  <2>7. CASE FuncSelect
    BY <1>3, <2>2, <2>7 DEF FuncSelect
  <2>8. ASSUME NEW level \in {0, 1}, StreamSignal(level) \/ DownStreamStatus(level)
        PROVE  Queued'
    <3>1. Short(ExtraSignalCmds) /\ Short(LinkageCmds(N, level))
      BY <1>0, ShortLists
    <3>. QED  BY <1>2, <1>3, <2>8, <3>1 DEF StreamSignal, DownStreamStatus
  <2>9. ASSUME NEW b \in Belts, PhotoSignal(b)
        PROVE  Queued'
    BY <1>2, <2>9, ShortLists DEF PhotoSignal
  <2>. QED  BY <1>6, <2>2, <2>4, <2>5, <2>6, <2>7, <2>8, <2>9 DEF Interrupts
<1>7. CASE Take
  <2>1. /\ queue # <<>> /\ queue' = Tail(queue) /\ gear' = gear /\ mpc = "loop"
        /\ UNCHANGED walk
    BY <1>7 DEF Take
  <2>2. Queued'
    <3>. SUFFICES ASSUME gear = 0, NEW i \in 1..Len(queue')
                  PROVE  queue'[i].gear = 0
      BY <2>1
    <3>1. i + 1 \in 1..Len(queue) /\ queue'[i] = queue[i + 1]
      BY <1>0, <2>1
    <3>. QED  BY <1>a, <3>1
  <2>. QED  BY <1>4, <1>a, <2>1, <2>2
<1>8. CASE StatusArrives
  <2>1. cur.no \in Belts
    BY CommandFields DEF TypeOK
  <2>2. Short(built')
    <3>1. cur.no > 1 => cur.no - 1 \in Belts
      BY <2>1, StationAssumption DEF Belts
    <3>2. cur.no > 1 => Short(LinkageCmds(cur.no - 1, dev[cur.no]))
      BY <3>1, ShortLists
    <3>3. Short(<<>>)
      BY <1>0, ShortLists
    <3>. QED  BY <1>8, <3>2, <3>3 DEF StatusArrives
  <2>. QED  BY <1>3, <1>5, <1>8, <2>2 DEF StatusArrives
<1>9. CASE StatusStored
  BY <1>0, <1>1, <1>4, <1>9, <1>a DEF StatusStored
<1>10. CASE Acknowledged \/ Retry \/ GiveUp \/ ResetTimer
              \/ (\E fate \in {"ok", "lost", "unanswered"} : Transmit(fate))
              \/ (\E b \in Belts : Trip(b))
  <2>1. UNCHANGED <<gear, queue, mpc, built>>
    BY <1>10 DEF Acknowledged, Retry, GiveUp, ResetTimer, Transmit, Trip
  <2>. QED  BY <1>3, <1>a, <2>1
<1>11. CASE Poll
  <2>1. polling' \in Belts
    BY <1>11, StationAssumption DEF Poll, NextPolled, TypeOK, Belts
  <2>2. Short(<<Read(polling')>>)
    BY <2>1, ShortLists
  <2>. QED  BY <1>2, <1>4, <1>11, <1>a, <2>2 DEF Poll
<1>12. CASE UploadBegin
  BY <1>0, <1>3, <1>5, <1>12, ShortLists DEF UploadBegin
<1>13. CASE UploadNext
  <2>1. Queued'
    BY <1>0, <1>1, <1>13, <1>a DEF UploadNext
  <2>2. idx \in Belts
    BY <1>13 DEF UploadNext, WalkInv
  <2>3. idx # 1 => Short(RestartCmds(idx - 1))
    BY <1>0, <2>2, ShortLists
  <2>4. built' = <<>> \/ (mpc' = "upload" /\ Short(built'))
    BY <1>13, <2>3 DEF UploadNext, BackToLoop
  <2>. QED  BY <1>4, <1>5, <1>13, <2>1, <2>4 DEF UploadNext
<1>14. CASE ResetStartBegin
  <2>1. Short(ResetStartCmds(N))
    BY <1>0, ShortLists
  <2>2. UNCHANGED walk \/ (mpc' = "restart" /\ Short(built'))
    BY <1>14, <2>1 DEF ResetStartBegin
  <2>. QED  BY <1>3, <1>5, <1>14, <1>a, <2>2 DEF ResetStartBegin
<1>15. CASE ResetStartNext
  <2>1. Queued'
    BY <1>0, <1>1, <1>15, <1>a DEF ResetStartNext
  <2>2. idx \in Belts
    BY <1>15 DEF ResetStartNext, WalkInv
  <2>3. idx # 1 => Short(ResetStartCmds(idx - 1))
    BY <1>0, <2>2, ShortLists
  <2>4. built' = <<>> \/ (mpc' = "restart" /\ Short(built'))
    BY <1>15, <2>3 DEF ResetStartNext, BackToLoop
  <2>. QED  BY <1>4, <1>5, <1>15, <2>1, <2>4 DEF ResetStartNext
<1>16. CASE BlockBegin \/ BlockClear \/ BlockBit
  <2>1. built = <<>> /\ built' = <<>> /\ UNCHANGED <<queue, gear>>
    BY <1>16, <1>a DEF BlockBegin, BlockClear, BlockBit, NextBelt, BackToLoop
  <2>. QED  BY <1>3, <1>4, <2>1
<1>17. CASE BlockCovered
  <2>1. built = <<>> /\ built' = <<>> /\ gear' = gear
    BY <1>17, <1>a DEF BlockCovered, NextBelt, BackToLoop
  <2>2. idx \in Belts
    BY <1>17 DEF BlockCovered, WalkInv
  <2>3. Short(<<Write(idx, 0)>>)
    BY <2>2, ShortLists
  <2>4. queue' = queue \/ queue' = Enqueue(queue, <<Write(idx, 0)>>)
    BY <1>17 DEF BlockCovered
  <2>. QED  BY <1>2, <1>3, <1>4, <2>1, <2>3, <2>4
<1>18. CASE UNCHANGED vars
  BY <1>18, <1>a DEF vars
<1>. HIDE DEF Built, Queued
<1>. QED
  BY <1>6, <1>7, <1>8, <1>9, <1>10, <1>11, <1>12, <1>13, <1>14, <1>15, <1>16, <1>17, <1>18
     DEF Next, Link, Periodic, Elsewhere

\* A start, or a stop still to be transmitted, in hand.
StartHeld == phase # "idle" /\ cur.rw = 1 /\ cur.gear # 0
StopHeld == phase = "ready" /\ cur.rw = 1 /\ cur.gear = 0

\* Inductive with GearInv and StopWins: the stops of a stopped line are behind
\* the start it caught in hand, and an answered stop has been executed.
HeldInv ==
    /\ mpc # "speed" /\ gear = 0 /\ StartHeld => AllStopsQueued
    /\ phase = "answered" /\ cur.rw = 1 /\ cur.gear = 0 => dev[cur.no] = 0

\* What an inverter does with the frame it is sent.
LEMMA DeviceFacts ==
    ASSUME TypeOK, NEW fate, Transmit(fate), NEW b \in Belts
    PROVE  /\ ~(cur.rw = 1 /\ cur.no = b) => dev'[b] = dev[b]
           /\ cur.rw = 1 /\ cur.no = b /\ fate # "lost" /\ SentGear(cur) = 0 => dev'[b] = 0
           /\ fate = "lost" => dev'[b] = dev[b]
<1>1. dev \in [Belts -> {0, 1}] /\ cur.no \in Belts
  BY CommandFields DEF TypeOK
<1>2. CASE fate = "lost"
  BY <1>2 DEF Transmit
<1>3. CASE fate # "lost"
  <2>1. dev' = IF cur.rw = 1 THEN [dev EXCEPT ![cur.no] = Running(cur.no, SentGear(cur))] ELSE dev
    BY <1>3 DEF Transmit, DeviceExecutes
  <2>. QED  BY <1>1, <1>3, <2>1 DEF Running
<1>. QED  BY <1>2, <1>3

LEMMA StopStep ==
    ASSUME TypeOK, TypeOK', WalkInv, GearInv, HeldInv, StopWins, Elsewhere, [Next]_vars
    PROVE  HeldInv' /\ StopWins'
<1>. USE DEF bits, outs, inputs, timers, link, walk, devs, gaveup, Elsewhere
<1>0. /\ cur \in Commands /\ cur.no \in Belts /\ cur.rw \in {0, 1, 2}
      /\ queue \in Seq(Commands) /\ queue' \in Seq(Commands)
      /\ dev \in [Belts -> {0, 1}] /\ abandoned \in [Belts -> {0, 1}]
  BY CommandFields DEF TypeOK
<1>1. CASE Flush
  <2>1. AllStopsQueued' /\ \A b \in Belts : StopQueued(b)'
    BY <1>1, FlushQueuesAll
  <2>2. UNCHANGED <<phase, cur, dev>>
    BY <1>1 DEF Flush
  <2>. QED  BY <2>1, <2>2 DEF HeldInv, StopWins
<1>2. CASE Adds
  <2>1. (\A b \in Belts : StopQueued(b) => StopQueued(b)') /\ (AllStopsQueued => AllStopsQueued')
    BY <1>0, <1>2, ExtendsKeepsStops DEF Adds
  <2>2. UNCHANGED <<phase, cur, dev, abandoned>> /\ (gear' = 0 => gear = 0)
    BY <1>2 DEF Adds
  <2>3. \A b \in Belts : InHand(b, FALSE)' <=> InHand(b, FALSE)
    BY <2>2 DEF InHand
  <2>. QED  BY <2>1, <2>2, <2>3 DEF HeldInv, StopWins, StartHeld
<1>3. CASE Take
  <2>1. /\ phase = "idle" /\ phase' = "ready" /\ cur' = queue[1] /\ 1 \in 1..Len(queue)
        /\ UNCHANGED <<gear, dev, abandoned>>
    BY <1>0, <1>3 DEF Take
  <2>2. HeldInv'
    BY <2>1 DEF HeldInv, GearInv, StartHeld
  <2>3. ASSUME NEW b \in Belts, gear = 0, dev[b] = 1, abandoned[b] # 1
        PROVE  StopQueued(b)' \/ InHand(b, FALSE)'
    <3>1. StopQueued(b)
      BY <2>1, <2>3 DEF StopWins, InHand
    <3>2. CASE cur' = Write(b, 0)
      BY <2>1, <3>2 DEF InHand, Write
    <3>3. CASE cur' # Write(b, 0)
      BY <1>3, <3>1, <3>3, TakeKeepsStops
    <3>. QED  BY <3>2, <3>3
  <2>. QED  BY <2>1, <2>2, <2>3 DEF StopWins
<1>4. ASSUME NEW fate \in {"ok", "lost", "unanswered"}, Transmit(fate)
      PROVE  HeldInv' /\ StopWins'
  <2>1. /\ phase = "ready" /\ phase' \in {"answered", "silent"}
        /\ phase' = "answered" => fate = "ok"
        /\ UNCHANGED <<gear, queue, cur, abandoned>>
    BY <1>4 DEF Transmit
  <2>2. (StartHeld' <=> StartHeld) /\ (AllStopsQueued <=> AllStopsQueued')
    BY <2>1 DEF StartHeld, AllStopsQueued, StopQueued
  <2>3. cur.gear = 0 => SentGear(cur) = 0
    BY DEF SentGear
  <2>4. HeldInv'
    BY <1>0, <1>4, <2>1, <2>2, <2>3, DeviceFacts DEF HeldInv
  <2>5. ASSUME NEW b \in Belts, gear = 0, dev'[b] = 1, abandoned[b] # 1
        PROVE  StopQueued(b)' \/ InHand(b, FALSE)'
    <3>1. StopQueued(b)' <=> StopQueued(b)
      BY <2>1 DEF StopQueued
    <3>2. CASE cur.rw = 1 /\ cur.no = b /\ cur.gear # 0
      BY <2>1, <2>5, <3>1, <3>2 DEF HeldInv, StartHeld, AllStopsQueued
    <3>3. CASE cur.rw = 1 /\ cur.no = b /\ cur.gear = 0
      <4>1. fate = "lost"
        BY <1>4, <2>3, <2>5, <3>3, DeviceFacts
      <4>2. phase' = "silent"
        BY <1>4, <4>1 DEF Transmit
      <4>. QED  BY <2>1, <3>3, <4>2 DEF InHand
    <3>4. CASE ~(cur.rw = 1 /\ cur.no = b)
      <4>1. dev[b] = 1
        BY <1>4, <2>5, <3>4, DeviceFacts
      <4>. QED  BY <2>5, <3>1, <3>4, <4>1 DEF StopWins, InHand
    <3>. QED  BY <3>2, <3>3, <3>4
  <2>. QED  BY <2>1, <2>4, <2>5 DEF StopWins
<1>5. CASE Acknowledged
  <2>1. /\ phase = "answered" /\ phase' = "idle" /\ UNCHANGED <<gear, queue, dev>>
        /\ \A b \in Belts : ~(cur.rw = 1 /\ b = cur.no) => abandoned'[b] = abandoned[b]
    BY <1>0, <1>5 DEF Acknowledged
  <2>2. ASSUME NEW b \in Belts, gear = 0, dev[b] = 1, abandoned'[b] # 1
        PROVE  StopQueued(b)
    <3>1. CASE cur.rw = 1 /\ b = cur.no
      BY <2>1, <2>2, <3>1 DEF HeldInv, StartHeld, AllStopsQueued
    <3>2. CASE ~(cur.rw = 1 /\ b = cur.no)
      BY <2>1, <2>2, <3>2 DEF StopWins, InHand
    <3>. QED  BY <3>1, <3>2
  <2>. QED  BY <2>1, <2>2 DEF HeldInv, StopWins, StartHeld, StopQueued
<1>6. CASE StatusStored
  <2>1. /\ phase = "answered" /\ phase' = "idle" /\ UNCHANGED <<gear, cur, dev, abandoned>>
        /\ queue' = Enqueue(queue, built)
    BY <1>6 DEF StatusStored, WalkInv
  <2>2. Extends
    <3>1. queue \in Seq(Commands) /\ Len(queue) <= QCAP /\ built \in Seq(Commands)
      BY DEF TypeOK
    <3>2. /\ Len(queue) <= Len(Enqueue(queue, built))
          /\ \A i \in 1..Len(queue) : Enqueue(queue, built)[i] = queue[i]
      BY ONLY <3>1, EnqueueFacts
    <3>. QED  BY ONLY <2>1, <3>2 DEF Extends
  <2>3. \A b \in Belts : StopQueued(b) => StopQueued(b)'
    BY <1>0, <2>2, ExtendsKeepsStops
  <2>. QED  BY <2>1, <2>3 DEF HeldInv, StopWins, StartHeld, InHand
<1>7. CASE Retry
  <2>1. /\ phase = "silent" /\ phase' = "ready"
        /\ UNCHANGED <<gear, queue, cur, dev, abandoned>>
    BY <1>7 DEF Retry
  <2>. QED  BY <2>1 DEF HeldInv, StopWins, StartHeld, InHand, StopQueued, AllStopsQueued
<1>8. CASE GiveUp
  <2>1. phase = "silent" /\ phase' = "idle" /\ UNCHANGED <<gear, queue, cur, dev>>
    BY <1>8 DEF GiveUp
  <2>2. ASSUME NEW b \in Belts, InHand(b, FALSE) \/ abandoned[b] = 1
        PROVE  abandoned'[b] = 1
    BY <1>0, <1>8, <2>2 DEF GiveUp, InHand
  <2>. QED  BY <2>1, <2>2 DEF HeldInv, StopWins, StartHeld, StopQueued
<1>9. ASSUME NEW d \in Belts, Trip(d)
      PROVE  HeldInv' /\ StopWins'
  <2>1. /\ UNCHANGED <<gear, queue, phase, cur, abandoned>>
        /\ \A b \in Belts : dev'[b] = 1 => dev[b] = 1
        /\ \A b \in Belts : dev[b] = 0 => dev'[b] = 0
    BY <1>0, <1>9 DEF Trip
  <2>. QED
    BY <1>0, <2>1 DEF HeldInv, StopWins, StartHeld, InHand, StopQueued, AllStopsQueued
<1>. QED  BY <1>1, <1>2, <1>3, <1>4, <1>5, <1>6, <1>7, <1>8, <1>9, StepShape

\* Inductive where no interrupt falls into a command of the server: of a stop,
\* the queue holds what has been added and nothing else.
SpeedInv ==
    mpc = "speed" /\ Stopping =>
        Len(queue) = idx - 1 /\ \A b \in 1..(idx - 1) : queue[b] = Write(b, 0)

\* A command that is added to a queue with room is its last.
LEMMA EnqueueOne ==
    ASSUME NEW q \in Seq(Commands), Len(q) < QCAP, NEW c \in Commands
    PROVE  Len(Enqueue(q, <<c>>)) = Len(q) + 1 /\ Enqueue(q, <<c>>)[Len(q) + 1] = c
<1>. DEFINE t == SubSeq(<<c>>, 1, 1)
<1>1. Min2(Len(<<c>>), QCAP - Len(q)) = 1
  BY StationAssumption DEF Min2
<1>2. t \in Seq(Commands) /\ Len(t) = 1 /\ t[1] = c
  <2>1. <<c>> \in Seq(Commands) /\ Len(<<c>>) = 1 /\ <<c>>[1] = c
    OBVIOUS
  <2>. QED  BY ONLY <2>1
<1>3. Enqueue(q, <<c>>) = q \o t
  BY <1>1 DEF Enqueue
<1>. HIDE DEF t
<1>4. Len(q \o t) = Len(q) + 1 /\ (q \o t)[Len(q) + 1] = c
  <2>0. q \in Seq(Commands) /\ t \in Seq(Commands)
    BY <1>2
  <2>a. Len(q \o t) = Len(q) + Len(t)
    BY ONLY <2>0
  <2>b. Len(q) \in Nat
    BY ONLY <2>0
  <2>1. Len(q) \in Nat /\ Len(q \o t) = Len(q) + Len(t)
    BY ONLY <2>a, <2>b
  <2>2. \A i \in 1..(Len(q) + Len(t)) : i > Len(q) => (q \o t)[i] = t[i - Len(q)]
    BY ONLY <2>0, <2>1
  <2>3. /\ Len(q) + 1 \in 1..(Len(q) + Len(t)) /\ Len(q) + 1 > Len(q)
        /\ (Len(q) + 1) - Len(q) = 1
    BY ONLY <1>2, <2>1
  <2>4. (q \o t)[Len(q) + 1] = t[1]
    BY ONLY <2>2, <2>3
  <2>. QED  BY ONLY <1>2, <2>1, <2>4
<1>. QED  BY <1>3, <1>4

\* A command of the server ends with the stops of all belts alone in the queue,
\* or with a gear set.
LEMMA SpeedStep ==
    ASSUME TypeOK, TypeOK', WalkInv, SpeedInv, Commanded
    PROVE  /\ SpeedInv'
           /\ UNCHANGED <<out, phase, cur, set_sta, dev, abandoned>>
           /\ \/ mpc' = "speed"
              \/ mpc' = "loop" /\ built' = <<>> /\ gear' # 0
              \/ /\ mpc' = "loop" /\ built' = <<>> /\ AllStopsQueued'
                 /\ \A i \in 1..Len(queue') : queue'[i].gear = 0
<1>. USE DEF bits, outs, inputs, timers, link, walk, devs, gaveup
<1>0. /\ N \in Nat /\ 1 \in Belts /\ QCAP \in Nat /\ N <= QCAP
      /\ queue \in Seq(Commands) /\ built \in Seq(Commands)
      /\ \A b \in Belts : Write(b, 0).gear = 0
  BY StationAssumption DEF TypeOK, Belts, Write
<1>1. UNCHANGED <<out, phase, cur, set_sta, dev, abandoned>>
  BY DEF Commanded, SpeedBegin, SpeedAdd, SpeedEnd
<1>2. ASSUME NEW s \in {0} \union Gears, SpeedBegin(s)
      PROVE  SpeedInv' /\ mpc' = "speed"
  <2>1. CASE s = 0
    BY <1>2, <2>1 DEF SpeedBegin, SpeedInv
  <2>2. CASE s # 0
    <3>1. built'[1].gear # 0
      BY <1>2, <2>2, SpeedLists DEF SpeedBegin
    <3>2. ~Stopping'
      BY <1>0, <3>1 DEF Stopping, Write
    <3>. QED  BY <1>2, <3>2 DEF SpeedBegin, SpeedInv
  <2>. QED  BY <2>1, <2>2
<1>3. CASE SpeedAdd
  <2>1. /\ mpc' = "speed" /\ mpc = "speed" /\ built' = built /\ idx' = idx + 1
        /\ idx \in 1..N /\ idx \in Belts /\ Len(built) = N
        /\ queue' = Enqueue(queue, <<built[idx]>>)
    BY <1>0, <1>3 DEF SpeedAdd, WalkInv, Belts
  <2>2. ASSUME Stopping
        PROVE  Len(queue') = idx /\ \A b \in 1..idx : queue'[b] = Write(b, 0)
    <3>1. Len(queue) = idx - 1 /\ \A b \in 1..(idx - 1) : queue[b] = Write(b, 0)
      BY <2>1, <2>2 DEF SpeedInv
    <3>2. built[idx] = Write(idx, 0) /\ built[idx] \in Commands
      BY <1>0, <2>1, <2>2 DEF Stopping
    <3>3. Len(queue) < QCAP /\ Len(queue) + 1 = idx
      BY <1>0, <2>1, <3>1
    <3>4. Len(queue') = idx /\ queue'[idx] = Write(idx, 0)
      BY <1>0, <2>1, <3>2, <3>3, EnqueueOne
    <3>5. \A i \in 1..Len(queue) : queue'[i] = queue[i]
      <4>1. <<built[idx]>> \in Seq(Commands)
        BY <3>2
      <4>2. Len(queue) <= QCAP
        BY DEF TypeOK
      <4>. QED  BY <1>0, <2>1, <4>1, <4>2, EnqueueFacts
    <3>6. ASSUME NEW b \in 1..idx, b # idx
          PROVE  queue'[b] = Write(b, 0)
      BY <2>1, <3>1, <3>5, <3>6
    <3>. QED  BY <3>4, <3>6
  <2>3. Stopping' => Stopping
    BY <2>1 DEF Stopping, Write
  <2>4. idx' - 1 = idx
    BY <2>1
  <2>5. SpeedInv'
    BY <2>2, <2>3, <2>4 DEF SpeedInv, Write
  <2>. QED  BY <1>1, <2>1, <2>5
<1>4. CASE SpeedEnd
  <2>1. /\ mpc' = "loop" /\ built' = <<>> /\ mpc = "speed" /\ idx = N + 1
        /\ queue' = queue /\ gear' = built[1].gear
    BY <1>4 DEF SpeedEnd
  <2>2. SpeedInv'
    BY <2>1 DEF SpeedInv
  <2>3. CASE Stopping
    <3>1. Len(queue) = N /\ \A b \in 1..N : queue[b] = Write(b, 0)
      BY <1>0, <2>1, <2>3 DEF SpeedInv
    <3>2. \A i \in 1..Len(queue') : queue'[i].gear = 0
      BY <1>0, <2>1, <3>1 DEF Belts
    <3>3. AllStopsQueued'
      BY <2>1, <3>1 DEF AllStopsQueued, StopQueued, Belts, Write
    <3>. QED  BY <1>1, <2>1, <2>2, <3>2, <3>3
  <2>4. CASE ~Stopping
    <3>1. gear' # 0
      BY <2>1, <2>4 DEF WalkInv
    <3>. QED  BY <1>1, <2>1, <2>2, <3>1
  <2>. QED  BY <2>3, <2>4
<1>. QED  BY <1>1, <1>2, <1>3, <1>4 DEF Commanded

\* Without preemption nothing else happens inside a command of the server.
LEMMA InsideSpeed ==
    ASSUME ~Preempt, WalkInv, [Next]_vars, mpc = "speed"
    PROVE  Commanded \/ UNCHANGED vars
<1>1. ~Interrupts
  BY DEF Interrupts, Interrupt, SpeedCtrl, EmergencyEdge, EmergencyRepeat, ResetCtrl,
         FuncSelect, StreamSignal, DownStreamStatus, PhotoSignal
<1>2. ~Link /\ \A b \in Belts : ~Trip(b)
  BY DEF Link, Take, Acknowledged, StatusArrives, StatusStored, Retry, GiveUp, Transmit, Trip
<1>3. ~Periodic
  BY DEF Periodic, ResetTimer, Poll, UploadBegin, UploadNext, ResetStartBegin,
         ResetStartNext, BlockBegin, BlockClear, BlockCovered, BlockBit
<1>. QED  BY <1>1, <1>2, <1>3 DEF Next

\* What holds of a stopped line, over every step.
StoppedInv == GearInv /\ HeldInv /\ StopWins /\ SpeedInv

LEMMA StoppedStep ==
    ASSUME ~Preempt, TypeOK, TypeOK', WalkInv, StoppedInv, [Next]_vars
    PROVE  StoppedInv'
<1>. USE DEF StoppedInv
<1>1. CASE Commanded
  <2>1. SpeedInv' /\ UNCHANGED <<out, phase, cur, set_sta, dev, abandoned>>
    BY <1>1, SpeedStep
  <2>2. phase' = "answered" /\ cur'.rw = 1 /\ cur'.gear = 0 => dev'[cur'.no] = 0
    BY <2>1 DEF HeldInv
  <2>3. CASE mpc' = "speed"
    BY <2>1, <2>2, <2>3 DEF GearInv, HeldInv, StopWins
  <2>a. built' = <<>> => \A i \in 1..Len(built') : built'[i].gear \in {0, gear'}
    OBVIOUS
  <2>4. CASE mpc' = "loop" /\ built' = <<>> /\ gear' # 0
    <3>1. GearInv'
      BY <2>4, <2>a DEF GearInv
    <3>. QED  BY <2>1, <2>2, <2>4, <3>1 DEF HeldInv, StopWins
  <2>5. CASE /\ mpc' = "loop" /\ built' = <<>> /\ AllStopsQueued'
             /\ \A i \in 1..Len(queue') : queue'[i].gear = 0
    <3>1. \A b \in Belts : StopQueued(b)'
      BY <2>5 DEF AllStopsQueued
    <3>2. GearInv'
      BY <2>5, <2>a DEF GearInv
    <3>. QED  BY <2>1, <2>2, <2>5, <3>1, <3>2 DEF HeldInv, StopWins
  <2>. QED  BY <1>1, <2>3, <2>4, <2>5, SpeedStep
<1>2. CASE UNCHANGED vars
  BY <1>2 DEF vars, bits, outs, inputs, timers, link, walk, devs, gaveup, GearInv, HeldInv,
     StopWins, SpeedInv, Stopping, StartHeld, AllStopsQueued, StopQueued, InHand, Write
<1>3. CASE Elsewhere
  <2>1. GearInv' /\ HeldInv' /\ StopWins'
    BY <1>3, GearStep, StopStep
  <2>2. mpc' # "speed"
    BY <1>3 DEF Elsewhere, Next, Interrupts, SpeedCtrl, EmergencyEdge, EmergencyRepeat,
       ResetCtrl, FuncSelect, StreamSignal, DownStreamStatus, PhotoSignal, Link, Take,
       Acknowledged, StatusArrives, StatusStored, Retry, GiveUp, Transmit, Periodic,
       ResetTimer, Poll, UploadBegin, UploadNext, ResetStartBegin, ResetStartNext,
       BlockBegin, BlockClear, BlockCovered, BlockBit, NextBelt, BackToLoop, Trip, walk,
       vars
  <2>. QED  BY <2>1, <2>2 DEF SpeedInv
<1>. QED  BY <1>1, <1>2, <1>3, InsideSpeed DEF Elsewhere

\* All that is needed of a stopped line.
LEMMA StopCorrect ==
    ASSUME ~Preempt
    PROVE  Spec => [](TypeOK /\ WalkInv /\ StoppedInv)
<1>1. Init => StoppedInv
  BY DEF Init, StoppedInv, GearInv, HeldInv, StartHeld, StopWins, SpeedInv, Zero
<1>2. TypeOK /\ TypeOK' /\ WalkInv /\ StoppedInv /\ [Next]_vars => StoppedInv'
  BY StoppedStep
<1>. QED  BY <1>1, <1>2, WalkCorrect, PTL DEF Spec

\* Where no interrupt falls into the functions that walk over the belts, for
\* every configuration: once the line is commanded to stop, each belt that
\* still runs has its stop queued or in hand, unless the link gave up on that
\* very stop (Speed_Ctrl_Process, logic_ctrl.c 520-534).
THEOREM StopIsFinal == ASSUME ~Preempt PROVE Spec => []StopWins
<1>1. StoppedInv => StopWins
  BY DEF StoppedInv
<1>. QED  BY <1>1, StopCorrect, PTL
-----------------------------------------------------------------------------
(* Run outputs.                                                            *)

\* Inductive with the above: as long as the flag is set, no stop has been
\* transmitted since the line was stopped; an output that is on has its stop to
\* come.
OutputInv ==
    /\ mpc # "speed" /\ gear = 0 /\ set_sta = 1 => AllStopsQueued \/ StopHeld
    /\ mpc # "speed" /\ gear = 0 => \A b \in Belts :
          out[b] = 1 => \/ StopQueued(b) \/ abandoned[b] = 1
                        \/ phase # "idle" /\ cur = Write(b, 0)

LEMMA OutputStep ==
    ASSUME TypeOK, TypeOK', WalkInv, GearInv, HeldInv, OutputInv, Elsewhere, [Next]_vars
    PROVE  OutputInv'
<1>. USE DEF bits, outs, inputs, timers, link, walk, devs, gaveup, Elsewhere
<1>0. /\ cur \in Commands /\ cur.no \in Belts /\ cur.rw \in {0, 1, 2}
      /\ queue \in Seq(Commands) /\ queue' \in Seq(Commands)
      /\ out \in [Belts -> {0, 1}] /\ abandoned \in [Belts -> {0, 1}] /\ set_sta \in {0, 1}
  BY CommandFields DEF TypeOK
<1>a. ASSUME NEW b \in Belts, cur = Write(b, 0)
      PROVE  cur.rw = 1 /\ cur.no = b /\ cur.gear = 0
  BY <1>a DEF Write
<1>1. CASE Flush
  <2>1. AllStopsQueued' /\ \A b \in Belts : StopQueued(b)'
    BY <1>1, FlushQueuesAll
  <2>. QED  BY <2>1 DEF OutputInv
<1>2. CASE Adds
  <2>1. (\A b \in Belts : StopQueued(b) => StopQueued(b)') /\ (AllStopsQueued => AllStopsQueued')
    BY <1>0, <1>2, ExtendsKeepsStops DEF Adds
  <2>2. UNCHANGED <<out, phase, cur, set_sta, abandoned>> /\ (gear' = 0 => gear = 0)
    BY <1>2 DEF Adds
  <2>. QED  BY <2>1, <2>2 DEF OutputInv, StopHeld, Write
<1>3. CASE Take
  <2>1. /\ phase = "idle" /\ phase' = "ready" /\ cur' = queue[1] /\ 1 \in 1..Len(queue)
        /\ UNCHANGED <<gear, out, set_sta, abandoned>>
    BY <1>0, <1>3 DEF Take
  <2>2. ASSUME NEW b \in Belts, StopQueued(b)
        PROVE  StopQueued(b)' \/ cur' = Write(b, 0)
    BY <1>3, <2>2, TakeKeepsStops
  <2>3. ASSUME NEW b \in Belts, cur' = Write(b, 0)
        PROVE  StopHeld'
    BY <2>1, <2>3 DEF StopHeld, Write
  <2>4. gear' = 0 /\ set_sta' = 1 => AllStopsQueued' \/ StopHeld'
    <3>1. gear = 0 /\ set_sta = 1 => AllStopsQueued
      BY <2>1 DEF OutputInv, StopHeld
    <3>2. AllStopsQueued => AllStopsQueued' \/ StopHeld'
      BY <2>2, <2>3 DEF AllStopsQueued
    <3>. QED  BY <2>1, <3>1, <3>2
  <2>5. ASSUME NEW b \in Belts, gear = 0, out[b] = 1
        PROVE  StopQueued(b)' \/ abandoned[b] = 1 \/ cur' = Write(b, 0)
    BY <2>1, <2>2, <2>5 DEF OutputInv
  <2>. QED  BY <2>1, <2>4, <2>5 DEF OutputInv, Write
<1>4. ASSUME NEW fate \in {"ok", "lost", "unanswered"}, Transmit(fate)
      PROVE  OutputInv'
  <2>1. /\ phase = "ready" /\ phase' \in {"answered", "silent"} /\ set_sta' = SpeedSet(cur)
        /\ UNCHANGED <<gear, queue, out, cur, abandoned>>
    BY <1>4 DEF Transmit
  <2>2. (AllStopsQueued' <=> AllStopsQueued) /\ \A b \in Belts : StopQueued(b)' <=> StopQueued(b)
    BY <2>1 DEF AllStopsQueued, StopQueued
  <2>3. gear = 0 /\ set_sta' = 1 => AllStopsQueued
    <3>1. CASE cur.rw # 1
      BY <2>1, <3>1 DEF SpeedSet, OutputInv, StopHeld
    <3>2. CASE cur.rw = 1 /\ cur.gear = 0
      BY <2>1, <3>2 DEF SpeedSet, SentGear
    <3>3. CASE cur.rw = 1 /\ cur.gear # 0
      BY <2>1, <3>3 DEF HeldInv, StartHeld
    <3>. QED  BY <3>1, <3>2, <3>3
  <2>. QED  BY <2>1, <2>2, <2>3 DEF OutputInv, Write
<1>5. CASE Acknowledged
  <2>1. /\ phase = "answered" /\ phase' = "idle" /\ UNCHANGED <<gear, queue, cur, set_sta>>
        /\ out' = [out EXCEPT ![cur.no] = set_sta]
        /\ \A b \in Belts : b # cur.no => abandoned'[b] = abandoned[b]
    BY <1>0, <1>5 DEF Acknowledged
  <2>2. (AllStopsQueued' <=> AllStopsQueued) /\ \A b \in Belts : StopQueued(b)' <=> StopQueued(b)
    BY <2>1 DEF AllStopsQueued, StopQueued
  <2>3. gear = 0 /\ set_sta = 1 => AllStopsQueued
    BY <2>1 DEF OutputInv, StopHeld
  <2>4. ASSUME NEW b \in Belts, gear = 0, out'[b] = 1
        PROVE  StopQueued(b) \/ abandoned'[b] = 1
    <3>1. CASE b = cur.no
      <4>1. set_sta = 1
        BY <1>0, <2>1, <2>4, <3>1
      <4>. QED  BY <2>3, <2>4, <4>1 DEF AllStopsQueued
    <3>2. CASE b # cur.no
      <4>1. out[b] = 1 /\ abandoned'[b] = abandoned[b]
        BY <1>0, <2>1, <2>4, <3>2
      <4>. QED  BY <1>a, <2>4, <3>2, <4>1 DEF OutputInv
    <3>. QED  BY <3>1, <3>2
  <2>. QED  BY <2>1, <2>2, <2>3, <2>4 DEF OutputInv
<1>6. CASE StatusStored
  <2>1. /\ phase = "answered" /\ cur.rw = 0
        /\ UNCHANGED <<gear, out, cur, set_sta, abandoned>>
        /\ queue' = Enqueue(queue, built)
    BY <1>6 DEF StatusStored, WalkInv
  <2>2. Extends
    <3>1. queue \in Seq(Commands) /\ Len(queue) <= QCAP /\ built \in Seq(Commands)
      BY DEF TypeOK
    <3>2. /\ Len(queue) <= Len(Enqueue(queue, built))
          /\ \A i \in 1..Len(queue) : Enqueue(queue, built)[i] = queue[i]
      BY ONLY <3>1, EnqueueFacts
    <3>. QED  BY ONLY <2>1, <3>2 DEF Extends
  <2>3. (\A b \in Belts : StopQueued(b) => StopQueued(b)') /\ (AllStopsQueued => AllStopsQueued')
    BY <1>0, <2>2, ExtendsKeepsStops
  <2>. QED  BY <1>a, <2>1, <2>3 DEF OutputInv, StopHeld
<1>7. CASE Retry
  <2>1. /\ phase = "silent" /\ phase' = "ready"
        /\ UNCHANGED <<gear, queue, out, cur, set_sta, abandoned>>
    BY <1>7 DEF Retry
  <2>. QED  BY <2>1 DEF OutputInv, StopHeld, StopQueued, AllStopsQueued, Write
<1>8. CASE GiveUp
  <2>1. phase = "silent" /\ phase' = "idle" /\ UNCHANGED <<gear, queue, out, cur, set_sta>>
    BY <1>8 DEF GiveUp
  <2>2. ASSUME NEW b \in Belts, cur = Write(b, 0) \/ abandoned[b] = 1
        PROVE  abandoned'[b] = 1
    BY <1>0, <1>8, <1>a, <2>2 DEF GiveUp
  <2>. QED  BY <2>1, <2>2 DEF OutputInv, StopHeld, StopQueued, AllStopsQueued
<1>9. ASSUME NEW d \in Belts, Trip(d)
      PROVE  OutputInv'
  <2>1. UNCHANGED <<gear, queue, out, phase, cur, set_sta, abandoned>>
    BY <1>9 DEF Trip
  <2>. QED  BY <2>1 DEF OutputInv, StopHeld, StopQueued, AllStopsQueued, Write
<1>. QED  BY <1>1, <1>2, <1>3, <1>4, <1>5, <1>6, <1>7, <1>8, <1>9, StepShape

\* Where no interrupt falls into the functions that walk over the belts: when a
\* stopped line has nothing left to send, no run output is on but that of a
\* belt whose stop was given up, although one flag drives all outputs
\* (g_speed_set_sta, modbus_rtu.c 345-371 and 439-475).
THEOREM OutputsEndOff == ASSUME ~Preempt PROVE Spec => []OutputsFollowStop
<1>1. Init => OutputInv
  BY DEF Init, OutputInv, Zero
<1>2. ASSUME TypeOK, TypeOK', WalkInv, StoppedInv, OutputInv, [Next]_vars
      PROVE  OutputInv'
  <2>. USE DEF StoppedInv
  <2>1. CASE Elsewhere
    BY <1>2, <2>1, OutputStep
  <2>2. CASE Commanded
    <3>1. CASE AllStopsQueued'
      <4>1. \A b \in Belts : StopQueued(b)'
        BY <3>1 DEF AllStopsQueued
      <4>. QED  BY <3>1, <4>1 DEF OutputInv
    <3>2. CASE mpc' = "speed" \/ gear' # 0
      BY <3>2 DEF OutputInv
    <3>. QED  BY <1>2, <2>2, <3>1, <3>2, SpeedStep
  <2>3. CASE UNCHANGED vars
    BY <1>2, <2>3 DEF vars, bits, outs, link, walk, gaveup, OutputInv, StopHeld,
       AllStopsQueued, StopQueued, Write
  <2>. QED  BY <1>2, <2>1, <2>2, <2>3, InsideSpeed DEF Elsewhere
<1>3. OutputInv => OutputsFollowStop
  BY DEF OutputInv, OutputsFollowStop, StopQueued
<1>. QED  BY <1>1, <1>2, <1>3, StopCorrect, PTL DEF Spec

-----------------------------------------------------------------------------
(* The emergency stop.                                                     *)

\* Inductive, whatever interrupts fall into: while the emergency stop is on it
\* is a stop that each running belt has before it.
\* Or which the main loop is about to add.
StopComing(b) == mpc = "speed" /\ \E k \in idx..N : built[k] = Write(b, 0)

EmergencyInv ==
    overrun = 0 /\ emergency = 1 =>
        /\ \A b \in Belts : dev[b] = 1 =>
              StopQueued(b) \/ StopComing(b) \/ InHand(b, FALSE) \/ abandoned[b] = 1
        /\ phase = "answered" => \A b \in Belts :
              cur.rw = 1 /\ cur.no = b /\ dev[b] = 1 => StopQueued(b) \/ StopComing(b)

\* Wherever interrupts fall into a command of the server, its stops get into the
\* queue as long as there is room.
LEMMA EmergencyCommanded ==
    ASSUME TypeOK, TypeOK', WalkInv, EmergencyInv, Commanded
    PROVE  EmergencyInv'
<1>. USE DEF bits, outs, inputs, timers, link, walk, devs, gaveup
<1>0. /\ N \in Nat /\ queue \in Seq(Commands) /\ Len(queue) <= QCAP
      /\ queue' \in Seq(Commands) /\ built \in Seq(Commands) /\ QCAP \in Nat
  BY StationAssumption DEF TypeOK
<1>1. UNCHANGED <<emergency, phase, cur, dev, abandoned>>
  BY DEF Commanded, SpeedBegin, SpeedAdd, SpeedEnd
<1>2. \A b \in Belts : InHand(b, FALSE)' <=> InHand(b, FALSE)
  BY <1>1 DEF InHand
<1>3. ASSUME overrun' = 0 => overrun = 0,
             \A b \in Belts : overrun' = 0 /\ (StopQueued(b) \/ StopComing(b))
                                => StopQueued(b)' \/ StopComing(b)'
      PROVE  EmergencyInv'
  BY <1>1, <1>2, <1>3 DEF EmergencyInv
<1>4. ASSUME NEW s \in {0} \union Gears, SpeedBegin(s)
      PROVE  EmergencyInv'
  <2>1. CASE s = 0
    <3>1. mpc' = "speed" /\ idx' = 1 /\ built' = Stops /\ overrun' = overrun
      BY <1>4, <2>1 DEF SpeedBegin
    <3>2. \A b \in Belts : b \in 1..N /\ built'[b] = Write(b, 0)
      BY <3>1, SpeedLists DEF Belts
    <3>3. \A b \in Belts : StopComing(b)'
      BY <3>1, <3>2 DEF StopComing, Write
    <3>. QED  BY <1>3, <3>1, <3>3
  <2>2. CASE s # 0
    <3>1. mpc = "loop" /\ queue' = queue /\ overrun' = overrun
      BY <1>4, <2>2 DEF SpeedBegin
    <3>2. \A b \in Belts : ~StopComing(b) /\ (StopQueued(b) => StopQueued(b)')
      BY <3>1 DEF StopComing, StopQueued, Write
    <3>. QED  BY <1>3, <3>1, <3>2
  <2>. QED  BY <2>1, <2>2
<1>5. CASE SpeedAdd
  <2>1. /\ mpc' = "speed" /\ mpc = "speed" /\ built' = built /\ idx' = idx + 1
        /\ idx \in 1..N /\ Len(built) = N
        /\ queue' = Enqueue(queue, <<built[idx]>>)
        /\ overrun' = IF Len(queue) = QCAP /\ built[idx].gear = 0 THEN 1 ELSE overrun
    BY <1>0, <1>5 DEF SpeedAdd, WalkInv
  <2>2. built[idx] \in Commands /\ <<built[idx]>> \in Seq(Commands)
    BY <1>0, <2>1
  <2>3. /\ Len(queue) <= Len(queue')
        /\ \A k \in 1..Len(queue) : queue'[k] = queue[k]
    <3>. DEFINE new == <<built[idx]>>
    <3>1. queue \in Seq(Commands) /\ Len(queue) <= QCAP /\ new \in Seq(Commands)
      BY <1>0, <2>2
    <3>2. queue' = Enqueue(queue, new)
      BY <2>1
    <3>. HIDE DEF new
    <3>3. /\ Len(queue) <= Len(Enqueue(queue, new))
          /\ \A k \in 1..Len(queue) : Enqueue(queue, new)[k] = queue[k]
      BY ONLY <3>1, EnqueueFacts
    <3>. QED  BY ONLY <3>2, <3>3
  <2>4. \A b \in Belts : StopQueued(b) => StopQueued(b)'
    BY <1>0, <2>3, ExtendsKeepsStops DEF Extends
  <2>5. ASSUME NEW b \in Belts, StopComing(b), overrun' = 0
        PROVE  StopQueued(b)' \/ StopComing(b)'
    <3>1. PICK k \in idx..N : built[k] = Write(b, 0)
      BY <2>5 DEF StopComing
    <3>2. CASE k # idx
      <4>1. k \in idx'..N /\ built'[k] = Write(b, 0)
        BY <2>1, <3>1, <3>2
      <4>. QED  BY <2>1, <4>1 DEF StopComing, Write
    <3>3. CASE k = idx
      <4>1. built[idx] = Write(b, 0) /\ built[idx].gear = 0
        BY <3>1, <3>3 DEF Write
      <4>2. Len(queue) < QCAP
        BY <1>0, <2>1, <2>5, <4>1
      <4>3. Len(queue') = Len(queue) + 1 /\ queue'[Len(queue) + 1] = built[idx]
        BY <1>0, <2>1, <2>2, <4>2, EnqueueOne
      <4>4. Len(queue) + 1 \in 1..Len(queue')
        BY <1>0, <4>3
      <4>. QED  BY <4>1, <4>3, <4>4 DEF StopQueued, Write
    <3>. QED  BY <3>2, <3>3
  <2>6. overrun' = 0 => overrun = 0
    BY <2>1
  <2>. QED  BY <1>3, <2>4, <2>5, <2>6
<1>6. CASE SpeedEnd
  <2>1. idx = N + 1 /\ queue' = queue /\ overrun' = overrun
    BY <1>6 DEF SpeedEnd
  <2>2. idx..N = {}
    BY <1>0, <2>1
  <2>3. \A b \in Belts : ~StopComing(b) /\ (StopQueued(b) => StopQueued(b)')
    BY <2>1, <2>2 DEF StopComing, StopQueued, Write
  <2>. QED  BY <1>3, <2>1, <2>3
<1>. QED  BY <1>4, <1>5, <1>6 DEF Commanded

LEMMA EmergencyStep ==
    ASSUME TypeOK, TypeOK', WalkInv, EmergencyInv, [Next]_vars
    PROVE  EmergencyInv'
<1>. USE DEF bits, outs, inputs, timers, link, walk, devs, gaveup, StopComing
<1>0. /\ cur \in Commands /\ cur.no \in Belts /\ cur.rw \in {0, 1, 2}
      /\ queue \in Seq(Commands) /\ queue' \in Seq(Commands) /\ cur'.no \in Belts
      /\ dev \in [Belts -> {0, 1}] /\ abandoned \in [Belts -> {0, 1}]
  BY CommandFields DEF TypeOK
<1>1. CASE Flush
  <2>1. \A b \in Belts : StopQueued(b)'
    BY <1>1, FlushQueuesAll
  <2>. QED  BY <1>0, <2>1 DEF EmergencyInv, StopQueued, Write
<1>2. CASE Adds
  <2>1. \A b \in Belts : StopQueued(b) => StopQueued(b)'
    BY <1>0, <1>2, ExtendsKeepsStops DEF Adds
  <2>2. UNCHANGED <<emergency, phase, cur, dev, abandoned, overrun>>
    BY <1>2 DEF Adds
  <2>3. \A b \in Belts : InHand(b, FALSE)' <=> InHand(b, FALSE)
    BY <2>2 DEF InHand
  <2>4. \A b \in Belts : StopComing(b) => StopComing(b)'
    BY <1>2 DEF Adds, Write
  <2>. HIDE DEF StopComing
  <2>. QED  BY <2>1, <2>2, <2>3, <2>4 DEF EmergencyInv
<1>3. CASE Take
  <2>1. /\ phase = "idle" /\ phase' = "ready" /\ UNCHANGED <<emergency, dev, abandoned, overrun>>
        /\ mpc = "loop"
    BY <1>3 DEF Take
  <2>2. ASSUME NEW b \in Belts, StopQueued(b)
        PROVE  StopQueued(b)' \/ InHand(b, FALSE)'
    <3>1. CASE cur' = Write(b, 0)
      BY <2>1, <3>1 DEF InHand, Write
    <3>2. CASE cur' # Write(b, 0)
      BY <1>3, <2>2, <3>2, TakeKeepsStops
    <3>. QED  BY <3>1, <3>2
  <2>. QED  BY <2>1, <2>2 DEF EmergencyInv, InHand
<1>4. ASSUME NEW fate \in {"ok", "lost", "unanswered"}, Transmit(fate)
      PROVE  EmergencyInv'
  <2>1. /\ phase = "ready" /\ phase' = IF fate = "ok" THEN "answered" ELSE "silent"
        /\ UNCHANGED <<emergency, queue, cur, abandoned, overrun>> /\ mpc = "loop"
    BY <1>4 DEF Transmit
  <2>2. emergency = 1 => SentGear(cur) = 0
    BY DEF SentGear
  <2>3. ASSUME emergency = 1, phase' = "answered", cur.rw = 1
        PROVE  dev'[cur.no] = 0
    BY <1>0, <1>4, <2>1, <2>2, <2>3, DeviceFacts
  <2>4. ASSUME NEW b \in Belts, overrun = 0, emergency = 1, dev'[b] = 1, abandoned[b] # 1
        PROVE  StopQueued(b)' \/ InHand(b, FALSE)'
    <3>1. dev[b] = 1 /\ (cur.rw = 1 /\ cur.no = b => fate = "lost")
      BY <1>4, <2>2, <2>4, DeviceFacts
    <3>2. StopQueued(b) \/ InHand(b, FALSE)
      BY <2>1, <2>4, <3>1 DEF EmergencyInv
    <3>. QED  BY <2>1, <3>1, <3>2 DEF InHand, StopQueued, Write
  <2>5. ASSUME NEW b \in Belts, emergency = 1, phase' = "answered", cur.rw = 1, cur.no = b
        PROVE  dev'[b] # 1
    BY <2>3, <2>5
  <2>. QED  BY <2>1, <2>4, <2>5 DEF EmergencyInv
<1>5. CASE Acknowledged
  <2>1. /\ phase = "answered" /\ phase' = "idle" /\ UNCHANGED <<emergency, queue, dev, overrun>>
        /\ mpc = "loop"
        /\ \A b \in Belts : ~(cur.rw = 1 /\ b = cur.no) => abandoned'[b] = abandoned[b]
    BY <1>0, <1>5 DEF Acknowledged
  <2>2. ASSUME NEW b \in Belts, overrun = 0, emergency = 1, dev[b] = 1, abandoned'[b] # 1
        PROVE  StopQueued(b)
    <3>1. CASE cur.rw = 1 /\ b = cur.no
      BY <2>1, <2>2, <3>1 DEF EmergencyInv
    <3>2. CASE ~(cur.rw = 1 /\ b = cur.no)
      BY <2>1, <2>2, <3>2 DEF EmergencyInv, InHand
    <3>. QED  BY <3>1, <3>2
  <2>. QED  BY <2>1, <2>2 DEF EmergencyInv, StopQueued
<1>6. CASE StatusStored
  <2>1. /\ phase = "answered" /\ phase' = "idle" /\ UNCHANGED <<emergency, dev, abandoned, overrun>>
        /\ mpc = "status"
        /\ queue' = Enqueue(queue, built)
    BY <1>6 DEF StatusStored, WalkInv
  <2>2. Extends
    <3>1. queue \in Seq(Commands) /\ Len(queue) <= QCAP /\ built \in Seq(Commands)
      BY DEF TypeOK
    <3>2. /\ Len(queue) <= Len(Enqueue(queue, built))
          /\ \A i \in 1..Len(queue) : Enqueue(queue, built)[i] = queue[i]
      BY ONLY <3>1, EnqueueFacts
    <3>. QED  BY ONLY <2>1, <3>2 DEF Extends
  <2>3. \A b \in Belts : StopQueued(b) => StopQueued(b)'
    BY <1>0, <2>2, ExtendsKeepsStops
  <2>. QED  BY <2>1, <2>3 DEF EmergencyInv, InHand
<1>7. CASE Retry
  <2>1. /\ phase = "silent" /\ phase' = "ready"
        /\ UNCHANGED <<emergency, queue, cur, dev, abandoned, overrun>> /\ mpc = "loop"
    BY <1>7 DEF Retry
  <2>. QED  BY <2>1 DEF EmergencyInv, InHand, StopQueued, Write
<1>8. CASE GiveUp
  <2>1. /\ phase = "silent" /\ phase' = "idle" /\ UNCHANGED <<emergency, queue, cur, dev, overrun>>
        /\ mpc = "loop"
    BY <1>8 DEF GiveUp
  <2>2. ASSUME NEW b \in Belts, InHand(b, FALSE) \/ abandoned[b] = 1
        PROVE  abandoned'[b] = 1
    BY <1>0, <1>8, <2>2 DEF GiveUp, InHand
  <2>. QED  BY <2>1, <2>2 DEF EmergencyInv, StopQueued
<1>9. ASSUME NEW d \in Belts, Trip(d)
      PROVE  EmergencyInv'
  <2>1. /\ UNCHANGED <<emergency, queue, phase, cur, abandoned, overrun>> /\ mpc = "loop"
        /\ \A b \in Belts : dev'[b] = 1 => dev[b] = 1
    BY <1>0, <1>9 DEF Trip
  <2>. QED  BY <1>0, <2>1 DEF EmergencyInv, InHand, StopQueued, Write
<1>. QED  BY <1>1, <1>2, <1>3, <1>4, <1>5, <1>6, <1>7, <1>8, <1>9, StepShape,
             EmergencyCommanded

\* For every configuration, and wherever interrupts fall: while the emergency
\* stop is on, each belt that still runs has a write before it, which is sent
\* as a stop (comm_send_rw_comand, modbus_rtu.c 199-340, logic_ctrl.c 451-479).
THEOREM EmergencyIsFinal == Spec => []EmergencyWins
<1>1. Init => EmergencyInv
  BY DEF Init, EmergencyInv, Zero
<1>2. TypeOK /\ TypeOK' /\ WalkInv /\ EmergencyInv /\ [Next]_vars => EmergencyInv'
  BY EmergencyStep
<1>3. EmergencyInv => EmergencyWins
  <2>1. \A b \in Belts : Write(b, 0).rw = 1 /\ Write(b, 0).no = b
    BY DEF Write
  <2>2. \A b \in Belts : StopQueued(b) => WriteQueued(b)
    BY <2>1 DEF StopQueued, WriteQueued
  <2>. QED  BY <2>2 DEF EmergencyInv, EmergencyWins, StopComing
<1>. QED  BY <1>1, <1>2, <1>3, WalkCorrect, PTL DEF Spec
=============================================================================
