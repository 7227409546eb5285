------------------------- MODULE ModbusMasterProofs -------------------------
(***************************************************************************)
(* The RS485 engine is type correct, and it never hangs and never runs two *)
(* timers at once, for every bus, every set of commands and all constants  *)
(* that satisfy TimingOK.                                                  *)
(***************************************************************************)
EXTENDS ModbusMaster, SequenceTheorems, TLAPS

\* An answer is a sequence of bytes, of positive length.
LEMMA AnswerType ==
    ASSUME NEW i \in Inverters, NEW f \in {3, 16}
    PROVE  /\ Answer(i, f) \in Seq(Bytes) /\ Len(Answer(i, f)) = ReplyLen
           /\ \A k \in 1..ReplyLen : Answer(i, f)[k] = [no |-> i, fn |-> f, pos |-> k]
  BY ConstantsAssumption DEF Answer, Bytes

\* What is left on the wire when the time of some inverters is up.
LEMMA SilencedType ==
    ASSUME NEW w \in Seq(Bytes), NEW S
    PROVE  /\ Silenced(w, S) \in Seq(Bytes) /\ Len(Silenced(w, S)) = Len(w)
           /\ \A k \in 1..Len(w) : Silenced(w, S)[k] = IF w[k].no \in S THEN Broken ELSE w[k]
<1>1. \A k \in 1..Len(w) : w[k] \in Bytes /\ Broken \in Bytes
  BY DEF Bytes
<1>. QED  BY <1>1 DEF Silenced

\* The time of an inverter is not lengthened by Settle.
LEMMA SettleType ==
    ASSUME due \in [Inverters -> 0..RECV_WAIT], NEW w, NEW r
    PROVE  /\ Settle(w, r) \in [Inverters -> 0..RECV_WAIT]
           /\ \A i \in Inverters : Settle(w, r)[i] = IF i \in Owing(w, r) THEN due[i] ELSE 0
  BY ConstantsAssumption DEF Settle

\* A taken request is not the current one any more.
LEMMA UntagType ==
    ASSUME NEW r \in Requests
    PROVE  [r EXCEPT !.cur = 0] \in Requests
<1>1. CASE r \in [fn : {3, 16}, cur : {0, 1}]
  BY <1>1 DEF Requests
<1>2. CASE r = None
  BY <1>2 DEF Requests, None
<1>. QED  BY <1>1, <1>2 DEF Requests

\* A step of the engine keeps the engine's own types.
LEMMA EngineTypeStep ==
    ASSUME EngineTypeOK, [Next]_vars
    PROVE  EngineTypeOK'
<1>. USE ConstantsAssumption DEF EngineTypeOK
<1>1. ASSUME NEW c \in Commands, Take(c)
      PROVE  EngineTypeOK'
  <2>1. comm_node' \in [rw_flag : 0..2, inverter_no : Inverters \cup {0},
                        comm_interval : Nat, comm_retry : Nat]
    BY <1>1 DEF Take, Commands
  <2>. QED  BY <1>1, <2>1 DEF Take, PCs
<1>2. CASE Accept
  BY <1>2 DEF Accept, Effective, PCs
<1>3. CASE SetReady
  BY <1>3 DEF SetReady, PCs, CommStates
<1>4. CASE StartSend
  BY <1>4 DEF StartSend, PCs
<1>5. CASE EndSend
  BY <1>5 DEF EndSend, PCs
<1>6. CASE Arm
  <2>1. pc' \in PCs /\ uart1_commu_state' \in CommStates
    BY <1>6 DEF Arm, ArmReceive, PCs, CommStates
  <2>2. uart1_tmr' \in Nat /\ slack' \in 0..MaxPreempt
    BY <1>6 DEF Arm, ArmReceive
  <2>. QED  BY <1>6, <2>1, <2>2 DEF Arm
<1>7. CASE Succeed
  BY <1>7 DEF Succeed
<1>8. CASE Retry
  <2>0. comm_node.comm_retry - 1 \in Nat
    BY <1>8 DEF Retry
  <2>1. comm_node' = [comm_node EXCEPT !.comm_retry = comm_node.comm_retry - 1,
                                       !.comm_interval = RETRY_INTERVAL]
    BY <1>8 DEF Retry, OneLess
  <2>2. comm_node' \in [rw_flag : 0..2, inverter_no : Inverters \cup {0},
                        comm_interval : Nat, comm_retry : Nat]
    BY <2>0, <2>1
  <2>. QED  BY <1>8, <2>2 DEF Retry, PCs
<1>9. CASE GiveUp
  BY <1>9 DEF GiveUp
<1>10. CASE Tick
  <2>1. slack' \in 0..MaxPreempt
    BY <1>10 DEF Tick
  <2>2. comm_node' \in [rw_flag : 0..2, inverter_no : Inverters \cup {0},
                        comm_interval : Nat, comm_retry : Nat]
    BY <1>10 DEF Tick, CountDown
  <2>3. uart1_tmr' \in Nat
    BY <1>10 DEF Tick, CountDown
  <2>4. uart1_commu_state' \in CommStates
    BY <1>10 DEF Tick, CommStates
  <2>. QED  BY <1>10, <2>1, <2>2, <2>3, <2>4 DEF Tick
<1>11. CASE RxByte
  BY <1>11 DEF RxByte
<1>12. CASE Environment
  BY <1>12 DEF Environment, Respond, LoseRequest, Noise, mvars
<1>13. CASE UNCHANGED vars
  BY <1>13 DEF vars, mvars
<1>. QED
  BY <1>1, <1>2, <1>3, <1>4, <1>5, <1>6, <1>7, <1>8, <1>9, <1>10, <1>11,
     <1>12, <1>13 DEF Next, Main

\* ... and the types of the bytes, requests and history.
LEMMA WireTypeStep ==
    ASSUME EngineTypeOK, WireTypeOK, [Next]_vars
    PROVE  WireTypeOK'
<1>. USE ConstantsAssumption DEF WireTypeOK
<1>1. ASSUME NEW c \in Commands, Take(c)
      PROVE  WireTypeOK'
  <2>1. Order(c) \in Orders
    BY DEF Order, Orders, Commands
  <2>2. req' \in [Inverters -> Requests]
    BY <1>1, UntagType DEF Take
  <2>. QED  BY <1>1, <2>1, <2>2 DEF Take
<1>2. CASE EndSend
  <2>1. [fn |-> FuncCode(comm_node.rw_flag), cur |-> 1] \in Requests
    BY DEF FuncCode, Requests
  <2>2. req' \in [Inverters -> Requests]
    BY <1>2, <2>1 DEF EndSend
  <2>3. due' \in [Inverters -> 0..RECV_WAIT]
    <3>1. RECV_WAIT \in 0..RECV_WAIT /\ 0 \in 0..RECV_WAIT
      OBVIOUS
    <3>. QED  BY <1>2, <3>1 DEF EndSend
  <2>. QED  BY <1>2, <2>2, <2>3 DEF EndSend
<1>3. CASE Tick
  <2>1. due' \in [Inverters -> 0..RECV_WAIT]
    <3>1. \A n \in 0..RECV_WAIT : CountDown(n) \in 0..RECV_WAIT
      BY DEF CountDown
    <3>. QED  BY <1>3, <3>1 DEF Tick
  <2>2. wire' \in Seq(Bytes)
    BY <1>3, SilencedType DEF Tick
  <2>. QED  BY <1>3, <2>1, <2>2 DEF Tick, hvars, Requests
<1>4. CASE RxByte
  <2>1. Head(wire) \in Bytes /\ Tail(wire) \in Seq(Bytes)
    BY <1>4 DEF RxByte
  <2>2. recv' = recv \/ recv' = Append(recv, Head(wire))
    BY <1>4 DEF RxByte
  <2>3. recv' \in Seq(Bytes)
    <3>1. Append(recv, Head(wire)) \in Seq(Bytes)
      BY <2>1, AppendProperties, Zenon
    <3>. QED  BY <2>2, <3>1, Zenon
  <2>4. due' \in [Inverters -> 0..RECV_WAIT]
    BY <1>4, SettleType DEF RxByte
  <2>. QED  BY <1>4, <2>1, <2>3, <2>4 DEF RxByte, hvars
<1>5. ASSUME NEW i \in Inverters, Respond(i)
      PROVE  WireTypeOK'
  <2>1. req[i].fn \in {3, 16} /\ req[i].cur \in {0, 1}
    BY <1>5 DEF Respond, Requests, None
  <2>2. Answer(i, req[i].fn) \in Seq(Bytes)
    BY <2>1, AnswerType
  <2>3. wire' = wire \/ wire' = wire \o Answer(i, req[i].fn)
    BY <1>5 DEF Respond
  <2>4. wire' \in Seq(Bytes)
    <3>1. wire \o Answer(i, req[i].fn) \in Seq(Bytes)
      BY <2>2, ConcatProperties, Zenon
    <3>. QED  BY <2>3, <3>1
  <2>5. req' \in [Inverters -> Requests]
    BY <1>5 DEF Respond, Requests
  <2>6. due' \in [Inverters -> 0..RECV_WAIT]
    BY <1>5, SettleType DEF Respond
  <2>. QED  BY <1>5, <2>1, <2>4, <2>5, <2>6 DEF Respond, mvars
<1>6. ASSUME NEW i \in Inverters, LoseRequest(i)
      PROVE  WireTypeOK'
  <2>1. due' \in [Inverters -> 0..RECV_WAIT]
    BY <1>6, SettleType DEF LoseRequest
  <2>. QED  BY <1>6, <2>1 DEF LoseRequest, Requests, mvars, hvars
<1>7. CASE Noise
  <2>1. Append(wire, Broken) \in Seq(Bytes)
    BY DEF Bytes
  <2>. QED  BY <1>7, <2>1 DEF Noise, mvars, hvars
<1>8. CASE SetReady \/ Arm \/ Succeed
  <2>1. recv' = recv \/ recv' = <<>>
    BY <1>8 DEF SetReady, Arm, ArmReceive, Succeed
  <2>2. UNCHANGED <<evars, hvars>>
    BY <1>8 DEF SetReady, Arm, Succeed
  <2>3. recv' \in Seq(Bytes)
    BY <2>1, EmptySeq, Zenon
  <2>. QED  BY <2>2, <2>3 DEF evars, hvars
<1>9. CASE Retry \/ GiveUp
  <2>1. recv' = recv \/ recv' = <<>>
    BY <1>9 DEF Retry, GiveUp
  <2>2. UNCHANGED <<evars, cmd, sent, exec>>
    BY <1>9 DEF Retry, GiveUp
  <2>3. recv' \in Seq(Bytes)
    BY <2>1, EmptySeq, Zenon
  <2>4. disturbed' \subseteq Inverters \cup {0}
    <3>1. comm_node.inverter_no \in Inverters \cup {0}
      BY DEF EngineTypeOK
    <3>2. disturbed' = disturbed \/ disturbed' = disturbed \cup {comm_node.inverter_no}
      BY <1>9 DEF Retry, GiveUp, NoteDisturbance
    <3>. QED  BY <3>1, <3>2, Zenon
  <2>. QED  BY <2>2, <2>3, <2>4 DEF evars
<1>10. CASE Accept \/ StartSend
  BY <1>10 DEF Accept, StartSend, evars, hvars
<1>11. CASE UNCHANGED vars
  BY <1>11 DEF vars, mvars, evars, hvars
<1>. QED
  BY <1>1, <1>2, <1>3, <1>4, <1>5, <1>6, <1>7, <1>8, <1>9, <1>10, <1>11
     DEF Next, Main, Environment

\* Every variable has its type in every state of the engine.
THEOREM TypeCorrect == Spec => []TypeOK
<1>1. Init => TypeOK
  BY ConstantsAssumption
     DEF Init, TypeOK, EngineTypeOK, WireTypeOK, PCs, CommStates, Requests
<1>2. TypeOK /\ [Next]_vars => TypeOK'
  BY EngineTypeStep, WireTypeStep DEF TypeOK
<1>. QED  BY <1>1, <1>2, PTL DEF Spec

-----------------------------------------------------------------------------
\* A step keeps TimerInv if no timer can run out inside a window.
LEMMA TimerStep ==
    ASSUME TimingOK, EngineTypeOK, TimerInv, [Next]_vars
    PROVE  TimerInv'
<1>. USE ConstantsAssumption, TimingOK DEF TimingOK, EngineTypeOK, TimerInv
<1>1. ASSUME NEW c \in Commands, Take(c)
      PROVE  TimerInv'
  BY <1>1 DEF Take, Commands
<1>2. CASE Accept
  BY <1>2 DEF Accept, Effective
<1>3. CASE SetReady
  BY <1>3 DEF SetReady
<1>4. CASE StartSend
  BY <1>4 DEF StartSend
<1>5. CASE EndSend
  BY <1>5 DEF EndSend
<1>6. CASE Arm
  BY <1>6 DEF Arm, ArmReceive
<1>7. CASE Succeed
  BY <1>7 DEF Succeed
<1>8. CASE Retry
  BY <1>8 DEF Retry
<1>9. CASE GiveUp
  BY <1>9 DEF GiveUp
<1>10. CASE Tick
  BY <1>10 DEF Tick, CountDown, TmrExpires, IntervalExpires, OpenPC
<1>11. CASE RxByte
  BY <1>11 DEF RxByte, Listening
<1>12. CASE Environment
  BY <1>12 DEF Environment, Respond, LoseRequest, Noise, mvars
<1>13. CASE UNCHANGED vars
  BY <1>13 DEF vars, mvars
<1>. QED
  BY <1>1, <1>2, <1>3, <1>4, <1>5, <1>6, <1>7, <1>8, <1>9, <1>10, <1>11,
     <1>12, <1>13 DEF Next, Main

\* Under TimingOK each place of the main loop has exactly the timers and the
\* state that TimerInv gives it (modbus_rtu.c, lines 95-131 and 499-545).
THEOREM TimersSound == ASSUME TimingOK PROVE Spec => []TimerInv
<1>1. Init => EngineTypeOK /\ TimerInv
  BY ConstantsAssumption DEF Init, EngineTypeOK, TimerInv, PCs, CommStates
<1>2. EngineTypeOK /\ TimerInv /\ [Next]_vars => EngineTypeOK' /\ TimerInv'
  BY EngineTypeStep, TimerStep
<1>. QED  BY <1>1, <1>2, PTL DEF Spec

\* Under TimingOK the engine never waits for an event that cannot come
\* (modbus_rtu.c, lines 95-113 against 499-545).
THEOREM EngineAlive == ASSUME TimingOK PROVE Spec => []NoHang
<1>1. TypeOK /\ TimerInv => NoHang
  BY ConstantsAssumption, TimingOK
     DEF TimingOK, TypeOK, EngineTypeOK, TimerInv, NoHang, PCs
<1>. QED  BY <1>1, TypeCorrect, TimersSound, PTL

\* Under TimingOK the two timers never run at once, and none runs while the
\* engine is idle or transmitting (modbus_rtu.c, lines 97-112).
THEOREM TimersExclusive == ASSUME TimingOK PROVE Spec => []OneTimer
<1>1. TypeOK /\ TimerInv => OneTimer
  BY ConstantsAssumption, TimingOK
     DEF TimingOK, TypeOK, EngineTypeOK, TimerInv, OneTimer, PCs
<1>. QED  BY <1>1, TypeCorrect, TimersSound, PTL
-----------------------------------------------------------------------------
(* Answers.  The first byte of an answer is followed from the request on,  *)
(* for every inverter that is neither slow nor left with a disturbed wait. *)

First(i, b) == b.no = i /\ b.pos = 1

\* The wait for the answer to the last transmission, or what follows a wait that
\* something else came into.
Awaiting ==
    \/ pc \in {"sent", "armed", "cleared"}
    \/ /\ pc = "loop" /\ comm_busy_flag = 1
       /\ \/ uart1_commu_state = "RECV_DATA"
          \/ uart1_commu_state = "RECV_DATA_END" /\ ~Undisturbed

\* recv holds nothing but what came since the last transmission.
Collecting ==
    \/ pc = "cleared"
    \/ /\ pc = "loop" /\ comm_busy_flag = 1
       /\ uart1_commu_state \in {"RECV_DATA", "RECV_DATA_END"}

Prompt == Inverters \ Slow
Trusted == Prompt \ disturbed

\* Where the first byte of an answer of inverter i can be.
Held(i) == req[i] # None
OnWire(i) == \E k \in 1..Len(wire) : First(i, wire[k])
Got(i) == Collecting /\ \E k \in 1..Len(recv) : First(i, recv[k])
Once(i) == \A k, l \in 1..Len(wire) : First(i, wire[k]) /\ First(i, wire[l]) => k = l

\* It is in one place only, it is waited for, and it is of the command in hand.
Sound(i) ==
    /\ Held(i) \/ OnWire(i) => Awaiting /\ comm_node.inverter_no = i /\ ~Got(i)
    /\ Held(i) => req[i].cur = 1 /\ ~OnWire(i)
    /\ OnWire(i) \/ Got(i) => exec = 1
    /\ Once(i)

\* An inverter whose time is up has nothing left to send.
TimeInv ==
    \A i \in Prompt : due[i] = 0 => ~Held(i) /\ \A k \in 1..Len(wire) : wire[k].no # i

\* As long as nothing has come, the time of the inverter ends with the wait.
Waiting == pc = "loop" /\ comm_busy_flag = 1 /\ uart1_commu_state = "RECV_DATA"
WaitInv ==
    \A i \in Prompt : Waiting /\ comm_node.inverter_no = i /\ recv = <<>> => due[i] <= uart1_tmr

AnswerInv == TimeInv /\ WaitInv /\ \A i \in Trusted : Sound(i)

\* An inverter with no answer on its way is sound if it has no byte in the buffer.
LEMMA ClearIsSound ==
    ASSUME NEW i, ~Held(i), ~OnWire(i), ~Got(i)
    PROVE  Sound(i)
  BY DEF Sound, OnWire, Once

\* Without a wait nothing is on its way.
LEMMA NotAwaited ==
    ASSUME AnswerInv, NEW i \in Trusted, ~Awaiting \/ comm_node.inverter_no # i
    PROVE  ~Held(i) /\ ~OnWire(i)
  BY DEF AnswerInv, Sound

\* No byte is the first of an answer when its inverter's time is up.
LEMMA TimeUpClear ==
    ASSUME AnswerInv, NEW i \in Prompt, due[i] = 0
    PROVE  ~Held(i) /\ ~OnWire(i)
  BY DEF AnswerInv, TimeInv, OnWire, First

\* The time of inverters runs out only with what they have to send.
LEMMA TimeStep ==
    ASSUME TypeOK, AnswerInv, [Next]_vars
    PROVE  TimeInv'
<1>. USE DEF TypeOK, WireTypeOK
<1>0. \A i \in Prompt : i \in Inverters /\ i # 0
  BY ConstantsAssumption DEF Prompt
<1>. SUFFICES ASSUME NEW i \in Prompt, due'[i] = 0
              PROVE  req'[i] = None /\ \A k \in 1..Len(wire') : wire'[k].no # i
  BY DEF TimeInv, Held
<1>a. due[i] = 0 => req[i] = None /\ \A k \in 1..Len(wire) : wire[k].no # i
  BY DEF AnswerInv, TimeInv, Held
<1>1. ASSUME NEW c \in Commands, Take(c)
      PROVE  req'[i] = None /\ \A k \in 1..Len(wire') : wire'[k].no # i
  <2>1. req[i] = None /\ req'[i] = [req[i] EXCEPT !.cur = 0] /\ wire' = wire
    BY <1>0, <1>1, <1>a DEF Take
  <2>. QED  BY <1>1, <1>a, <2>1 DEF Take, None
<1>2. CASE EndSend
  <2>1. comm_node.inverter_no # i
    BY <1>0, <1>2, ConstantsAssumption DEF EndSend, Prompt
  <2>2. due'[i] = due[i] /\ req'[i] = req[i] /\ wire' = wire
    BY <1>0, <1>2, <2>1 DEF EndSend
  <2>. QED  BY <1>a, <2>2
<1>3. CASE Tick
  <2>1. due[i] \in {0, 1}
    BY <1>0, <1>3 DEF Tick, CountDown
  <2>2. wire' = Silenced(wire, TimeUp) /\ req'[i] = IF i \in TimeUp THEN None ELSE req[i]
    BY <1>0, <1>3 DEF Tick
  <2>b. /\ Len(wire') = Len(wire)
        /\ \A k \in 1..Len(wire) : wire'[k] = IF wire[k].no \in TimeUp THEN Broken ELSE wire[k]
    BY <2>2, SilencedType
  <2>c. Broken.no # i
    BY <1>0 DEF Broken
  <2>3. CASE due[i] = 0
    BY <1>a, <2>2, <2>3, <2>b, <2>c
  <2>4. CASE due[i] = 1
    <3>1. i \in TimeUp
      BY <1>0, <2>4 DEF TimeUp
    <3>. QED  BY <2>2, <2>b, <2>c, <3>1
  <2>. QED  BY <2>1, <2>3, <2>4
<1>4. CASE RxByte
  <2>1. wire # <<>> /\ wire' = Tail(wire) /\ due' = Settle(wire', req) /\ req' = req
    BY <1>4 DEF RxByte
  <2>2. i \in Owing(wire', req) => due[i] = 0
    BY <1>0, <2>1, SettleType
  <2>3. Len(Tail(wire)) = Len(wire) - 1 /\ \A k \in 1..Len(Tail(wire)) : Tail(wire)[k] = wire[k + 1]
    BY <2>1
  <2>. QED  BY <1>0, <1>a, <2>1, <2>2, <2>3 DEF Owing
<1>5. ASSUME NEW j \in Inverters, Respond(j) \/ LoseRequest(j)
      PROVE  req'[i] = None /\ \A k \in 1..Len(wire') : wire'[k].no # i
  <2>1. /\ due' = Settle(wire', req')
        /\ req[j] # None /\ req' = [req EXCEPT ![j] = None]
    BY <1>5 DEF Respond, LoseRequest
  <2>2. CASE i \notin Owing(wire', req')
    BY <1>0, <2>2 DEF Owing
  <2>3. CASE i \in Owing(wire', req')
    <3>1. due[i] = 0
      BY <1>0, <2>1, <2>3, SettleType
    <3>2. i # j
      BY <1>a, <2>1, <3>1
    <3>3. req'[i] = None
      BY <1>0, <1>a, <2>1, <3>1, <3>2
    <3>4. CASE wire' = wire
      BY <1>a, <3>1, <3>3, <3>4
    <3>5. CASE wire' = wire \o Answer(j, req[j].fn)
      <4>1. req[j].fn \in {3, 16}
        BY <2>1 DEF Requests, None
      <4>2. /\ Answer(j, req[j].fn) \in Seq(Bytes) /\ Len(Answer(j, req[j].fn)) = ReplyLen
            /\ \A k \in 1..ReplyLen : Answer(j, req[j].fn)[k].no = j
        <5>1. \A k \in 1..ReplyLen :
                 Answer(j, req[j].fn)[k] = [no |-> j, fn |-> req[j].fn, pos |-> k]
          BY <4>1, AnswerType
        <5>2. ASSUME NEW k \in 1..ReplyLen PROVE Answer(j, req[j].fn)[k].no = j
          <6>. DEFINE b == Answer(j, req[j].fn)[k]
          <6>1. b = [no |-> j, fn |-> req[j].fn, pos |-> k]
            BY <5>1
          <6>. QED  BY <6>1
        <5>3. Answer(j, req[j].fn) \in Seq(Bytes) /\ Len(Answer(j, req[j].fn)) = ReplyLen
          BY <4>1, AnswerType
        <5>. QED  BY <5>2, <5>3
      <4>3. \A k \in 1..Len(wire') : \/ k \in 1..Len(wire) /\ wire'[k] = wire[k]
                                     \/ \E l \in 1..ReplyLen : wire'[k] = Answer(j, req[j].fn)[l]
        BY <3>5, <4>2, ConcatProperties
      <4>. QED  BY <1>a, <3>1, <3>2, <3>3, <4>2, <4>3
    <3>. QED  BY <1>5, <3>4, <3>5 DEF Respond, LoseRequest
  <2>. QED  BY <2>2, <2>3
<1>6. CASE Noise
  <2>1. wire' = Append(wire, Broken) /\ due' = due /\ req' = req
    BY <1>6 DEF Noise
  <2>. QED  BY <1>0, <1>a, <2>1 DEF Broken
<1>7. CASE \/ Accept \/ SetReady \/ StartSend \/ Arm \/ Succeed \/ Retry \/ GiveUp \/ UNCHANGED vars
  <2>1. UNCHANGED evars
    BY <1>7 DEF Accept, SetReady, StartSend, Arm, Succeed, Retry, GiveUp, vars
  <2>. QED  BY <1>a, <2>1 DEF evars
<1>. QED
  BY <1>1, <1>2, <1>3, <1>4, <1>5, <1>6, <1>7 DEF Next, Main, Environment

\* The wait is not shorter than the time of its inverter while nothing has come.
LEMMA WaitStep ==
    ASSUME TypeOK, TimerInv, AnswerInv, [Next]_vars
    PROVE  WaitInv'
<1>. USE DEF TypeOK, WireTypeOK, EngineTypeOK
<1>0. Prompt \subseteq Inverters
  BY DEF Prompt
<1>. SUFFICES ASSUME NEW i \in Prompt, Waiting', comm_node'.inverter_no = i, recv' = <<>>
              PROVE  due'[i] <= uart1_tmr'
  BY DEF WaitInv
<1>a. Waiting /\ comm_node.inverter_no = i /\ recv = <<>> => due[i] <= uart1_tmr
  BY DEF AnswerInv, WaitInv
<1>1. CASE \E c \in Commands : Take(c)
  BY <1>1 DEF Take, Waiting
<1>2. CASE Accept \/ SetReady \/ StartSend \/ EndSend \/ Succeed \/ Retry \/ GiveUp
  BY <1>2 DEF Accept, SetReady, StartSend, EndSend, Succeed, Retry, GiveUp, Waiting
<1>3. CASE Arm
  <2>1. uart1_tmr' = RECV_WAIT /\ due' = due
    BY <1>3 DEF Arm, ArmReceive, Waiting, evars
  <2>. QED  BY <1>0, <2>1, ConstantsAssumption
<1>4. CASE Tick
  <2>1. Waiting /\ comm_node.inverter_no = i /\ recv = <<>> /\ uart1_tmr # 1
    BY <1>4 DEF Tick, Waiting, TmrExpires, IntervalExpires
  <2>2. uart1_tmr > 0
    BY <2>1 DEF TimerInv, Waiting
  <2>3. due'[i] = CountDown(due[i]) /\ uart1_tmr' = uart1_tmr - 1
    BY <1>0, <1>4, <2>2 DEF Tick, CountDown
  <2>. QED  BY <1>0, <1>a, <2>1, <2>2, <2>3 DEF CountDown
<1>5. CASE RxByte
  <2>1. Listening
    BY <1>5 DEF RxByte, Waiting, Listening
  <2>2. recv' = (IF Len(recv) < BUFF_SIZE THEN Append(recv, Head(wire)) ELSE recv)
    BY <1>5, <2>1 DEF RxByte
  <2>. QED  BY <2>2, ConstantsAssumption
<1>6. CASE Environment
  <2>1. UNCHANGED mvars
    BY <1>6 DEF Environment, Respond, LoseRequest, Noise
  <2>2. due'[i] = due[i] \/ due'[i] = 0
    BY <1>0, <1>6, SettleType DEF Environment, Respond, LoseRequest, Noise
  <2>. QED  BY <1>a, <2>1, <2>2 DEF mvars, Waiting
<1>7. CASE UNCHANGED vars
  BY <1>7, <1>a DEF vars, mvars, evars, Waiting
<1>. QED  BY <1>1, <1>2, <1>3, <1>4, <1>5, <1>6, <1>7 DEF Next, Main

\* At the end of an undisturbed wait the inverter has answered, or its time is up.
LEMMA ExpirySound ==
    ASSUME TypeOK, TimerInv, AnswerInv, Tick, NEW i \in Trusted, Sound(i),
           i \notin TimeUp, Held(i) \/ OnWire(i)
    PROVE  Awaiting' /\ comm_node'.inverter_no = i
<1>. USE DEF TypeOK, WireTypeOK, EngineTypeOK
<1>0. i \in Prompt /\ i \in Inverters /\ i \notin Slow
  BY DEF Trusted, Prompt
<1>1. Awaiting /\ comm_node.inverter_no = i /\ ~Got(i)
  BY DEF Sound
<1>2. /\ UNCHANGED <<pc, comm_busy_flag, recv>>
      /\ comm_node'.inverter_no = comm_node.inverter_no
      /\ comm_node'.rw_flag = comm_node.rw_flag
  BY DEF Tick
<1>3. Undisturbed' = Undisturbed
  BY <1>2 DEF Undisturbed, Awaited
<1>4. CASE pc \in {"sent", "armed", "cleared"}
  BY <1>1, <1>2, <1>4 DEF Awaiting
<1>5. CASE pc = "loop" /\ comm_busy_flag = 1 /\ uart1_commu_state = "RECV_DATA_END" /\ ~Undisturbed
  <2>1. uart1_tmr = 0 /\ comm_node.comm_interval = 0
    BY <1>5 DEF TimerInv
  <2>2. uart1_commu_state' = uart1_commu_state
    BY <2>1 DEF Tick, TmrExpires, IntervalExpires
  <2>. QED  BY <1>1, <1>2, <1>3, <1>5, <2>2 DEF Awaiting
<1>6. CASE pc = "loop" /\ comm_busy_flag = 1 /\ uart1_commu_state = "RECV_DATA"
  <2>1. comm_node.comm_interval = 0
    BY <1>6 DEF TimerInv
  <2>2. CASE uart1_tmr # 1
    <3>1. uart1_commu_state' = uart1_commu_state
      BY <2>1, <2>2 DEF Tick, TmrExpires, IntervalExpires
    <3>. QED  BY <1>1, <1>2, <1>6, <3>1 DEF Awaiting
  <2>3. CASE uart1_tmr = 1
    <3>1. uart1_commu_state' = "RECV_DATA_END"
      BY <2>1, <2>3 DEF Tick, TmrExpires, IntervalExpires
    <3>2. recv # <<>>
      <4>1. SUFFICES ASSUME recv = <<>> PROVE FALSE
        OBVIOUS
      <4>2. due[i] <= 1
        BY <1>0, <1>1, <1>6, <2>3, <4>1 DEF AnswerInv, WaitInv, Waiting
      <4>3. due[i] # 0
        BY <1>0, TimeUpClear
      <4>4. due[i] = 1
        BY <1>0, <4>2, <4>3
      <4>. QED  BY <1>0, <4>4 DEF TimeUp
    <3>3. ~Undisturbed
      <4>1. SUFFICES ASSUME Undisturbed PROVE FALSE
        OBVIOUS
      <4>2. 1 \in 1..Len(recv) /\ 1 \in 1..ReplyLen
        BY <3>2, ConstantsAssumption
      <4>3. recv[1] = Awaited[1]
        BY <4>1, <4>2 DEF Undisturbed
      <4>4. FuncCode(comm_node.rw_flag) \in {3, 16}
        BY DEF FuncCode
      <4>5. First(i, recv[1])
        <5>1. Awaited[1] = [no |-> i, fn |-> FuncCode(comm_node.rw_flag), pos |-> 1]
          <6>1. \A f \in {3, 16} : Answer(i, f)[1] = [no |-> i, fn |-> f, pos |-> 1]
            BY <1>0, <4>2, AnswerType
          <6>. QED  BY <1>1, <4>4, <6>1 DEF Awaited
        <5>. QED  BY <4>3, <5>1 DEF First
      <4>. QED  BY <1>1, <1>6, <4>2, <4>5 DEF Got, Collecting
    <3>. QED  BY <1>1, <1>2, <1>3, <1>6, <3>1, <3>3 DEF Awaiting
  <2>. QED  BY <2>2, <2>3
<1>. QED  BY <1>1, <1>4, <1>5, <1>6 DEF Awaiting

\* A tick keeps the answers sound.
LEMMA TickSound ==
    ASSUME TypeOK, TimerInv, AnswerInv, Tick, NEW i \in Trusted
    PROVE  Sound(i)'
<1>. USE DEF TypeOK, WireTypeOK, EngineTypeOK
<1>0. Sound(i) /\ i \in Inverters /\ i # 0
  BY ConstantsAssumption DEF AnswerInv, Trusted, Prompt
<1>1. /\ UNCHANGED <<pc, comm_busy_flag, recv, exec>>
      /\ wire' = Silenced(wire, TimeUp)
      /\ req'[i] = IF i \in TimeUp THEN None ELSE req[i]
  BY <1>0 DEF Tick, hvars
<1>2. Len(wire') = Len(wire)
      /\ \A k \in 1..Len(wire) : First(i, wire'[k]) => First(i, wire[k]) /\ i \notin TimeUp
  <2>1. /\ Len(wire') = Len(wire)
        /\ \A k \in 1..Len(wire) : wire'[k] = IF wire[k].no \in TimeUp THEN Broken ELSE wire[k]
    BY <1>1, SilencedType
  <2>2. Broken.no # i
    BY <1>0 DEF Broken
  <2>. QED  BY <2>1, <2>2 DEF First
<1>3. Collecting' => Collecting
  BY <1>1, ConstantsAssumption DEF Tick, TmrExpires, IntervalExpires, TimerInv, Collecting
<1>4. Got(i)' => Got(i)
  BY <1>1, <1>3 DEF Got
<1>5. /\ Held(i)' => Held(i) /\ i \notin TimeUp
      /\ OnWire(i)' => OnWire(i) /\ i \notin TimeUp
      /\ Once(i)'
  <2>1. Once(i)
    BY <1>0 DEF Sound
  <2>2. Once(i)'
    BY <1>2, <2>1 DEF Once
  <2>3. Held(i)' => Held(i) /\ i \notin TimeUp
    BY <1>1 DEF Held
  <2>. QED  BY <1>2, <2>2, <2>3 DEF OnWire
<1>6. Held(i)' \/ OnWire(i)' => Awaiting' /\ comm_node'.inverter_no = i
  BY <1>0, <1>5, ExpirySound
<1>7. Held(i)' => req'[i] = req[i]
  BY <1>1, <1>5
<1>. QED  BY <1>0, <1>1, <1>4, <1>5, <1>6, <1>7 DEF Sound

\* A byte that arrives keeps them sound: the first byte of an answer goes from the
\* wire into the buffer, or is dropped.
LEMMA ByteSound ==
    ASSUME TypeOK, TimerInv, AnswerInv, RxByte, NEW i \in Trusted
    PROVE  Sound(i)'
<1>. USE DEF TypeOK, WireTypeOK, EngineTypeOK
<1>0. Sound(i)
  BY DEF AnswerInv
<1>1. /\ wire # <<>> /\ wire' = Tail(wire)
      /\ UNCHANGED <<pc, comm_busy_flag, comm_node, uart1_commu_state, req, exec>>
  BY DEF RxByte, hvars
<1>2. /\ Len(Tail(wire)) = Len(wire) - 1 /\ Len(wire) \in Nat \ {0}
      /\ \A k \in 1..Len(Tail(wire)) : Tail(wire)[k] = wire[k + 1]
      /\ Head(wire) = wire[1] /\ Head(wire) \in Bytes /\ 1 \in 1..Len(wire)
  BY <1>1
<1>3. Awaiting => Awaiting'
  <2>1. uart1_commu_state = "RECV_DATA_END" => recv' = recv
    BY DEF RxByte, Listening
  <2>2. uart1_commu_state = "RECV_DATA_END" => Undisturbed' = Undisturbed
    BY <1>1, <2>1 DEF Undisturbed, Awaited
  <2>. QED  BY <1>1, <2>2 DEF Awaiting
<1>4. Collecting' = Collecting
  BY <1>1 DEF Collecting
<1>5. Once(i)' /\ (OnWire(i)' => OnWire(i) /\ ~First(i, Head(wire)))
  <2>1. Once(i)
    BY <1>0 DEF Sound
  <2>2. Once(i)'
    <3>1. ASSUME NEW k \in 1..Len(wire'), NEW l \in 1..Len(wire'),
                 First(i, wire'[k]), First(i, wire'[l])
          PROVE  k = l
      <4>1. k + 1 \in 1..Len(wire) /\ l + 1 \in 1..Len(wire)
        BY <1>1, <1>2
      <4>2. First(i, wire[k + 1]) /\ First(i, wire[l + 1])
        BY <1>1, <1>2, <3>1
      <4>3. k + 1 = l + 1
        BY <2>1, <4>1, <4>2 DEF Once
      <4>. QED  BY <4>3
    <3>. QED  BY <3>1 DEF Once
  <2>3. ASSUME NEW k \in 1..Len(wire'), First(i, wire'[k])
        PROVE  OnWire(i) /\ ~First(i, Head(wire))
    <3>1. k + 1 \in 1..Len(wire) /\ First(i, wire[k + 1]) /\ k + 1 # 1
      BY <1>1, <1>2, <2>3
    <3>2. OnWire(i)
      BY <3>1 DEF OnWire
    <3>3. ~First(i, wire[1])
      BY <1>2, <2>1, <3>1 DEF Once
    <3>. QED  BY <1>2, <3>2, <3>3
  <2>. QED  BY <2>2, <2>3 DEF OnWire
<1>6. recv' = recv \/ recv' = Append(recv, Head(wire))
  BY DEF RxByte
<1>7. Got(i)' => Got(i) \/ First(i, Head(wire))
  <2>1. CASE recv' = recv
    BY <1>4, <2>1 DEF Got
  <2>2. CASE recv' = Append(recv, Head(wire))
    <3>1. /\ Len(recv') = Len(recv) + 1 /\ Len(recv) \in Nat
          /\ \A k \in 1..Len(recv) : recv'[k] = recv[k]
          /\ recv'[Len(recv) + 1] = Head(wire)
      BY <1>2, <2>2
    <3>. QED  BY <1>4, <3>1 DEF Got
  <2>. QED  BY <1>6, <2>1, <2>2
<1>8. First(i, Head(wire)) => OnWire(i)
  BY <1>2 DEF OnWire
<1>9. Held(i)' = Held(i) /\ req'[i] = req[i]
  BY <1>1 DEF Held
<1>. QED
  BY <1>0, <1>1, <1>3, <1>5, <1>7, <1>8, <1>9 DEF Sound

\* An answer keeps them sound.
LEMMA RespondSound ==
    ASSUME TypeOK, AnswerInv, NEW j \in Inverters, Respond(j), NEW i \in Trusted
    PROVE  Sound(i)'
<1>. USE DEF TypeOK, WireTypeOK, EngineTypeOK
<1>0. Sound(i) /\ i \in Inverters
  BY DEF AnswerInv, Trusted, Prompt
<1>1. /\ req[j] # None /\ req' = [req EXCEPT ![j] = None]
      /\ UNCHANGED <<pc, comm_busy_flag, comm_node, uart1_commu_state, recv>>
      /\ exec' = IF req[j].cur = 1 THEN 1 ELSE exec
  BY DEF Respond, mvars
<1>2. Awaiting' = Awaiting /\ Got(i)' = Got(i)
  BY <1>1 DEF Awaiting, Undisturbed, Awaited, Got, Collecting
<1>3. exec = 1 => exec' = 1
  BY <1>1
<1>4. CASE wire' = wire
  <2>1. OnWire(i)' = OnWire(i) /\ Once(i)' = Once(i)
    BY <1>4 DEF OnWire, Once
  <2>2. Held(i)' => Held(i) /\ req'[i] = req[i]
    BY <1>0, <1>1 DEF Held
  <2>. QED  BY <1>0, <1>1, <1>2, <1>3, <2>1, <2>2 DEF Sound
<1>5. CASE wire' = wire \o Answer(j, req[j].fn)
  <2>1. req[j].fn \in {3, 16}
    BY <1>1 DEF Requests, None
  <2>2. /\ Answer(j, req[j].fn) \in Seq(Bytes) /\ Len(Answer(j, req[j].fn)) = ReplyLen
        /\ \A k \in 1..ReplyLen : Answer(j, req[j].fn)[k] = [no |-> j, fn |-> req[j].fn, pos |-> k]
    BY <2>1, AnswerType
  <2>3. /\ Len(wire') = Len(wire) + ReplyLen /\ Len(wire) \in Nat
        /\ \A k \in 1..Len(wire') : wire'[k] =
              IF k <= Len(wire) THEN wire[k] ELSE Answer(j, req[j].fn)[k - Len(wire)]
    <3>1. /\ Len(wire') = Len(wire) + Len(Answer(j, req[j].fn)) /\ Len(wire) \in Nat
          /\ \A k \in 1..(Len(wire) + Len(Answer(j, req[j].fn))) : wire'[k] =
                IF k <= Len(wire) THEN wire[k] ELSE Answer(j, req[j].fn)[k - Len(wire)]
      BY <1>5, <2>2
    <3>. QED  BY <2>2, <3>1
  <2>4. ASSUME NEW k \in 1..Len(wire'), First(i, wire'[k])
        PROVE  \/ k \in 1..Len(wire) /\ First(i, wire[k])
               \/ i = j /\ k = Len(wire) + 1
    <3>1. CASE k <= Len(wire)
      BY <2>3, <2>4, <3>1
    <3>2. CASE k > Len(wire)
      <4>1. k - Len(wire) \in 1..ReplyLen /\ wire'[k] = Answer(j, req[j].fn)[k - Len(wire)]
        BY <2>3, <3>2, ConstantsAssumption
      <4>2. wire'[k].no = j /\ wire'[k].pos = k - Len(wire)
        <5>. DEFINE l == k - Len(wire)
        <5>1. wire'[k] = [no |-> j, fn |-> req[j].fn, pos |-> l]
          BY <2>2, <4>1
        <5>. QED  BY <5>1
      <4>. QED  BY <2>3, <2>4, <4>2 DEF First
    <3>. QED  BY <2>3, <3>1, <3>2, ConstantsAssumption
  <2>5. CASE i # j
    <3>1. /\ OnWire(i)' => OnWire(i)
          /\ Held(i)' = Held(i) /\ req'[i] = req[i]
      BY <1>0, <1>1, <2>4, <2>5 DEF OnWire, Held
    <3>2. Once(i)'
      BY <1>0, <2>4, <2>5 DEF Sound, Once
    <3>. QED  BY <1>0, <1>1, <1>2, <1>3, <3>1, <3>2 DEF Sound
  <2>6. CASE i = j
    <3>1. Held(i) /\ ~OnWire(i) /\ Awaiting /\ comm_node.inverter_no = i /\ ~Got(i) /\ req[i].cur = 1
      BY <1>0, <1>1, <2>6 DEF Sound, Held
    <3>2. ~Held(i)' /\ exec' = 1
      BY <1>0, <1>1, <2>6, <3>1 DEF Held
    <3>3. \A k \in 1..Len(wire') : First(i, wire'[k]) => k = Len(wire) + 1
      BY <2>4, <3>1 DEF OnWire
    <3>4. Once(i)'
      BY <3>3 DEF Once
    <3>. QED  BY <1>1, <1>2, <3>1, <3>2, <3>4 DEF Sound
  <2>. QED  BY <2>5, <2>6
<1>. QED  BY <1>4, <1>5 DEF Respond

\* A step of the engine keeps its answers sound.
LEMMA AnswerStep ==
    ASSUME TypeOK, TimerInv, AnswerInv, [Next]_vars
    PROVE  AnswerInv'
<1>. USE DEF TypeOK, EngineTypeOK, WireTypeOK
<1>. SUFFICES ASSUME NEW i \in Inverters, i \notin Slow, i \notin disturbed'
              PROVE  Sound(i)'
  BY TimeStep, WaitStep DEF AnswerInv, Trusted, Prompt
<1>0. disturbed' = disturbed => i \in Trusted
  BY DEF Trusted, Prompt
<1>1. ASSUME NEW c \in Commands, Take(c)
      PROVE  Sound(i)'
  <2>1. ~Held(i) /\ ~OnWire(i)
    <3>1. CASE i \in Trusted
      BY <1>1, <3>1, NotAwaited DEF Take, Awaiting
    <3>2. CASE i \notin Trusted
      <4>1. i \in Prompt /\ due[i] = 0
        BY <1>1, <3>2 DEF Take, Trusted, Prompt
      <4>. QED  BY <4>1, TimeUpClear
    <3>. QED  BY <3>1, <3>2
  <2>2. ~Held(i)'
    <3>1. req'[i] = [req[i] EXCEPT !.cur = 0] /\ req[i] = None
      BY <1>1, <2>1 DEF Take, Held
    <3>. QED  BY <3>1 DEF Held, None
  <2>3. ~OnWire(i)' /\ ~Got(i)'
    BY <1>1, <2>1 DEF Take, OnWire, Got, Collecting
  <2>4. (Held(i) \/ OnWire(i))' => FALSE
    BY <2>2, <2>3
  <2>. QED  BY <2>2, <2>3 DEF Sound, OnWire, Once
<1>2. CASE Accept \/ StartSend \/ SetReady
  <2>1. ~Awaiting /\ ~Collecting' /\ UNCHANGED <<wire, req, disturbed>>
    BY <1>2 DEF Accept, StartSend, SetReady, TimerInv, Awaiting, Collecting, evars, hvars
  <2>2. ~Held(i) /\ ~OnWire(i)
    BY <1>0, <2>1, NotAwaited
  <2>. QED  BY <2>1, <2>2 DEF Sound, Held, OnWire, Got, Once
<1>3. CASE EndSend
  <2>1. ~Awaiting /\ Awaiting' /\ ~Collecting' /\ UNCHANGED <<wire, disturbed, comm_node>>
    BY <1>3 DEF EndSend, Awaiting, Collecting
  <2>2. ~Held(i) /\ ~OnWire(i)
    BY <1>0, <2>1, NotAwaited
  <2>3. Held(i)' => i = comm_node.inverter_no /\ req'[i].cur = 1
    BY <1>3, <2>2 DEF EndSend, Held
  <2>. QED  BY <2>1, <2>2, <2>3 DEF Sound, OnWire, Got, Once
<1>4. CASE Arm
  <2>1. Awaiting' /\ UNCHANGED <<wire, req, exec, disturbed, comm_node>>
    BY <1>4 DEF Arm, ArmReceive, TimerInv, Awaiting, evars, hvars
  <2>2. Collecting' => recv' = <<>> \/ (recv' = recv /\ Collecting)
    BY <1>4 DEF Arm, ArmReceive, Collecting
  <2>3. Got(i)' => Got(i)
    BY <2>2 DEF Got
  <2>4. Sound(i)
    BY <1>0, <2>1 DEF AnswerInv
  <2>. QED  BY <2>1, <2>3, <2>4 DEF Sound, Held, OnWire, Once
<1>5. CASE Succeed \/ Retry \/ GiveUp
  <2>1. ~Collecting' /\ UNCHANGED <<wire, req>>
    BY <1>5 DEF Succeed, Retry, GiveUp, Collecting, evars
  <2>2. i \in Trusted
    BY <1>5 DEF Succeed, Retry, GiveUp, hvars, NoteDisturbance, Trusted, Prompt
  <2>3. comm_node.inverter_no = i => Undisturbed
    <3>1. CASE Retry \/ GiveUp
      BY <3>1 DEF Retry, GiveUp, NoteDisturbance
    <3>2. CASE Succeed
      <4>1. ValidReply
        BY <3>2 DEF Succeed
      <4>2. FuncCode(comm_node.rw_flag) \in {3, 16}
        BY DEF FuncCode
      <4>3. comm_node.inverter_no = i => Len(Awaited) = ReplyLen
        BY <4>2, AnswerType DEF Awaited
      <4>. QED  BY <4>1, <4>3, ConstantsAssumption DEF ValidReply, Undisturbed
    <3>. QED  BY <1>5, <3>1, <3>2
  <2>4. ~Awaiting \/ comm_node.inverter_no # i
    BY <1>5, <2>3 DEF Succeed, Retry, GiveUp, Awaiting
  <2>5. ~Held(i) /\ ~OnWire(i)
    BY <2>2, <2>4, NotAwaited
  <2>. QED  BY <2>1, <2>5 DEF Sound, Held, OnWire, Got, Once
<1>6. CASE Tick
  BY <1>0, <1>6, TickSound DEF Tick, hvars
<1>7. CASE RxByte
  BY <1>0, <1>7, ByteSound DEF RxByte, hvars
<1>8. ASSUME NEW j \in Inverters, Respond(j)
      PROVE  Sound(i)'
  BY <1>0, <1>8, RespondSound DEF Respond
<1>9. ASSUME NEW j \in Inverters, LoseRequest(j)
      PROVE  Sound(i)'
  <2>1. /\ UNCHANGED <<pc, comm_busy_flag, uart1_commu_state, comm_node, recv, wire, exec, disturbed>>
        /\ req' = [req EXCEPT ![j] = None]
    BY <1>9 DEF LoseRequest, mvars, hvars
  <2>2. /\ Awaiting' = Awaiting /\ Got(i)' = Got(i) /\ OnWire(i)' = OnWire(i)
        /\ Once(i)' = Once(i)
    BY <2>1 DEF Awaiting, Undisturbed, Awaited, Got, Collecting, OnWire, Once
  <2>3. Held(i)' => Held(i) /\ req'[i] = req[i]
    BY <2>1 DEF Held
  <2>4. Sound(i)
    BY <1>0, <2>1 DEF AnswerInv
  <2>. QED  BY <2>1, <2>2, <2>3, <2>4 DEF Sound
<1>10. CASE Noise
  <2>1. /\ wire' = Append(wire, Broken)
        /\ UNCHANGED <<pc, comm_busy_flag, uart1_commu_state, comm_node, recv, req, exec, disturbed>>
    BY <1>10 DEF Noise, mvars, hvars
  <2>2. Awaiting' = Awaiting /\ Got(i)' = Got(i) /\ Held(i)' = Held(i)
    BY <2>1 DEF Awaiting, Undisturbed, Awaited, Got, Collecting, Held
  <2>3. \A k \in 1..Len(wire') : First(i, wire'[k]) => k \in 1..Len(wire) /\ First(i, wire[k])
    BY <2>1 DEF First, Broken
  <2>4. Sound(i)
    BY <1>0, <2>1 DEF AnswerInv
  <2>5. (OnWire(i)' => OnWire(i)) /\ Once(i)'
    BY <2>3, <2>4 DEF OnWire, Once, Sound
  <2>. QED  BY <2>1, <2>2, <2>4, <2>5 DEF Sound
<1>11. CASE UNCHANGED vars
  <2>1. Sound(i)
    BY <1>0, <1>11 DEF AnswerInv, vars, hvars
  <2>. QED
    BY <1>11, <2>1 DEF vars, mvars, evars, hvars, Sound, Held, OnWire, Got, Once, Awaiting,
         Collecting, Undisturbed, Awaited
<1>. QED
  BY <1>1, <1>2, <1>3, <1>4, <1>5, <1>6, <1>7, <1>8, <1>9, <1>10, <1>11
     DEF Next, Main, Environment

\* Hence the answer that ends a command is its own.
LEMMA PromptAnswer ==
    ASSUME TypeOK, AnswerInv
    PROVE  AckMeansExecuted
<1>. USE DEF TypeOK, EngineTypeOK
<1>. SUFFICES ASSUME pc = "loop", comm_busy_flag = 1,
                     uart1_commu_state = "RECV_DATA_END",
                     ValidReply, comm_node.inverter_no \notin Slow \cup disturbed,
                     comm_node.inverter_no \in Inverters
              PROVE  exec = 1
  <2>1. comm_node.inverter_no \in Inverters \/ comm_node.inverter_no = 0
    OBVIOUS
  <2>2. CASE comm_node.inverter_no = 0 /\ ValidReply
    <3>1. 1 \in 1..ReplyLen /\ recv = Answer(0, FuncCode(comm_node.rw_flag))
      BY <2>2, ConstantsAssumption DEF ValidReply, Awaited
    <3>2. recv[1].no = 0 /\ recv[1].pos = 1 /\ Len(recv) = ReplyLen
      BY <3>1, ConstantsAssumption DEF Answer
    <3>3. recv[1] \in Bytes
      BY <3>1, <3>2 DEF WireTypeOK
    <3>. QED  BY <3>2, <3>3, ConstantsAssumption DEF Bytes, Broken
  <2>. QED  BY <2>1, <2>2 DEF AckMeansExecuted
<1>. DEFINE i == comm_node.inverter_no
<1>1. i \in Trusted
  BY DEF Trusted, Prompt
<1>2. FuncCode(comm_node.rw_flag) \in {3, 16}
  BY DEF FuncCode
<1>3. Len(recv) = ReplyLen /\ 1 \in 1..ReplyLen /\ First(i, recv[1])
  <2>1. recv = Answer(i, FuncCode(comm_node.rw_flag)) /\ 1 \in 1..ReplyLen
    BY ConstantsAssumption DEF ValidReply, Awaited
  <2>2. recv[1] = [no |-> i, fn |-> FuncCode(comm_node.rw_flag), pos |-> 1] /\ Len(recv) = ReplyLen
    BY <1>2, <2>1, AnswerType
  <2>. QED  BY <2>1, <2>2 DEF First
<1>4. Got(i)
  BY <1>3 DEF Got, Collecting
<1>. QED  BY <1>1, <1>4 DEF AnswerInv, Sound

\* Under TimingOK, for every bus and all commands, a command to an inverter that
\* answers in time is reported as carried out only if it was, whatever came into
\* the wait for it, unless something else came into an earlier wait for the same
\* inverter less than RECV_WAIT before (modbus_rtu.c, lines 389-400 and 435-439).
THEOREM AckIsHonest == ASSUME TimingOK PROVE Spec => []AckMeansExecuted
<1>1. Init => AnswerInv
  BY DEF Init, AnswerInv, TimeInv, WaitInv, Waiting, Sound, Held, OnWire, Got, Once,
         Collecting, Awaiting, Trusted, Prompt
<1>2. TypeOK /\ TimerInv /\ AnswerInv /\ [Next]_vars => AnswerInv'
  BY AnswerStep
<1>3. TypeOK /\ AnswerInv => AckMeansExecuted
  BY PromptAnswer
<1>. QED  BY <1>1, <1>2, <1>3, TypeCorrect, TimersSound, PTL DEF Spec
-----------------------------------------------------------------------------
(* The engine as an implementation of CommandLink.                         *)

\* The command in hand is still to be transmitted, or has been.
Unsent ==
    \/ pc \in {"copied", "taken", "rearm", "sending"}
    \/ /\ pc = "loop" /\ comm_busy_flag = 1
       /\ uart1_commu_state \in {"SEND_READY", "SEND_DATA"}

Transmitted ==
    \/ pc \in {"sent", "armed", "cleared"}
    \/ /\ pc = "loop" /\ comm_busy_flag = 1
       /\ uart1_commu_state \in {"RECV_DATA", "RECV_DATA_END"}

\* Inductive: transmissions and retries left add up to those of the command as
\* it was queued, and comm_node still names its inverter.
CountInv ==
    /\ Unsent => sent + comm_node.comm_retry = cmd.comm_retry
    /\ Transmitted => sent > 0 /\ sent + comm_node.comm_retry = cmd.comm_retry + 1
    /\ pc = "copied" => comm_busy_flag = 0
    /\ pc # "loop" \/ comm_busy_flag = 1 => comm_node.inverter_no = cmd.inverter_no
    /\ \A i \in Inverters : req[i].cur = 1 => sent > 0

\* What a queued command is made of.
LEMMA CommandFields ==
    ASSUME NEW c \in Commands
    PROVE  c.comm_retry \in Nat /\ c.inverter_no \in Inverters
  BY ConstantsAssumption DEF Commands

LEMMA OrderFields ==
    ASSUME NEW o \in Orders
    PROVE  o.comm_retry \in Nat /\ o.inverter_no \in Inverters
  BY ConstantsAssumption DEF Orders

\* A step keeps the count.
LEMMA CountStep ==
    ASSUME TypeOK, TimerInv, CountInv, [Next]_vars
    PROVE  CountInv'
<1>. USE DEF TypeOK, EngineTypeOK, WireTypeOK
<1>0. cmd.comm_retry \in Nat /\ comm_node.comm_retry \in Nat
  BY CommandFields, OrderFields
<1>1. ASSUME NEW c \in Commands, Take(c)
      PROVE  CountInv'
  <2>1. /\ comm_node' = c /\ cmd' = Order(c) /\ sent' = 0 /\ pc' = "copied"
        /\ comm_busy_flag' = 0 /\ c.comm_retry \in Nat
        /\ Order(c).comm_retry = c.comm_retry /\ Order(c).inverter_no = c.inverter_no
    BY <1>1, CommandFields DEF Take, Order
  <2>2. ~Transmitted'
    BY <2>1 DEF Transmitted
  <2>3. \A i \in Inverters : req'[i].cur # 1
    <3>. SUFFICES ASSUME NEW i \in Inverters
                  PROVE  req'[i].cur # 1
      OBVIOUS
    <3>1. [req[i] EXCEPT !.cur = 0].cur = 0
      BY DEF Requests, None
    <3>2. req'[i] = [req[i] EXCEPT !.cur = 0]
      BY <1>1 DEF Take
    <3>. QED  BY <3>1, <3>2
  <2>. QED  BY <2>1, <2>2, <2>3 DEF CountInv
<1>2. CASE Accept
  <2>1. /\ comm_node'.comm_retry = comm_node.comm_retry
        /\ comm_node'.inverter_no = comm_node.inverter_no
    BY <1>2 DEF Accept
  <2>. QED  BY <1>2, <2>1 DEF Accept, evars, hvars, CountInv, Unsent, Transmitted
<1>3. CASE SetReady \/ StartSend
  BY <1>3 DEF SetReady, StartSend, evars, hvars, TimerInv, CountInv, Unsent, Transmitted
<1>4. CASE EndSend
  <2>1. /\ pc = "sending" /\ pc' = "sent" /\ sent' = sent + 1 /\ sent \in Nat
        /\ UNCHANGED <<comm_busy_flag, comm_node, cmd>>
    BY <1>4 DEF EndSend
  <2>2. sent' > 0 /\ sent' + comm_node.comm_retry = cmd.comm_retry + 1
    BY <1>0, <2>1 DEF CountInv, Unsent
  <2>. QED  BY <2>1, <2>2 DEF CountInv, Unsent
<1>5. CASE Arm
  BY <1>5 DEF Arm, ArmReceive, evars, hvars, TimerInv, CountInv, Unsent, Transmitted
<1>6. CASE Succeed \/ GiveUp
  BY <1>6 DEF Succeed, GiveUp, evars, hvars, CountInv, Unsent, Transmitted
<1>7. CASE Retry
  <2>1. /\ comm_node'.comm_retry = comm_node.comm_retry - 1
        /\ comm_node'.inverter_no = comm_node.inverter_no
    BY <1>7 DEF Retry, OneLess
  <2>2. /\ pc = "loop" /\ comm_busy_flag = 1 /\ pc' = "rearm"
        /\ UNCHANGED <<comm_busy_flag, req, cmd, sent>>
        /\ Transmitted
    BY <1>7 DEF Retry, evars, hvars, Transmitted
  <2>3. sent \in Nat /\ sent + comm_node.comm_retry = cmd.comm_retry + 1
    BY <2>2 DEF CountInv
  <2>4. sent' + comm_node'.comm_retry = cmd'.comm_retry
    <3>1. \A s, a, c \in Nat : s + a = c + 1 => s + (a - 1) = c
      OBVIOUS
    <3>2. sent + (comm_node.comm_retry - 1) = cmd.comm_retry
      BY ONLY <1>0, <2>3, <3>1
    <3>. QED  BY ONLY <2>1, <2>2, <3>2
  <2>5. ~Transmitted'
    BY <2>2 DEF Transmitted
  <2>6. comm_node'.inverter_no = cmd'.inverter_no
    BY <2>1, <2>2 DEF CountInv
  <2>. QED  BY <2>2, <2>4, <2>5, <2>6 DEF CountInv
<1>8. CASE Tick
  <2>1. /\ comm_node'.comm_retry = comm_node.comm_retry
        /\ comm_node'.inverter_no = comm_node.inverter_no
        /\ UNCHANGED <<pc, comm_busy_flag, cmd, sent>>
    BY <1>8 DEF Tick, hvars
  <2>2. (Unsent' => Unsent) /\ (Transmitted' => Transmitted)
    BY <1>8, <2>1 DEF Tick, TmrExpires, IntervalExpires, TimerInv, Unsent, Transmitted
  <2>3. \A i \in Inverters : req'[i] = req[i] \/ req'[i] = None
    BY <1>8 DEF Tick
  <2>4. \A i \in Inverters : req'[i].cur = 1 => req[i].cur = 1
    BY <2>3 DEF None
  <2>. QED  BY <2>1, <2>2, <2>4 DEF CountInv
<1>9. CASE RxByte
  BY <1>9 DEF RxByte, hvars, CountInv, Unsent, Transmitted
<1>10. ASSUME NEW i \in Inverters, Respond(i) \/ LoseRequest(i)
       PROVE  CountInv'
  <2>1. \A j \in Inverters : req'[j] = req[j] \/ req'[j] = None
    BY <1>10 DEF Respond, LoseRequest
  <2>2. UNCHANGED <<pc, comm_busy_flag, uart1_commu_state, comm_node, cmd, sent>>
    BY <1>10 DEF Respond, LoseRequest, mvars, hvars
  <2>3. \A j \in Inverters : req'[j].cur = 1 => req[j].cur = 1
    <3>1. None.cur # 1
      BY DEF None
    <3>. QED  BY <2>1, <3>1
  <2>. QED  BY <2>2, <2>3 DEF CountInv, Unsent, Transmitted
<1>11. CASE Noise
  BY <1>11 DEF Noise, mvars, hvars, CountInv, Unsent, Transmitted
<1>12. CASE UNCHANGED vars
  BY <1>12 DEF vars, mvars, evars, hvars, CountInv, Unsent, Transmitted
<1>. QED
  BY <1>1, <1>2, <1>3, <1>4, <1>5, <1>6, <1>7, <1>8, <1>9, <1>10, <1>11, <1>12
     DEF Next, Main, Environment

\* Every step of the engine is a step of the abstract link, or none.
LEMMA StepIsLinkStep ==
    ASSUME TypeOK, TimerInv, AckMeansExecuted, CountInv, [Next]_vars
    PROVE  [Link!Next]_(Link!lvars)
<1>. USE DEF TypeOK, EngineTypeOK, WireTypeOK
<1>. DEFINE pending == IF pc = "copied" THEN 1 ELSE comm_busy_flag
<1>0. cmd.comm_retry \in Nat /\ comm_node.comm_retry \in Nat /\ sent \in Nat
  BY CommandFields, OrderFields
<1>1. ASSUME NEW c \in Commands, Take(c)
      PROVE  Order(c) \in Orders /\ Link!Accept(Order(c))
  <2>1. Order(c) \in Orders /\ Order(c).inverter_no = c.inverter_no
    BY CommandFields DEF Order, Orders, Commands
  <2>. QED  BY <1>1, <2>1 DEF Take, Link!Accept
<1>2. CASE EndSend
  <2>1. pending = 1 /\ pending' = 1
    BY <1>2 DEF EndSend, TimerInv
  <2>2. sent <= cmd.comm_retry
    BY <1>0, <1>2 DEF EndSend, CountInv, Unsent
  <2>. QED  BY <1>2, <2>1, <2>2 DEF EndSend, Link!Next, Link!Send
<1>3. CASE Succeed
  <2>1. Transmitted /\ pending = 1 /\ pending' = 0
    BY <1>3 DEF Succeed, Transmitted
  <2>2. comm_node.inverter_no = cmd.inverter_no /\ sent > 0
    BY <1>3, <2>1 DEF Succeed, CountInv
  <2>3. cmd.inverter_no \notin Slow \cup disturbed => exec = 1
    BY <1>3, <2>2 DEF Succeed, AckMeansExecuted
  <2>4. UNCHANGED <<cmd, sent, exec, disturbed>>
    BY <1>3 DEF Succeed, hvars
  <2>. QED  BY <1>3, <2>1, <2>2, <2>3, <2>4 DEF Succeed, Link!Next, Link!Succeed
<1>4. CASE GiveUp
  <2>1. Transmitted /\ pending = 1 /\ pending' = 0
    BY <1>4 DEF GiveUp, Transmitted
  <2>2. comm_node.inverter_no = cmd.inverter_no /\ sent = cmd.comm_retry + 1
    BY <1>0, <1>4, <2>1 DEF GiveUp, CountInv
  <2>3. UNCHANGED <<cmd, sent, exec>>
    BY <1>4 DEF GiveUp
  <2>4. disturbed' \in {disturbed, disturbed \cup {cmd.inverter_no}}
    BY <1>4, <2>2 DEF GiveUp, NoteDisturbance
  <2>. QED  BY <1>4, <2>1, <2>2, <2>3, <2>4 DEF GiveUp, Link!Next, Link!GiveUp
<1>5. ASSUME NEW i \in Inverters, Respond(i)
      PROVE  Link!Execute \/ UNCHANGED Link!lvars
  <2>1. UNCHANGED <<pc, comm_busy_flag, fault485, cmd, sent, disturbed>>
    BY <1>5 DEF Respond, mvars
  <2>2. CASE req[i].cur = 1
    <3>1. sent > 0 /\ exec' = 1
      BY <1>5, <2>2 DEF Respond, CountInv
    <3>. QED  BY <2>1, <3>1 DEF Link!Execute
  <2>3. CASE req[i].cur # 1
    <3>1. exec' = exec
      BY <1>5, <2>3 DEF Respond
    <3>. QED  BY <2>1, <3>1 DEF Link!lvars
  <2>. QED  BY <2>2, <2>3
<1>6. CASE Accept \/ SetReady \/ StartSend \/ Arm
  <2>1. pending' = pending
    BY <1>6 DEF Accept, SetReady, StartSend, Arm, ArmReceive, TimerInv
  <2>2. UNCHANGED <<cmd, sent, exec, disturbed, fault485>>
    BY <1>6 DEF Accept, SetReady, StartSend, Arm, hvars
  <2>. QED  BY <2>1, <2>2 DEF Link!lvars
<1>8. CASE Retry
  <2>1. Transmitted /\ pending = 1 /\ pending' = 1 /\ comm_node.comm_retry > 0
    BY <1>8 DEF Retry, Transmitted
  <2>2. /\ comm_node.inverter_no = cmd.inverter_no
        /\ sent > 0 /\ sent + comm_node.comm_retry = cmd.comm_retry + 1
    BY <1>8, <2>1 DEF Retry, CountInv
  <2>3. sent \in 1..cmd.comm_retry
    BY <1>0, <2>1, <2>2
  <2>4. UNCHANGED <<cmd, sent, exec, fault485>>
    BY <1>8 DEF Retry
  <2>5. disturbed' \in {disturbed, disturbed \cup {cmd.inverter_no}}
    BY <1>8, <2>2 DEF Retry, NoteDisturbance
  <2>. QED  BY <2>1, <2>3, <2>4, <2>5 DEF Link!Next, Link!Disturb, Link!lvars
<1>7. CASE \/ Tick \/ RxByte \/ UNCHANGED vars
           \/ \E i \in Inverters : LoseRequest(i)
           \/ Noise
  BY <1>7 DEF Tick, RxByte, vars, LoseRequest, Noise, mvars, hvars, Link!lvars
<1>. QED
  BY <1>1, <1>2, <1>3, <1>4, <1>5, <1>6, <1>7, <1>8
     DEF Next, Main, Environment, Link!Next

\* Under TimingOK the engine implements the link the rest of a station relies on:
\* one command at a time, at most comm_retry + 1 transmissions, the fault bit
\* raised exactly when the last one has gone unanswered, success reported only
\* for what was carried out unless the inverter is Slow or an earlier wait for it
\* was disturbed (modbus_rtu.c, lines 499-545).
THEOREM EngineIsLink == ASSUME TimingOK PROVE Spec => LinkSpec
<1>1. Init => Link!Init
  BY DEF Init, Link!Init
<1>2. Init => CountInv
  BY DEF Init, CountInv, Unsent, Transmitted, None
<1>3. TypeOK /\ TimerInv /\ CountInv /\ [Next]_vars => CountInv'
  BY CountStep
<1>4. TypeOK /\ TimerInv /\ AckMeansExecuted /\ CountInv /\ [Next]_vars
        => [Link!Next]_(Link!lvars)
  BY StepIsLinkStep
<1>. QED
  BY <1>1, <1>2, <1>3, <1>4, TypeCorrect, TimersSound, AckIsHonest, PTL
     DEF Spec, LinkSpec, Link!Spec
=============================================================================
