--------------------------- MODULE HostLinkProofs ---------------------------
(***************************************************************************)
(* The host uses its parameter page as ParamStore says, so that all that   *)
(* was proved of the page holds in the composition; and the one receive    *)
(* buffer shared by the main loop and the Ethernet interrupt is handed     *)
(* over without loss or repetition, for every traffic.                     *)
(***************************************************************************)
EXTENDS HostLink, ParamStoreProofs

-----------------------------------------------------------------------------
(* Types                                                                   *)

LEMMA DatagramTypes ==
    /\ NoVersion \in Versions
    /\ NoDatagram \in Datagrams /\ NoDatagram.type = "damaged"
    /\ NoMsg \in Message /\ NoWords \in [Words -> U16]
<1>1. NoVersion \in Versions
  BY ParamAssumption DEF NoVersion
<1>2. [type |-> "damaged", no |-> Host, para |-> NoVersion, len |-> SHORT] \in Commands
  BY DEF Commands
<1>3. NoDatagram \in Commands /\ NoDatagram.type = "damaged"
  BY <1>2 DEF NoDatagram
<1>4. NoWords \in [Words -> U16]
  BY ParamAssumption DEF NoWords, U16
<1>5. NoMsg \in Message
  BY <1>4 DEF NoMsg, Message, Stations
<1>. QED  BY <1>1, <1>3, <1>4, <1>5 DEF Datagrams

\* A datagram that asks for parameters to be written carries some.
LEMMA DatagramFields ==
    ASSUME NEW d \in Datagrams
    PROVE  /\ d.para \in Versions /\ d.no \in Stations /\ d.len \in Nat
           /\ d.type \in {"read", "write"} => d \in Requests
  BY DatagramTypes DEF Datagrams, Requests, Commands, SHORT, LONG, Stations

\* The variables of the connection and of the receive buffer, and the places of
\* the main loop.
RecvType ==
    /\ pc \in {"boot", "udp", "write", "len", "ok", "conn", "msg", "build"}
    /\ tcp_client_statue \in {DIS, OK, RECV} /\ connect_is_ok \in {0, 1}
    /\ recv_buf \in Datagrams /\ recv_len \in Nat
    /\ fresh \in {0, 1} /\ again \in {0, 1} /\ oversized \in {0, 1}

\* Who may touch the receive buffer: the callback while tcp_client_statue is OK,
\* the main loop while it is RECV.
Handover ==
    /\ pc \in {"write", "len", "ok"} => tcp_client_statue = RECV
    /\ pc = "boot" \/ connect_is_ok = 0 => tcp_client_statue = DIS
    /\ tcp_client_statue # RECV \/ pc = "ok" => recv_len = 0

\* When the datagram in the buffer has been handled.
HandledInv ==
    /\ tcp_client_statue = DIS \/ pc = "write" => fresh = 0
    /\ (tcp_client_statue = OK \/ pc \in {"len", "ok"}) /\ recv_buf.type # "damaged"
            => fresh = 0
    /\ tcp_client_statue = RECV /\ pc \notin {"write", "len", "ok"} =>
            /\ fresh = 1 /\ recv_buf.type # "damaged" => recv_buf.len = recv_len
            /\ oversized = 0 => fresh = 1
    /\ again = 1 => oversized = 1

BufferInv == RecvType /\ Handover /\ HandledInv

LEMMA BufferStep ==
    ASSUME BufferInv, [Next]_vars
    PROVE  BufferInv'
<1>. USE DEF BufferInv, RecvType, Handover, HandledInv, DIS, OK, RECV,
             vars, conn, recv, bounds
<1>1. CASE Boot
  BY <1>1 DEF Boot
<1>2. CASE NothingReceived
  BY <1>2 DEF NothingReceived
<1>3. CASE Rejected
  BY <1>3 DEF Rejected, Valid
<1>4. CASE Command
  BY <1>4 DEF Command, Received, Valid, Handled
<1>5. CASE ReadLocal
  BY <1>5 DEF ReadLocal, Received, Valid, Handled
<1>6. CASE WriteLocal
  BY <1>6 DEF WriteLocal, Received, Valid, Handled
<1>7. CASE ReplyWritten
  BY <1>7 DEF ReplyWritten
<1>8. CASE ToSlave
  BY <1>8 DEF ToSlave, Received, Valid, Handled
<1>9. CASE BootCommand
  BY <1>9, DatagramTypes DEF BootCommand, Restart
<1>10. CASE ZeroLen
  BY <1>10 DEF ZeroLen
<1>11. CASE Reopen
  BY <1>11 DEF Reopen
<1>12. CASE Create
  BY <1>12 DEF Create, Creating
<1>13. CASE CreateFails
  BY <1>13 DEF CreateFails, Creating
<1>14. CASE Connect
  BY <1>14 DEF Connect, Connecting
<1>15. CASE ConnectFails
  BY <1>15 DEF ConnectFails, Connecting
<1>16. CASE Send
  BY <1>16 DEF Send
<1>17. CASE NothingToSend
  BY <1>17 DEF NothingToSend
<1>18. CASE NoMessage
  BY <1>18 DEF NoMessage
<1>19. CASE TakeStatus
  BY <1>19 DEF TakeStatus
<1>20. CASE TakeReply
  BY <1>20 DEF TakeReply
<1>21. CASE BuildReply
  BY <1>21 DEF BuildReply
<1>22. CASE Storing
  BY <1>22 DEF Storing
<1>m. CASE MainLoop
  BY <1>m, <1>1, <1>2, <1>3, <1>4, <1>5, <1>6, <1>7, <1>8, <1>9, <1>10, <1>11, <1>12, <1>13, <1>14, <1>15, <1>16, <1>17, <1>18, <1>19, <1>20, <1>21, <1>22 DEF MainLoop
<1>r. ASSUME NEW r \in onBus, SlaveAnswers(r) \/ SlaveSilent(r)
      PROVE  BufferInv'
  BY <1>r DEF SlaveAnswers, SlaveSilent
<1>s. CASE AddStatus \/ Upload
  BY <1>s DEF AddStatus, Upload
<1>h. CASE HostReset
  BY <1>h, DatagramTypes DEF HostReset, Restart
<1>d. ASSUME NEW d \in Datagrams, Datagram(d)
      PROVE  BufferInv'
  <2>1. d.len \in Nat
    BY <1>d, DatagramFields
  <2>2. tcp_client_statue = OK /\ recv_len = 0 /\ pc \notin {"write", "len", "ok", "boot"}
    BY <1>d DEF Datagram, Accepting
  <2>3. recv_buf' = d /\ recv_len' = d.len
    BY <1>d, <2>1, <2>2 DEF Datagram
  <2>. QED  BY <1>d, <2>1, <2>2, <2>3 DEF Datagram
<1>o. ASSUME NEW m \in {0, SHORT, LONG}, Oversized(m)
      PROVE  BufferInv'
  <2>1. m \in Nat
    BY <1>o DEF SHORT, LONG
  <2>. QED  BY <1>o, <2>1 DEF Oversized, Accepting
<1>u. CASE UNCHANGED vars
  BY <1>u
<1>. QED  BY <1>m, <1>r, <1>s, <1>h, <1>d, <1>o, <1>u DEF Next, CanLine

LEMMA BufferInit == Init => BufferInv
  BY DatagramTypes DEF Init, BufferInv, RecvType, Handover, HandledInv, DIS, OK, RECV

LEMMA BufferHolds == Spec => []BufferInv
  BY BufferInit, BufferStep, PTL DEF Spec

\* For every traffic the receive buffer is empty whenever the interrupt may
\* fill it: no datagram is written past its end or behind an old one.
THEOREM BufferEmpty == Spec => []BufferEmptyWhenOpen
<1>1. BufferInv => BufferEmptyWhenOpen
  BY DEF BufferInv, Handover, BufferEmptyWhenOpen, OK, RECV
<1>. QED  BY <1>1, BufferHolds, PTL

\* For every traffic an accepted command of the server is carried out, and not
\* twice unless an oversized datagram came.
THEOREM CommandsOnce == Spec => []HandledOnce
<1>1. BufferInv => HandledOnce
  BY DEF BufferInv, HandledInv, HandledOnce
<1>. QED  BY <1>1, BufferHolds, PTL

-----------------------------------------------------------------------------
(* The page                                                                *)

LEMMA MainLoopOnStore ==
    ASSUME BufferInv, MainLoop
    PROVE  [StoreNext]_store
<1>1. CASE Boot \/ NothingReceived \/ Rejected \/ Command \/ ReadLocal
  BY <1>1 DEF Boot, NothingReceived, Rejected, Command, ReadLocal
<1>2. CASE WriteLocal
  <2>1. recv_buf.para \in Versions
    BY DatagramFields DEF BufferInv, RecvType
  <2>. QED  BY <1>2, <2>1 DEF WriteLocal, StoreNext
<1>3. CASE ReplyWritten \/ ToSlave \/ ZeroLen \/ Reopen
  BY <1>3 DEF ReplyWritten, ToSlave, ZeroLen, Reopen
<1>4. CASE BootCommand
  BY <1>4 DEF BootCommand, Restart, StoreNext
<1>5. CASE Create \/ CreateFails \/ Connect \/ ConnectFails
  BY <1>5 DEF Create, CreateFails, Creating, Connect, ConnectFails, Connecting
<1>6. CASE Send \/ NothingToSend \/ NoMessage
  BY <1>6 DEF Send, NothingToSend, NoMessage
<1>7. CASE TakeStatus \/ TakeReply \/ BuildReply
  BY <1>7 DEF TakeStatus, TakeReply, BuildReply
<1>8. CASE Storing
  BY <1>8 DEF Storing, StoreNext
<1>. QED  BY <1>1, <1>2, <1>3, <1>4, <1>5, <1>6, <1>7, <1>8 DEF MainLoop

LEMMA NextOnStore ==
    ASSUME BufferInv, [Next]_vars
    PROVE  [StoreNext]_store
<1>1. CASE MainLoop
  BY <1>1, MainLoopOnStore
<1>2. CASE CanLine
  BY <1>2 DEF CanLine, SlaveAnswers, SlaveSilent
<1>3. CASE AddStatus \/ Upload
  BY <1>3 DEF AddStatus, Upload
<1>4. CASE HostReset
  BY <1>4 DEF HostReset, Restart, StoreNext
<1>5. ASSUME NEW d \in Datagrams, Datagram(d)
      PROVE  [StoreNext]_store
  BY <1>5 DEF Datagram
<1>6. ASSUME NEW m \in {0, SHORT, LONG}, Oversized(m)
      PROVE  [StoreNext]_store
  BY <1>6 DEF Oversized
<1>7. CASE UNCHANGED vars
  BY <1>7 DEF vars
<1>. QED  BY <1>1, <1>2, <1>3, <1>4, <1>5, <1>6, <1>7 DEF Next

\* The host, with its interrupts and resets, never touches the page other than
\* through write_user_paras and read_user_paras.
THEOREM HostUsesStore == Spec => StoreSpec
<1>1. Init => StoreInit
  BY DEF Init
<1>. QED  BY <1>1, NextOnStore, BufferHolds, PTL DEF Spec, StoreSpec

\* Hence, in the host too, the page never holds words of two versions, ...
THEOREM HostShape == Spec => []FlashShape
  BY HostUsesStore, ShapeHolds, PTL

\* ... a host that is not writing works with what is stored, ...
THEOREM HostWorksWithStored == Spec => []RunsWhatIsStored
  BY HostUsesStore, StoredIsUsed, PTL

\* ... and its page is the register of ParamRegister.
THEOREM HostRegister == Spec => RegisterSpec
  BY HostUsesStore, StoreIsRegister, PTL
-----------------------------------------------------------------------------
(* Replies                                                                 *)

MsgTypes == Replies \cup {STATUS}

SlaveRequests == {r \in Requests : r.no \in Slaves}

\* The variables of sending and of the line.
LinkType ==
    /\ send_en \in {0, 1} /\ send_buf \in Message
    /\ msgSendQueue \in Seq(MsgTypes) /\ Len(msgSendQueue) <= MSG_MAX
    /\ statuses \in 0..STATUS_MAX
    /\ user_paras_slave \in [no : Stations, words : [Words -> U16]]
    /\ onBus \subseteq SlaveRequests /\ remote \in [Slaves -> Versions]
    /\ datagrams \in 0..MaxDatagrams /\ resets \in 0..MaxResets
    /\ overlap \in {0, 1}
    /\ acked \in [Stations -> [Words -> U16]]

LEMMA MsgConstants ==
    /\ READ_REPLY \in Replies /\ WRITE_REPLY \in Replies /\ STATUS \notin Replies
    /\ Replies \subseteq MsgTypes /\ STATUS \in MsgTypes /\ READ_REPLY # WRITE_REPLY
  BY DEF MsgTypes, Replies, READ_REPLY, WRITE_REPLY, STATUS

LEMMA AddMsgType ==
    ASSUME LinkType, NEW m \in MsgTypes, AddMsg(m)
    PROVE  msgSendQueue' \in Seq(MsgTypes) /\ Len(msgSendQueue') <= MSG_MAX
<1>. USE HostAssumption DEF LinkType, AddMsg
<1>1. CASE Len(msgSendQueue) < MSG_MAX
  <2>1. msgSendQueue' = Append(msgSendQueue, m)
    BY <1>1
  <2>2. msgSendQueue' \in Seq(MsgTypes) /\ Len(msgSendQueue') = Len(msgSendQueue) + 1
    BY <2>1
  <2>3. Len(msgSendQueue) \in Nat
    OBVIOUS
  <2>. QED  BY <1>1, <2>2, <2>3
<1>2. CASE ~(Len(msgSendQueue) < MSG_MAX)
  BY <1>2
<1>. QED  BY <1>1, <1>2

LEMMA TakeType ==
    ASSUME LinkType, msgSendQueue # <<>>, msgSendQueue' = Tail(msgSendQueue)
    PROVE  /\ msgSendQueue' \in Seq(MsgTypes) /\ Len(msgSendQueue') <= MSG_MAX
           /\ Head(msgSendQueue) \in MsgTypes
<1>1. /\ Tail(msgSendQueue) \in Seq(MsgTypes) /\ Head(msgSendQueue) \in MsgTypes
      /\ Len(Tail(msgSendQueue)) = Len(msgSendQueue) - 1 /\ Len(msgSendQueue) \in Nat
  BY DEF LinkType
<1>. QED  BY <1>1, HostAssumption DEF LinkType

\* Parameters named in memory and in messages are words of the page's size.
LEMMA ParasType ==
    ASSUME NEW n \in Stations, NEW w \in [Words -> U16]
    PROVE  Paras(n, w) \in [no : Stations, words : [Words -> U16]]
  BY DEF Paras

LEMMA ValueType ==
    ASSUME NEW v \in Versions
    PROVE  Value[v] \in [Words -> U16] /\ Checked(Value[v]) \in [Words -> U16]
<1>1. Value[v] \in [Words -> U16]
  BY ParamAssumption
<1>. QED  BY <1>1, CheckedType

LEMMA LinkStep ==
    ASSUME LinkType, RecvType, StoreType, [Next]_vars
    PROVE  LinkType'
<1>. USE HostAssumption, MsgConstants DEF LinkType
<1>0. Host \in Stations /\ Slaves \subseteq Stations /\ NoWords \in [Words -> U16]
  BY DatagramTypes DEF Stations
<1>1. CASE Boot \/ NothingReceived \/ Rejected \/ Command
  BY <1>1 DEF Boot, NothingReceived, Rejected, Command, send, queues, line, bounds
<1>2. CASE ReadLocal
  <2>1. user_paras_slave' \in [no : Stations, words : [Words -> U16]]
    BY <1>0, <1>2, ParasType DEF ReadLocal, StoreType
  <2>2. msgSendQueue' \in Seq(MsgTypes) /\ Len(msgSendQueue') <= MSG_MAX
    BY <1>2, AddMsgType DEF ReadLocal
  <2>. QED  BY <1>2, <2>1, <2>2 DEF ReadLocal, send, line, bounds
<1>3. CASE WriteLocal
  <2>1. acked' \in [Stations -> [Words -> U16]]
    BY <1>0, <1>3 DEF WriteLocal
  <2>. QED  BY <1>3, <2>1 DEF WriteLocal, send, queues, line, bounds
<1>4. CASE ReplyWritten
  <2>1. user_paras_slave' \in [no : Stations, words : [Words -> U16]]
    BY <1>0, <1>4, ParasType DEF ReplyWritten, StoreType
  <2>2. msgSendQueue' \in Seq(MsgTypes) /\ Len(msgSendQueue') <= MSG_MAX
    BY <1>4, AddMsgType DEF ReplyWritten
  <2>. QED  BY <1>4, <2>1, <2>2 DEF ReplyWritten, send, line, bounds
<1>5. CASE ToSlave
  <2>1. recv_buf \in Requests /\ recv_buf.no \in Stations
    BY <1>5, DatagramFields DEF ToSlave, Received, RecvType
  <2>2. recv_buf \in SlaveRequests
    BY <1>5, <2>1 DEF ToSlave, SlaveRequests, Stations
  <2>. QED  BY <1>5, <2>2 DEF ToSlave, send, queues, bounds
<1>6. CASE Restart /\ resets' \in 0..MaxResets
  <2>1. <<>> \in Seq(MsgTypes) /\ Len(<<>>) = 0
    OBVIOUS
  <2>2. user_paras_slave' \in [no : Stations, words : [Words -> U16]]
    BY <1>0, <1>6, ParasType DEF Restart
  <2>. QED  BY <1>6, <2>1, <2>2, DatagramTypes DEF Restart, line
<1>7. CASE BootCommand
  BY <1>6, <1>7 DEF BootCommand
<1>8. CASE HostReset
  BY <1>6, <1>8 DEF HostReset
<1>9. CASE ZeroLen \/ Reopen
  BY <1>9 DEF ZeroLen, Reopen, send, queues, line, bounds
<1>10. CASE Create \/ CreateFails
  BY <1>10 DEF Create, CreateFails, Creating, queues, line, bounds
<1>11. CASE Connect \/ ConnectFails
  BY <1>11 DEF Connect, ConnectFails, Connecting, send, queues, line, bounds
<1>12. CASE Send
  <2>1. send_buf.no \in Stations /\ send_buf.words \in [Words -> U16]
    BY DEF Message
  <2>2. [acked EXCEPT ![send_buf.no] = send_buf.words] \in [Stations -> [Words -> U16]]
    BY <2>1
  <2>3. acked' \in [Stations -> [Words -> U16]]
    BY <1>12, <2>2 DEF Send
  <2>. QED  BY <1>12, <2>3 DEF Send, EndSend, queues, line, bounds
<1>13. CASE NothingToSend \/ NoMessage
  BY <1>13 DEF NothingToSend, NoMessage, send, queues, line, bounds
<1>14. CASE TakeStatus
  <2>1. msgSendQueue' \in Seq(MsgTypes) /\ Len(msgSendQueue') <= MSG_MAX
    BY <1>14, TakeType DEF TakeStatus
  <2>2. statuses' \in 0..STATUS_MAX /\ send_en' \in {0, 1} /\ send_buf' \in Message
    BY <1>14, DatagramTypes DEF TakeStatus, NoMsg, send
  <2>. QED  BY <1>14, <2>1, <2>2 DEF TakeStatus, line, bounds
<1>15. CASE TakeReply
  <2>1. /\ msgSendQueue' \in Seq(MsgTypes) /\ Len(msgSendQueue') <= MSG_MAX
        /\ Head(msgSendQueue) \in MsgTypes
    BY <1>15, TakeType DEF TakeReply
  <2>2. send_buf' \in Message
    BY <1>15, <2>1 DEF TakeReply, Message, MsgTypes
  <2>. QED  BY <1>15, <2>1, <2>2 DEF TakeReply, line, bounds
<1>16. CASE BuildReply
  <2>. DEFINE w == [j \in Words |-> IF j <= BELT_NUMBER THEN send_buf.words[j]
                                    ELSE user_paras_slave.words[j]]
  <2>1. w \in [Words -> U16]
    BY DEF Message
  <2>2. send_buf' = [send_buf EXCEPT !.words = w]
    BY <1>16 DEF BuildReply
  <2>3. send_buf' \in Message
    BY <2>1, <2>2 DEF Message
  <2>. QED  BY <1>16, <2>3 DEF BuildReply, queues, line, bounds
<1>17. CASE Storing
  BY <1>17 DEF Storing, send, queues, line, bounds
<1>18. ASSUME NEW r \in onBus, SlaveAnswers(r)
       PROVE  LinkType'
  <2>1. r.no \in Slaves /\ r.para \in Versions /\ r \in Requests
    BY <1>18, DatagramTypes DEF SlaveRequests, Requests
  <2>2. remote' \in [Slaves -> Versions]
    BY <1>18, <2>1 DEF SlaveAnswers
  <2>3. acked' \in [Stations -> [Words -> U16]]
    BY <1>0, <1>18, <2>1 DEF SlaveAnswers
  <2>4. user_paras_slave' \in [no : Stations, words : [Words -> U16]]
    BY <1>0, <1>18, <2>1, <2>2, ParasType, ValueType DEF SlaveAnswers
  <2>5. msgSendQueue' \in Seq(MsgTypes) /\ Len(msgSendQueue') <= MSG_MAX
    BY <1>18, AddMsgType DEF SlaveAnswers
  <2>. QED  BY <1>18, <2>2, <2>3, <2>4, <2>5 DEF SlaveAnswers, send, bounds
<1>19. ASSUME NEW r \in onBus, SlaveSilent(r)
       PROVE  LinkType'
  <2>1. r.no \in Slaves /\ r.para \in Versions
    BY <1>19, DatagramTypes DEF SlaveRequests, Requests
  <2>2. remote' \in [Slaves -> Versions]
    BY <1>19, <2>1 DEF SlaveSilent
  <2>3. acked' \in [Stations -> [Words -> U16]]
    BY <1>0, <1>19, <2>1 DEF SlaveSilent
  <2>. QED  BY <1>19, <2>2, <2>3 DEF SlaveSilent, send, queues, bounds
<1>20. CASE AddStatus
  BY <1>20 DEF AddStatus, send, line, bounds
<1>21. CASE Upload
  <2>1. msgSendQueue' \in Seq(MsgTypes) /\ Len(msgSendQueue') <= MSG_MAX
    BY <1>21, AddMsgType DEF Upload
  <2>. QED  BY <1>21, <2>1 DEF Upload, send, line, bounds
<1>22. ASSUME NEW d \in Datagrams, Datagram(d)
       PROVE  LinkType'
  BY <1>22 DEF Datagram, send, queues, line
<1>23. ASSUME NEW m \in {0, SHORT, LONG}, Oversized(m)
       PROVE  LinkType'
  BY <1>23 DEF Oversized, send, queues, line
<1>24. CASE UNCHANGED vars
  BY <1>24 DEF vars, send, queues, line, bounds
<1>25. CASE MainLoop
  BY <1>1, <1>2, <1>3, <1>4, <1>5, <1>7, <1>9, <1>10, <1>11, <1>12, <1>13, <1>14,
     <1>15, <1>16, <1>17, <1>25 DEF MainLoop
<1>. QED  BY <1>8, <1>18, <1>19, <1>20, <1>21, <1>22, <1>23, <1>24, <1>25 DEF Next, CanLine

LEMMA LinkInit == Init => LinkType
<1>. SUFFICES ASSUME Init
              PROVE  LinkType
  OBVIOUS
<1>1. user_paras_slave \in [no : Stations, words : [Words -> U16]]
  BY DatagramTypes, ParasType DEF Init, Stations
<1>2. <<>> \in Seq(MsgTypes) /\ Len(<<>>) = 0
  OBVIOUS
<1>. QED  BY <1>1, <1>2, DatagramTypes, HostAssumption DEF Init, LinkType

HostInv == StoreInv /\ BufferInv /\ LinkType

LEMMA HostInvStep ==
    ASSUME HostInv, [Next]_vars
    PROVE  HostInv'
<1>1. StoreInv /\ BufferInv /\ LinkType /\ StoreType /\ RecvType
  BY DEF HostInv, StoreInv, BufferInv
<1>2. StoreInv'
  BY <1>1, NextOnStore, InvStep
<1>. QED  BY <1>1, <1>2, BufferStep, LinkStep DEF HostInv

LEMMA HostInvHolds == Spec => []HostInv
<1>1. Init => HostInv
  BY InvInit, BufferInit, LinkInit DEF Init, HostInv
<1>. QED  BY <1>1, HostInvStep, PTL DEF Spec

\* For every traffic all variables of the host keep their types; the message
\* queue and the status queue keep within their arrays.
THEOREM HostTypeCorrect == Spec => []TypeOK
<1>1. HostInv => TypeOK
  BY DEF HostInv, StoreInv, BufferInv, RecvType, LinkType, TypeOK, MsgTypes, SlaveRequests
<1>. QED  BY <1>1, HostInvHolds, PTL
-----------------------------------------------------------------------------
(* Acknowledged parameters                                                 *)

\* Where the main loop stands in write_user_paras and read_user_paras.
StorePlace ==
    /\ pc \notin {"write", "boot"} => at = "idle"
    /\ pc = "boot" => at \in {"copy", "check", "idle"}
    /\ pc = "write" /\ at \in {"copy", "check", "idle"} => good = LEN /\ mixed = 0

LEMMA PlaceStep ==
    ASSUME HostInv, StorePlace, [Next]_vars
    PROVE  StorePlace'
<1>. USE DEF StorePlace, vars, store
<1>1. CASE Boot \/ NothingReceived \/ Rejected \/ Command \/ ReadLocal \/ ToSlave
  BY <1>1 DEF Boot, NothingReceived, Rejected, Command, ReadLocal, ToSlave, Received
<1>2. CASE WriteLocal
  BY <1>2 DEF WriteLocal, BeginWrite
<1>3. CASE ReplyWritten
  BY <1>3 DEF ReplyWritten
<1>4. CASE BootCommand \/ HostReset
  BY <1>4 DEF BootCommand, HostReset, Restart, Reset
<1>5. CASE ZeroLen \/ Reopen
  BY <1>5 DEF ZeroLen, Reopen
<1>6. CASE Create \/ CreateFails \/ Connect \/ ConnectFails
  BY <1>6 DEF Create, CreateFails, Creating, Connect, ConnectFails, Connecting
<1>7. CASE Send \/ NothingToSend \/ NoMessage
  BY <1>7 DEF Send, NothingToSend, NoMessage
<1>8. CASE TakeStatus \/ TakeReply \/ BuildReply
  BY <1>8 DEF TakeStatus, TakeReply, BuildReply
<1>9. CASE Storing
  <2>1. CASE Erase
    BY <1>9, <2>1 DEF Storing, Erase
  <2>5. CASE EraseFails
    BY <1>9, <2>5 DEF Storing, EraseFails
  <2>6. CASE ProgramFails
    <3>1. good = i /\ mixed = 0 /\ i \in Words
      BY <2>6 DEF HostInv, StoreInv, StoreType, Programming, ProgramFails
    <3>2. CASE i + 1 < LEN
      BY <1>9, <2>6, <3>2 DEF Storing, ProgramFails
    <3>3. CASE ~(i + 1 < LEN)
      <4>1. i + 1 = LEN
        BY <3>1, <3>3, LenPos DEF Words
      <4>. QED  BY <1>9, <2>6, <3>1, <4>1 DEF Storing, ProgramFails
    <3>. QED  BY <3>2, <3>3
  <2>2. CASE Program
    <3>1. good = i /\ mixed = 0 /\ i \in Words
      BY <2>2 DEF HostInv, StoreInv, StoreType, Programming, Program
    <3>2. CASE i + 1 < LEN
      BY <1>9, <2>2, <3>2 DEF Storing, Program
    <3>3. CASE ~(i + 1 < LEN)
      <4>1. i + 1 = LEN
        BY <3>1, <3>3, LenPos DEF Words
      <4>. QED  BY <1>9, <2>2, <3>1, <4>1 DEF Storing, Program
    <3>. QED  BY <3>2, <3>3
  <2>3. CASE Copy
    BY <1>9, <2>3 DEF Storing, Copy
  <2>4. CASE Check
    BY <1>9, <2>4 DEF Storing, Check
  <2>. QED  BY <1>9, <2>1, <2>2, <2>3, <2>4, <2>5, <2>6 DEF Storing, StoreSteps
<1>10. CASE CanLine \/ AddStatus \/ Upload
  BY <1>10 DEF CanLine, SlaveAnswers, SlaveSilent, AddStatus, Upload
<1>11. ASSUME NEW d \in Datagrams, Datagram(d)
       PROVE  StorePlace'
  BY <1>11 DEF Datagram
<1>12. ASSUME NEW m \in {0, SHORT, LONG}, Oversized(m)
       PROVE  StorePlace'
  BY <1>12 DEF Oversized
<1>13. CASE UNCHANGED vars
  BY <1>13
<1>14. CASE MainLoop
  BY <1>1, <1>2, <1>3, <1>4, <1>5, <1>6, <1>7, <1>8, <1>9, <1>14 DEF MainLoop
<1>. QED  BY <1>4, <1>10, <1>11, <1>12, <1>13, <1>14 DEF Next

\* A page all of whose words were programmed holds its version.
LEMMA WholePage ==
    ASSUME StoreInv, good = LEN, mixed = 0, failed = 0
    PROVE  flash = Value[want]
<1>1. flash \in [Words -> U16] /\ Value[want] \in [Words -> U16]
  BY ValueType DEF StoreInv, StoreType
<1>2. ASSUME NEW j \in Words
      PROVE  flash[j] = Value[want][j]
  <2>1. j < good
    BY LenPos DEF Words
  <2>. QED  BY <2>1 DEF StoreInv, FlashShape
<1>. QED  BY <1>1, <1>2

-----------------------------------------------------------------------------
\* Replies in the message queue.
InQueue(T) == \E k \in DOMAIN msgSendQueue : msgSendQueue[k] \in T

OneInQueue ==
    \A k, l \in DOMAIN msgSendQueue :
        msgSendQueue[k] \in Replies /\ msgSendQueue[l] \in Replies => k = l

Sending == send_en = 1 /\ send_buf.type \in Replies

LEMMA OutstandingIs ==
    Outstanding <=> onBus # {} \/ pc = "build" \/ Sending \/ InQueue(Replies)
  BY DEF Outstanding, Sending, InQueue

LEMMA QueueAdd ==
    ASSUME LinkType, NEW m \in MsgTypes, AddMsg(m)
    PROVE  /\ \A T \in SUBSET MsgTypes : InQueue(T)' => InQueue(T) \/ m \in T
           /\ OneInQueue /\ (m \notin Replies \/ ~InQueue(Replies)) => OneInQueue'
<1>1. CASE msgSendQueue' = msgSendQueue
  BY <1>1 DEF InQueue, OneInQueue
<1>2. CASE msgSendQueue' = Append(msgSendQueue, m)
  <2>1. \A k \in DOMAIN msgSendQueue' :
          \/ k \in DOMAIN msgSendQueue /\ msgSendQueue'[k] = msgSendQueue[k]
          \/ k = Len(msgSendQueue) + 1 /\ msgSendQueue'[k] = m
    BY <1>2 DEF LinkType
  <2>. QED  BY <2>1 DEF InQueue, OneInQueue
<1>. QED  BY <1>1, <1>2 DEF AddMsg

LEMMA QueueTake ==
    ASSUME LinkType, msgSendQueue # <<>>, msgSendQueue' = Tail(msgSendQueue)
    PROVE  /\ \A T \in SUBSET MsgTypes : InQueue(T)' => InQueue(T)
           /\ OneInQueue => OneInQueue'
           /\ OneInQueue /\ Head(msgSendQueue) \in Replies => ~InQueue(Replies)'
           /\ \A T \in SUBSET MsgTypes : Head(msgSendQueue) \in T => InQueue(T)
<1>1. /\ \A k \in DOMAIN msgSendQueue' : /\ k \in Nat /\ k + 1 # 1
                                         /\ k + 1 \in DOMAIN msgSendQueue
                                         /\ msgSendQueue'[k] = msgSendQueue[k + 1]
      /\ 1 \in DOMAIN msgSendQueue /\ Head(msgSendQueue) = msgSendQueue[1]
  BY DEF LinkType
<1>. QED  BY <1>1 DEF InQueue, OneInQueue

-----------------------------------------------------------------------------
\* At most one reply is on its way, and none while the host writes.
Alone ==
    /\ pc = "write" => ~Outstanding
    /\ onBus # {} => ~InQueue(Replies) /\ pc # "build" /\ ~Sending
    /\ InQueue(Replies) => pc # "build" /\ ~Sending
    /\ pc = "build" => send_en = 0
    /\ \A r, s \in onBus : r = s
    /\ OneInQueue

\* p is what the station it names has in its flash.
Stored(p) ==
    IF p.no = Host
    THEN /\ p.words = Checked(flash)
         /\ failed = 0 => good = LEN /\ mixed = 0 /\ flash = Value[want]
    ELSE p.words = Checked(Value[remote[p.no]])

\* All that has been or will be sent as the confirmation of a write is stored.
Honest ==
    /\ InQueue({WRITE_REPLY}) => Stored(user_paras_slave)
    /\ pc = "build" =>
        /\ send_buf.no = user_paras_slave.no /\ send_buf.words = user_paras_slave.words
        /\ send_buf.type = WRITE_REPLY => Stored(user_paras_slave)
    /\ Sending /\ send_buf.type = WRITE_REPLY => Stored(send_buf)
    /\ pc = "write" => acked[Host] = NoWords
    /\ \A n \in Stations : acked[n] # NoWords => Stored(Paras(n, acked[n]))

AckInv == overlap = 0 => Alone /\ Honest

LEMMA AloneStep ==
    ASSUME HostInv, AckInv, [Next]_vars, overlap' = 0
    PROVE  overlap = 0 /\ Alone'
<1>. USE OutstandingIs, MsgConstants DEF AckInv, Alone, Sending, vars
<1>0. LinkType /\ overlap \in {0, 1}
  BY DEF HostInv, LinkType
<1>a. Replies \in SUBSET MsgTypes
  OBVIOUS
<1>b. (Outstanding <=> onBus # {} \/ pc = "build" \/ Sending \/ InQueue(Replies))'
  BY DEF Outstanding, Sending, InQueue
<1>c. UNCHANGED msgSendQueue =>
        (InQueue(Replies)' <=> InQueue(Replies)) /\ (OneInQueue' <=> OneInQueue)
  BY DEF InQueue, OneInQueue
<1>1. CASE Boot \/ NothingReceived \/ Rejected \/ Command
  BY <1>b, <1>c, <1>1 DEF Boot, NothingReceived, Rejected, Command, send, queues, line
<1>2. CASE ReadLocal
  <2>1. overlap = 0 /\ ~Outstanding
    BY <1>0, <1>2 DEF ReadLocal
  <2>2. OneInQueue'
    BY <1>0, <1>2, <2>1, QueueAdd DEF ReadLocal
  <2>. QED  BY <1>b, <1>2, <2>1, <2>2 DEF ReadLocal, send, line
<1>3. CASE WriteLocal
  <2>1. overlap = 0 /\ ~Outstanding
    BY <1>0, <1>3 DEF WriteLocal
  <2>. QED  BY <1>b, <1>c, <1>3, <2>1 DEF WriteLocal, send, queues, line
<1>4. CASE ReplyWritten
  <2>1. overlap = 0 /\ ~Outstanding
    BY <1>4 DEF ReplyWritten
  <2>2. OneInQueue'
    BY <1>0, <1>4, <2>1, QueueAdd DEF ReplyWritten
  <2>. QED  BY <1>b, <1>4, <2>1, <2>2 DEF ReplyWritten, send, line
<1>5. CASE ToSlave
  <2>1. overlap = 0 /\ ~Outstanding
    BY <1>0, <1>5 DEF ToSlave
  <2>. QED  BY <1>b, <1>c, <1>5, <2>1 DEF ToSlave, send, queues
<1>6. CASE BootCommand \/ HostReset
  <2>1. ~InQueue(Replies)' /\ OneInQueue'
    BY <1>6 DEF BootCommand, HostReset, Restart, InQueue, OneInQueue
  <2>. QED  BY <1>b, <1>6, <2>1 DEF BootCommand, HostReset, Restart, line
<1>7. CASE ZeroLen \/ Reopen
  BY <1>b, <1>c, <1>7 DEF ZeroLen, Reopen, send, queues, line
<1>8. CASE Create \/ CreateFails
  BY <1>b, <1>c, <1>8 DEF Create, CreateFails, Creating, queues, line
<1>9. CASE Connect \/ ConnectFails
  BY <1>b, <1>c, <1>9 DEF Connect, ConnectFails, Connecting, send, queues, line
<1>10. CASE Send
  BY <1>b, <1>c, <1>10 DEF Send, EndSend, queues, line
<1>11. CASE NothingToSend \/ NoMessage
  BY <1>b, <1>c, <1>11 DEF NothingToSend, NoMessage, send, queues, line
<1>12. CASE TakeStatus
  <2>1. InQueue(Replies)' => InQueue(Replies)
    BY <1>0, <1>a, <1>12, QueueTake DEF TakeStatus
  <2>2. OneInQueue => OneInQueue'
    BY <1>0, <1>12, QueueTake DEF TakeStatus
  <2>3. Sending' => Sending
    BY <1>12 DEF TakeStatus, send
  <2>. QED  BY <1>b, <1>12, <2>1, <2>2, <2>3 DEF TakeStatus, line
<1>13. CASE TakeReply
  <2>1. overlap = 0 /\ OneInQueue /\ InQueue(Replies)
    BY <1>0, <1>a, <1>13, QueueTake DEF TakeReply
  <2>2. OneInQueue' /\ ~InQueue(Replies)'
    BY <1>0, <1>13, <2>1, QueueTake DEF TakeReply
  <2>. QED  BY <1>b, <1>13, <2>1, <2>2 DEF TakeReply, line
<1>14. CASE BuildReply
  BY <1>b, <1>c, <1>14 DEF BuildReply, queues, line
<1>15. CASE Storing
  BY <1>b, <1>c, <1>15 DEF Storing, send, queues, line
<1>16. ASSUME NEW r \in onBus, SlaveAnswers(r)
       PROVE  overlap = 0 /\ Alone'
  <2>1. overlap = 0 /\ onBus' = {} /\ ~InQueue(Replies) /\ pc # "build" /\ ~Sending
        /\ pc # "write"
    BY <1>16 DEF SlaveAnswers
  <2>2. OneInQueue'
    BY <1>0, <1>16, <2>1, QueueAdd DEF SlaveAnswers
  <2>. QED  BY <1>b, <1>16, <2>1, <2>2 DEF SlaveAnswers, send
<1>17. ASSUME NEW r \in onBus, SlaveSilent(r)
       PROVE  overlap = 0 /\ Alone'
  <2>1. overlap = 0 /\ onBus' = {} /\ ~InQueue(Replies) /\ pc # "build" /\ ~Sending
        /\ pc # "write"
    BY <1>17 DEF SlaveSilent
  <2>. QED  BY <1>b, <1>c, <1>17, <2>1 DEF SlaveSilent, send, queues
<1>18. CASE AddStatus
  BY <1>b, <1>c, <1>18 DEF AddStatus, send, line
<1>19. CASE Upload
  <2>1. InQueue(Replies)' => InQueue(Replies)
    BY <1>0, <1>a, <1>19, QueueAdd DEF Upload
  <2>2. OneInQueue => OneInQueue'
    BY <1>0, <1>19, QueueAdd DEF Upload
  <2>. QED  BY <1>b, <1>19, <2>1, <2>2 DEF Upload, send, line
<1>20. ASSUME NEW d \in Datagrams, Datagram(d)
       PROVE  overlap = 0 /\ Alone'
  BY <1>b, <1>c, <1>20 DEF Datagram, send, queues, line
<1>21. ASSUME NEW m \in {0, SHORT, LONG}, Oversized(m)
       PROVE  overlap = 0 /\ Alone'
  BY <1>b, <1>c, <1>21 DEF Oversized, send, queues, line
<1>22. CASE UNCHANGED vars
  BY <1>b, <1>c, <1>22 DEF send, queues, line
<1>23. CASE MainLoop
  BY <1>1, <1>2, <1>3, <1>4, <1>5, <1>6, <1>7, <1>8, <1>9, <1>10, <1>11, <1>12, <1>13,
     <1>14, <1>15, <1>23 DEF MainLoop
<1>. QED  BY <1>6, <1>16, <1>17, <1>18, <1>19, <1>20, <1>21, <1>22, <1>23 DEF Next, CanLine
-----------------------------------------------------------------------------
LEMMA PageSame ==
    ASSUME HostInv, StorePlace, [Next]_vars, pc # "write"
    PROVE  UNCHANGED <<flash, want, good, mixed, failed>>
<1>1. CASE WriteLocal
  BY <1>1 DEF WriteLocal, BeginWrite
<1>2. CASE Storing
  BY <1>2 DEF Storing, StoreSteps, Erase, EraseFails, Program,
              ProgramFails, Copy, Check, StorePlace
<1>3. CASE BootCommand \/ HostReset
  BY <1>3 DEF BootCommand, HostReset, Restart, Reset, StorePlace
<1>4. CASE Boot \/ NothingReceived \/ Rejected \/ Command \/ ReadLocal \/ ReplyWritten
  BY <1>4 DEF Boot, NothingReceived, Rejected, Command, ReadLocal, ReplyWritten, store
<1>5. CASE ToSlave \/ ZeroLen \/ Reopen \/ Send \/ NothingToSend \/ NoMessage
  BY <1>5 DEF ToSlave, ZeroLen, Reopen, Send, NothingToSend, NoMessage, store
<1>6. CASE Create \/ CreateFails \/ Connect \/ ConnectFails
  BY <1>6 DEF Create, CreateFails, Creating, Connect, ConnectFails, Connecting, store
<1>7. CASE TakeStatus \/ TakeReply \/ BuildReply \/ AddStatus \/ Upload
  BY <1>7 DEF TakeStatus, TakeReply, BuildReply, AddStatus, Upload, store
<1>8. CASE CanLine
  BY <1>8 DEF CanLine, SlaveAnswers, SlaveSilent, store
<1>9. ASSUME NEW d \in Datagrams, Datagram(d)
      PROVE  UNCHANGED <<flash, want, good, mixed, failed>>
  BY <1>9 DEF Datagram, store
<1>10. ASSUME NEW m \in {0, SHORT, LONG}, Oversized(m)
       PROVE  UNCHANGED <<flash, want, good, mixed, failed>>
  BY <1>10 DEF Oversized, store
<1>11. CASE UNCHANGED vars
  BY <1>11 DEF vars, store
<1>. QED  BY <1>1, <1>2, <1>3, <1>4, <1>5, <1>6, <1>7, <1>8, <1>9, <1>10, <1>11
             DEF Next, MainLoop

LEMMA HonestStep ==
    ASSUME HostInv, StorePlace, overlap = 0, Alone, Honest, [Next]_vars, overlap' = 0
    PROVE  Honest'
<1>. USE OutstandingIs, MsgConstants DEF Honest, Sending, Stored, Paras, vars
<1>0. LinkType /\ StoreInv /\ Host \in Stations /\ Host \notin Slaves
  BY HostAssumption DEF HostInv, Stations
<1>a. {WRITE_REPLY} \in SUBSET MsgTypes /\ Replies \in SUBSET MsgTypes
  OBVIOUS
<1>b. InQueue({WRITE_REPLY}) => InQueue(Replies)
  BY DEF InQueue
<1>c. UNCHANGED msgSendQueue => (InQueue({WRITE_REPLY})' <=> InQueue({WRITE_REPLY}))
  BY DEF InQueue
<1>d. pc # "write" => UNCHANGED <<flash, want, good, mixed, failed>>
  BY PageSame
<1>e. pc = "write" => ~Outstanding /\ acked[Host] = NoWords
  BY DEF Alone
<1>1. CASE Boot \/ NothingReceived \/ Rejected \/ Command
  BY <1>c, <1>d, <1>1 DEF Boot, NothingReceived, Rejected, Command, Received, send, queues, line
<1>2. CASE ReadLocal
  <2>1. ~Outstanding
    BY <1>2 DEF ReadLocal
  <2>2. ~InQueue({WRITE_REPLY})'
    BY <1>0, <1>a, <1>b, <1>2, <2>1, QueueAdd DEF ReadLocal
  <2>. QED  BY <1>d, <1>2, <2>1, <2>2 DEF ReadLocal, Received, send, line
<1>3. CASE WriteLocal
  <2>1. ~Outstanding
    BY <1>3 DEF WriteLocal
  <2>2. acked' = [acked EXCEPT ![Host] = NoWords] /\ acked \in [Stations -> [Words -> U16]]
    BY <1>0, <1>3 DEF WriteLocal, LinkType
  <2>3. acked'[Host] = NoWords /\ \A n \in Stations : n # Host => acked'[n] = acked[n]
    BY <1>0, <2>2
  <2>. QED  BY <1>b, <1>c, <1>d, <1>3, <2>1, <2>3 DEF WriteLocal, Received, send, queues, line
<1>4. CASE ReplyWritten
  <2>1. good = LEN /\ mixed = 0 /\ UNCHANGED <<flash, want, good, mixed, failed>>
    BY <1>4 DEF ReplyWritten, StorePlace, store
  <2>2. (failed = 0 => flash = Value[want]) /\ user_paras_local = Checked(flash)
    BY <1>0, <1>4, <2>1, WholePage DEF ReplyWritten, StoreInv, Memory
  <2>. QED  BY <1>e, <1>4, <2>1, <2>2 DEF ReplyWritten, send, line
<1>5. CASE ToSlave
  <2>1. ~Outstanding
    BY <1>5 DEF ToSlave
  <2>. QED  BY <1>b, <1>c, <1>d, <1>5, <2>1 DEF ToSlave, Received, send, queues
<1>6. CASE BootCommand \/ HostReset
  <2>1. ~InQueue({WRITE_REPLY})'
    BY <1>6 DEF BootCommand, HostReset, Restart, InQueue
  <2>. QED  BY <1>d, <1>e, <1>6, <2>1 DEF BootCommand, HostReset, Restart, line
<1>7. CASE ZeroLen \/ Reopen
  BY <1>c, <1>d, <1>7 DEF ZeroLen, Reopen, send, queues, line
<1>8. CASE Create \/ CreateFails
  BY <1>c, <1>d, <1>8 DEF Create, CreateFails, Creating, queues, line
<1>9. CASE Connect \/ ConnectFails
  BY <1>c, <1>d, <1>9 DEF Connect, ConnectFails, Connecting, send, queues, line
<1>10. CASE Send
  <2>1. /\ acked \in [Stations -> [Words -> U16]]
        /\ send_buf.no \in Stations /\ UNCHANGED <<flash, want, good, mixed, failed, remote>>
    BY <1>0, <1>d, <1>10 DEF LinkType, Message, Send, line
  <2>2. \/ acked' = acked
        \/ /\ send_buf.type = WRITE_REPLY /\ Stored(send_buf)
           /\ acked' = [acked EXCEPT ![send_buf.no] = send_buf.words]
    BY <1>10 DEF Send, Sendable
  <2>3. \A n \in Stations : acked'[n] # NoWords => Stored(Paras(n, acked'[n]))
    <3>1. CASE acked' = acked
      BY <3>1
    <3>2. CASE /\ Stored(send_buf)
               /\ acked' = [acked EXCEPT ![send_buf.no] = send_buf.words]
      BY <2>1, <3>2
    <3>. QED  BY <2>2, <3>1, <3>2
  <2>. QED  BY <1>c, <1>10, <2>1, <2>3 DEF Send, EndSend, queues
<1>11. CASE NothingToSend \/ NoMessage
  BY <1>c, <1>d, <1>11 DEF NothingToSend, NoMessage, send, queues, line
<1>12. CASE TakeStatus
  <2>1. InQueue({WRITE_REPLY})' => InQueue({WRITE_REPLY})
    BY <1>0, <1>a, <1>12, QueueTake DEF TakeStatus
  <2>2. ~Sending'
    BY <1>12 DEF TakeStatus, send
  <2>. QED  BY <1>d, <1>12, <2>1, <2>2 DEF TakeStatus, line
<1>13. CASE TakeReply
  <2>1. ~InQueue(Replies)'
    BY <1>0, <1>13, QueueTake DEF TakeReply, Alone
  <2>2. ~InQueue({WRITE_REPLY})'
    BY <2>1 DEF InQueue
  <2>3. Head(msgSendQueue) = WRITE_REPLY => Stored(user_paras_slave)
    BY <1>0, <1>a, <1>13, QueueTake DEF TakeReply
  <2>4. send_buf' = [type |-> Head(msgSendQueue), no |-> user_paras_slave.no,
                     words |-> user_paras_slave.words]
    BY <1>13 DEF TakeReply
  <2>. QED  BY <1>d, <1>13, <2>2, <2>3, <2>4 DEF TakeReply, line
<1>14. CASE BuildReply
  <2>1. /\ send_buf \in Message /\ user_paras_slave.words \in [Words -> U16]
        /\ send_buf.words = user_paras_slave.words /\ send_buf.no = user_paras_slave.no
    BY <1>0, <1>14 DEF LinkType, BuildReply
  <2>. DEFINE w == [j \in Words |-> IF j <= BELT_NUMBER THEN send_buf.words[j]
                                    ELSE user_paras_slave.words[j]]
  <2>2. w = user_paras_slave.words
    BY <2>1
  <2>3. send_buf' = [send_buf EXCEPT !.words = w]
    BY <1>14 DEF BuildReply
  <2>4. /\ send_buf'.type = send_buf.type /\ send_buf'.no = user_paras_slave.no
        /\ send_buf'.words = user_paras_slave.words
    BY <2>1, <2>2, <2>3 DEF Message
  <2>. QED  BY <1>c, <1>d, <1>14, <2>4 DEF BuildReply, queues, line
<1>15. CASE Storing
  <2>1. CASE pc = "write"
    BY <1>b, <1>c, <1>e, <1>15, <2>1 DEF Storing, send, queues, line
  <2>2. CASE pc # "write"
    BY <1>c, <1>d, <1>15, <2>2 DEF Storing, send, queues, line
  <2>. QED  BY <2>1, <2>2
<1>16. ASSUME NEW r \in onBus, SlaveAnswers(r)
       PROVE  Honest'
  <2>1. pc \notin {"write", "build"} /\ ~Sending
    BY <1>16 DEF Alone
  <2>2. /\ r.no \in Slaves /\ r.no \in Stations /\ r.no # Host
        /\ acked \in [Stations -> [Words -> U16]] /\ remote \in [Slaves -> Versions]
    BY <1>0, <1>16 DEF LinkType, SlaveRequests, Stations
  <2>3. user_paras_slave' = [no |-> r.no, words |-> Checked(Value[remote'[r.no]])]
    BY <1>16 DEF SlaveAnswers
  <2>4. \A n \in Stations : acked'[n] # NoWords =>
            acked'[n] = acked[n] /\ (n # Host => remote'[n] = remote[n])
    BY <1>16, <2>2 DEF SlaveAnswers, Stations
  <2>. QED  BY <1>d, <1>16, <2>1, <2>2, <2>3, <2>4 DEF SlaveAnswers, send
<1>17. ASSUME NEW r \in onBus, SlaveSilent(r)
       PROVE  Honest'
  <2>1. pc \notin {"write", "build"} /\ ~Sending /\ ~InQueue(Replies)
    BY <1>17 DEF Alone
  <2>2. /\ r.no \in Slaves /\ r.no \in Stations /\ r.no # Host
        /\ acked \in [Stations -> [Words -> U16]] /\ remote \in [Slaves -> Versions]
    BY <1>0, <1>17 DEF LinkType, SlaveRequests, Stations
  <2>3. \A n \in Stations : acked'[n] # NoWords =>
            acked'[n] = acked[n] /\ (n # Host => remote'[n] = remote[n])
    BY <1>17, <2>2 DEF SlaveSilent, Stations
  <2>. QED  BY <1>b, <1>c, <1>d, <1>17, <2>1, <2>3 DEF SlaveSilent, send, queues
<1>18. CASE AddStatus
  BY <1>c, <1>d, <1>e, <1>b, <1>18 DEF AddStatus, send, line, store
<1>19. CASE Upload
  <2>1. InQueue({WRITE_REPLY})' => InQueue({WRITE_REPLY})
    BY <1>0, <1>a, <1>19, QueueAdd DEF Upload, STATUS, WRITE_REPLY
  <2>. QED  BY <1>19, <2>1 DEF Upload, send, line, store
<1>20. ASSUME NEW d \in Datagrams, Datagram(d)
       PROVE  Honest'
  BY <1>c, <1>20 DEF Datagram, send, queues, line, store
<1>21. ASSUME NEW m \in {0, SHORT, LONG}, Oversized(m)
       PROVE  Honest'
  BY <1>c, <1>21 DEF Oversized, send, queues, line, store
<1>22. CASE UNCHANGED vars
  BY <1>c, <1>22 DEF send, queues, line, store
<1>23. CASE MainLoop
  BY <1>1, <1>2, <1>3, <1>4, <1>5, <1>6, <1>7, <1>8, <1>9, <1>10, <1>11, <1>12, <1>13,
     <1>14, <1>15, <1>23 DEF MainLoop
<1>. QED  BY <1>6, <1>16, <1>17, <1>18, <1>19, <1>20, <1>21, <1>22, <1>23 DEF Next, CanLine

LEMMA AckInit == Init => StorePlace /\ AckInv
<1>. SUFFICES ASSUME Init
              PROVE  StorePlace /\ AckInv
  OBVIOUS
<1>1. StorePlace
  BY DEF Init, StoreInit, StorePlace
<1>2. ~InQueue(Replies) /\ ~InQueue({WRITE_REPLY}) /\ OneInQueue
  BY DEF Init, InQueue, OneInQueue
<1>3. Alone
  BY <1>2 DEF Init, Alone, Sending
<1>4. Honest
  BY <1>2 DEF Init, Honest, Sending
<1>. QED  BY <1>1, <1>3, <1>4 DEF AckInv

LEMMA AckStep ==
    ASSUME HostInv, StorePlace, AckInv, [Next]_vars
    PROVE  StorePlace' /\ AckInv'
<1>1. StorePlace'
  BY PlaceStep
<1>2. ASSUME overlap' = 0
      PROVE  Alone' /\ Honest'
  <2>1. overlap = 0 /\ Alone'
    BY <1>2, AloneStep
  <2>. QED  BY <1>2, <2>1, HonestStep DEF AckInv
<1>. QED  BY <1>1, <1>2 DEF AckInv

\* For every traffic, every loss and any number of resets: parameters whose
\* writing was confirmed to a server that waits for its answers are in the flash
\* of the station the confirmation names, all of them.
THEOREM ConfirmedIsStored == Spec => []AckedIsStored
<1>1. AckInv => AckedIsStored
  BY DEF AckInv, Honest, Stored, Paras, AckedIsStored
<1>. QED  BY <1>1, HostInvHolds, AckInit, AckStep, PTL DEF Spec
=============================================================================
