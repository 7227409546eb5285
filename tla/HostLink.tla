------------------------------ MODULE HostLink ------------------------------
(***************************************************************************)
(* The host between the server and the line: udpclient.c, fun.c 46-294,    *)
(* main.c 195-211 and 276-287, on top of ParamStore.                       *)
(*                                                                         *)
(* The main loop runs udp_client_process, then send_message_to_server; it  *)
(* is interrupted by the receive callback of lwIP (Ethernet interrupt), by *)
(* the CAN interrupt with the replies of the slaves and by the tick.  There*)
(* is one receive buffer, one send buffer and one user_paras_slave.  A     *)
(* datagram that arrives while another is being handled is dropped.        *)
(*                                                                         *)
(* What commands do to the belts is in BeltStation, how they get to the    *)
(* slaves in CanBus; here a request of the server to a slave is on the bus *)
(* until its answer arrives or it is lost.                                 *)
(***************************************************************************)
EXTENDS ParamStore, Sequences, FiniteSets

CONSTANTS
    Host, Slaves,    \* station numbers
    MSG_MAX,         \* msgSendQueueSize - 1
    STATUS_MAX,      \* moduleStatusQueueSize - 1
    MaxDatagrams,    \* bound: datagrams accepted
    MaxResets        \* bound: resets of the host

Stations == {Host} \cup Slaves

ASSUME HostAssumption ==
    /\ Host \notin Slaves /\ IsFiniteSet(Slaves)
    /\ MSG_MAX \in Nat \ {0} /\ STATUS_MAX \in Nat \ {0}
    /\ MaxDatagrams \in Nat /\ MaxResets \in Nat

\* tcp_client_statue (main.h).
DIS == "CLIENT_DIS_CONNECT"
OK == "CLIENT_CONNECT_OK"
RECV == "CLIENT_CONNECT_RECV"

\* Datagrams of the server.  Lengths are kept apart by kind; "command" is a
\* start, reset or function select, "damaged" what recv_msg_check turns down.
SHORT == 12
LONG == 23

Requests ==
    [type : {"read"}, no : Stations, para : {NoVersion}, len : {SHORT}]
    \cup [type : {"write"}, no : Stations, para : Versions, len : {LONG}]
Commands == [type : {"command", "boot", "damaged"}, no : {Host},
             para : {NoVersion}, len : {SHORT}]
Datagrams == Requests \cup Commands

\* Messages to the server; the first two carry user_paras_slave.
READ_REPLY == "REPLY_RECV_MSG_READ_PARA_CMD_TYPE"
WRITE_REPLY == "REPLY_RECV_MSG_WRITE_PARA_CMD_TYPE"
STATUS == "SEND_MSG_MODULE_STATUS_TYPE"
Replies == {READ_REPLY, WRITE_REPLY}

NoWords == [j \in Words |-> 0]
Paras(n, w) == [no |-> n, words |-> w]

VARIABLES
    pc,               \* place in the main loop
    connect_is_ok, tcp_client_statue,
    recv_buf, recv_len,
    send_en, send_buf,
    msgSendQueue,
    statuses,         \* elements of moduleStatusQueue
    user_paras_slave,
    onBus,            \* requests to slaves on their way
    remote,           \* version in the flash of each slave
    datagrams, resets,
    fresh,            \* history: 1 when recv_buf holds a datagram not yet handled
    again,            \* history: a datagram was handled twice
    oversized,        \* history: a datagram too long for the buffer came
    overlap,          \* history: a parameter request came before the answer to
                      \* an earlier one had left
    acked             \* history: parameters the server was told are stored

conn == <<connect_is_ok, tcp_client_statue>>
recv == <<recv_buf, recv_len, fresh, again>>
send == <<send_en, send_buf>>
queues == <<msgSendQueue, statuses>>
line == <<onBus, remote>>
bounds == <<datagrams, resets, oversized>>
vars == <<store, pc, conn, recv, send, queues, user_paras_slave, line, bounds,
          overlap, acked>>

AddMsgAlways(m) == msgSendQueue' = Append(msgSendQueue, m)

\* AddSendMsgToQueue: dropped when the queue is full.
AddMsg(m) == msgSendQueue' = IF Len(msgSendQueue) < MSG_MAX
                             THEN Append(msgSendQueue, m) ELSE msgSendQueue

\* A reply to a parameter request is still to come.
Outstanding ==
    \/ onBus # {}
    \/ pc = "build" \/ (send_en = 1 /\ send_buf.type \in Replies)
    \/ \E k \in DOMAIN msgSendQueue : msgSendQueue[k] \in Replies

-----------------------------------------------------------------------------
(* Interrupts                                                              *)

AcceptingAlways == tcp_client_statue # DIS

Accepting == tcp_client_statue = OK

\* udp_receive_callback: the datagram is put behind what is in the buffer.
Datagram(d) ==
    /\ Accepting
    /\ datagrams < MaxDatagrams /\ datagrams' = datagrams + 1
    /\ recv_buf' = IF recv_len = 0 THEN d ELSE recv_buf
    /\ recv_len' = recv_len + d.len
    /\ fresh' = 1
    /\ tcp_client_statue' = RECV
    /\ UNCHANGED <<store, pc, connect_is_ok, again, send, queues, user_paras_slave,
                   line, resets, oversized, overlap, acked>>

\* One that is too long is not copied, but m, which was never set, is added to
\* the length all the same.
Oversized(m) ==
    /\ Accepting
    /\ datagrams < MaxDatagrams /\ datagrams' = datagrams + 1
    /\ recv_len' = recv_len + m
    /\ tcp_client_statue' = RECV
    /\ oversized' = 1
    /\ UNCHANGED <<store, pc, connect_is_ok, recv_buf, fresh, again, send, queues,
                   user_paras_slave, line, resets, overlap, acked>>

\* The slave carries out r and its reply arrives (para_data_recv_process).
SlaveAnswers(r) ==
    /\ r \in onBus /\ onBus' = onBus \ {r}
    /\ remote' = IF r.type = "write" THEN [remote EXCEPT ![r.no] = r.para] ELSE remote
    /\ acked' = IF r.type = "write" THEN [acked EXCEPT ![r.no] = NoWords] ELSE acked
    /\ user_paras_slave' = Paras(r.no, Checked(Value[remote'[r.no]]))
    /\ AddMsg(IF r.type = "write" THEN WRITE_REPLY ELSE READ_REPLY)
    /\ UNCHANGED <<store, pc, conn, recv, send, statuses, bounds, overlap>>

\* The request is lost, or carried out and the reply is lost.
SlaveSilent(r) ==
    /\ r \in onBus /\ onBus' = onBus \ {r}
    /\ \/ UNCHANGED <<remote, acked>>
       \/ /\ r.type = "write"
          /\ remote' = [remote EXCEPT ![r.no] = r.para]
          /\ acked' = [acked EXCEPT ![r.no] = NoWords]
    /\ UNCHANGED <<store, pc, conn, recv, send, queues, user_paras_slave, bounds, overlap>>

\* A status is queued, by the CAN interrupt or by sec_process for the host.
AddStatus ==
    /\ statuses < STATUS_MAX
    /\ statuses' = statuses + 1
    /\ UNCHANGED <<store, pc, conn, recv, send, msgSendQueue, user_paras_slave, line,
                   bounds, overlap, acked>>

\* Time_Update, every 10 ms.
Upload ==
    /\ statuses > 0
    /\ AddMsg(STATUS)
    /\ UNCHANGED <<store, pc, conn, recv, send, statuses, user_paras_slave, line,
                   bounds, overlap, acked>>

-----------------------------------------------------------------------------
(* The main loop                                                           *)

\* main reaches the loop when the parameters have been read.
Boot ==
    /\ pc = "boot" /\ at = "idle"
    /\ pc' = "udp"
    /\ UNCHANGED <<store, conn, recv, send, queues, user_paras_slave, line, bounds,
                   overlap, acked>>

NothingReceived ==
    /\ pc = "udp" /\ tcp_client_statue # RECV
    /\ pc' = "conn"
    /\ UNCHANGED <<store, conn, recv, send, queues, user_paras_slave, line, bounds,
                   overlap, acked>>

\* recv_msg_check.
Valid == recv_buf.type # "damaged" /\ recv_buf.len = recv_len

Received(types) ==
    /\ pc = "udp" /\ tcp_client_statue = RECV /\ Valid
    /\ recv_buf.type \in types

Handled ==
    /\ fresh' = 0
    /\ again' = IF fresh = 1 THEN again ELSE 1
    /\ UNCHANGED <<recv_buf, recv_len>>

Rejected ==
    /\ pc = "udp" /\ tcp_client_statue = RECV /\ ~Valid
    /\ pc' = "len"
    /\ UNCHANGED <<store, conn, recv, send, queues, user_paras_slave, line, bounds,
                   overlap, acked>>

\* recv_msg_process: start, reset and select are carried out here and passed on
\* to the line; see ServerSet and ServerReset of CanBus.
Command ==
    /\ Received({"command"})
    /\ pc' = "len" /\ Handled
    /\ UNCHANGED <<store, conn, send, queues, user_paras_slave, line, bounds, overlap, acked>>

ReadLocal ==
    /\ Received({"read"}) /\ recv_buf.no = Host
    /\ user_paras_slave' = Paras(Host, user_paras_local)
    /\ AddMsg(READ_REPLY)
    /\ overlap' = IF Outstanding THEN 1 ELSE overlap
    /\ pc' = "len" /\ Handled
    /\ UNCHANGED <<store, conn, send, statuses, line, bounds, acked>>

WriteLocal ==
    /\ Received({"write"}) /\ recv_buf.no = Host
    /\ BeginWrite(recv_buf.para)
    /\ acked' = [acked EXCEPT ![Host] = NoWords]
    /\ overlap' = IF Outstanding THEN 1 ELSE overlap
    /\ pc' = "write" /\ Handled
    /\ UNCHANGED <<conn, send, queues, user_paras_slave, line, bounds>>

ReplyBeforeRead ==
    /\ pc = "write" /\ at \in {"copy", "idle"}
    /\ user_paras_slave' = Paras(Host, user_paras_local)
    /\ AddMsg(WRITE_REPLY)
    /\ pc' = "len"
    /\ UNCHANGED <<store, conn, recv, send, statuses, line, bounds, overlap, acked>>

\* write_user_paras and read_user_paras have returned.
ReplyWritten ==
    /\ pc = "write" /\ at = "idle"
    /\ user_paras_slave' = Paras(Host, user_paras_local)
    /\ AddMsg(WRITE_REPLY)
    /\ pc' = "len"
    /\ UNCHANGED <<store, conn, recv, send, statuses, line, bounds, overlap, acked>>

ToSlave ==
    /\ Received({"read", "write"}) /\ recv_buf.no # Host
    /\ onBus' = onBus \cup {recv_buf}
    /\ overlap' = IF Outstanding THEN 1 ELSE overlap
    /\ pc' = "len" /\ Handled
    /\ UNCHANGED <<store, conn, send, queues, user_paras_slave, remote, bounds, acked>>

\* recv_message_from_server ends, then udp_client_process opens the buffer.
ZeroLenForgotten ==
    /\ pc = "len"
    /\ pc' = "ok"
    /\ UNCHANGED <<store, conn, recv, send, queues, user_paras_slave, line,
                   bounds, overlap, acked>>

ZeroLen ==
    /\ pc = "len"
    /\ recv_len' = 0
    /\ pc' = "ok"
    /\ UNCHANGED <<store, conn, recv_buf, fresh, again, send, queues, user_paras_slave,
                   line, bounds, overlap, acked>>

Reopen ==
    /\ pc = "ok"
    /\ tcp_client_statue' = OK
    /\ pc' = "conn"
    /\ UNCHANGED <<store, connect_is_ok, recv, send, queues, user_paras_slave, line,
                   bounds, overlap, acked>>

\* creat_udp_connect_process; udp_new may have no control block to give.
Creating ==
    /\ pc = "conn" /\ connect_is_ok = 0
    /\ tcp_client_statue' = DIS
    /\ pc' = "msg"
    /\ UNCHANGED <<store, recv, send_buf, queues, user_paras_slave, line, bounds,
                   overlap, acked>>

Create == Creating /\ connect_is_ok' = 1 /\ send_en' = 0

CreateFails == Creating /\ UNCHANGED <<connect_is_ok, send_en>>

\* udp_echoclient_connect.
Connecting ==
    /\ pc = "conn" /\ connect_is_ok = 1 /\ tcp_client_statue = DIS
    /\ pc' = "msg"
    /\ UNCHANGED <<store, connect_is_ok, recv, send, queues, user_paras_slave, line,
                   bounds, overlap, acked>>

Connect == Connecting /\ tcp_client_statue' = OK

ConnectFails == Connecting /\ UNCHANGED tcp_client_statue

\* udp_send_process: without a pbuf, nothing is sent, and the message is gone.
Sendable == connect_is_ok = 1 /\ tcp_client_statue = OK /\ send_en = 1

EndSendForgotten == UNCHANGED send_en

EndSend == send_en' = 0

Send ==
    /\ pc = "conn" /\ Sendable
    /\ EndSend
    /\ acked' \in {acked} \cup
            (IF send_buf.type = WRITE_REPLY
             THEN {[acked EXCEPT ![send_buf.no] = send_buf.words]} ELSE {})
    /\ pc' = "msg"
    /\ UNCHANGED <<store, conn, recv, send_buf, queues, user_paras_slave, line, bounds, overlap>>

NothingToSend ==
    /\ pc = "conn" /\ connect_is_ok = 1 /\ tcp_client_statue # DIS /\ ~Sendable
    /\ pc' = "msg"
    /\ UNCHANGED <<store, conn, recv, send, queues, user_paras_slave, line, bounds,
                   overlap, acked>>

\* send_message_to_server.
NoMessage ==
    /\ pc = "msg" /\ (send_en = 1 \/ msgSendQueue = <<>>)
    /\ pc' = "udp"
    /\ UNCHANGED <<store, conn, recv, send, queues, user_paras_slave, line, bounds,
                   overlap, acked>>

TakeStatus ==
    /\ pc = "msg" /\ send_en = 0 /\ msgSendQueue # <<>> /\ Head(msgSendQueue) = STATUS
    /\ msgSendQueue' = Tail(msgSendQueue)
    /\ IF statuses = 0 THEN UNCHANGED <<statuses, send>>
       ELSE /\ statuses' = statuses - 1
            /\ send_en' = 1
            /\ send_buf' = [type |-> STATUS, no |-> Host, words |-> NoWords]
    /\ pc' = "udp"
    /\ UNCHANGED <<store, conn, recv, user_paras_slave, line, bounds, overlap, acked>>

\* send_reply_read_para_cmd, send_reply_write_para_cmd: user_paras_slave is
\* copied byte by byte; here the head, then the belts.
TakeReply ==
    /\ pc = "msg" /\ send_en = 0 /\ msgSendQueue # <<>> /\ Head(msgSendQueue) \in Replies
    /\ msgSendQueue' = Tail(msgSendQueue)
    /\ send_buf' = [type |-> Head(msgSendQueue), no |-> user_paras_slave.no,
                    words |-> user_paras_slave.words]
    /\ pc' = "build"
    /\ UNCHANGED <<store, conn, recv, send_en, statuses, user_paras_slave, line,
                   bounds, overlap, acked>>

BuildReply ==
    /\ pc = "build"
    /\ send_buf' = [send_buf EXCEPT !.words = [j \in Words |->
                        IF j <= BELT_NUMBER THEN @[j] ELSE user_paras_slave.words[j]]]
    /\ send_en' = 1
    /\ pc' = "udp"
    /\ UNCHANGED <<store, conn, recv, queues, user_paras_slave, line, bounds, overlap, acked>>

-----------------------------------------------------------------------------
(* Resets and the specification                                            *)

NoDatagram == CHOOSE d \in Commands : d.type = "damaged"
NoMsg == [type |-> STATUS, no |-> Host, words |-> NoWords]

\* Memory is cleared and main begins.
Restart ==
    /\ Reset
    /\ pc' = "boot"
    /\ connect_is_ok' = 0 /\ tcp_client_statue' = DIS
    /\ recv_buf' = NoDatagram /\ recv_len' = 0 /\ fresh' = 0
    /\ send_en' = 0 /\ send_buf' = NoMsg
    /\ msgSendQueue' = <<>> /\ statuses' = 0
    /\ user_paras_slave' = Paras(Host, NoWords)
    /\ UNCHANGED <<line, again, oversized, overlap, acked, datagrams>>

\* Power fails or the reset pin is pulled.
HostReset == resets < MaxResets /\ resets' = resets + 1 /\ Restart

\* The command to enter the boot loader, which starts the program again later.
BootCommand == Received({"boot"}) /\ UNCHANGED resets /\ Restart

Init ==
    /\ StoreInit
    /\ pc = "boot"
    /\ connect_is_ok = 0 /\ tcp_client_statue = DIS
    /\ recv_buf = NoDatagram /\ recv_len = 0 /\ fresh = 0
    /\ send_en = 0 /\ send_buf = NoMsg
    /\ msgSendQueue = <<>> /\ statuses = 0
    /\ user_paras_slave = Paras(Host, NoWords)
    /\ onBus = {} /\ remote = [s \in Slaves |-> NoVersion]
    /\ datagrams = 0 /\ resets = 0
    /\ again = 0 /\ oversized = 0 /\ overlap = 0
    /\ acked = [n \in Stations |-> NoWords]

\* write_user_paras and read_user_paras on the host.
Storing ==
    /\ StoreSteps
    /\ UNCHANGED <<pc, conn, recv, send, queues, user_paras_slave, line, bounds,
                   overlap, acked>>

MainLoop ==
    \/ Boot \/ NothingReceived \/ Rejected \/ Command \/ ReadLocal
    \/ WriteLocal \/ ReplyWritten \/ ToSlave \/ BootCommand
    \/ ZeroLen \/ Reopen \/ Create \/ CreateFails
    \/ Connect \/ ConnectFails \/ Send \/ NothingToSend
    \/ NoMessage \/ TakeStatus \/ TakeReply \/ BuildReply \/ Storing

CanLine == \E r \in onBus : SlaveAnswers(r) \/ SlaveSilent(r)

Next ==
    \/ MainLoop \/ CanLine \/ AddStatus \/ Upload \/ HostReset
    \/ \E d \in Datagrams : Datagram(d)
    \/ \E m \in {0, SHORT, LONG} : Oversized(m)

Spec == Init /\ [][Next]_vars

\* The main loop goes round, the line answers or a message is lost, and a
\* connection that is tried again and again is made at last.
FairSpec == Spec /\ WF_vars(MainLoop) /\ WF_vars(CanLine)
                 /\ SF_vars(Create) /\ SF_vars(Connect)

-----------------------------------------------------------------------------
Message == [type : Replies \cup {STATUS}, no : Stations, words : [Words -> U16]]

\* Every variable has its type; the queues keep within their arrays.
TypeOK ==
    /\ StoreType
    /\ pc \in {"boot", "udp", "write", "len", "ok", "conn", "msg", "build"}
    /\ connect_is_ok \in {0, 1} /\ tcp_client_statue \in {DIS, OK, RECV}
    /\ recv_buf \in Datagrams /\ recv_len \in Nat
    /\ send_en \in {0, 1} /\ send_buf \in Message
    /\ msgSendQueue \in Seq(Replies \cup {STATUS}) /\ Len(msgSendQueue) <= MSG_MAX
    /\ statuses \in 0..STATUS_MAX
    /\ user_paras_slave \in [no : Stations, words : [Words -> U16]]
    /\ onBus \subseteq Requests /\ remote \in [Slaves -> Versions]
    /\ datagrams \in 0..MaxDatagrams /\ resets \in 0..MaxResets
    /\ fresh \in {0, 1} /\ again \in {0, 1}
    /\ oversized \in {0, 1} /\ overlap \in {0, 1}
    /\ acked \in [Stations -> [Words -> U16]]

\* Whenever the callback may fill the receive buffer it starts at its beginning,
\* so that a datagram of up to UDP_RECV_BUFF_SIZE bytes fits and is found by
\* recv_msg_check (udpclient.c, 126-137, 172-176; fun.c, 125-134).
BufferEmptyWhenOpen == tcp_client_statue = OK => recv_len = 0

\* A command of the server that was accepted is carried out, and only once -
\* unless a datagram too long for the buffer came: then its undefined length may
\* be that of the command still in the buffer (udpclient.c, 128-137).
HandledOnce ==
    /\ tcp_client_statue = OK /\ recv_buf.type # "damaged" => fresh = 0
    /\ again = 1 => oversized = 1

\* If the server asks for parameters only when no earlier request is on its way,
\* what it was last told to be stored in a station is stored there, completely,
\* whatever resets came since: the reply is not sent before the page is written
\* and does not carry the parameters of another station (fun.c, 84-108 and
\* 183-212; can_bus.c, 71-81).  If the flash of the host failed, the server is
\* told what the page really holds.
AckedIsStored ==
    overlap = 0 =>
        \A n \in Stations : acked[n] # NoWords =>
            IF n = Host
            THEN /\ acked[n] = Checked(flash)
                 /\ failed = 0 => good = LEN /\ mixed = 0 /\ flash = Value[want]
            ELSE acked[n] = Checked(Value[remote[n]])

\* Whatever the server, the line and the connection do, every reply leaves the
\* host or is given up: no status traffic holds it back for ever (fun.c,
\* 252-294; udpclient.c, 186-194).
RepliesEnd == Outstanding ~> ~Outstanding
=============================================================================
