---------------------------- MODULE CommandLink ----------------------------
(***************************************************************************)
(* What the RS485 link promises to the rest of a station: it takes one     *)
(* command at a time, transmits it at most comm_retry + 1 times, reports   *)
(* success only for a command its inverter carried out, unless that        *)
(* inverter is Slow or an earlier wait for it was disturbed, and raises    *)
(* the 485 fault of an inverter exactly when the last transmission of a    *)
(* command to it has gone unanswered.                                      *)
(*                                                                         *)
(* ModbusMaster implements this specification.                             *)
(***************************************************************************)
EXTENDS Naturals

CONSTANTS
    Commands,   \* records with at least inverter_no and comm_retry
    Inverters,  \* station numbers on the bus
    Slow        \* inverters that may answer late

VARIABLES
    pending,    \* 1 while a command is being handled
    cmd,        \* the command as it was queued
    tries,      \* its transmissions so far
    done,       \* 1 once its inverter has carried it out
    doubtful,   \* inverters an answer to an earlier command may still come from
    fault485    \* bit 0 of each inverter's fault_code

lvars == <<pending, cmd, tries, done, doubtful, fault485>>

Init ==
    /\ pending = 0
    /\ cmd \in Commands
    /\ tries = 0
    /\ done = 0
    /\ doubtful = {}
    /\ fault485 = [i \in Inverters |-> 0]

Accept(c) ==
    /\ pending = 0
    /\ pending' = 1
    /\ cmd' = c
    /\ tries' = 0
    /\ done' = 0
    /\ doubtful' \in {doubtful, doubtful \ {c.inverter_no}}
    /\ UNCHANGED fault485

Send ==
    /\ pending = 1
    /\ tries <= cmd.comm_retry
    /\ tries' = tries + 1
    /\ UNCHANGED <<pending, cmd, done, doubtful, fault485>>

\* Only a transmitted command can be carried out; a slow inverter may do it
\* after the link has given up.
Execute ==
    /\ tries > 0
    /\ done' = 1
    /\ UNCHANGED <<pending, cmd, tries, doubtful, fault485>>

\* Something else than the answer comes: its inverter may still answer when the
\* next transmission has been made.
Disturb ==
    /\ pending = 1
    /\ tries \in 1..cmd.comm_retry
    /\ doubtful' = doubtful \cup {cmd.inverter_no}
    /\ UNCHANGED <<pending, cmd, tries, done, fault485>>

Succeed ==
    /\ pending = 1
    /\ tries > 0
    /\ cmd.inverter_no \notin Slow \cup doubtful => done = 1
    /\ pending' = 0
    /\ fault485' = [fault485 EXCEPT ![cmd.inverter_no] = 0]
    /\ UNCHANGED <<cmd, tries, done, doubtful>>

GiveUp ==
    /\ pending = 1
    /\ tries = cmd.comm_retry + 1
    /\ pending' = 0
    /\ fault485' = [fault485 EXCEPT ![cmd.inverter_no] = 1]
    /\ doubtful' \in {doubtful, doubtful \cup {cmd.inverter_no}}
    /\ UNCHANGED <<cmd, tries, done>>

Next ==
    \/ \E c \in Commands : Accept(c)
    \/ Send
    \/ Execute
    \/ Disturb
    \/ Succeed
    \/ GiveUp

Spec == Init /\ [][Next]_lvars
=============================================================================
