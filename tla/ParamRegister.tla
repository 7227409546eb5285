--------------------------- MODULE ParamRegister ----------------------------
(***************************************************************************)
(* What the parameter page in flash promises: it holds one version of the  *)
(* parameters, or is broken.  A write that has begun breaks the page and   *)
(* ends with it whole and of the version asked for, unless the hardware    *)
(* refused something of it; only a reset cuts a write short, and leaves    *)
(* the page as it was or broken.  A broken page is not made whole by       *)
(* anything but another write.                                             *)
(***************************************************************************)
CONSTANTS Versions, Broken, None

VARIABLES value, writing, refused, up

Init == value \in Versions \cup {Broken} /\ writing = None /\ refused = 0 /\ up = 0

Begin ==
    /\ up = 1 /\ writing = None
    /\ writing' \in Versions /\ UNCHANGED <<value, refused, up>>

Wipe == writing # None /\ value' = Broken /\ refused' = 0 /\ UNCHANGED <<writing, up>>

Refuse == writing # None /\ value' = Broken /\ refused' = 1 /\ UNCHANGED <<writing, up>>

Commit == /\ writing # None /\ value = Broken /\ refused = 0
          /\ value' = writing /\ writing' = None /\ UNCHANGED <<refused, up>>

\* The write ends and its page is not whole.
Spoil == /\ writing # None /\ writing' = None
         /\ value' = Broken /\ refused' = 1 /\ UNCHANGED up

Fail == /\ writing # None /\ writing' = None
        /\ value' \in {value, Broken} /\ up' = 0 /\ UNCHANGED refused

Down == writing = None /\ up' = 0 /\ UNCHANGED <<value, writing, refused>>

Up == writing = None /\ up' = 1 /\ UNCHANGED <<value, writing, refused>>

Next == Begin \/ Wipe \/ Refuse \/ Commit \/ Spoil \/ Fail \/ Down \/ Up

RegisterSpec == Init /\ [][Next]_<<value, writing, refused, up>>
=============================================================================
