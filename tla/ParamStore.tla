----------------------------- MODULE ParamStore -----------------------------
(***************************************************************************)
(* The parameters of a station in flash (logic_ctrl.c, 836-880).  A write  *)
(* erases the page and programs it word by word, without looking at the    *)
(* results, then the page is read back into user_paras_local; the same     *)
(* reading follows every reset.  A reset, by power or by command,          *)
(* may come at any step and leaves only the flash.                         *)
(*                                                                         *)
(* The page holds Up_Stream_No, Down_Stream_No, Belt_Number and the words  *)
(* of each belt.  The station number and the version, which read_user_paras*)
(* fills in with constants, are not among the words.                       *)
(***************************************************************************)
EXTENDS Integers

CONSTANTS
    BELTS,       \* 10, belts of USER_PARAS_T
    BELT_WORDS,  \* 11, words of BELT_PARAS_T
    WORD_MAX,    \* 65535, the largest u16, which is also an erased word
    GEAR_2,      \* 2, index of Gear_2_Speed_Freq among them
    Versions,    \* sets of parameters the server sends
    Value,       \* their words
    Partial,     \* sets of words an erasure that was cut short or failed may
                 \* have reached
    Weak,        \* words that may fail to be programmed
    MaxFailures, \* bound: failures of the flash
    Broken, None

UP_NO == 0
DOWN_NO == 1
BELT_NUMBER == 2
LEN == 3 + BELTS * BELT_WORDS   \* USER_PARA_DATA_LEN
Words == 0..(LEN - 1)
U16 == 0..WORD_MAX
ERASED == WORD_MAX
NoVersion == CHOOSE v \in Versions : TRUE

ASSUME ParamAssumption ==
    /\ WORD_MAX \in Nat /\ WORD_MAX > 255
    /\ BELTS \in 1..255 /\ BELT_WORDS \in Nat \ {0} /\ GEAR_2 \in 0..(BELT_WORDS - 1)
    /\ Versions # {} /\ Value \in [Versions -> [Words -> U16]]
    /\ Broken \notin Versions /\ None \notin Versions
    /\ Partial \subseteq SUBSET Words /\ Weak \subseteq Words /\ MaxFailures \in Nat

VARIABLES
    flash,              \* the words of the page
    user_paras_local,   \* the words in memory
    stopspeed_default,  \* frequency a stop is sent with, per belt, until the
                        \* next start of the belt sets it
    at,                 \* step of write_user_paras and read_user_paras, or "idle"
    i,                  \* their loop variable
    boot,               \* 1 until main has read the parameters
    para,               \* the parameters being written
    want,               \* history: version last begun to be programmed, and
    good,               \* how many of its words have been
    mixed,              \* history: 1 after an erasure was cut short
    failed,             \* history: 1 after the hardware failed to erase the
                        \* page or to program a word, until it is erased
    failures            \* failures so far

store == <<flash, user_paras_local, stopspeed_default, at, i, boot, para,
           want, good, mixed, failed, failures>>

-----------------------------------------------------------------------------
\* write_user_paras is called with the words of v; FLASH_Unlock.
BeginWrite(v) ==
    /\ at = "idle"
    /\ at' = "erase" /\ para' = v
    /\ UNCHANGED <<flash, user_paras_local, stopspeed_default, i, boot,
                   want, good, mixed, failed, failures>>

SkipErase ==
    /\ at = "erase"
    /\ at' = "program" /\ i' = 0
    /\ want' = para /\ good' = 0 /\ mixed' = 0 /\ failed' = 0
    /\ UNCHANGED <<flash, user_paras_local, stopspeed_default, boot, para, failures>>

\* FLASH_ErasePage.
Erase ==
    /\ at = "erase"
    /\ at' = "program" /\ i' = 0
    /\ flash' = [j \in Words |-> ERASED]
    /\ want' = para /\ good' = 0 /\ mixed' = 0 /\ failed' = 0
    /\ UNCHANGED <<user_paras_local, stopspeed_default, boot, para, failures>>

\* The flash after an erasure that reached only the words of S.
Torn(S) == [j \in Words |-> IF j \in S THEN ERASED ELSE flash[j]]

Failure == failures < MaxFailures /\ failures' = failures + 1 /\ failed' = 1

\* It reports an error or a timeout, which is not looked at.
EraseFails ==
    /\ at = "erase" /\ Failure
    /\ at' = "program" /\ i' = 0
    /\ \E S \in Partial : flash' = Torn(S)
    /\ want' = para /\ good' = 0 /\ mixed' = 0
    /\ UNCHANGED <<user_paras_local, stopspeed_default, boot, para>>

\* Programming sets a word that is erased, or clears it; any other attempt is
\* refused by the hardware, and the result is not looked at.
Programmed(old, new) == IF old = ERASED \/ new = 0 THEN new ELSE old

ProgramShort ==
    /\ at = "program"
    /\ flash' = [flash EXCEPT ![i] = Programmed(@, Value[para][i])]
    /\ good' = i + 1
    /\ at' = IF i + 2 < LEN THEN "program" ELSE "copy"
    /\ i' = IF i + 2 < LEN THEN i + 1 ELSE 0
    /\ UNCHANGED <<user_paras_local, stopspeed_default, boot, para, want, mixed,
                   failed, failures>>

\* One FLASH_ProgramHalfWord of the loop; after the last, FLASH_Lock and the
\* call of read_user_paras.
Program ==
    /\ at = "program"
    /\ flash' = [flash EXCEPT ![i] = Programmed(@, Value[para][i])]
    /\ good' = i + 1
    /\ at' = IF i + 1 < LEN THEN "program" ELSE "copy"
    /\ i' = IF i + 1 < LEN THEN i + 1 ELSE 0
    /\ UNCHANGED <<user_paras_local, stopspeed_default, boot, para, want, mixed,
                   failed, failures>>

\* The half word is refused or times out; the loop goes on.
ProgramFails ==
    /\ at = "program" /\ i \in Weak /\ Failure
    /\ good' = i + 1
    /\ at' = IF i + 1 < LEN THEN "program" ELSE "copy"
    /\ i' = IF i + 1 < LEN THEN i + 1 ELSE 0
    /\ UNCHANGED <<flash, user_paras_local, stopspeed_default, boot, para, want, mixed>>

CopyShort ==
    /\ at = "copy"
    /\ user_paras_local' = [user_paras_local EXCEPT ![i] = flash[i]]
    /\ at' = IF i + 2 < LEN THEN "copy" ELSE "check"
    /\ i' = IF i + 2 < LEN THEN i + 1 ELSE 0
    /\ UNCHANGED <<flash, stopspeed_default, boot, para, want, good, mixed,
                   failed, failures>>

\* read_user_paras: a word is copied.
Copy ==
    /\ at = "copy"
    /\ user_paras_local' = [user_paras_local EXCEPT ![i] = flash[i]]
    /\ at' = IF i + 1 < LEN THEN "copy" ELSE "check"
    /\ i' = IF i + 1 < LEN THEN i + 1 ELSE 0
    /\ UNCHANGED <<flash, stopspeed_default, boot, para, want, good, mixed,
                   failed, failures>>

\* The validity check: only the three words of the head have a range.
AtMost(n, x) == IF x > n THEN 0 ELSE x

Checked(w) == [w EXCEPT ![UP_NO] = AtMost(255, @), ![DOWN_NO] = AtMost(255, @),
                        ![BELT_NUMBER] = AtMost(BELTS, @)]

StopSpeed(w, old) ==
    [b \in 0..(BELTS - 1) |-> IF b < w[BELT_NUMBER]
                              THEN w[3 + BELT_WORDS * b + GEAR_2] ELSE old[b]]

Check ==
    /\ at = "check"
    /\ at' = "idle" /\ boot' = 0
    /\ user_paras_local' = Checked(user_paras_local)
    /\ stopspeed_default' = StopSpeed(Checked(user_paras_local), stopspeed_default)
    /\ UNCHANGED <<flash, i, para, want, good, mixed, failed, failures>>

\* A reset.  While the page is being erased, any of its words may have been;
\* a word being programmed is still erased or already there.
Reset ==
    /\ \/ at # "erase" /\ UNCHANGED <<flash, mixed>>
       \/ at = "erase" /\ mixed' = 1 /\ \E S \in Partial : flash' = Torn(S)
    /\ user_paras_local' = [j \in Words |-> 0]
    /\ stopspeed_default' = [b \in 0..(BELTS - 1) |-> 0]
    /\ at' = "copy" /\ i' = 0 /\ boot' = 1
    /\ UNCHANGED <<para, want, good, failed, failures>>

StoreSteps == Erase \/ EraseFails \/ Program \/ ProgramFails \/ Copy \/ Check

\* A station as delivered, or with parameters, is switched on.
StoreInit ==
    /\ want \in Versions /\ para = want
    /\ \/ good = 0 /\ flash = [j \in Words |-> ERASED] /\ want = NoVersion
       \/ good = LEN /\ flash = Value[want]
    /\ mixed = 0 /\ failed = 0 /\ failures = 0
    /\ user_paras_local = [j \in Words |-> 0]
    /\ stopspeed_default = [b \in 0..(BELTS - 1) |-> 0]
    /\ at = "copy" /\ i = 0 /\ boot = 1

StoreNext == StoreSteps \/ Reset \/ \E v \in Versions : BeginWrite(v)

StoreSpec == StoreInit /\ [][StoreNext]_store

-----------------------------------------------------------------------------
\* Every variable has its type; the loops stay within the page.
StoreType ==
    /\ flash \in [Words -> U16]
    /\ user_paras_local \in [Words -> U16]
    /\ stopspeed_default \in [0..(BELTS - 1) -> U16]
    /\ at \in {"idle", "erase", "program", "copy", "check"}
    /\ i \in Words /\ boot \in {0, 1}
    /\ para \in Versions /\ want \in Versions
    /\ good \in 0..LEN
    /\ mixed \in {0, 1} /\ failed \in {0, 1} /\ failures \in 0..MaxFailures

\* Whenever and however often writes were cut short: the words in flash are
\* those of one version up to a point and erased behind it, never words of two
\* versions, except that a cut erasure leaves holes (logic_ctrl.c, 871-879).
\* Where the hardware failed this is lost: a page that was not erased keeps
\* words of the version before, and nobody is told.
FlashShape ==
    failed = 0 => \A j \in Words :
        \/ flash[j] = ERASED /\ (j < good => mixed = 1 \/ Value[want][j] = ERASED)
        \/ flash[j] = Value[want][j] /\ j < good

\* A station that is not writing works with what is in its flash; after a reset
\* in the middle of a write that means: without any belt, or with belts of the
\* version being written whose last words are missing and count as 65535,
\* which the validity check does not notice (logic_ctrl.c, 841-861).  After a
\* failure of the hardware it still works with what is in the flash.
RunsWhatIsStored ==
    at = "idle" =>
        /\ user_paras_local = Checked(flash)
        /\ failed = 0 /\ user_paras_local[BELT_NUMBER] # 0 =>
            /\ good > BELT_NUMBER
            /\ \A j \in Words : j > BELT_NUMBER =>
                    user_paras_local[j] \in {ERASED, Value[want][j]}

\* The page as a register; see ParamRegister.
Register == INSTANCE ParamRegister WITH
    value <- IF good = LEN /\ mixed = 0 /\ failed = 0 THEN want ELSE Broken,
    refused <- failed,
    writing <- IF at \in {"erase", "program"} THEN para ELSE None,
    up <- 1 - boot
RegisterSpec == Register!RegisterSpec
=============================================================================
