----------------------------- MODULE InputScan -----------------------------
(***************************************************************************)
(* InputScanProc: every millisecond each input is sampled, debounced, and  *)
(* its handler called on a confirmed edge; the handlers of the light       *)
(* barriers, of the downstream release and of the emergency stop are also  *)
(* called periodically while the input is on.  The blocks of the ten       *)
(* inputs differ in their times, in the edges that call the handler and in *)
(* the period; the module follows one input of any kind.                   *)
(***************************************************************************)
EXTENDS Naturals

CONSTANTS
    RESET_TIME,        \* 50 scans
    PHOTO_TIME,        \* 50
    BUTTON_TIME,       \* 100, start and stop
    STREAM_UP_TIME,    \* 20
    STREAM_DOWN_TIME,  \* 200
    EMERGENCY_TIME,    \* 50
    PHOTO_PERIOD,      \* 300
    STREAM_PERIOD,     \* 2000
    EMERGENCY_PERIOD   \* 2000

\* input_confirm_times is a u8: it must be able to pass the longest time.
U8 == 256

ASSUME ScanAssumption ==
    /\ RESET_TIME \in Nat /\ RESET_TIME < U8 - 1
    /\ PHOTO_TIME \in Nat /\ PHOTO_TIME < U8 - 1
    /\ BUTTON_TIME \in Nat /\ BUTTON_TIME < U8 - 1
    /\ STREAM_UP_TIME \in Nat /\ STREAM_UP_TIME < U8 - 1
    /\ STREAM_DOWN_TIME \in Nat /\ STREAM_DOWN_TIME < U8 - 1
    /\ EMERGENCY_TIME \in Nat /\ EMERGENCY_TIME < U8 - 1
    /\ PHOTO_PERIOD \in Nat \ {0}
    /\ STREAM_PERIOD \in Nat \ {0}
    /\ EMERGENCY_PERIOD \in Nat \ {0}

\* up, down: scans beyond which a level is confirmed; edge0, edge1: whether
\* the handler is called on that edge (0 or 1); period: 0 for none.
Reset == [up |-> RESET_TIME, down |-> RESET_TIME,
          edge1 |-> 1, edge0 |-> 1, period |-> 0]
Photo == [up |-> PHOTO_TIME, down |-> PHOTO_TIME,
          edge1 |-> 1, edge0 |-> 1, period |-> PHOTO_PERIOD]
Start == [up |-> BUTTON_TIME, down |-> BUTTON_TIME,
          edge1 |-> 1, edge0 |-> 0, period |-> 0]
Stop == [up |-> BUTTON_TIME, down |-> BUTTON_TIME,
         edge1 |-> 1, edge0 |-> 0, period |-> 0]
Stream == [up |-> STREAM_UP_TIME, down |-> STREAM_DOWN_TIME,
           edge1 |-> 1, edge0 |-> 0, period |-> STREAM_PERIOD]
Emergency == [up |-> EMERGENCY_TIME, down |-> EMERGENCY_TIME,
              edge1 |-> 1, edge0 |-> 1, period |-> EMERGENCY_PERIOD]

Kinds == {Reset, Photo, Start, Stop, Stream, Emergency}

VARIABLES
    kind,                  \* which input; never changes
    input_state,           \* the debounced level
    input_middle_state,
    input_confirm_times,
    trig_cnt,
    last, streak,          \* history: last sample, how often in a row
    calls,                 \* history: calls of the handler in the last scan
    quiet                  \* history: scans without a call while the input is on

vars == <<kind, input_state, input_middle_state, input_confirm_times, trig_cnt,
          last, streak, calls, quiet>>

\* The time for a level to be confirmed.
Time(level) == IF level = 1 THEN kind.up ELSE kind.down

Init ==
    /\ kind \in Kinds
    /\ input_state = 0 /\ input_middle_state = 0
    /\ input_confirm_times = 0 /\ trig_cnt = 0
    /\ last = 0 /\ streak = 0 /\ calls = 0 /\ quiet = 0

\* The middle state after the first test of the block.
Middle(bit) ==
    IF input_state # bit /\ input_confirm_times = 0 THEN bit ELSE input_middle_state

ConfirmingMiddle(bit) == Middle(bit) = bit

\* The second test: the sample agrees with the middle state and not with the
\* debounced one.
Confirming(bit) == Middle(bit) = bit /\ Middle(bit) # input_state

Increment(n) == (n + 1) % U8

PassedAtLimit(n, level) == n >= Time(level)
Passed(n, level) == n > Time(level)

EdgeCalls(level) == IF level = 1 THEN kind.edge1 ELSE kind.edge0

PeriodOverLate == kind.period # 0 /\ trig_cnt > kind.period

\* trig_cnt runs on whatever the input does.  u16, but it restarts at the
\* period at the latest; inputs without a period have no such counter.
PeriodOver == kind.period # 0 /\ trig_cnt + 1 > kind.period

\* The counter of the samples in a row, cut where it no longer matters.
MaxStreak == kind.up + kind.down + 2
Streak(bit) == IF bit # last THEN 1
               ELSE IF streak < MaxStreak THEN streak + 1 ELSE streak

\* One scan that samples bit.
Scan(bit) ==
    LET confirming == Confirming(bit)
        edge == confirming /\ Passed(Increment(input_confirm_times), bit)
        state == IF edge THEN bit ELSE input_state
        called == (IF edge THEN EdgeCalls(bit) ELSE 0)
                  + (IF PeriodOver /\ state = 1 THEN 1 ELSE 0)
    IN
    /\ input_state' = state
    /\ input_middle_state' = IF confirming THEN Middle(bit) ELSE input_state
    /\ input_confirm_times' = IF confirming /\ ~edge
                              THEN Increment(input_confirm_times) ELSE 0
    /\ trig_cnt' = IF kind.period = 0 \/ PeriodOver THEN 0 ELSE trig_cnt + 1
    /\ calls' = called
    /\ quiet' = IF kind.period # 0 /\ state = 1 /\ called = 0 THEN quiet + 1 ELSE 0
    /\ last' = bit
    /\ streak' = Streak(bit)
    /\ UNCHANGED kind

Next == \E bit \in {0, 1} : Scan(bit)

Spec == Init /\ [][Next]_vars

-----------------------------------------------------------------------------
\* Every variable has its type; trig_cnt never exceeds the period.
TypeOK ==
    /\ kind \in Kinds
    /\ input_state \in {0, 1} /\ input_middle_state \in {0, 1}
    /\ input_confirm_times \in 0..U8 - 1
    /\ trig_cnt \in 0..kind.period
    /\ last \in {0, 1} /\ streak \in 0..MaxStreak /\ calls \in 0..2
    /\ quiet \in Nat

\* The debounced level changes on the first sample after the level has been
\* seen Time times in a row, no earlier and no later: no glitch is taken for
\* an edge and no counter is left over from an earlier glitch or an earlier
\* edge (logic_ctrl.c, lines 170-190 and the blocks like it).
ExactDebounce ==
    [][ /\ input_state' # input_state => last' = input_state' /\ streak' = Time(last') + 1
        /\ last' # input_state /\ streak' > Time(last') => input_state' = last' ]_vars

\* While the input is on its handler is called again within one period: an
\* emergency stop is repeated every EMERGENCY_PERIOD + 1 scans at the latest,
\* also when the edge fell in the middle of a period (lines 192-220, 441-449
\* and 474-479).
CalledAgain == kind.period # 0 => quiet <= kind.period

\* The inductive invariant behind both.
ScanInv ==
    /\ last = input_state => input_confirm_times = 0
    /\ last # input_state => /\ input_confirm_times = streak
                             /\ input_middle_state = last
                             /\ streak <= Time(last)
    /\ input_confirm_times = 0 => input_middle_state = input_state
    /\ kind.period # 0 => quiet <= trig_cnt
=============================================================================
