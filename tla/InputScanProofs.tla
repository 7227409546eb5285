-------------------------- MODULE InputScanProofs --------------------------
(***************************************************************************)
(* The debouncing is exact and the periodic handlers keep their period for *)
(* all times that fit into a u8 and for all periods.                       *)
(***************************************************************************)
EXTENDS InputScan, TLAPS

\* The parameters of an input are numbers, its times fit into a u8.
LEMMA KindType ==
    ASSUME kind \in Kinds
    PROVE  /\ kind.up \in Nat /\ kind.up < 255
           /\ kind.down \in Nat /\ kind.down < 255
           /\ kind.edge0 \in {0, 1} /\ kind.edge1 \in {0, 1}
           /\ kind.period \in Nat
           /\ kind.period # 0 => kind.edge1 = 1
  BY ScanAssumption
     DEF Kinds, Reset, Photo, Start, Stop, Stream, Emergency, U8

\* An increment of the confirm counter does not wrap below the limit.
LEMMA IncrementExact ==
    ASSUME NEW n \in 0..254
    PROVE  Increment(n) = n + 1
  BY DEF Increment, U8

\* What one scan does, in terms of the level and the length of its run.
LEMMA ScanEffect ==
    ASSUME TypeOK, ScanInv, NEW bit \in {0, 1}, Scan(bit)
    PROVE  /\ bit = input_state =>
                 /\ input_state' = input_state /\ input_confirm_times' = 0
                 /\ input_middle_state' = input_state
           /\ bit # input_state /\ Streak(bit) <= Time(bit) =>
                 /\ input_state' = input_state
                 /\ input_confirm_times' = Streak(bit)
                 /\ input_middle_state' = bit
           /\ bit # input_state /\ Streak(bit) > Time(bit) =>
                 /\ input_state' = bit /\ input_confirm_times' = 0
                 /\ input_middle_state' = bit
                 /\ Streak(bit) = Time(bit) + 1
<1>1. /\ kind.up \in Nat /\ kind.up < 255
      /\ kind.down \in Nat /\ kind.down < 255
  BY KindType DEF TypeOK
<1>2. CASE bit = input_state
  <2>1. ~Confirming(bit)
    BY <1>2 DEF Confirming
  <2>. QED  BY <1>2, <2>1 DEF Scan
<1>3. CASE bit # input_state
  <2>1. Middle(bit) = bit /\ Confirming(bit)
    BY <1>3 DEF Middle, Confirming, ScanInv, TypeOK
  <2>2. /\ input_confirm_times \in 0..254
        /\ Streak(bit) = input_confirm_times + 1
    BY <1>1, <1>3 DEF ScanInv, TypeOK, Streak, MaxStreak, Time
  <2>3. Increment(input_confirm_times) = Streak(bit)
    BY <2>2, IncrementExact
  <2>4. input_confirm_times <= Time(bit)
    BY <1>1, <1>3 DEF ScanInv, TypeOK, Time
  <2>5. Streak(bit) > Time(bit) => Streak(bit) = Time(bit) + 1
    BY <1>1, <2>2, <2>4 DEF Time
  <2>. QED  BY <1>1, <1>3, <2>1, <2>2, <2>3, <2>5 DEF Scan, Passed, Time
<1>. QED  BY <1>2, <1>3

\* A scan keeps the types.
LEMMA ScanTypeStep ==
    ASSUME TypeOK, ScanInv, [Next]_vars
    PROVE  TypeOK'
<1>1. CASE UNCHANGED vars
  BY <1>1 DEF vars, TypeOK, MaxStreak
<1>2. ASSUME NEW bit \in {0, 1}, Scan(bit)
      PROVE  TypeOK'
  <2>. USE DEF TypeOK
  <2>1. /\ kind.up \in Nat /\ kind.up < 255
        /\ kind.down \in Nat /\ kind.down < 255
        /\ kind.edge0 \in {0, 1} /\ kind.edge1 \in {0, 1}
        /\ kind.period \in Nat
    BY KindType
  <2>2. kind' = kind /\ last' = bit /\ streak' = Streak(bit)
    BY <1>2 DEF Scan
  <2>3. streak' \in 0..MaxStreak'
    BY <2>1, <2>2 DEF Streak, MaxStreak
  <2>4. /\ input_state' \in {0, 1} /\ input_middle_state' \in {0, 1}
        /\ input_confirm_times' \in 0..U8 - 1
    BY <1>2, <2>1, <2>3, ScanEffect DEF Time, U8, Streak
  <2>5. trig_cnt' \in 0..kind'.period
    BY <1>2, <2>1, <2>2 DEF Scan, PeriodOver
  <2>6. calls' \in 0..2 /\ quiet' \in Nat
    BY <1>2, <2>1 DEF Scan, EdgeCalls
  <2>. QED  BY <1>2, <2>2, <2>3, <2>4, <2>5, <2>6
<1>. QED  BY <1>1, <1>2 DEF Next

\* A scan keeps ScanInv.
LEMMA ScanInvStep ==
    ASSUME TypeOK, ScanInv, [Next]_vars
    PROVE  ScanInv'
<1>1. CASE UNCHANGED vars
  BY <1>1 DEF vars, ScanInv, Time
<1>2. ASSUME NEW bit \in {0, 1}, Scan(bit)
      PROVE  ScanInv'
  <2>1. /\ kind.up \in Nat /\ kind.down \in Nat
        /\ kind.period \in Nat /\ EdgeCalls(bit) \in {0, 1}
    BY KindType DEF TypeOK, EdgeCalls
  <2>2. kind' = kind /\ last' = bit /\ streak' = Streak(bit) /\ Time(bit)' = Time(bit)
    BY <1>2 DEF Scan, Time
  <2>3. Streak(bit) > 0
    BY <2>1 DEF Streak, TypeOK, MaxStreak
  <2>4. /\ last' = input_state' => input_confirm_times' = 0
        /\ last' # input_state' => /\ input_confirm_times' = streak'
                                   /\ input_middle_state' = last'
                                   /\ streak' <= Time(bit)'
        /\ input_confirm_times' = 0 => input_middle_state' = input_state'
    BY <1>2, <2>1, <2>2, <2>3, ScanEffect DEF TypeOK, Time, Streak, MaxStreak
  <2>5. kind'.period # 0 => quiet' <= trig_cnt'
    <3>1. CASE PeriodOver
      <4>1. quiet' = 0
        BY <1>2, <2>1, <3>1 DEF Scan
      <4>. QED  BY <1>2, <2>1, <2>2, <3>1, <4>1 DEF Scan
    <3>2. CASE ~PeriodOver /\ kind.period # 0
      <4>1. trig_cnt' = trig_cnt + 1 /\ quiet' \in {0, quiet + 1}
        BY <1>2, <3>2 DEF Scan
      <4>. QED  BY <3>2, <4>1 DEF ScanInv, TypeOK
    <3>. QED  BY <2>2, <3>1, <3>2
  <2>. QED  BY <2>2, <2>4, <2>5 DEF ScanInv
<1>. QED  BY <1>1, <1>2 DEF Next

LEMMA ScanInitially == Init => TypeOK /\ ScanInv
  BY KindType, ScanAssumption DEF Init, TypeOK, ScanInv, MaxStreak, U8

\* The variables have their types: the 8-bit confirm counter never wraps and
\* trig_cnt never passes the period (logic_ctrl.c, lines 169-479).
THEOREM ScanTypeCorrect == Spec => []TypeOK
<1>1. TypeOK /\ ScanInv /\ [Next]_vars => TypeOK' /\ ScanInv'
  BY ScanTypeStep, ScanInvStep
<1>. QED  BY ScanInitially, <1>1, PTL DEF Spec

\* The confirm counter is the number of equal samples in a row, or 0; nothing
\* is left over from a glitch (logic_ctrl.c, lines 170-190).
THEOREM NothingLeftOver == Spec => []ScanInv
<1>1. TypeOK /\ ScanInv /\ [Next]_vars => TypeOK' /\ ScanInv'
  BY ScanTypeStep, ScanInvStep
<1>. QED  BY ScanInitially, <1>1, PTL DEF Spec

\* While an input with a period is on, its handler is called again within
\* that period; for the emergency stop, every EMERGENCY_PERIOD + 1 scans.
THEOREM HandlersRepeat == Spec => []CalledAgain
<1>1. TypeOK /\ ScanInv /\ [Next]_vars => TypeOK' /\ ScanInv'
  BY ScanTypeStep, ScanInvStep
<1>2. TypeOK /\ ScanInv => CalledAgain
  BY KindType DEF TypeOK, ScanInv, CalledAgain
<1>. QED  BY ScanInitially, <1>1, <1>2, PTL DEF Spec

\* The debounced level follows the input after exactly Time + 1 equal samples.
THEOREM DebounceIsExact == Spec => ExactDebounce
<1>1. TypeOK /\ ScanInv /\ [Next]_vars => TypeOK' /\ ScanInv'
  BY ScanTypeStep, ScanInvStep
<1>2. TypeOK /\ ScanInv /\ [Next]_vars =>
        [ /\ input_state' # input_state => last' = input_state' /\ streak' = Time(last') + 1
          /\ last' # input_state /\ streak' > Time(last') => input_state' = last' ]_vars
  <2>. SUFFICES ASSUME TypeOK, ScanInv, NEW bit \in {0, 1}, Scan(bit)
                PROVE  /\ input_state' # input_state =>
                            last' = input_state' /\ streak' = Time(last') + 1
                       /\ last' # input_state /\ streak' > Time(last') =>
                            input_state' = last'
    BY DEF Next
  <2>1. last' = bit /\ streak' = Streak(bit)
    BY DEF Scan
  <2>2. Time(bit) \in Nat /\ Streak(bit) \in Nat
    BY KindType DEF TypeOK, Time, Streak, MaxStreak
  <2>. QED  BY <2>1, <2>2, ScanEffect
<1>. QED  BY ScanInitially, <1>1, <1>2, PTL DEF Spec, ExactDebounce
=============================================================================
