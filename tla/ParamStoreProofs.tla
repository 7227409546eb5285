-------------------------- MODULE ParamStoreProofs --------------------------
(***************************************************************************)
(* For every number of belts, every length of their records and all values *)
(* of the parameters, and with resets at any step: the types, the shape of *)
(* the page, what a station works with, and that the page is the register  *)
(* ParamRegister describes.                                                *)
(***************************************************************************)
EXTENDS ParamStore, TLAPS

\* There is room for the head and at least one word of a belt.
LEMMA LenPos == LEN \in Nat /\ LEN > 3
<1>1. BELTS \in Nat /\ BELTS >= 1 /\ BELT_WORDS \in Nat /\ BELT_WORDS >= 1
  BY ParamAssumption
<1>2. \A x, y \in Nat : x >= 1 /\ y >= 1 => x * y \in Nat /\ x * y >= 1
  OBVIOUS
<1>. QED  BY <1>1, <1>2 DEF LEN

\* The words of a belt lie within the page.
LEMMA BeltWordInPage ==
    ASSUME NEW b \in 0..(BELTS - 1)
    PROVE  3 + BELT_WORDS * b + GEAR_2 \in Words
<1>1. /\ BELTS \in Nat /\ BELTS >= 1 /\ BELT_WORDS \in Nat /\ BELT_WORDS >= 1
      /\ GEAR_2 \in Nat /\ GEAR_2 <= BELT_WORDS - 1
  BY ParamAssumption
<1>2. b \in Nat /\ b + 1 <= BELTS
  BY <1>1
<1>3. \A x, y, z \in Nat : y + 1 <= z => x * (y + 1) <= z * x /\ x * (y + 1) = x * y + x /\ x * y \in Nat
  OBVIOUS
<1>4. /\ BELT_WORDS * (b + 1) <= BELTS * BELT_WORDS
      /\ BELT_WORDS * (b + 1) = BELT_WORDS * b + BELT_WORDS
      /\ BELT_WORDS * b \in Nat
  BY <1>1, <1>2, <1>3
<1>. QED  BY <1>1, <1>2, <1>4 DEF Words, LEN

\* The check keeps the words that have no range.
LEMMA CheckedType ==
    ASSUME NEW w \in [Words -> U16]
    PROVE  /\ Checked(w) \in [Words -> U16]
           /\ \A j \in Words : j > BELT_NUMBER => Checked(w)[j] = w[j]
           /\ Checked(w)[BELT_NUMBER] # 0 => w[BELT_NUMBER] # ERASED
<1>1. BELTS \in 1..255
  BY ParamAssumption
<1>2. 0 \in Words /\ 1 \in Words /\ 2 \in Words
  BY LenPos DEF Words
<1>3. \A n \in 0..255, x \in U16 : AtMost(n, x) \in U16 /\ (x = ERASED => AtMost(n, x) = 0)
  BY ParamAssumption DEF AtMost, U16, ERASED
<1>4. AtMost(255, w[0]) \in U16 /\ AtMost(255, w[1]) \in U16 /\ AtMost(BELTS, w[2]) \in U16
  BY <1>1, <1>2, <1>3
<1>5. Checked(w) = [[[w EXCEPT ![0] = AtMost(255, w[0])]
                       EXCEPT ![1] = AtMost(255, w[1])]
                       EXCEPT ![2] = AtMost(BELTS, w[2])]
  BY <1>2 DEF Checked, UP_NO, DOWN_NO, BELT_NUMBER
<1>6. Checked(w) \in [Words -> U16]
  BY <1>2, <1>4, <1>5
<1>7. \A j \in Words : j > BELT_NUMBER => Checked(w)[j] = w[j]
  BY <1>2, <1>5 DEF BELT_NUMBER, Words
<1>8. Checked(w)[BELT_NUMBER] = AtMost(BELTS, w[2])
  BY <1>2, <1>5 DEF BELT_NUMBER
<1>9. w[2] = ERASED => AtMost(BELTS, w[2]) = 0
  BY <1>1, <1>2, <1>3
<1>. QED  BY <1>6, <1>7, <1>8, <1>9 DEF BELT_NUMBER

LEMMA StopSpeedType ==
    ASSUME NEW w \in [Words -> U16], NEW old \in [0..(BELTS - 1) -> U16]
    PROVE  StopSpeed(w, old) \in [0..(BELTS - 1) -> U16]
<1>1. ASSUME NEW b \in 0..(BELTS - 1)
      PROVE  w[3 + BELT_WORDS * b + GEAR_2] \in U16 /\ old[b] \in U16
  BY BeltWordInPage
<1>. QED  BY <1>1 DEF StopSpeed

-----------------------------------------------------------------------------
LEMMA TypeStep ==
    ASSUME StoreType, [StoreNext]_store
    PROVE  StoreType'
<1>. USE LenPos DEF StoreType
<1>0. /\ ERASED \in U16 /\ 0 \in U16 /\ 0 \in Words
      /\ \A v \in Versions, j \in Words : Value[v][j] \in U16
  <2>1. WORD_MAX \in Nat /\ Value \in [Versions -> [Words -> U16]]
    BY ParamAssumption
  <2>2. \A v \in Versions, j \in Words : Value[v][j] \in U16
    BY <2>1
  <2>. QED  BY <2>1, <2>2, LenPos DEF U16, ERASED, Words
<1>1. ASSUME NEW v \in Versions, BeginWrite(v)
      PROVE  StoreType'
  BY <1>1 DEF BeginWrite
<1>2. CASE Erase
  BY <1>0, <1>2 DEF Erase
<1>8. CASE EraseFails
  <2>1. ASSUME NEW S \in Partial
        PROVE  Torn(S) \in [Words -> U16]
    BY <1>0 DEF Torn
  <2>2. flash' \in [Words -> U16]
    BY <1>8, <2>1 DEF EraseFails
  <2>3. failures' \in 0..MaxFailures /\ failed' = 1
    BY <1>8, ParamAssumption DEF EraseFails, Failure
  <2>. QED  BY <1>0, <1>8, <2>2, <2>3 DEF EraseFails
<1>9. CASE ProgramFails
  <2>1. failures' \in 0..MaxFailures /\ failed' = 1
    BY <1>9, ParamAssumption DEF ProgramFails, Failure
  <2>2. i' \in Words /\ good' \in 0..LEN
    BY <1>0, <1>9 DEF ProgramFails, Words
  <2>. QED  BY <1>9, <2>1, <2>2 DEF ProgramFails
<1>3. CASE Program
  <2>1. Programmed(flash[i], Value[para][i]) \in U16
    BY <1>0 DEF Programmed
  <2>2. flash' \in [Words -> U16]
    BY <1>3, <2>1 DEF Program
  <2>3. i' \in Words /\ good' \in 0..LEN
    BY <1>0, <1>3 DEF Program, Words
  <2>. QED  BY <1>3, <2>2, <2>3 DEF Program
<1>4. CASE Copy
  <2>1. user_paras_local' \in [Words -> U16]
    BY <1>4 DEF Copy
  <2>2. i' \in Words
    BY <1>0, <1>4 DEF Copy, Words
  <2>. QED  BY <1>4, <2>1, <2>2 DEF Copy
<1>5. CASE Check
  <2>1. user_paras_local' \in [Words -> U16]
    BY <1>5, CheckedType DEF Check
  <2>2. stopspeed_default' \in [0..(BELTS - 1) -> U16]
    BY <1>5, CheckedType, StopSpeedType DEF Check
  <2>. QED  BY <1>5, <2>1, <2>2 DEF Check
<1>6. CASE Reset
  <2>1. ASSUME NEW S \in Partial
        PROVE  Torn(S) \in [Words -> U16]
    BY <1>0 DEF Torn
  <2>2. flash' \in [Words -> U16] /\ mixed' \in {0, 1}
    BY <1>6, <2>1 DEF Reset
  <2>. QED  BY <1>0, <1>6, <2>2 DEF Reset
<1>7. CASE UNCHANGED store
  BY <1>7 DEF store
<1>. QED  BY <1>1, <1>2, <1>3, <1>4, <1>5, <1>6, <1>7, <1>8, <1>9
         DEF StoreNext, StoreSteps

LEMMA TypeInit == StoreInit => StoreType
<1>1. 0 \in Words /\ LEN \in Nat
  BY LenPos DEF Words
<1>. QED  BY <1>1, ParamAssumption DEF StoreInit, StoreType, U16, ERASED, NoVersion

\* For every layout of the page the loops of write_user_paras and
\* read_user_paras stay inside it and all words keep their width.
THEOREM StoreTypeCorrect == StoreSpec => []StoreType
  BY TypeInit, TypeStep, PTL DEF StoreSpec

-----------------------------------------------------------------------------
\* Where the loops stand, and what that says of the page and of memory.
Programming ==
    at = "program" =>
        /\ good = i /\ mixed = 0 /\ want = para
        /\ failed = 0 => \A j \in Words : j >= i => flash[j] = ERASED

Booted == at \in {"idle", "erase", "program"} => boot = 0

Memory ==
    /\ at = "copy" => \A j \in Words : j < i => user_paras_local[j] = flash[j]
    /\ at = "check" => user_paras_local = flash
    /\ at = "idle" => user_paras_local = Checked(flash)

StoreInv == StoreType /\ Programming /\ Booted /\ FlashShape /\ Memory

LEMMA ShapeStep ==
    ASSUME StoreInv, [StoreNext]_store
    PROVE  FlashShape' /\ Programming' /\ Booted'
<1>. USE LenPos DEF StoreInv, FlashShape, Programming, Booted
<1>0. StoreType
  BY DEF StoreInv
<1>1. ASSUME NEW v \in Versions, BeginWrite(v)
      PROVE  FlashShape' /\ Programming' /\ Booted'
  BY <1>1 DEF BeginWrite
<1>2. CASE Erase
  <2>1. \A j \in Words : flash'[j] = ERASED /\ ~(j < 0)
    BY <1>2 DEF Erase, Words
  <2>. QED  BY <1>2, <2>1 DEF Erase
<1>8. CASE EraseFails
  BY <1>8 DEF EraseFails, Failure
<1>9. CASE ProgramFails
  BY <1>9 DEF ProgramFails, Failure
<1>a. CASE Program /\ failed = 1
  BY <1>a DEF Program
<1>3. CASE Program /\ failed = 0
  <2>1. i \in Words /\ flash \in [Words -> U16] /\ good = i /\ mixed = 0 /\ want = para
    BY <1>0, <1>3 DEF Program, StoreType
  <2>2. flash[i] = ERASED
    BY <1>3, <2>1 DEF Program, Words
  <2>3. flash' = [flash EXCEPT ![i] = Value[want][i]]
    BY <1>3, <2>1, <2>2 DEF Program, Programmed
  <2>4. want' = want /\ mixed' = 0 /\ good' = i + 1 /\ para' = para
    BY <1>3, <2>1 DEF Program
  <2>5. FlashShape'
    <3>1. ASSUME NEW j \in Words
          PROVE  \/ flash'[j] = ERASED /\ (j < good' => mixed' = 1 \/ Value[want'][j] = ERASED)
                 \/ flash'[j] = Value[want'][j] /\ j < good'
      <4>1. CASE j = i
        BY <2>1, <2>3, <2>4, <4>1 DEF Words
      <4>2. CASE j # i
        <5>1. flash'[j] = flash[j]
          BY <2>1, <2>3, <4>2
        <5>2. j < good <=> j < good'
          BY <2>1, <2>4, <4>2 DEF Words
        <5>. QED  BY <1>3, <2>1, <2>4, <5>1, <5>2
      <4>. QED  BY <4>1, <4>2
    <3>. QED  BY <3>1
  <2>6. Programming'
    <3>1. CASE i + 1 < LEN
      <4>1. i' = i + 1
        BY <1>3, <3>1 DEF Program
      <4>2. ASSUME NEW j \in Words, j >= i + 1
            PROVE  flash'[j] = ERASED
        BY <1>3, <2>1, <2>3, <4>2 DEF Words, Program
      <4>. QED  BY <2>1, <2>4, <4>1, <4>2
    <3>2. CASE ~(i + 1 < LEN)
      BY <1>3, <3>2 DEF Program
    <3>. QED  BY <3>1, <3>2
  <2>. QED  BY <1>3, <2>5, <2>6 DEF Program
<1>4. CASE Copy
  BY <1>4 DEF Copy
<1>5. CASE Check
  BY <1>5 DEF Check
<1>6. CASE Reset
  <2>1. CASE at # "erase" /\ UNCHANGED <<flash, mixed>>
    BY <1>6, <2>1 DEF Reset
  <2>2. ASSUME at = "erase", mixed' = 1, NEW S \in Partial, flash' = Torn(S)
        PROVE  FlashShape'
    <3>1. \A j \in Words : flash'[j] = ERASED \/ flash'[j] = flash[j]
      BY <2>2 DEF Torn
    <3>. QED  BY <1>6, <2>2, <3>1 DEF Reset
  <2>3. Programming' /\ Booted'
    BY <1>6 DEF Reset
  <2>. QED  BY <1>6, <2>1, <2>2, <2>3 DEF Reset
<1>7. CASE UNCHANGED store
  BY <1>7 DEF store
<1>b. failed \in {0, 1}
  BY <1>0 DEF StoreType
<1>. QED  BY <1>1, <1>2, <1>3, <1>a, <1>b, <1>4, <1>5, <1>6, <1>7, <1>8, <1>9
         DEF StoreNext, StoreSteps

LEMMA MemoryStep ==
    ASSUME StoreInv, [StoreNext]_store
    PROVE  Memory'
<1>. USE LenPos DEF StoreInv, Memory
<1>0. StoreType
  BY DEF StoreInv
<1>1. ASSUME NEW v \in Versions, BeginWrite(v)
      PROVE  Memory'
  BY <1>1 DEF BeginWrite
<1>2. CASE Erase
  BY <1>2 DEF Erase
<1>8. CASE EraseFails
  BY <1>8 DEF EraseFails
<1>9. CASE ProgramFails
  <2>1. ~(i + 1 < LEN) => i' = 0
    BY <1>9 DEF ProgramFails
  <2>. QED  BY <1>9, <2>1 DEF ProgramFails, Words
<1>3. CASE Program
  <2>1. ~(i + 1 < LEN) => i' = 0
    BY <1>3 DEF Program
  <2>. QED  BY <1>3, <2>1 DEF Program, Words
<1>4. CASE Copy
  <2>1. /\ i \in Words /\ user_paras_local \in [Words -> U16] /\ flash \in [Words -> U16]
        /\ flash' = flash /\ user_paras_local' = [user_paras_local EXCEPT ![i] = flash[i]]
    BY <1>0, <1>4 DEF Copy, StoreType
  <2>2. \A j \in Words : j < i + 1 => user_paras_local'[j] = flash'[j]
    BY <1>4, <2>1 DEF Copy, Words
  <2>3. CASE i + 1 < LEN
    BY <1>4, <2>2, <2>3 DEF Copy
  <2>4. CASE ~(i + 1 < LEN)
    <3>1. \A j \in Words : j < i + 1
      BY <2>1, <2>4 DEF Words
    <3>2. user_paras_local' = flash'
      BY <2>1, <2>2, <3>1
    <3>. QED  BY <1>4, <2>4, <3>2 DEF Copy
  <2>. QED  BY <2>3, <2>4
<1>5. CASE Check
  BY <1>5 DEF Check
<1>6. CASE Reset
  BY <1>6 DEF Reset, Words
<1>7. CASE UNCHANGED store
  BY <1>7 DEF store
<1>. QED  BY <1>1, <1>2, <1>3, <1>4, <1>5, <1>6, <1>7, <1>8, <1>9
         DEF StoreNext, StoreSteps

LEMMA InvInit == StoreInit => StoreInv
<1>. SUFFICES ASSUME StoreInit
              PROVE  StoreInv
  OBVIOUS
<1>1. StoreType
  BY TypeInit
<1>2. FlashShape
  BY LenPos DEF StoreInit, FlashShape, Words
<1>3. Programming /\ Booted /\ Memory
  BY DEF StoreInit, Programming, Booted, Memory, Words
<1>. QED  BY <1>1, <1>2, <1>3 DEF StoreInv

LEMMA InvStep ==
    ASSUME StoreInv, [StoreNext]_store
    PROVE  StoreInv'
<1>1. StoreType'
  BY TypeStep DEF StoreInv
<1>. QED  BY <1>1, ShapeStep, MemoryStep DEF StoreInv

LEMMA InvHolds == StoreSpec => []StoreInv
  BY InvInit, InvStep, PTL DEF StoreSpec

-----------------------------------------------------------------------------
\* Resets at any step of write_user_paras, as many as there may be, never leave
\* words of two versions in the page, as long as the flash itself does not fail.
THEOREM ShapeHolds == StoreSpec => []FlashShape
<1>1. StoreInv => FlashShape
  BY DEF StoreInv
<1>. QED  BY <1>1, InvHolds, PTL

LEMMA WorksWith == StoreInv => RunsWhatIsStored
<1>. SUFFICES ASSUME StoreInv, at = "idle"
              PROVE  /\ user_paras_local = Checked(flash)
                     /\ failed = 0 /\ user_paras_local[BELT_NUMBER] # 0 =>
                        /\ good > BELT_NUMBER
                        /\ \A j \in Words : j > BELT_NUMBER =>
                              user_paras_local[j] \in {ERASED, Value[want][j]}
  BY DEF RunsWhatIsStored
<1>1. user_paras_local = Checked(flash)
  BY DEF StoreInv, Memory
<1>2. flash \in [Words -> U16] /\ good \in 0..LEN
  BY DEF StoreInv, StoreType
<1>3. BELT_NUMBER \in Words
  BY LenPos DEF Words, BELT_NUMBER
<1>4. ASSUME failed = 0, user_paras_local[BELT_NUMBER] # 0
      PROVE  good > BELT_NUMBER
  <2>1. flash[BELT_NUMBER] # ERASED
    BY <1>1, <1>2, <1>4, CheckedType
  <2>. QED  BY <1>2, <1>3, <1>4, <2>1, LenPos DEF StoreInv, FlashShape, BELT_NUMBER
<1>5. ASSUME failed = 0, NEW j \in Words, j > BELT_NUMBER
      PROVE  user_paras_local[j] \in {ERASED, Value[want][j]}
  <2>1. user_paras_local[j] = flash[j]
    BY <1>1, <1>2, <1>5, CheckedType
  <2>. QED  BY <1>5, <2>1 DEF StoreInv, FlashShape
<1>. QED  BY <1>1, <1>4, <1>5

\* A station that is not writing works with its page as the check of
\* read_user_paras lets it through, and with belts only if the number of belts
\* had been programmed.
THEOREM StoredIsUsed == StoreSpec => []RunsWhatIsStored
  BY WorksWith, InvHolds, PTL

-----------------------------------------------------------------------------
LEMMA RegisterStep ==
    ASSUME StoreInv, StoreInv', [StoreNext]_store
    PROVE  [Register!Next]_<<IF good = LEN /\ mixed = 0 /\ failed = 0 THEN want ELSE Broken,
                             IF at \in {"erase", "program"} THEN para ELSE None,
                             failed, 1 - boot>>
<1>. DEFINE value == IF good = LEN /\ mixed = 0 /\ failed = 0 THEN want ELSE Broken
            writing == IF at \in {"erase", "program"} THEN para ELSE None
            up == 1 - boot
<1>. USE DEF Register!Next
<1>0. /\ para \in Versions /\ want \in Versions /\ boot \in {0, 1} /\ failed \in {0, 1}
      /\ para' \in Versions /\ want' \in Versions /\ boot' \in {0, 1}
      /\ Broken \notin Versions /\ None \notin Versions
      /\ good \in 0..LEN /\ i \in Words /\ LEN \in Nat /\ LEN > 3
  BY ParamAssumption, LenPos DEF StoreInv, StoreType
<1>1. ASSUME NEW v \in Versions, BeginWrite(v)
      PROVE  Register!Begin
  <2>1. boot = 0 /\ boot' = 0
    BY <1>1 DEF StoreInv, Booted, BeginWrite
  <2>. QED  BY <1>0, <1>1, <2>1 DEF BeginWrite, Register!Begin
<1>2. CASE Erase
  <2>1. writing = para /\ writing' = para /\ value' = Broken /\ failed' = 0 /\ up' = up
    BY <1>0, <1>2 DEF Erase
  <2>. QED  BY <1>0, <2>1 DEF Register!Wipe
<1>8. CASE EraseFails
  <2>1. writing = para /\ writing' = para /\ value' = Broken /\ failed' = 1 /\ up' = up
    BY <1>0, <1>8 DEF EraseFails, Failure
  <2>. QED  BY <1>0, <2>1 DEF Register!Refuse
<1>9. CASE ProgramFails
  <2>1. writing = para /\ value' = Broken /\ failed' = 1 /\ up' = up
    BY <1>0, <1>9 DEF ProgramFails, Failure
  <2>2. CASE i + 1 < LEN
    <3>1. writing' = para
      BY <1>0, <1>9, <2>2 DEF ProgramFails
    <3>. QED  BY <1>0, <2>1, <3>1 DEF Register!Refuse
  <2>3. CASE ~(i + 1 < LEN)
    <3>1. writing' = None
      BY <1>0, <1>9, <2>3 DEF ProgramFails
    <3>. QED  BY <1>0, <2>1, <3>1 DEF Register!Spoil
  <2>. QED  BY <2>2, <2>3
<1>3. CASE Program
  <2>1. good = i /\ mixed = 0 /\ want = para /\ i < LEN
    BY <1>0, <1>3 DEF StoreInv, Programming, Program, Words
  <2>2. writing = para /\ value = Broken /\ failed' = failed /\ up' = up
    BY <1>0, <1>3, <2>1 DEF Program
  <2>3. CASE i + 1 < LEN
    <3>1. writing' = para /\ value' = Broken
      BY <1>0, <1>3, <2>1, <2>3 DEF Program
    <3>. QED  BY <2>2, <3>1
  <2>4. CASE ~(i + 1 < LEN)
    <3>1. i + 1 = LEN
      BY <1>0, <2>1, <2>4 DEF Words
    <3>2. writing' = None /\ (failed = 0 => value' = para) /\ (failed # 0 => value' = Broken)
      BY <1>0, <1>3, <2>1, <2>2, <3>1 DEF Program
    <3>3. CASE failed = 0
      BY <1>0, <2>2, <3>2, <3>3 DEF Register!Commit
    <3>4. CASE failed = 1
      <4>1. writing # None /\ writing' = None /\ value' = Broken /\ failed' = 1
            /\ up' = up
        <5>1. failed # 0
          BY <3>4
        <5>2. value' = Broken
          BY <3>2, <5>1
        <5>. QED  BY <1>0, <2>2, <3>2, <3>4, <5>2
      <4>. QED  BY <4>1 DEF Register!Spoil
    <3>. QED  BY <1>0, <3>3, <3>4
  <2>. QED  BY <2>3, <2>4
<1>4. CASE Copy
  <2>1. writing' = writing /\ value' = value /\ failed' = failed /\ up' = up
    BY <1>4 DEF Copy
  <2>. QED  BY <2>1
<1>5. CASE Check
  <2>1. writing = None /\ writing' = None /\ value' = value /\ failed' = failed /\ up' = 1
    BY <1>5 DEF Check
  <2>. QED  BY <2>1 DEF Register!Up
<1>6. CASE Reset
  <2>1. writing' = None /\ failed' = failed /\ up' = 0
    BY <1>6 DEF Reset
  <2>2. CASE at = "erase"
    <3>1. writing = para /\ value' = Broken
      BY <1>6, <2>2 DEF Reset
    <3>. QED  BY <1>0, <2>1, <3>1 DEF Register!Fail
  <2>3. CASE at = "program"
    <3>1. writing = para /\ value' = value
      BY <1>6, <2>3 DEF Reset
    <3>. QED  BY <1>0, <2>1, <3>1 DEF Register!Fail
  <2>4. CASE at \notin {"erase", "program"}
    <3>1. writing = None /\ value' = value
      BY <1>6, <2>4 DEF Reset
    <3>. QED  BY <2>1, <3>1 DEF Register!Down
  <2>. QED  BY <2>2, <2>3, <2>4
<1>7. CASE UNCHANGED store
  BY <1>7 DEF store
<1>. QED  BY <1>1, <1>2, <1>3, <1>4, <1>5, <1>6, <1>7, <1>8, <1>9
         DEF StoreNext, StoreSteps

LEMMA RegisterInit == StoreInit => Register!Init
  BY LenPos DEF StoreInit, Register!Init

\* write_user_paras, read_user_paras and resets in any order implement the
\* register: a page is whole only by a complete write of its version, and a
\* write that no reset interrupts and no failure of the flash spoils completes.
THEOREM StoreIsRegister == StoreSpec => RegisterSpec
  BY RegisterInit, RegisterStep, InvHolds, PTL
     DEF StoreSpec, RegisterSpec, Register!RegisterSpec
=============================================================================
