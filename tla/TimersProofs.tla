----------------------------- MODULE TimersProofs -----------------------------
(***************************************************************************)
(* Safety of Timers for words of any width, any delays between checks and  *)
(* whatever programs set.                                                  *)
(***************************************************************************)
EXTENDS MCTimers, TLAPS

(* What HandlerReady needs: whatever may raise an interrupt, or is about   *)
(* to be turned on, has its vector set.                                    *)
VectorsFirst ==
  /\ data # 0 \/ vm.call = "vdispst" => Vdisp \in handlers
  /\ enabled \/ vm.call = "opmintst" => Opm \in handlers

TimersInv == TypeOK /\ VectorsFirst /\ HandlerReady

(* Words stay words, whatever is added to or taken from them.              *)
LEMMA WordMod ==
  ASSUME NEW x \in Int
  PROVE  x % W \in 0 .. W - 1
BY TimerAssumption

(* The status after a check is made of two flags.                          *)
LEMMA FlagsInRange ==
  ASSUME NEW a \in BOOLEAN, NEW b \in BOOLEAN
  PROVE  Flags(a, b) \in 0 .. 3
BY DEF Flags
-----------------------------------------------------------------------------
(* A check keeps the types: the counter of the CRTC runs from its data     *)
(* down to 1.                                                              *)
LEMMA CheckTyped ==
  ASSUME TypeOK, NEW d \in Delays, CheckTimers(d)
  PROVE  TypeOK'
<1> USE TimerAssumption
<1>1. d \in Int /\ VDISP_INTERVAL \in Int
  OBVIOUS
<1>2. /\ sinceV \in Int /\ sinceA \in Int /\ sinceB \in Int
      /\ intervalA \in Int /\ intervalB \in Int
  BY DEF TypeOK
<1>3. sinceV' \in 0 .. W - 1
  <2>1. (sinceV + d - VDISP_INTERVAL) % W \in 0 .. W - 1 /\ (sinceV + d) % W \in 0 .. W - 1
    BY <1>1, <1>2, WordMod
  <2>2. QED BY <2>1 DEF CheckTimers, CheckVdisp
<1>4. value' \in Nat /\ data' = data /\ (data # 0 => value' \in 1 .. data)
  BY DEF TypeOK, CheckTimers, CheckVdisp
<1>5. sinceA' \in 0 .. W - 1 /\ sinceB' \in 0 .. W - 1
  <2>1. /\ sinceA + d - (IF ADue(d) THEN intervalA ELSE 0)
             - (IF BDue(d) THEN intervalB ELSE 0) \in Int
        /\ sinceB + d \in Int
    BY <1>1, <1>2
  <2>2. QED BY <2>1, WordMod DEF CheckTimers, CheckOpm
<1>6. status' \in 0 .. 3
  BY FlagsInRange DEF CheckTimers, CheckOpm, StatusAt, FlagA, FlagB, ADue, BDue
<1>7. raised' \subseteq {Vdisp, Opm}
  BY DEF CheckTimers
<1>8. UNCHANGED <<intervalA, intervalB, control, enabled, handlers, vm>>
  BY DEF CheckTimers, CheckOpm
<1>9. QED BY <1>3, <1>4, <1>5, <1>6, <1>7, <1>8 DEF TypeOK

(* So does every call of the VM's thread.                                  *)
LEMMA CallTyped ==
  ASSUME TypeOK, StartA \/ StartB \/ IocsCall
  PROVE  TypeOK'
<1> USE TimerAssumption DEF TypeOK, vdispVars, opmVars, Rest
<1>1. CASE StartA         BY <1>1 DEF StartA, SetTimerA
<1>2. CASE StartB         BY <1>2 DEF StartB, SetTimerB
<1>3. CASE VdispstOff     BY <1>3 DEF VdispstOff
<1>4. CASE VdispstCounter BY <1>4 DEF VdispstCounter
<1>5. ASSUME NEW n \in VdispCounts, VdispstVector(n)
      PROVE  TypeOK'
  BY <1>5 DEF VdispstVector
<1>6. CASE OpmintstOff    BY <1>6 DEF OpmintstOff
<1>7. CASE OpmintstVector BY <1>7 DEF OpmintstVector
<1>8. CASE OpmintstEnable BY <1>8 DEF OpmintstEnable
<1>9. ASSUME NEW bits \in Controls, SetControl(bits)
      PROVE  TypeOK'
  <2>1. status' \in 0 .. 3
    BY <1>9, FlagsInRange DEF SetControl, FlagA, FlagB
  <2>2. QED BY <1>9, <2>1 DEF SetControl
<1>10. QED
  BY <1>1, <1>2, <1>3, <1>4, <1>5, <1>6, <1>7, <1>8, <1>9 DEF IocsCall
-----------------------------------------------------------------------------
(* A vector is set in the step before its interrupt is turned on, and no   *)
(* step takes a handler away.                                              *)
LEMMA VectorsStep ==
  ASSUME TypeOK, VectorsFirst, HandlerReady, Next
  PROVE  VectorsFirst' /\ HandlerReady'
<1> USE DEF VectorsFirst, HandlerReady, vdispVars, opmVars, Rest
<1>1. ASSUME NEW d \in Delays, CheckTimers(d)
      PROVE  VectorsFirst' /\ HandlerReady'
  BY <1>1 DEF CheckTimers, CheckVdisp, CheckOpm, VdispRaised, OpmRaised
<1>2. CASE StartA         BY <1>2 DEF StartA, SetTimerA
<1>3. CASE StartB         BY <1>3 DEF StartB, SetTimerB
<1>4. CASE VdispstOff     BY <1>4 DEF VdispstOff
<1>5. CASE VdispstCounter BY <1>5 DEF VdispstCounter
<1>6. ASSUME NEW n \in VdispCounts, VdispstVector(n)
      PROVE  VectorsFirst' /\ HandlerReady'
  BY <1>6 DEF VdispstVector
<1>7. CASE OpmintstOff    BY <1>7 DEF OpmintstOff
<1>8. CASE OpmintstVector BY <1>8 DEF OpmintstVector
<1>9. CASE OpmintstEnable BY <1>9 DEF OpmintstEnable
<1>10. ASSUME NEW bits \in Controls, SetControl(bits)
       PROVE  VectorsFirst' /\ HandlerReady'
  BY <1>10 DEF SetControl
<1>11. QED
  BY <1>1, <1>2, <1>3, <1>4, <1>5, <1>6, <1>7, <1>8, <1>9, <1>10
  DEF Next, Check, IocsCall

LEMMA TimersInit == Init => TimersInv
<1> SUFFICES ASSUME Init PROVE TimersInv
  OBVIOUS
<1>1. /\ 0 \in 0 .. W - 1
      /\ \A g \in Garbage : g \in 0 .. W - 1 /\ g \in Nat
  BY TimerAssumption
<1>2. vm = [call |-> "rest", count |-> 0]
  BY DEF Init, Rest
<1>3. TypeOK
  <2>1. vm \in [call : {"rest", "vdispst", "opmintst"}, count : Nat]
    BY <1>2
  <2>2. /\ sinceV \in 0 .. W - 1 /\ sinceA \in 0 .. W - 1 /\ sinceB \in 0 .. W - 1
        /\ intervalA \in 0 .. W - 1 /\ intervalB \in 0 .. W - 1 /\ value \in Nat
    BY <1>1 DEF Init
  <2>3. /\ data = 0 /\ control = {} /\ status = 0 /\ enabled = FALSE
        /\ handlers = {} /\ raised = {}
    BY DEF Init
  <2>4. enabled \in BOOLEAN
    BY <2>3, Zenon
  <2>5. QED BY <2>1, <2>2, <2>3, <2>4 DEF TypeOK
<1>4. VectorsFirst /\ HandlerReady
  BY <1>2 DEF Init, VectorsFirst, HandlerReady
<1>5. QED BY <1>3, <1>4 DEF TimersInv

LEMMA TimersStep == TimersInv /\ [Next]_vars => TimersInv'
<1> SUFFICES ASSUME TimersInv, [Next]_vars PROVE TimersInv'
  OBVIOUS
<1>1. CASE Next
  <2>1. TypeOK'
    BY <1>1, CheckTyped, CallTyped DEF TimersInv, Next, Check
  <2>2. QED BY <1>1, <2>1, VectorsStep DEF TimersInv
<1>2. CASE UNCHANGED vars
  BY <1>2 DEF TimersInv, TypeOK, VectorsFirst, HandlerReady, vars, vdispVars, opmVars
<1>3. QED BY <1>1, <1>2

(* The timers' state is always typed; in particular the VDISP counter is   *)
(* at least 1 while the interrupts are on, as check_timeouts asserts.      *)
THEOREM TimersTypeCorrect == Spec => []TypeOK
<1>1. TimersInv => TypeOK
  BY DEF TimersInv
<1>2. QED BY <1>1, TimersInit, TimersStep, PTL DEF Spec

(* No interrupt is raised whose handler is not in its vector, whenever the *)
(* checks come between the steps of the calls.                             *)
THEOREM HandlersAreReady == Spec => []HandlerReady
<1>1. TimersInv => HandlerReady
  BY DEF TimersInv
<1>2. QED BY <1>1, TimersInit, TimersStep, PTL DEF Spec
-----------------------------------------------------------------------------
(* Timer A alone: programs that never start timer B, whose timeouts move   *)
(* timer A's start time.                                                   *)
AloneAssumption == \A c \in Controls : "loadB" \notin c

(* What has passed is never less than the word that is kept of it.         *)
ATimeLeft == "loadB" \notin control /\ leftA \in Int /\ sinceA <= leftA

(* A word less an interval that is not above it does not wrap.             *)
LEMMA NoWrap ==
  ASSUME NEW x \in Nat, NEW i \in 0 .. W - 1, i <= x % W
  PROVE  (x - i) % W = (x % W) - i
<1>1. x % W \in 0 .. W - 1
  BY WordMod
<1>2. QED BY <1>1, TimerAssumption

LEMMA AInit == AloneAssumption /\ MCInit => ATimeLeft
BY TimerAssumption DEF MCInit, Init, ATimeLeft

LEMMA AStep ==
  ASSUME AloneAssumption, TypeOK, ATimeLeft, [MCNext]_MCVars
  PROVE  ATimeLeft'
<1> USE TimerAssumption DEF ATimeLeft
<1>1. ASSUME NEW d \in Delays, CheckTimers(d),
             leftA' = Least(leftA + d - (IF ADue(d) THEN intervalA ELSE 0), W - 1)
      PROVE  ATimeLeft'
  <2>1. ~BDue(d) /\ control' = control
    BY <1>1 DEF BDue, CheckTimers, CheckOpm
  <2>2. /\ sinceA \in 0 .. W - 1 /\ intervalA \in 0 .. W - 1 /\ d \in 0 .. W - 1
        /\ sinceA + d \in Nat
    BY DEF TypeOK
  <2>3. (sinceA + d) % W \in 0 .. W - 1 /\ (sinceA + d) % W <= sinceA + d
    BY <2>2
  <2>4. CASE ADue(d)
    <3>1. intervalA <= (sinceA + d) % W
      BY <2>2, <2>3, <2>4 DEF ADue
    <3>2. sinceA' = (sinceA + d - intervalA) % W
      BY <1>1, <2>1, <2>2, <2>4 DEF CheckTimers, CheckOpm
    <3>3. sinceA' = ((sinceA + d) % W) - intervalA
      <4> DEFINE x == sinceA + d
      <4>1. x \in Nat /\ intervalA <= x % W
        BY <2>2, <3>1
      <4> HIDE DEF x
      <4>2. (x - intervalA) % W = (x % W) - intervalA
        BY <2>2, <4>1, NoWrap
      <4>3. sinceA + d - intervalA = x - intervalA
        BY <2>2 DEF x
      <4>4. QED BY <3>2, <4>2, <4>3, Zenon DEF x
    <3>4. QED BY <1>1, <2>1, <2>2, <2>3, <2>4, <3>3 DEF Least
  <2>5. CASE ~ADue(d)
    <3>1. sinceA' = (sinceA + d) % W
      BY <1>1, <2>1, <2>2, <2>5 DEF CheckTimers, CheckOpm
    <3>2. QED BY <1>1, <2>1, <2>2, <2>3, <2>5, <3>1 DEF Least
  <2>6. QED BY <2>4, <2>5
<1>2. CASE StartA /\ leftA' = 0
  BY <1>2 DEF StartA, SetTimerA
<1>3. CASE StartB /\ leftA' = leftA
  BY <1>3 DEF StartB, SetTimerB
<1>4. CASE IocsCall /\ leftA' = leftA
  BY <1>4 DEF IocsCall, AloneAssumption, VdispstOff, VdispstCounter, VdispstVector,
              OpmintstOff, OpmintstVector, OpmintstEnable, SetControl, opmVars
<1>5. CASE UNCHANGED MCVars
  BY <1>5 DEF MCVars, vars, opmVars
<1>6. QED BY <1>1, <1>2, <1>3, <1>4, <1>5 DEF MCNext, MCCheck

(* The history variables are not looked at by the timers.                  *)
LEMMA HistoryStep == [MCNext]_MCVars => [Next]_vars
BY DEF MCNext, MCCheck, MCVars, Next, Check

(* With timer B never started, timer A's timeouts have never used more     *)
(* time than has passed since it was started, for words of any width and   *)
(* checks that come however late.                                          *)
THEOREM TimerAKeepsTime ==
  ASSUME AloneAssumption
  PROVE  MCSpec => []TimerANotEarly
<1>1. TypeOK /\ ATimeLeft => TimerANotEarly
  BY DEF TypeOK, ATimeLeft, TimerANotEarly
<1>2. MCInit => TimersInv /\ ATimeLeft
  BY TimersInit, AInit DEF MCInit
<1>3. TimersInv /\ [MCNext]_MCVars => TimersInv'
  BY HistoryStep, TimersStep
<1>4. TimersInv => TypeOK
  BY DEF TimersInv
<1>5. TimersInv /\ ATimeLeft /\ [MCNext]_MCVars => ATimeLeft'
  BY AStep, <1>4
<1>6. QED BY <1>1, <1>2, <1>3, <1>4, <1>5, PTL DEF MCSpec
-----------------------------------------------------------------------------
(* Nor does such a program let timer B interrupt: the next theorem is      *)
(* false without this, and without AloneAssumption.                        *)
QuietAssumption == \A c \in Controls : "irqB" \notin c

(* Only timer A's flag is ever set.                                        *)
AFlagsOnly == control \intersect {"loadB", "irqB"} = {} /\ status \in {0, 2}

(* The new bits of a status that holds timer A's flag or nothing: for      *)
(* these the subtraction gives what is meant.                              *)
LEMMA NewBitsOfA ==
  ASSUME NEW old \in {0, 2}, NEW new \in {old, 2}
  PROVE  FlagA((new + old + 1) % 4) => FlagA(new) /\ ~FlagA(old)
<1>1. (0 + 0 + 1) % 4 = 1 /\ (2 + 0 + 1) % 4 = 3 /\ (2 + 2 + 1) % 4 = 1
  OBVIOUS
<1>2. QED BY <1>1 DEF FlagA

LEMMA AFlagsStep ==
  ASSUME AloneAssumption, QuietAssumption, AFlagsOnly, [Next]_vars
  PROVE  AFlagsOnly' /\ (Opm \in raised' => NewTimeout \/ UNCHANGED vars)
<1> USE DEF AFlagsOnly
<1>1. ASSUME NEW d \in Delays, CheckTimers(d)
      PROVE  AFlagsOnly' /\ (Opm \in raised' => NewTimeout)
  <2>1. ~BDue(d) /\ "irqB" \notin control /\ control' = control
    BY <1>1 DEF BDue, CheckTimers, CheckOpm
  <2>2. StatusAt(d) \in {status, 2} /\ status' = StatusAt(d)
    BY <1>1, <2>1 DEF StatusAt, Flags, FlagA, FlagB, CheckTimers, CheckOpm
  <2>3. ASSUME Opm \in raised' PROVE NewTimeout
    <3>1. OpmRaised(d)
      BY <1>1, <2>3 DEF CheckTimers, Opm, Vdisp
    <3>2. "irqA" \in control /\ FlagA((StatusAt(d) + status + 1) % 4)
      BY <2>1, <3>1 DEF OpmRaised, SetStatus
    <3>3. FlagA(StatusAt(d)) /\ ~FlagA(status)
      BY <2>2, <3>2, NewBitsOfA
    <3>4. QED BY <2>2, <3>2, <3>3 DEF NewTimeout
  <2>4. QED BY <2>1, <2>2, <2>3
<1>2. CASE StartA \/ StartB
  BY <1>2 DEF StartA, StartB, SetTimerA, SetTimerB
<1>3. CASE IocsCall
  <2>1. ASSUME NEW bits \in Controls, SetControl(bits)
        PROVE  AFlagsOnly' /\ raised' = {}
    BY <2>1 DEF SetControl, AloneAssumption, QuietAssumption, Flags, FlagA, FlagB
  <2>2. ASSUME NEW n \in VdispCounts, VdispstVector(n)
        PROVE  AFlagsOnly' /\ raised' = {}
    BY <2>2 DEF VdispstVector, opmVars
  <2>3. CASE VdispstOff \/ VdispstCounter \/ OpmintstOff \/ OpmintstVector \/ OpmintstEnable
    BY <2>3 DEF VdispstOff, VdispstCounter, OpmintstOff, OpmintstVector, OpmintstEnable, opmVars
  <2>4. QED BY <1>3, <2>1, <2>2, <2>3 DEF IocsCall
<1>4. CASE UNCHANGED vars
  BY <1>4 DEF vars, opmVars
<1>5. QED BY <1>1, <1>2, <1>3, <1>4 DEF Next, Check

(* With timer B neither started nor let interrupt, an OPM interrupt says   *)
(* that timer A has timed out at that check, and that its flag had been    *)
(* reset before: it is not raised again for a timeout that was flagged,    *)
(* nor for none.                                                           *)
THEOREM TimerAInterruptsOnce ==
  ASSUME AloneAssumption, QuietAssumption
  PROVE  MCSpec => NewTimeoutsOnly
<1>1. MCInit => AFlagsOnly
  BY DEF MCInit, Init, AFlagsOnly
<1>2. AFlagsOnly /\ [MCNext]_MCVars => AFlagsOnly'
  BY HistoryStep, AFlagsStep
<1>3. AFlagsOnly /\ [MCNext]_MCVars => [(Opm \in raised') => NewTimeout]_vars
  BY HistoryStep, AFlagsStep
<1>4. QED BY <1>1, <1>2, <1>3, PTL DEF MCSpec, NewTimeoutsOnly
=============================================================================
