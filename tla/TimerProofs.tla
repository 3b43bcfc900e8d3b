---------------------------- MODULE TimerProofs ----------------------------
(***************************************************************************)
(* Proofs about the timer for every register width.                        *)
(*                                                                         *)
(* PhaseInv is the inductive invariant: the position of an armed timer in  *)
(* its period, computed from its two counters, is the enabled time since   *)
(* the last interrupt, or less if a stop lost a prescaler tick.            *)
(***************************************************************************)
EXTENDS TimerCounter, TLAPS

\* Arithmetic of the phase.
LEMMA TimesSucc ==
  ASSUME NEW a \in Nat, NEW p \in Nat
  PROVE  (a + 1) * p = a * p + p /\ p * (a + 1) = a * p + p /\ a * p \in Nat
  OBVIOUS

LEMMA TimesMonotonic ==
  ASSUME NEW a \in Nat, NEW c \in Nat, NEW p \in Nat, a <= c
  PROVE  a * p <= c * p
<1>1. PICK d \in Nat : c = a + d
  <2>1. c - a \in Nat /\ c = a + (c - a)
    OBVIOUS
  <2>. QED
    BY <2>1
<1>2. c * p = a * p + d * p /\ a * p \in Nat /\ d * p \in Nat
  BY <1>1
<1>. QED
  BY <1>2

\* A period ends when the counter has reached ARR and the prescaler PSC.
LEMMA PeriodLength ==
  ASSUME TypeOK PROVE Period = arr * (psc + 1) + psc + 1 /\ Period \in Nat
<1>1. arr \in Nat /\ psc + 1 \in Nat
  BY ModAssumption DEF TypeOK, Word
<1>2. (psc + 1) * (arr + 1) = arr * (psc + 1) + (psc + 1) /\ arr * (psc + 1) \in Nat
  BY <1>1, TimesSucc
<1>. QED
  BY <1>1, <1>2 DEF Period, TypeOK, Word

-----------------------------------------------------------------------------

LEMMA TypeInit == Init => TypeOK
<1>1. 0 \in Word /\ 0 \in Nat
  BY ModAssumption DEF Word
<1>. QED
  BY <1>1, Zenon DEF Init, TypeOK

\* Every clock edge and reset keeps the types.
LEMMA TypeStep == TypeOK /\ [Next]_vars => TypeOK'
<1> SUFFICES ASSUME TypeOK, [Next]_vars PROVE TypeOK'
  OBVIOUS
<1>0. /\ 0 \in Word
      /\ \A n \in Word : (n + 1) % Mod \in Word
  BY ModAssumption DEF Word
<1>1. CASE Clock
  <2>1. /\ cnt_en' \in BOOLEAN /\ intr_en' \in BOOLEAN /\ cnt_valid' \in BOOLEAN
        /\ psc' \in Word /\ arr' \in Word /\ i_cnt' \in Word
    BY <1>1 DEF Clock, RegisterEdge, NoWrite, WriteCR, WritePSC, WriteARR,
       WriteCNT, TypeOK, Word
  <2>2. psc_tick' \in BOOLEAN /\ psc_counter' \in Word
    BY <1>0, <1>1 DEF Clock, PrescalerEdge, TypeOK
  <2>3. intr_tick' \in BOOLEAN /\ counter' \in Word
    BY <1>0, <1>1 DEF Clock, CounterEdge, TypeOK
  <2>4. armed' \in BOOLEAN /\ paused' \in BOOLEAN
    BY <1>1 DEF Clock, HistoryEdge
  <2>5. elapsed' \in Nat
    BY <1>1 DEF Clock, HistoryEdge, TypeOK
  <2>. QED
    BY <2>1, <2>2, <2>3, <2>4, <2>5, Zenon DEF TypeOK, Word
<1>2. CASE Reset
  BY <1>0, <1>2, Zenon DEF Reset, TypeOK, Word
<1>3. CASE UNCHANGED vars
  BY <1>3 DEF vars, config, core, history, TypeOK, Word
<1>. QED
  BY <1>1, <1>2, <1>3 DEF Next

\* Every register and counter of the timer stays within its width.
THEOREM TimerTypes == Spec => []TypeOK
  BY TypeInit, TypeStep, PTL DEF Spec

-----------------------------------------------------------------------------
\* One clock edge of an armed timer.

\* An interrupt pulse ends a period: at it the phase is the last of the
\* period, and the next phase is the first.
LEMMA PulseEndsPeriod ==
  ASSUME TypeOK, PhaseInv, armed, CounterEdge, intr_tick'
  PROVE  Phase + 1 = Period /\ cnt_en /\ psc_tick /\ psc_counter = 0 /\ counter' = 0
<1>1. cnt_en /\ psc_tick /\ counter = arr /\ counter' = 0
  BY DEF CounterEdge
<1>2. psc_counter = 0
  BY <1>1 DEF PhaseInv
<1>3. arr \in Nat /\ psc \in Nat /\ arr * (psc + 1) \in Nat
  BY ModAssumption, TimesSucc DEF TypeOK, Word
<1>. QED
  BY <1>1, <1>2, <1>3, PeriodLength DEF Phase

\* The counters of an armed timer stay within ARR and PSC.
LEMMA CountersInRange ==
  ASSUME TypeOK, PhaseInv, armed, Clock, psc' = psc, arr' = arr
  PROVE  counter' \in 0 .. arr /\ psc_counter' \in 0 .. psc
<1>1. counter \in Nat /\ arr \in Nat /\ arr < Mod /\ counter <= arr
  BY ModAssumption DEF TypeOK, Word, PhaseInv
<1>2. psc_counter \in Nat /\ psc \in Nat /\ psc < Mod /\ psc_counter <= psc
  BY ModAssumption DEF TypeOK, Word, PhaseInv
<1>3. counter' \in 0 .. arr
  BY <1>1, ModAssumption DEF Clock, CounterEdge, PhaseInv
<1>4. psc_counter' \in 0 .. psc
  BY <1>2, ModAssumption DEF Clock, PrescalerEdge
<1>. QED
  BY <1>3, <1>4

\* The phase of an armed timer is below the period.
LEMMA PhaseBelowPeriod ==
  ASSUME TypeOK, PhaseInv, armed
  PROVE  Phase \in Int /\ Phase < Period
<1>1. /\ counter \in Nat /\ arr \in Nat /\ counter <= arr
      /\ psc_counter \in Nat /\ psc \in Nat /\ psc_counter <= psc
      /\ psc_tick => psc_counter = 0
  BY ModAssumption DEF TypeOK, Word, PhaseInv
<1>2. counter * (psc + 1) <= arr * (psc + 1) /\ counter * (psc + 1) \in Nat
      /\ arr * (psc + 1) \in Nat
  BY <1>1, TimesMonotonic, TimesSucc
<1>. QED
  BY <1>1, <1>2, PeriodLength DEF Phase

\* The prescaler of a running timer at an edge.
LEMMA PrescalerStep ==
  ASSUME TypeOK, PrescalerEdge, cnt_en, psc_counter <= psc
  PROVE  /\ psc_counter = psc => psc_tick' /\ psc_counter' = 0
         /\ psc_counter # psc => ~psc_tick' /\ psc_counter' = psc_counter + 1
<1>1. psc_tick' <=> psc_counter = psc
  BY Zenon DEF PrescalerEdge
<1>2. psc_counter = psc => psc_counter' = 0
  BY Zenon DEF PrescalerEdge
<1>3. ASSUME psc_counter # psc PROVE psc_counter' = psc_counter + 1
  <2>1. psc_counter' = (psc_counter + 1) % Mod
    BY <1>3, Zenon DEF PrescalerEdge
  <2>2. psc_counter \in 0 .. Mod - 2 /\ Mod \in Nat
    BY <1>3, ModAssumption DEF TypeOK, Word
  <2>. QED
    BY <2>1, <2>2
<1>. QED
  BY <1>1, <1>2, <1>3

\* An edge of a running, armed timer that gives no pulse is one step of phase.
LEMMA PhaseAdvances ==
  ASSUME TypeOK, PhaseInv, armed, cnt_en, Clock, psc' = psc, arr' = arr, ~intr_tick'
  PROVE  Phase' = Phase + 1
<1>1. /\ counter \in Nat /\ counter < Mod /\ arr < Mod /\ arr \in Nat
      /\ counter <= arr
      /\ psc_counter \in Nat /\ psc < Mod /\ psc \in Nat /\ psc_counter <= psc
      /\ Mod \in Nat
      /\ psc_tick => psc_counter = 0
      /\ ~cnt_valid
  BY ModAssumption DEF TypeOK, Word, PhaseInv
<1>2. (counter + 1) * (psc + 1) = counter * (psc + 1) + (psc + 1)
      /\ counter * (psc + 1) \in Nat
  BY <1>1, TimesSucc
<1>3. CASE psc_tick
  <2>1. counter' = counter + 1
    <3>1. counter # arr /\ counter' = (counter + 1) % Mod
      BY <1>1, <1>3 DEF Clock, CounterEdge
    <3>. QED
      BY <1>1, <3>1
  <2>2. CASE psc = 0
    <3>1. psc_tick' /\ psc_counter' = 0
      BY <1>1, <1>3, <2>2, PrescalerStep DEF Clock
    <3>. QED
      BY <1>1, <1>2, <1>3, <2>1, <2>2, <3>1 DEF Phase
  <2>3. CASE psc # 0
    <3>1. ~psc_tick' /\ psc_counter' = 1
      BY <1>1, <1>3, <2>3, PrescalerStep DEF Clock
    <3>. QED
      BY <1>1, <1>2, <1>3, <2>1, <3>1 DEF Phase
  <2>. QED
    BY <2>2, <2>3
<1>4. CASE ~psc_tick
  <2>1. counter' = counter
    BY <1>1, <1>4 DEF Clock, CounterEdge
  <2>2. CASE psc_counter = psc
    <3>1. psc_tick' /\ psc_counter' = 0
      BY <1>1, <2>2, PrescalerStep DEF Clock
    <3>. QED
      BY <1>1, <1>2, <1>4, <2>1, <2>2, <3>1 DEF Phase
  <2>3. CASE psc_counter # psc
    <3>1. ~psc_tick' /\ psc_counter' = psc_counter + 1
      BY <1>1, <2>3, PrescalerStep DEF Clock
    <3>. QED
      BY <1>1, <1>2, <1>4, <2>1, <3>1 DEF Phase
  <2>. QED
    BY <2>2, <2>3
<1>. QED
  BY <1>3, <1>4

\* The invariant is inductive.
LEMMA PhaseInit == Init => PhaseInv
  BY DEF Init, PhaseInv

LEMMA PhaseStep == TypeOK /\ PhaseInv /\ [Next]_vars => PhaseInv'
<1> SUFFICES ASSUME TypeOK, PhaseInv, [Next]_vars PROVE PhaseInv'
  OBVIOUS
<1>1. CASE Clock
  <2>1. psc_tick' => psc_counter' = 0
    BY <1>1 DEF Clock, PrescalerEdge
  <2>2. ASSUME armed', intr_tick'
        PROVE  /\ counter' <= arr' /\ psc_counter' <= psc' /\ ~cnt_valid'
               /\ Phase' = elapsed'
               /\ ~paused' => cnt_en'
    <3>1. psc' = psc /\ arr' = arr /\ ~cnt_valid' /\ elapsed' = 0
      BY <1>1, <2>2 DEF Clock, HistoryEdge
    <3>2. cnt_en /\ psc_tick /\ psc_counter = 0 /\ counter' = 0
      BY <1>1, <2>2 DEF Clock, CounterEdge, PhaseInv
    <3>3. psc \in Nat /\ arr \in Nat /\ psc < Mod /\ Mod \in Nat
      BY ModAssumption DEF TypeOK, Word
    <3>4. IF psc = 0 THEN psc_counter' = 0 /\ psc_tick'
                     ELSE psc_counter' = 1 /\ ~psc_tick'
      BY <1>1, <3>2, <3>3, PrescalerStep DEF Clock
    <3>5. 0 * (psc + 1) = 0
      BY <3>3
    <3>6. Phase' = 0
      BY <3>1, <3>2, <3>3, <3>4, <3>5 DEF Phase
    <3>7. ~paused' => cnt_en'
      BY <1>1, <2>2 DEF Clock, HistoryEdge
    <3>. QED
      BY <3>1, <3>2, <3>3, <3>4, <3>6, <3>7
  <2>3. ASSUME armed', ~intr_tick'
        PROVE  /\ counter' <= arr' /\ psc_counter' <= psc' /\ ~cnt_valid'
               /\ Phase' <= elapsed'
               /\ ~paused' => cnt_en' /\ Phase' = elapsed'
    <3>1. armed /\ psc' = psc /\ arr' = arr /\ ~cnt_valid'
      BY <1>1, <2>3 DEF Clock, HistoryEdge
    <3>2. counter' <= arr' /\ psc_counter' <= psc'
      BY <1>1, <3>1, CountersInRange, ModAssumption DEF TypeOK, Word
    <3>3. Phase \in Int /\ Phase < Period /\ Period \in Nat
      BY <3>1, PhaseBelowPeriod, PeriodLength
    <3>4. CASE cnt_en
      <4>1. Phase' = Phase + 1
        BY <1>1, <2>3, <3>1, <3>4, PhaseAdvances
      <4>2. elapsed' = IF elapsed < Period THEN elapsed + 1 ELSE elapsed
        BY <1>1, <2>3, <3>4 DEF Clock, HistoryEdge
      <4>3. Phase <= elapsed /\ elapsed \in Nat
        BY <3>1 DEF PhaseInv, TypeOK
      <4>4. ~paused' => cnt_en' /\ Phase = elapsed
        BY <1>1, <2>3, <3>1 DEF Clock, HistoryEdge, PhaseInv, TypeOK
      <4>. QED
        BY <3>1, <3>2, <3>3, <4>1, <4>2, <4>3, <4>4
    <3>5. CASE ~cnt_en
      <4>1. ~psc_tick' /\ psc_counter' = psc_counter /\ counter' = counter
        BY <1>1, <3>1, <3>5 DEF Clock, PrescalerEdge, CounterEdge, PhaseInv
      <4>2. paused' /\ elapsed' = elapsed
        BY <1>1, <2>3, <3>1, <3>5 DEF Clock, HistoryEdge, PhaseInv, TypeOK
      <4>3. /\ counter * (psc + 1) \in Nat
            /\ psc_counter \in Nat /\ psc \in Nat
        BY ModAssumption, TimesSucc DEF TypeOK, Word
      <4>4. Phase' <= Phase /\ Phase' \in Int
        BY <3>1, <4>1, <4>3 DEF Phase
      <4>5. Phase <= elapsed /\ elapsed \in Nat
        BY <3>1 DEF PhaseInv, TypeOK
      <4>. QED
        BY <3>1, <3>2, <3>3, <4>2, <4>4, <4>5
    <3>. QED
      BY <3>4, <3>5
  <2>4. elapsed' \in Nat
    BY <1>1, TypeStep DEF TypeOK
  <2>. QED
    BY <2>1, <2>2, <2>3, <2>4 DEF PhaseInv
<1>2. CASE Reset
  BY <1>2 DEF Reset, PhaseInv
<1>3. CASE UNCHANGED vars
  BY <1>3 DEF vars, config, core, history, PhaseInv, Phase
<1>. QED
  BY <1>1, <1>2, <1>3 DEF Next

\* Types, and the phase of an armed timer as the enabled time since its last
\* interrupt.
THEOREM TimerSafe == Spec => []TimerInv
  BY TimerTypes, PhaseInit, PhaseStep, PTL DEF Spec, TimerInv

\* Interrupt pulses of a timer that is left alone are exactly
\* (PSC+1)*(ARR+1) clocks apart, whatever PSC, ARR and the width are.
THEOREM PeriodIsExact == Spec => PeriodExact
<1>1. ASSUME TypeOK, PhaseInv, [Next]_vars
      PROVE  [armed /\ ~paused /\ intr_tick' => elapsed + 1 = Period]_vars
  <2>1. SUFFICES ASSUME Next, armed, ~paused, intr_tick'
                 PROVE  elapsed + 1 = Period
    BY <1>1
  <2>2. CounterEdge
    BY <2>1 DEF Next, Clock, Reset
  <2>. QED
    BY <1>1, <2>1, <2>2, PulseEndsPeriod DEF PhaseInv
<1>. QED
  BY <1>1, TimerSafe, PTL DEF Spec, PeriodExact, TimerInv

\* Stops and restarts never make an interrupt early.
THEOREM InterruptsAreNeverEarly == Spec => NeverEarly
<1>1. ASSUME TypeOK, PhaseInv, [Next]_vars
      PROVE  [armed /\ intr_tick' => elapsed + 1 >= Period]_vars
  <2>1. SUFFICES ASSUME Next, armed, intr_tick'
                 PROVE  elapsed + 1 >= Period
    BY <1>1
  <2>2. CounterEdge
    BY <2>1 DEF Next, Clock, Reset
  <2>3. Phase + 1 = Period /\ Phase <= elapsed /\ elapsed \in Nat
    BY <1>1, <2>1, <2>2, PulseEndsPeriod DEF PhaseInv, TypeOK
  <2>4. Phase \in Int
    BY <1>1, <2>1, PhaseBelowPeriod
  <2>. QED
    BY <2>3, <2>4
<1>. QED
  BY <1>1, TimerSafe, PTL DEF Spec, NeverEarly, TimerInv

\* The counter passes ARR only through a write.
THEOREM CounterStopsAtArr == Spec => NoOverrunByItself
<1>1. ASSUME TypeOK, [Next]_vars
      PROVE  [~Reset /\ counter <= arr /\ arr' = arr /\ ~cnt_valid
              => counter' <= arr']_vars
  <2>1. SUFFICES ASSUME Next, ~Reset, counter <= arr, arr' = arr, ~cnt_valid
                 PROVE  counter' <= arr'
    BY <1>1
  <2>2. CounterEdge
    BY <2>1 DEF Next, Clock
  <2>3. counter \in Nat /\ arr \in Nat /\ arr < Mod /\ Mod \in Nat
    BY <1>1, ModAssumption DEF TypeOK, Word
  <2>. QED
    BY <2>1, <2>2, <2>3 DEF CounterEdge
<1>. QED
  BY <1>1, TimerTypes, PTL DEF Spec, NoOverrunByItself

=============================================================================
