---------------------------- MODULE TimerCounter ----------------------------
(***************************************************************************)
(* The timer peripheral: the prescaler and counter of timer_counter.v with *)
(* the registers CR, PSC, ARR and CNT of timer_v1_0_S00_AXI.v in front.    *)
(*                                                                         *)
(* A register write is one strobe of the AXI handshake (AxiLite!WrEn), at  *)
(* most one per clock edge; the words written are arbitrary, which covers  *)
(* every WSTRB.  Reads change nothing and are left out.                    *)
(*                                                                         *)
(* elapsed, armed and paused are history: how many enabled clock edges ago *)
(* the last interrupt pulse was, and what happened to the timer since.     *)
(***************************************************************************)
EXTENDS Integers

CONSTANTS
  Mod         \* counters and registers hold 0 .. Mod-1 (2^32 in the hardware)

ASSUME ModAssumption == Mod \in Nat \ {0}

VARIABLES
  \* the register block
  cnt_en, intr_en,    \* subordinate_reg0 bits 0 and 1
  psc, arr, i_cnt,    \* subordinate_reg1, 2 and 3
  cnt_valid,          \* pulse: CNT was written at the last edge
  \* TimerCounter
  psc_counter, psc_tick, counter, intr_tick,
  \* history
  elapsed,    \* enabled edges since the last interrupt pulse (or the arming)
  armed,      \* PSC, ARR and CNT were left alone since then
  paused      \* the timer was stopped at least once since then

config  == << cnt_en, intr_en, psc, arr, i_cnt, cnt_valid >>
core    == << psc_counter, psc_tick, counter, intr_tick >>
history == << elapsed, armed, paused >>
vars    == << config, core, history >>

Word == 0 .. Mod - 1

intr == intr_tick /\ intr_en

\* Clock edges between two interrupt pulses of an undisturbed timer.
Period == (psc + 1) * (arr + 1)

TypeOK ==
  /\ cnt_en \in BOOLEAN /\ intr_en \in BOOLEAN /\ cnt_valid \in BOOLEAN
  /\ psc \in Word /\ arr \in Word /\ i_cnt \in Word
  /\ psc_counter \in Word /\ counter \in Word
  /\ psc_tick \in BOOLEAN /\ intr_tick \in BOOLEAN
  /\ elapsed \in Nat /\ armed \in BOOLEAN /\ paused \in BOOLEAN

Init ==
  /\ cnt_en = FALSE /\ intr_en = FALSE /\ cnt_valid = FALSE
  /\ psc = 0 /\ arr = 0 /\ i_cnt = 0
  /\ psc_counter = 0 /\ psc_tick = FALSE
  /\ counter = 0 /\ intr_tick = FALSE
  /\ elapsed = 0 /\ armed = FALSE /\ paused = FALSE

-----------------------------------------------------------------------------
\* TimerCounter at a clock edge.
\* Faults a run must detect: a counter that is not cleared, one that stops at its end, a compare one too early.
PrescalerEdgeNotCleared ==
  /\ psc_tick' = (cnt_en /\ psc_counter = psc)
  /\ psc_counter' = IF cnt_en THEN (psc_counter + 1) % Mod ELSE psc_counter

PrescalerEdgeSaturating ==
  LET match == cnt_en /\ psc_counter = psc
  IN  /\ psc_tick' = match
      /\ psc_counter' = IF match THEN 0
                        ELSE IF cnt_en /\ psc_counter < Mod - 1 THEN psc_counter + 1
                        ELSE psc_counter

PrescalerEdgeEarly ==
  LET match == cnt_en /\ psc_counter + 1 >= psc
  IN  /\ psc_tick' = match
      /\ psc_counter' = IF match THEN 0
                        ELSE IF cnt_en THEN (psc_counter + 1) % Mod
                        ELSE psc_counter

PrescalerEdge ==
  LET match == cnt_en /\ psc_counter = psc
  IN  /\ psc_tick' = match
      /\ psc_counter' = IF match THEN 0
                        ELSE IF cnt_en THEN (psc_counter + 1) % Mod
                        ELSE psc_counter

\* Faults: the counter restarts at 1; it does not restart.
CounterEdgeFromOne ==
  LET count == ~cnt_valid /\ cnt_en /\ psc_tick
      match == count /\ counter = arr
  IN  /\ intr_tick' = match
      /\ counter' = IF cnt_valid THEN i_cnt
                    ELSE IF match THEN 1 % Mod
                    ELSE IF count THEN (counter + 1) % Mod
                    ELSE counter

CounterEdgeNoReload ==
  LET count == ~cnt_valid /\ cnt_en /\ psc_tick
  IN  /\ intr_tick' = (count /\ counter = arr)
      /\ counter' = IF cnt_valid THEN i_cnt
                    ELSE IF count THEN (counter + 1) % Mod
                    ELSE counter

CounterEdge ==
  LET count == ~cnt_valid /\ cnt_en /\ psc_tick
      match == count /\ counter = arr
  IN  /\ intr_tick' = match
      /\ counter' = IF cnt_valid THEN i_cnt
                    ELSE IF match THEN 0
                    ELSE IF count THEN (counter + 1) % Mod
                    ELSE counter

\* The history at a clock edge.  elapsed stops growing at Period: an
\* interrupt that comes later is late by at least one edge anyway.
HistoryEdge ==
  LET untouched == psc' = psc /\ arr' = arr /\ ~cnt_valid'
  IN  /\ armed' = (untouched /\ (intr_tick' \/ armed))
      /\ paused' = (armed' /\ (~cnt_en' \/ (paused /\ ~intr_tick')))
      /\ elapsed' = IF ~armed' \/ intr_tick' THEN 0
                    ELSE IF cnt_en /\ elapsed < Period THEN elapsed + 1
                    ELSE elapsed

-----------------------------------------------------------------------------
\* The register block at a clock edge: the write strobed at it, if any.

NoWrite ==
  /\ cnt_valid' = FALSE
  /\ UNCHANGED << cnt_en, intr_en, psc, arr, i_cnt >>

WriteCR ==
  /\ cnt_en' \in BOOLEAN /\ intr_en' \in BOOLEAN
  /\ cnt_valid' = FALSE
  /\ UNCHANGED << psc, arr, i_cnt >>

WritePSC ==
  /\ psc' \in Word
  /\ cnt_valid' = FALSE
  /\ UNCHANGED << cnt_en, intr_en, arr, i_cnt >>

WriteARR ==
  /\ arr' \in Word
  /\ cnt_valid' = FALSE
  /\ UNCHANGED << cnt_en, intr_en, psc, i_cnt >>

WriteCNT ==
  /\ i_cnt' \in Word
  /\ cnt_valid' = TRUE
  /\ UNCHANGED << cnt_en, intr_en, psc, arr >>

RegisterEdge == NoWrite \/ WriteCR \/ WritePSC \/ WriteARR \/ WriteCNT

Clock == RegisterEdge /\ PrescalerEdge /\ CounterEdge /\ HistoryEdge

Reset ==
  /\ cnt_en' = FALSE /\ intr_en' = FALSE /\ cnt_valid' = FALSE
  /\ psc' = 0 /\ arr' = 0 /\ i_cnt' = 0
  /\ psc_counter' = 0 /\ psc_tick' = FALSE
  /\ counter' = 0 /\ intr_tick' = FALSE
  /\ elapsed' = 0 /\ armed' = FALSE /\ paused' = FALSE

Next == Clock \/ Reset

\* The clock runs, and the handshake leaves edges without a write strobe
\* between two writes.
Spec == Init /\ [][Next]_vars /\ WF_vars(Clock /\ NoWrite)

-----------------------------------------------------------------------------
\* How far an armed timer is into its period, in enabled edges.
Phase ==
  counter * (psc + 1) + psc_counter - 1 + (IF psc_tick THEN psc + 1 ELSE 0)

\* The phase never runs ahead of the enabled time, and equals it as long as
\* the timer was not stopped (a stop may lose a prescaler tick).
PhaseInv ==
  /\ psc_tick => psc_counter = 0
  /\ armed => /\ counter <= arr /\ psc_counter <= psc
              /\ ~cnt_valid
              /\ Phase <= elapsed
  /\ armed /\ ~paused => cnt_en /\ Phase = elapsed

\* Types and phase: the inductive invariant of the timing properties.
TimerInv == TypeOK /\ PhaseInv

\* Interrupt pulses of a timer that is left alone and running are exactly
\* (PSC+1)*(ARR+1) clocks apart: the 1 ms time base of TMR_Init.
PeriodExact ==
  [][armed /\ ~paused /\ intr_tick' => elapsed + 1 = Period]_vars

\* Stopping and restarting the timer (TMR_StopTimer, TMR_StartTimer) never
\* makes an interrupt early: it can only lose time.
NeverEarly ==
  [][armed /\ intr_tick' => elapsed + 1 >= Period]_vars

\* The counter does not pass ARR by itself: only a write of ARR or CNT can
\* leave it above, where it has to wrap through 2^32.
NoOverrunByItself ==
  [][~Reset /\ counter <= arr /\ arr' = arr /\ ~cnt_valid => counter' <= arr']_vars

\* Whatever was written before, a timer that stays enabled with its registers
\* left alone goes on interrupting: no setting makes the equality compares
\* miss for ever.
LeftRunning ==
  cnt_en /\ intr_en /\ ~cnt_valid /\ UNCHANGED << cnt_en, intr_en, psc, arr >>

KeepsInterrupting == <>[][LeftRunning]_vars => []<>(intr \/ ~cnt_en \/ ~intr_en)

=============================================================================
