----------------------------- MODULE SpiProofs -----------------------------
(***************************************************************************)
(* Proofs about the SPI peripheral for every length of a byte, every set   *)
(* of CTRL settings and every divider, in all four modes.                  *)
(*                                                                         *)
(* The edge about to be made on SCLK samples or shifts.  With n bits       *)
(* sampled, n bits have been shifted out when the next edge shifts, and    *)
(* n + 1 when it samples (ShiftedOut): OnTheWire says, of both ends at     *)
(* once, which bits are where.  That one number covers both phases is what *)
(* makes the four modes one case.                                          *)
(***************************************************************************)
EXTENDS SpiRamDriver, TLAPS

-----------------------------------------------------------------------------
\* Shift registers.

LEMMA Shifted ==
  ASSUME NEW s \in Byte, NEW b \in Bit
  PROVE  /\ ShiftIn(s, b) \in Byte
         /\ \A i \in 1 .. NBits - 1 : ShiftIn(s, b)[i] = s[i + 1]
         /\ ShiftIn(s, b)[NBits] = b
         /\ Head(s) = s[1] /\ Head(s) \in Bit
<1>1. NBits \in Nat \ {0}
  BY SpiAssumption
<1>2. s \in Seq(Bit) /\ Len(s) = NBits /\ s # << >>
  BY <1>1 DEF Byte
<1>3. /\ Tail(s) \in Seq(Bit) /\ Len(Tail(s)) = NBits - 1
      /\ \A i \in 1 .. NBits - 1 : Tail(s)[i] = s[i + 1]
  BY <1>1, <1>2
<1>4. /\ ShiftIn(s, b) \in Seq(Bit) /\ Len(ShiftIn(s, b)) = NBits
      /\ \A i \in 1 .. NBits - 1 : ShiftIn(s, b)[i] = Tail(s)[i]
      /\ ShiftIn(s, b)[NBits] = b
  BY <1>1, <1>3 DEF ShiftIn
<1>5. ShiftIn(s, b) \in Byte
  BY <1>1, <1>4 DEF Byte
<1>6. Head(s) = s[1] /\ s[1] \in Bit
  BY <1>1, <1>2 DEF Byte
<1>. QED
  BY <1>3, <1>4, <1>5, <1>6

-----------------------------------------------------------------------------
\* Types.

RegisterTypes ==
  /\ ctrl \in Config /\ tx_data \in Byte /\ rx_reg \in Byte /\ start \in BOOLEAN
CoreTypes ==
  /\ state \in {"IDLE", "START", "DATA", "STOP"}
  /\ div_cnt \in Nat /\ half_tick \in BOOLEAN /\ cfg_r \in Config
  /\ tx_shift_reg \in Byte /\ rx_shift_reg \in Byte /\ sample_cnt \in Nat
  /\ busy \in BOOLEAN /\ done \in BOOLEAN /\ rx_data \in Byte
  /\ sclk \in Bit /\ sdo \in Bit
TargetTypes ==
  /\ shift_tx \in Byte /\ shift_rx \in Byte /\ sdo_t \in Bit
  /\ sent \in Byte /\ answer \in Byte /\ completed \in BOOLEAN /\ sclk_age \in Nat

SpiTypes == RegisterTypes /\ CoreTypes /\ TargetTypes

LEMMA ResetTypes == ZeroByte \in Byte /\ ResetCtrl \in Config
  BY SpiAssumption DEF ZeroByte, Byte, Bit, ResetCtrl, Config, Bit

LEMMA TypesInit == Init => SpiTypes
<1> SUFFICES ASSUME Init PROVE SpiTypes
  OBVIOUS
<1>1. RegisterTypes /\ CoreTypes
  BY ResetTypes DEF Init, AtReset, RegisterTypes, CoreTypes, Bit
<1>2. TargetTypes
  BY ResetTypes DEF Init, TargetTypes, Bit
<1>. QED
  BY <1>1, <1>2 DEF SpiTypes

LEMMA TypesReset == SpiTypes /\ Reset => SpiTypes'
<1> SUFFICES ASSUME SpiTypes, Reset PROVE SpiTypes'
  OBVIOUS
<1>1. RegisterTypes' /\ CoreTypes'
  BY ResetTypes DEF Reset, AtReset, RegisterTypes, CoreTypes, Bit
<1>2. TargetTypes'
  BY ResetTypes DEF Reset, SpiTypes, TargetTypes, target
<1>. QED
  BY <1>1, <1>2 DEF SpiTypes

LEMMA TypesClock == SpiTypes /\ Clock => SpiTypes'
<1> SUFFICES ASSUME SpiTypes, Clock PROVE SpiTypes'
  OBVIOUS
<1>0. RegisterTypes /\ CoreTypes /\ TargetTypes
  BY DEF SpiTypes
<1>1. RegisterTypes'
  <2>1. ctrl' \in Config /\ tx_data' \in Byte /\ start' \in BOOLEAN
    BY <1>0, SpiAssumption DEF Clock, WriteCtrl, WriteTxData, NoWrite, RegisterTypes
  <2>2. rx_reg' \in Byte
    BY <1>0 DEF Clock, RxRegEdge, RegisterTypes, CoreTypes
  <2>. QED
    BY <2>1, <2>2 DEF RegisterTypes
<1>2. div_cnt' \in Nat /\ half_tick' \in BOOLEAN
  BY <1>0 DEF Clock, CoreEdge, DivEdge, CoreTypes
<1>3. 0 \in Bit /\ 1 \in Bit /\ 1 - sclk \in Bit /\ ctrl.cpol \in Bit /\ cfg_r.cpol \in Bit
  BY <1>0 DEF CoreTypes, RegisterTypes, Config, Bit
<1>4. CoreTypes'
  <2>1. CASE IdleEdge
    <3>1. /\ state' \in {"IDLE", "START", "DATA", "STOP"} /\ cfg_r' \in Config
          /\ tx_shift_reg' \in Byte /\ sample_cnt' \in Nat /\ busy' \in BOOLEAN
      <4>1. CASE start
        BY <1>0, <2>1, <4>1 DEF IdleEdge, CoreTypes, RegisterTypes
      <4>2. CASE ~start
        BY <1>0, <2>1, <4>2 DEF IdleEdge, CoreTypes
      <4>. QED
        BY <4>1, <4>2
    <3>. QED
      BY <1>0, <1>2, <1>3, <2>1, <3>1 DEF IdleEdge, CoreTypes
  <2>2. CASE StartEdge
    <3>1. tx_shift_reg' \in Byte /\ sdo' \in Bit
      BY <1>0, <1>3, <2>2, Shifted DEF StartEdge, ShiftOut, CoreTypes
    <3>. QED
      BY <1>0, <1>2, <2>2, <3>1 DEF StartEdge, CoreTypes
  <2>3. CASE DataWait
    BY <1>0, <1>2, <2>3 DEF DataWait, CoreTypes, pins
  <2>4. CASE DataShift
    <3>1. tx_shift_reg' \in Byte /\ sdo' \in Bit
      BY <1>0, <1>3, <2>4, Shifted DEF DataShift, ShiftOut, CoreTypes
    <3>. QED
      BY <1>0, <1>2, <1>3, <2>4, <3>1 DEF DataShift, CoreTypes
  <2>5. CASE StopEdge
    BY <1>0, <1>2, <1>3, <2>5 DEF StopEdge, CoreTypes
  <2>6. CASE \E sdi \in SdiValues : DataSample(sdi)
    <3>1. PICK sdi \in SdiValues : DataSample(sdi)
      BY <2>6
    <3>2. sdi \in Bit
      BY <1>0 DEF SdiValues, TargetTypes
    <3>3. ShiftIn(rx_shift_reg, sdi) \in Byte
      BY <1>0, <3>2, Shifted DEF CoreTypes
    <3>4. /\ state' \in {"IDLE", "START", "DATA", "STOP"} /\ rx_data' \in Byte
          /\ rx_shift_reg' \in Byte /\ sample_cnt' \in Nat
      BY <1>0, <3>1, <3>3 DEF DataSample, CoreTypes
    <3>. QED
      BY <1>0, <1>2, <1>3, <3>1, <3>4 DEF DataSample, CoreTypes
  <2>. QED
    BY <2>1, <2>2, <2>3, <2>4, <2>5, <2>6 DEF Clock, CoreEdge
<1>5. sent' \in Byte /\ answer' \in Byte /\ completed' \in BOOLEAN /\ sclk_age' \in Nat
  <2>1. sent' \in Byte /\ answer' \in Byte
    BY <1>0, ResetTypes DEF Clock, HistoryEdge, RegisterTypes, TargetTypes
  <2>2. completed' \in BOOLEAN
    BY <1>0 DEF Clock, HistoryEdge, TargetTypes
  <2>3. sclk_age' \in Nat
    BY <1>0 DEF Clock, HistoryEdge, TargetTypes
  <2>. QED
    BY <2>1, <2>2, <2>3
<1>6. shift_tx' \in Byte /\ shift_rx' \in Byte /\ sdo_t' \in Bit
  <2>1. CASE TargetSelected
    BY <1>3, <1>5, <2>1, ResetTypes, Shifted DEF TargetSelected
  <2>2. CASE TargetClocked
    <3>1. shift_rx' \in Byte
      <4>1. shift_rx' = ShiftIn(shift_rx, sdo') \/ shift_rx' = shift_rx
        BY <2>2 DEF TargetClocked
      <4>2. shift_rx \in Byte /\ sdo' \in Bit
        BY <1>0, <1>4 DEF TargetTypes, CoreTypes
      <4>3. ShiftIn(shift_rx, sdo') \in Byte
        BY <4>2, Shifted
      <4>. QED
        BY <4>1, <4>2, <4>3
    <3>2. shift_tx' \in Byte /\ sdo_t' \in Bit
      BY <1>0, <1>3, <2>2, Shifted DEF TargetClocked, TargetTypes
    <3>. QED
      BY <3>1, <3>2
  <2>3. CASE UNCHANGED target
    BY <1>0, <2>3 DEF target, TargetTypes
  <2>. QED
    BY <2>1, <2>2, <2>3 DEF Clock, TargetEdge
<1>. QED
  BY <1>1, <1>4, <1>5, <1>6 DEF SpiTypes, TargetTypes

-----------------------------------------------------------------------------
\* The transfer as a whole.

Transfer ==
  /\ busy <=> state # "IDLE"
  /\ cs = IF state = "IDLE" THEN None ELSE cfg_r.cs_sel
  /\ done => completed
  /\ completed => state = "IDLE"
  /\ state = "START" => sample_cnt = 0 /\ sclk = cfg_r.cpol /\ div_cnt = 0 /\ ~half_tick
  /\ state = "DATA" => sample_cnt < NBits

LEMMA TransferStart == Init => Transfer
  BY DEF Init, AtReset, Transfer

LEMMA TransferReset == Reset => Transfer'
  BY DEF Reset, AtReset, Transfer

LEMMA TransferClock == SpiTypes /\ Transfer /\ Clock => Transfer'
<1> SUFFICES ASSUME SpiTypes, Transfer, Clock PROVE Transfer'
  OBVIOUS
<1>0. /\ state \in {"IDLE", "START", "DATA", "STOP"} /\ NBits \in Nat \ {0} /\ sample_cnt \in Nat
      /\ busy \in BOOLEAN /\ done \in BOOLEAN /\ completed \in BOOLEAN
  BY SpiAssumption DEF SpiTypes, CoreTypes, TargetTypes
<1>1. completed' = IF state = "IDLE" /\ start THEN FALSE ELSE (completed \/ state = "STOP")
  BY DEF Clock, HistoryEdge
<1>2. state # "DATA" => ~half_tick' /\ div_cnt' = 0
  BY DEF Clock, CoreEdge, DivEdge
<1>3. CASE IdleEdge
  BY <1>0, <1>1, <1>2, <1>3 DEF IdleEdge, Transfer
<1>4. CASE StartEdge
  BY <1>0, <1>1, <1>4 DEF StartEdge, Transfer
<1>5. CASE DataWait
  BY <1>0, <1>1, <1>5 DEF DataWait, Transfer, pins
<1>6. CASE DataShift
  BY <1>0, <1>1, <1>6 DEF DataShift, Transfer
<1>7. CASE StopEdge
  BY <1>0, <1>1, <1>7 DEF StopEdge, Transfer
<1>8. CASE \E sdi \in SdiValues : DataSample(sdi)
  BY <1>0, <1>1, <1>8 DEF DataSample, Transfer
<1>. QED
  BY <1>3, <1>4, <1>5, <1>6, <1>7, <1>8 DEF Clock, CoreEdge

LEMMA TransferSafe == Spec => [](SpiTypes /\ Transfer)
<1>1. SpiTypes /\ Transfer /\ [Next]_vars => (SpiTypes /\ Transfer)'
  <2> SUFFICES ASSUME SpiTypes, Transfer, [Next]_vars PROVE SpiTypes' /\ Transfer'
    OBVIOUS
  <2>1. CASE Clock
    BY <2>1, TypesClock, TransferClock
  <2>2. CASE Reset
    BY <2>2, TypesReset, TransferReset
  <2>3. CASE UNCHANGED vars
    BY <2>3 DEF SpiTypes, RegisterTypes, CoreTypes, TargetTypes, Transfer,
                vars, registers, pins, core, target, history
  <2>. QED
    BY <2>1, <2>2, <2>3 DEF Next
<1>. QED
  BY <1>1, TypesInit, TransferStart, PTL DEF Spec

\* A driver that reads busy = 0 finds the bus released and the transfer complete.
THEOREM BusyIsTransfer == Spec => []BusyCoversTransfer
<1>1. SpiTypes /\ Transfer => BusyCoversTransfer
  <2> SUFFICES ASSUME SpiTypes, Transfer PROVE BusyCoversTransfer
    OBVIOUS
  <2>1. cs # None <=> state # "IDLE"
    BY SpiAssumption DEF SpiTypes, CoreTypes, Config, Transfer
  <2>. QED
    BY <2>1 DEF SpiTypes, CoreTypes, Transfer, BusyCoversTransfer
<1>. QED
  BY <1>1, TransferSafe, PTL

-----------------------------------------------------------------------------
\* The phases of SCLK.

FirstPhase == is_leading /\ sample_cnt = 0

\* The divider and the age of the level of SCLK; the first level is two clocks
\* older, the others begin with the divider already at one.
Timing ==
  /\ state = "START" => sclk_age = 0
  /\ state = "DATA" /\ cfg_r.cpha = 0 /\ ~is_leading => sample_cnt # 0
  /\ state = "DATA" /\ half_tick =>
       div_cnt = 0 /\ sclk_age = cfg_r.clk_div + (IF FirstPhase THEN 2 ELSE 0)
  /\ state = "DATA" /\ ~half_tick =>
       /\ div_cnt <= cfg_r.clk_div
       /\ IF FirstPhase THEN sclk_age = div_cnt + 1 ELSE sclk_age = div_cnt - 1

LEMMA TimingClock == SpiTypes /\ Transfer /\ Timing /\ Clock => Timing'
<1> SUFFICES ASSUME SpiTypes, Transfer, Timing, Clock PROVE Timing'
  OBVIOUS
<1> DEFINE D == cfg_r.clk_div
<1>0. /\ state \in {"IDLE", "START", "DATA", "STOP"} /\ half_tick \in BOOLEAN
      /\ D \in Nat /\ div_cnt \in Nat /\ sample_cnt \in Nat /\ sclk_age \in Nat
      /\ sclk \in {0, 1} /\ cfg_r.cpol \in {0, 1} /\ cfg_r.cs_sel # None
      /\ ctrl.cs_sel # None
  BY SpiAssumption DEF SpiTypes, CoreTypes, TargetTypes, RegisterTypes, Config, Bit
<1>1. /\ sclk_age' = IF cs' = None \/ cs = None \/ sclk' # sclk THEN 0 ELSE sclk_age + 1
      /\ half_tick' <=> (state = "DATA" /\ div_cnt = D)
      /\ div_cnt' = IF state = "DATA" /\ ~(div_cnt = D) THEN div_cnt + 1 ELSE 0
  BY DEF Clock, CoreEdge, DivEdge, HistoryEdge
<1>2. cs = IF state = "IDLE" THEN None ELSE cfg_r.cs_sel
  BY DEF Transfer
<1>3. CASE IdleEdge
  <2>1. state' \in {"IDLE", "START"} /\ cs = None
    BY <1>2, <1>3 DEF IdleEdge
  <2>2. sclk_age' = 0
    BY <1>1, <2>1
  <2>. QED
    BY <2>1, <2>2 DEF Timing
<1>4. CASE StartEdge
  <2>1. /\ state' = "DATA" /\ ~half_tick' /\ div_cnt' = 0 /\ sclk_age' = 1
        /\ cfg_r' = cfg_r /\ sclk' = cfg_r.cpol /\ sample_cnt' = 0
    BY <1>0, <1>1, <1>2, <1>4 DEF StartEdge, Timing, Transfer
  <2>2. FirstPhase' /\ is_leading'
    BY <2>1 DEF FirstPhase, is_leading
  <2>. QED
    BY <1>0, <2>1, <2>2 DEF Timing
<1>5. CASE DataWait
  <2>1. /\ state = "DATA" /\ ~half_tick /\ state' = "DATA" /\ cfg_r' = cfg_r
        /\ sclk' = sclk /\ sample_cnt' = sample_cnt /\ cs' = cs /\ cs # None
    BY <1>0, <1>2, <1>5 DEF DataWait, pins
  <2>2. (FirstPhase' <=> FirstPhase) /\ (is_leading' <=> is_leading)
    BY <2>1 DEF FirstPhase, is_leading
  <2>3. sclk_age' = sclk_age + 1
    BY <1>1, <2>1
  <2>4. /\ div_cnt <= D /\ IF FirstPhase THEN sclk_age = div_cnt + 1 ELSE sclk_age = div_cnt - 1
        /\ cfg_r.cpha = 0 /\ ~is_leading => sample_cnt # 0
    BY <2>1 DEF Timing
  <2>5. CASE div_cnt = D
    <3>1. half_tick' /\ div_cnt' = 0
      BY <1>1, <2>1, <2>5
    <3>2. sclk_age' = D + (IF FirstPhase THEN 2 ELSE 0)
      BY <1>0, <2>3, <2>4, <2>5
    <3>. QED
      BY <2>1, <2>2, <2>4, <3>1, <3>2 DEF Timing
  <2>6. CASE div_cnt # D
    <3>1. ~half_tick' /\ div_cnt' = div_cnt + 1
      BY <1>1, <2>1, <2>6
    <3>2. /\ div_cnt' <= D
          /\ IF FirstPhase THEN sclk_age' = div_cnt' + 1 ELSE sclk_age' = div_cnt' - 1
      BY <1>0, <2>3, <2>4, <2>6, <3>1
    <3>. QED
      BY <2>1, <2>2, <2>4, <3>1, <3>2 DEF Timing
  <2>. QED
    BY <2>5, <2>6
<1>6. ASSUME state = "DATA", half_tick, state' \in {"DATA", "STOP"}, cfg_r' = cfg_r,
             sclk' = 1 - sclk, is_leading' \/ cfg_r.cpha = 0 => sample_cnt' # 0
      PROVE  Timing'
  <2>1. sclk_age' = 0 /\ div_cnt = 0
    BY <1>0, <1>1, <1>6 DEF Timing
  <2>2. ~FirstPhase'
    BY <1>6 DEF FirstPhase
  <2>3. CASE D = 0
    <3>1. half_tick' /\ div_cnt' = 0
      BY <1>1, <1>6, <2>1, <2>3
    <3>. QED
      BY <1>6, <2>1, <2>2, <2>3, <3>1 DEF Timing
  <2>4. CASE D # 0
    <3>1. ~half_tick' /\ div_cnt' = 1 /\ 1 <= D
      BY <1>0, <1>1, <1>6, <2>1, <2>4
    <3>. QED
      BY <1>6, <2>1, <2>2, <3>1 DEF Timing
  <2>. QED
    BY <2>3, <2>4
<1>7. CASE DataShift
  <2>1. /\ state = "DATA" /\ half_tick /\ ~Samples /\ state' = "DATA" /\ cfg_r' = cfg_r
        /\ sclk' = 1 - sclk /\ sample_cnt' = sample_cnt
    BY <1>7 DEF DataShift
  <2>2. is_leading' <=> ~is_leading
    BY <1>0, <2>1 DEF is_leading
  <2>3. is_leading <=> cfg_r.cpha # 0
    BY <2>1, Zenon DEF Samples, is_leading
  <2>4. is_leading' \/ cfg_r.cpha = 0 => sample_cnt # 0
    BY <2>1, <2>2, <2>3 DEF Timing
  <2>. QED
    BY <1>6, <2>1, <2>4
<1>8. CASE \E sdi \in SdiValues : DataSample(sdi)
  <2>1. /\ state = "DATA" /\ half_tick /\ state' \in {"DATA", "STOP"} /\ cfg_r' = cfg_r
        /\ sclk' = 1 - sclk /\ sample_cnt' = sample_cnt + 1
    BY <1>8 DEF DataSample
  <2>2. sample_cnt' # 0
    BY <1>0, <2>1
  <2>. QED
    BY <1>6, <2>1, <2>2
<1>9. CASE StopEdge
  <2>1. state' = "IDLE"
    BY <1>9 DEF StopEdge
  <2>. QED
    BY <2>1 DEF Timing
<1>. QED
  BY <1>3, <1>4, <1>5, <1>7, <1>8, <1>9 DEF Clock, CoreEdge

LEMMA TimingSafe == Spec => []Timing
<1>1. Init => Timing
  BY DEF Init, AtReset, Timing
<1>2. SpiTypes /\ Transfer /\ Timing /\ [Next]_vars => Timing'
  <2> SUFFICES ASSUME SpiTypes, Transfer, Timing, [Next]_vars PROVE Timing'
    OBVIOUS
  <2>1. CASE Clock
    BY <2>1, TimingClock
  <2>2. CASE Reset
    BY <2>2 DEF Reset, AtReset, Timing
  <2>3. CASE UNCHANGED vars
    BY <2>3 DEF Timing, FirstPhase, is_leading, vars, registers, pins, core, history
  <2>. QED
    BY <2>1, <2>2, <2>3 DEF Next
<1>. QED
  BY <1>1, <1>2, TransferSafe, PTL DEF Spec

\* Between its two selects every level of SCLK lasts clk_div + 1 clocks (the
\* first two more), for every divider, even with CTRL rewritten meanwhile.
THEOREM SclkPhasesHold == Spec => SclkPhases
<1>1. SpiTypes /\ Transfer /\ Timing /\ [Next]_vars
        => [~Reset /\ cs # None /\ cs' # None /\ sclk' # sclk
              => sclk_age + 1 = PhaseLength]_vars
  <2> SUFFICES ASSUME SpiTypes, Transfer, Timing, Clock,
                      cs # None, cs' # None, sclk' # sclk
               PROVE  sclk_age + 1 = PhaseLength
    BY DEF Next
  <2>0. /\ state # "IDLE" /\ cfg_r.clk_div \in Nat /\ half_tick \in BOOLEAN
        /\ sclk_age \in Nat
    BY DEF SpiTypes, CoreTypes, TargetTypes, Config, Transfer
  <2>1. state = "DATA" /\ half_tick
    <3>1. ~StartEdge /\ ~DataWait
      BY DEF StartEdge, DataWait, pins
    <3>2. ~IdleEdge /\ ~StopEdge
      BY <2>0 DEF IdleEdge, StopEdge
    <3>. QED
      BY <3>1, <3>2 DEF Clock, CoreEdge, DataShift, DataSample
  <2>2. sclk_age = cfg_r.clk_div + (IF FirstPhase THEN 2 ELSE 0)
    BY <2>1 DEF Timing
  <2>. QED
    BY <2>0, <2>2 DEF FirstPhase, PhaseLength
<1>. QED
  BY <1>1, TransferSafe, TimingSafe, PTL DEF Spec, SclkPhases

-----------------------------------------------------------------------------
\* The bits of the two bytes.

\* Bits 1 .. k of a byte have left reg; its first n bits have come in.
Left(reg, byte, k)   == \A i \in 1 .. NBits - k : reg[i] = byte[i + k]
Filled(reg, byte, n) == \A i \in 1 .. n : reg[NBits - n + i] = byte[i]

LEMMA LeftShift ==
  ASSUME NEW reg \in Byte, NEW byte \in Byte, NEW k \in 0 .. NBits - 1, Left(reg, byte, k)
  PROVE  Head(reg) = byte[k + 1] /\ Left(ShiftIn(reg, 0), byte, k + 1)
<1>0. NBits \in Nat \ {0} /\ 0 \in Bit
  BY SpiAssumption DEF Bit
<1>1. Head(reg) = reg[1] /\ \A i \in 1 .. NBits - 1 : ShiftIn(reg, 0)[i] = reg[i + 1]
  BY <1>0, Shifted
<1>2. reg[1] = byte[k + 1]
  BY <1>0 DEF Left
<1>3. ASSUME NEW i \in 1 .. NBits - (k + 1)
      PROVE  ShiftIn(reg, 0)[i] = byte[i + (k + 1)]
  <2>1. i \in 1 .. NBits - 1 /\ i + 1 \in 1 .. NBits - k
    BY <1>0
  <2>2. reg[i + 1] = byte[(i + 1) + k]
    BY <2>1 DEF Left
  <2>3. (i + 1) + k = i + (k + 1)
    BY <1>0
  <2>. QED
    BY <1>1, <2>1, <2>2, <2>3
<1>. QED
  BY <1>1, <1>2, <1>3 DEF Left

LEMMA FilledShift ==
  ASSUME NEW reg \in Byte, NEW byte \in Byte, NEW n \in 0 .. NBits - 1, Filled(reg, byte, n)
  PROVE  Filled(ShiftIn(reg, byte[n + 1]), byte, n + 1)
<1>0. NBits \in Nat \ {0} /\ byte[n + 1] \in Bit
  BY SpiAssumption DEF Byte
<1>1. /\ \A i \in 1 .. NBits - 1 : ShiftIn(reg, byte[n + 1])[i] = reg[i + 1]
      /\ ShiftIn(reg, byte[n + 1])[NBits] = byte[n + 1]
  BY <1>0, Shifted
<1>2. ASSUME NEW i \in 1 .. n + 1
      PROVE  ShiftIn(reg, byte[n + 1])[NBits - (n + 1) + i] = byte[i]
  <2>1. CASE i = n + 1
    <3>1. NBits - (n + 1) + i = NBits
      BY <1>0, <2>1
    <3>. QED
      BY <1>1, <2>1, <3>1
  <2>2. CASE i # n + 1
    <3>1. /\ i \in 1 .. n /\ NBits - (n + 1) + i \in 1 .. NBits - 1
          /\ (NBits - (n + 1) + i) + 1 = NBits - n + i
      BY <1>0, <2>2
    <3>2. reg[NBits - n + i] = byte[i]
      BY <3>1 DEF Filled
    <3>. QED
      BY <1>1, <3>1, <3>2
  <2>. QED
    BY <2>1, <2>2
<1>. QED
  BY <1>2 DEF Filled

LEMMA WholeByte ==
  ASSUME NEW reg \in Byte, NEW byte \in Byte
  PROVE  /\ Left(byte, byte, 0)
         /\ Filled(reg, byte, 0)
         /\ Filled(reg, byte, NBits) => reg = byte
<1>0. NBits \in Nat \ {0}
  BY SpiAssumption
<1>1. Left(byte, byte, 0) /\ Filled(reg, byte, 0)
  BY <1>0 DEF Left, Filled, Byte
<1>2. ASSUME Filled(reg, byte, NBits) PROVE reg = byte
  <2>1. \A i \in 1 .. NBits : reg[i] = byte[i]
    <3> SUFFICES ASSUME NEW i \in 1 .. NBits PROVE reg[i] = byte[i]
      OBVIOUS
    <3>1. NBits - NBits + i = i
      BY <1>0
    <3>. QED
      BY <1>2, <3>1 DEF Filled
  <2>2. reg = [i \in 1 .. NBits |-> reg[i]] /\ byte = [i \in 1 .. NBits |-> byte[i]]
    BY DEF Byte
  <2>. QED
    BY <2>1, <2>2
<1>. QED
  BY <1>1, <1>2

-----------------------------------------------------------------------------
\* The transfer on the wire.

ShiftedOut == IF Samples THEN sample_cnt + 1 ELSE sample_cnt

StartWire ==
  /\ tx_shift_reg = sent
  /\ IF cfg_r.cpha = 0 THEN sdo_t = answer[1] /\ Left(shift_tx, answer, 1)
     ELSE shift_tx = answer
DataWire ==
  /\ Left(tx_shift_reg, sent, ShiftedOut) /\ Left(shift_tx, answer, ShiftedOut)
  /\ Filled(rx_shift_reg, answer, sample_cnt) /\ Filled(shift_rx, sent, sample_cnt)
  /\ Samples => sdo = sent[sample_cnt + 1] /\ sdo_t = answer[sample_cnt + 1]
Exchanged == shift_rx = sent /\ rx_data = answer

OnTheWire ==
  cfg_r.cs_sel = Target =>
    /\ state = "START" => StartWire
    /\ state = "DATA" => DataWire
    /\ state = "STOP" => Exchanged
    /\ completed => Exchanged /\ (done \/ rx_reg = answer)

LEMMA OnTheWireClock == SpiTypes /\ Transfer /\ OnTheWire /\ Clock => OnTheWire'
<1> SUFFICES ASSUME SpiTypes, Transfer, OnTheWire, Clock, cfg_r'.cs_sel = Target
             PROVE  /\ state' = "START" => StartWire'
                    /\ state' = "DATA" => DataWire'
                    /\ state' = "STOP" => Exchanged'
                    /\ completed' => Exchanged' /\ (done' \/ rx_reg' = answer')
  BY DEF OnTheWire
<1> DEFINE n == sample_cnt
<1>0. /\ NBits \in Nat \ {0} /\ n \in Nat /\ Target # None /\ 0 \in Bit
      /\ state \in {"IDLE", "START", "DATA", "STOP"} /\ completed \in BOOLEAN
      /\ tx_shift_reg \in Byte /\ rx_shift_reg \in Byte
      /\ shift_tx \in Byte /\ shift_rx \in Byte /\ sent \in Byte /\ answer \in Byte
  BY SpiAssumption DEF SpiTypes, CoreTypes, TargetTypes, Bit
<1>1. /\ rx_reg' = IF done THEN rx_data ELSE rx_reg
      /\ completed' = IF state = "IDLE" /\ start THEN FALSE ELSE (completed \/ state = "STOP")
      /\ sent' = IF state = "IDLE" /\ start THEN tx_data ELSE sent
  BY DEF Clock, RxRegEdge, HistoryEdge
<1>2. ~(state = "IDLE" /\ start) => answer' = answer
  BY DEF Clock, HistoryEdge
<1>3. /\ cs = IF state = "IDLE" THEN None ELSE cfg_r.cs_sel
      /\ completed => state = "IDLE"
      /\ state = "DATA" => n < NBits
      /\ state = "START" => n = 0 /\ sclk = cfg_r.cpol
  BY DEF Transfer
<1>4. CASE IdleEdge /\ start
  <2>1. /\ state = "IDLE" /\ state' = "START" /\ ~completed' /\ tx_shift_reg' = sent'
        /\ cs = None /\ cs' = Target
    BY <1>1, <1>3, <1>4 DEF IdleEdge
  <2>2. TargetSelected
    BY <1>0, <2>1 DEF Clock, TargetEdge
  <2>3. SpiTypes'
    BY TypesClock
  <2>4. answer' \in Byte
    BY <2>3 DEF SpiTypes, TargetTypes
  <2>5. CASE cfg_r'.cpha = 0
    <3>1. Head(answer') = answer'[1] /\ Left(ShiftIn(answer', 0), answer', 1)
      <4>1. Left(answer', answer', 0)
        BY <2>4, WholeByte
      <4>2. 0 \in 0 .. NBits - 1
        BY <1>0
      <4>3. Head(answer') = answer'[0 + 1] /\ Left(ShiftIn(answer', 0), answer', 0 + 1)
        BY <2>4, <4>1, <4>2, LeftShift
      <4>. QED
        BY <4>3
    <3>2. sdo_t' = answer'[1] /\ Left(shift_tx', answer', 1)
      BY <2>2, <2>5, <3>1 DEF TargetSelected
    <3>3. StartWire'
      BY <2>1, <2>5, <3>2 DEF StartWire, Left
    <3>. QED
      BY <2>1, <3>3
  <2>6. CASE cfg_r'.cpha # 0
    <3>1. StartWire'
      BY <2>1, <2>2, <2>6 DEF TargetSelected, StartWire
    <3>. QED
      BY <2>1, <3>1
  <2>. QED
    BY <2>5, <2>6
<1>5. CASE IdleEdge /\ ~start
  <2>1. /\ state = "IDLE" /\ state' = "IDLE" /\ cfg_r' = cfg_r /\ rx_data' = rx_data
        /\ sent' = sent /\ answer' = answer /\ completed' = completed
        /\ cs' = None
    <3>1. state = "IDLE" /\ ~start
      BY <1>5 DEF IdleEdge
    <3>2. completed' = completed
      BY <1>0, <1>1, <3>1
    <3>. QED
      BY <1>1, <1>2, <1>5, <3>1, <3>2 DEF IdleEdge
  <2>2. UNCHANGED target
    BY <1>0, <2>1 DEF Clock, TargetEdge
  <2>3. completed => Exchanged /\ (done \/ rx_reg = answer)
    BY <2>1 DEF OnTheWire
  <2>4. completed' => Exchanged' /\ rx_reg' = answer'
    BY <1>1, <2>1, <2>2, <2>3 DEF Exchanged, target
  <2>. QED
    BY <2>1, <2>4
<1>6. ASSUME state # "IDLE"
      PROVE  /\ sent' = sent /\ answer' = answer /\ ~completed
             /\ (completed' <=> state = "STOP")
             /\ cs = cfg_r.cs_sel
  BY <1>0, <1>1, <1>2, <1>3, <1>6
<1>7. CASE StartEdge
  <2>1. /\ state = "START" /\ state' = "DATA" /\ ~completed' /\ cfg_r' = cfg_r
        /\ n = 0 /\ n' = 0 /\ sclk = cfg_r.cpol /\ sclk' = sclk /\ cs = Target /\ cs' = Target
        /\ rx_shift_reg' = rx_shift_reg /\ sent' = sent /\ answer' = answer
    BY <1>3, <1>6, <1>7 DEF StartEdge
  <2>2. UNCHANGED target
    BY <2>1 DEF Clock, TargetEdge
  <2>3. StartWire
    BY <2>1 DEF OnTheWire
  <2>4. /\ Left(sent, sent, 0) /\ Left(answer, answer, 0)
        /\ Filled(rx_shift_reg, answer, 0) /\ Filled(shift_rx, sent, 0)
    BY <1>0, WholeByte
  <2>5. Filled(rx_shift_reg', answer', n') /\ Filled(shift_rx', sent', n')
    BY <2>1, <2>2, <2>4 DEF target
  <2>6. is_leading'
    BY <2>1 DEF is_leading
  <2>7. CASE cfg_r.cpha = 0
    <3>1. sdo' = Head(sent) /\ tx_shift_reg' = ShiftIn(sent, 0)
      BY <1>7, <2>3, <2>7 DEF StartEdge, ShiftOut, StartWire
    <3>2. Head(sent) = sent[0 + 1] /\ Left(ShiftIn(sent, 0), sent, 0 + 1)
      <4>1. 0 \in 0 .. NBits - 1
        BY <1>0
      <4>. QED
        BY <1>0, <2>4, <4>1, LeftShift
    <3>3. Samples'
      BY <2>1, <2>6, <2>7 DEF Samples
    <3>4. ShiftedOut' = 1
      BY <2>1, <3>3 DEF ShiftedOut
    <3>5. sdo_t = answer[1] /\ Left(shift_tx, answer, 1)
      BY <2>3, <2>7 DEF StartWire
    <3>6. /\ Left(tx_shift_reg', sent', ShiftedOut') /\ Left(shift_tx', answer', ShiftedOut')
          /\ sdo' = sent'[n' + 1] /\ sdo_t' = answer'[n' + 1]
      BY <2>1, <2>2, <3>1, <3>2, <3>4, <3>5 DEF target
    <3>7. DataWire'
      BY <2>5, <3>6 DEF DataWire, Left, Filled
    <3>. QED
      BY <2>1, <3>7
  <2>8. CASE cfg_r.cpha # 0
    <3>1. tx_shift_reg' = sent /\ shift_tx' = answer
      BY <1>7, <2>2, <2>3, <2>8 DEF StartEdge, StartWire, target
    <3>2. ~Samples'
      BY <2>1, <2>6, <2>8 DEF Samples
    <3>3. ShiftedOut' = 0
      BY <2>1, <3>2 DEF ShiftedOut
    <3>4. Left(tx_shift_reg', sent', ShiftedOut') /\ Left(shift_tx', answer', ShiftedOut')
      BY <2>1, <2>4, <3>1, <3>3
    <3>5. DataWire'
      BY <2>5, <3>2, <3>4 DEF DataWire, Left, Filled
    <3>. QED
      BY <2>1, <3>5
  <2>. QED
    BY <2>7, <2>8
<1>8. CASE DataWait
  <2>1. /\ state = "DATA" /\ state' = "DATA" /\ ~completed' /\ cfg_r' = cfg_r
        /\ UNCHANGED << pins, tx_shift_reg, rx_shift_reg, sample_cnt, sent, answer >>
    BY <1>6, <1>8 DEF DataWait
  <2>2. UNCHANGED target
    BY <1>6, <2>1 DEF Clock, TargetEdge, pins
  <2>3. DataWire
    BY <2>1 DEF OnTheWire
  <2>4. DataWire'
    BY <2>1, <2>2, <2>3 DEF DataWire, Left, Filled, ShiftedOut, Samples, is_leading, pins, target
  <2>. QED
    BY <2>1, <2>4
<1>9. ASSUME state = "DATA", cfg_r' = cfg_r, cs' = cs, sclk' = 1 - sclk
      PROVE  TargetClocked /\ DataWire /\ n \in 0 .. NBits - 1
             /\ (Samples <=> ((sclk' # cfg_r.cpol) <=> (cfg_r.cpha = 0)))
             /\ (Samples' <=> ~Samples)
  <2>1. cs = Target /\ DataWire /\ n \in 0 .. NBits - 1
    BY <1>0, <1>3, <1>9 DEF OnTheWire
  <2>2. sclk \in {0, 1} /\ cfg_r.cpol \in {0, 1}
    BY DEF SpiTypes, CoreTypes, Config, Bit
  <2>3. /\ sclk' # sclk /\ (is_leading' <=> ~is_leading)
        /\ (sclk' # cfg_r.cpol <=> is_leading)
    BY <1>9, <2>2 DEF is_leading
  <2>4. TargetClocked
    BY <1>9, <2>1, <2>3 DEF Clock, TargetEdge
  <2>5. (is_leading \in BOOLEAN) /\ (is_leading' \in BOOLEAN)
    BY DEF is_leading
  <2>6. cfg_r'.cpha = cfg_r.cpha
    BY <1>9
  <2>7. Samples <=> ((sclk' # cfg_r.cpol) <=> (cfg_r.cpha = 0))
    BY <2>3, <2>5, Zenon DEF Samples
  <2>8. Samples' <=> ~Samples
    <3>1. Samples <=> (is_leading <=> (cfg_r.cpha = 0))
      BY <2>5, Zenon DEF Samples
    <3>2. Samples' <=> (is_leading' <=> (cfg_r'.cpha = 0))
      BY <2>5, Zenon DEF Samples
    <3>. QED
      BY <2>3, <2>6, <3>1, <3>2
  <2>. QED
    BY <2>1, <2>4, <2>7, <2>8
<1>10. CASE DataShift
  <2>1. /\ state = "DATA" /\ ~Samples /\ state' = "DATA" /\ ~completed' /\ cfg_r' = cfg_r
        /\ cs' = cs /\ sclk' = 1 - sclk /\ sent' = sent /\ answer' = answer
        /\ rx_shift_reg' = rx_shift_reg /\ n' = n
        /\ sdo' = Head(tx_shift_reg) /\ tx_shift_reg' = ShiftIn(tx_shift_reg, 0)
    BY <1>6, <1>10 DEF DataShift, ShiftOut
  <2>2. /\ TargetClocked /\ DataWire /\ n \in 0 .. NBits - 1 /\ Samples'
        /\ ~((sclk' # cfg_r.cpol) <=> (cfg_r.cpha = 0))
    BY <1>9, <2>1
  <2>3. sdo_t' = Head(shift_tx) /\ shift_tx' = ShiftIn(shift_tx, 0) /\ shift_rx' = shift_rx
    <3>1. ~((sclk' # cfg_r.cpol) = (cfg_r.cpha = 0))
      BY <2>2
    <3>. QED
      BY <2>2, <3>1 DEF TargetClocked
  <2>4. ShiftedOut = n /\ ShiftedOut' = n + 1
    BY <2>1, <2>2 DEF ShiftedOut
  <2>5. /\ Left(tx_shift_reg, sent, n) /\ Left(shift_tx, answer, n)
        /\ Filled(rx_shift_reg, answer, n) /\ Filled(shift_rx, sent, n)
    BY <2>2, <2>4 DEF DataWire
  <2>6. /\ Head(tx_shift_reg) = sent[n + 1] /\ Left(ShiftIn(tx_shift_reg, 0), sent, n + 1)
        /\ Head(shift_tx) = answer[n + 1] /\ Left(ShiftIn(shift_tx, 0), answer, n + 1)
    BY <1>0, <2>2, <2>5, LeftShift
  <2>7. /\ Left(tx_shift_reg', sent', ShiftedOut') /\ Left(shift_tx', answer', ShiftedOut')
        /\ Filled(rx_shift_reg', answer', n') /\ Filled(shift_rx', sent', n')
        /\ sdo' = sent'[n' + 1] /\ sdo_t' = answer'[n' + 1]
    BY <2>1, <2>3, <2>4, <2>5, <2>6
  <2>8. DataWire'
    BY <2>7 DEF DataWire, Left, Filled
  <2>. QED
    BY <2>1, <2>8
<1>11. CASE \E sdi \in SdiValues : DataSample(sdi)
  <2>1. PICK sdi \in SdiValues : DataSample(sdi)
    BY <1>11
  <2>2. /\ state = "DATA" /\ Samples /\ state' = (IF n = NBits - 1 THEN "STOP" ELSE "DATA")
        /\ ~completed' /\ cfg_r' = cfg_r /\ cs' = cs /\ cs = Target
        /\ sclk' = 1 - sclk /\ sent' = sent /\ answer' = answer /\ n' = n + 1
        /\ rx_shift_reg' = ShiftIn(rx_shift_reg, sdi)
        /\ tx_shift_reg' = tx_shift_reg /\ sdo' = sdo
        /\ n = NBits - 1 => rx_data' = ShiftIn(rx_shift_reg, sdi)
    BY <1>6, <2>1 DEF DataSample
  <2>3. /\ TargetClocked /\ DataWire /\ n \in 0 .. NBits - 1 /\ ~Samples'
        /\ ((sclk' # cfg_r.cpol) <=> (cfg_r.cpha = 0))
    BY <1>9, <2>2
  <2>4. shift_rx' = ShiftIn(shift_rx, sdo) /\ shift_tx' = shift_tx /\ sdo_t' = sdo_t
    <3>1. (sclk' # cfg_r.cpol) = (cfg_r.cpha = 0)
      BY <2>3
    <3>. QED
      BY <2>2, <2>3, <3>1 DEF TargetClocked
  <2>5. ShiftedOut = n + 1 /\ ShiftedOut' = n + 1
    BY <2>2, <2>3 DEF ShiftedOut
  <2>6. /\ Left(tx_shift_reg, sent, n + 1) /\ Left(shift_tx, answer, n + 1)
        /\ Filled(rx_shift_reg, answer, n) /\ Filled(shift_rx, sent, n)
        /\ sdo = sent[n + 1] /\ sdo_t = answer[n + 1]
    BY <2>2, <2>3, <2>5 DEF DataWire
  <2>7. sdi = answer[n + 1]
    BY <2>2, <2>6 DEF SdiValues
  <2>8. /\ Filled(ShiftIn(rx_shift_reg, answer[n + 1]), answer, n + 1)
        /\ Filled(ShiftIn(shift_rx, sent[n + 1]), sent, n + 1)
    BY <1>0, <2>3, <2>6, FilledShift
  <2>9. /\ Left(tx_shift_reg', sent', ShiftedOut') /\ Left(shift_tx', answer', ShiftedOut')
        /\ Filled(rx_shift_reg', answer', n') /\ Filled(shift_rx', sent', n')
    BY <2>2, <2>4, <2>5, <2>6, <2>7, <2>8
  <2>10. DataWire'
    BY <2>3, <2>9 DEF DataWire, Left, Filled
  <2>11. state' = "STOP" => Exchanged'
    <3> SUFFICES ASSUME n = NBits - 1 PROVE Exchanged'
      BY <2>2
    <3>1. n + 1 = NBits
      BY <1>0
    <3>2. SpiTypes'
      BY TypesClock
    <3>3. rx_data' \in Byte /\ shift_rx' \in Byte
      BY <3>2 DEF SpiTypes, CoreTypes, TargetTypes
    <3>4. Filled(rx_data', answer, NBits) /\ Filled(shift_rx', sent, NBits)
      BY <2>2, <2>4, <2>6, <2>7, <2>8, <3>1
    <3>5. rx_data' = answer /\ shift_rx' = sent
      BY <1>0, <3>3, <3>4, WholeByte
    <3>. QED
      BY <2>2, <3>5 DEF Exchanged
  <2>. QED
    BY <2>2, <2>10, <2>11
<1>12. CASE StopEdge
  <2>1. /\ state = "STOP" /\ state' = "IDLE" /\ cfg_r' = cfg_r /\ rx_data' = rx_data
        /\ done' /\ cs' = None /\ sent' = sent /\ answer' = answer
    BY <1>6, <1>12 DEF StopEdge
  <2>2. UNCHANGED target
    BY <1>0, <2>1 DEF Clock, TargetEdge
  <2>3. Exchanged
    BY <2>1 DEF OnTheWire
  <2>4. Exchanged'
    BY <2>1, <2>2, <2>3 DEF Exchanged, target
  <2>. QED
    BY <2>1, <2>4
<1>. QED
  BY <1>4, <1>5, <1>7, <1>8, <1>10, <1>11, <1>12 DEF Clock, CoreEdge

\* A completed transfer has exchanged the two bytes, for every length of a
\* byte, mode and divider, whatever was written to the registers meanwhile.
THEOREM BytesAreExchanged == Spec => []ByteExchanged
<1>1. Init => OnTheWire
  BY DEF Init, AtReset, OnTheWire
<1>2. SpiTypes /\ Transfer /\ OnTheWire /\ [Next]_vars => OnTheWire'
  <2> SUFFICES ASSUME SpiTypes, Transfer, OnTheWire, [Next]_vars PROVE OnTheWire'
    OBVIOUS
  <2>1. CASE Clock
    BY <2>1, OnTheWireClock
  <2>2. CASE Reset
    BY <2>2 DEF Reset, AtReset, OnTheWire
  <2>3. CASE UNCHANGED vars
    BY <2>3 DEF OnTheWire, StartWire, DataWire, Exchanged, Left, Filled, ShiftedOut, Samples,
                is_leading, vars, registers, pins, core, target, history
  <2>. QED
    BY <2>1, <2>2, <2>3 DEF Next
<1>3. OnTheWire => ByteExchanged
  BY DEF OnTheWire, Exchanged, ByteExchanged
<1>. QED
  BY <1>1, <1>2, <1>3, TransferSafe, PTL DEF Spec

-----------------------------------------------------------------------------
(***************************************************************************)
(* The firmware (SPI_RAM.c, SPI_ISR) on the peripheral, for every length   *)
(* of a byte, every divider and every timing of the CPU's accesses.        *)
(***************************************************************************)

Bus == INSTANCE AxiLiteProofs WITH
  Lanes <- {"word"}, Bytes <- {ZeroByte}, ZeroByte <- ZeroByte,
  Accessed <- {}, WriteData <- {}, WriteStrobes <- {}

-----------------------------------------------------------------------------
\* The access on the bus is main's or that of SPI_ISR.

Places == { "init", "div_rd", "div_wr", "ie_rd", "ie_wr", "sel_rd", "sel_wr", "sel2_rd",
            "sel2_wr", "tx", "start_rd", "start_wr", "poll", "rx", "desel_rd", "desel_wr" }

FirmwareTypes ==
  /\ pc \in Places /\ issued \in BOOLEAN
  /\ msg \in [1 .. 3 -> Byte] /\ idx \in 1 .. 3
  /\ irq \in {"no", "pending", "in"} /\ (irq = "in" => issued)

Current == IF irq = "in" THEN Axi!ReadOf(RXDATA) ELSE Access

BusInv == IF issued THEN Bus!Carries(Current) ELSE Bus!Free

\* Main's access has been answered.
Wrote == issued /\ irq # "in" /\ axi_bvalid
Got   == issued /\ irq # "in" /\ axi_rvalid

-----------------------------------------------------------------------------
\* CTRL holds a setting of the firmware, which reads it before it writes it.

ReadsCtrl == pc \in { "div_rd", "ie_rd", "sel_rd", "sel2_rd", "start_rd", "desel_rd" }

CtrlInv ==
  /\ ctrl \in Settings /\ tmp \in Settings /\ cfg_r.cs_sel = 0
  /\ ReadsCtrl /\ Got => axi_rdata.word.c = ctrl
  /\ pc = "div_wr" /\ Wrote => ctrl.clk_div = Divider
  /\ pc = "ie_rd" => ctrl.clk_div = Divider
  /\ pc = "ie_wr" => tmp.clk_div = Divider

-----------------------------------------------------------------------------
\* Where the firmware is in a transfer.

Resting == state = "IDLE" /\ ~start /\ ~done

PhaseInv ==
  /\ pc \notin {"start_wr", "poll"} => Resting
  /\ pc = "start_wr" => IF Wrote THEN start /\ state = "IDLE" /\ ~done ELSE Resting
  /\ pc = "tx" /\ Wrote => tx_data = msg[idx]
  /\ pc \in {"start_rd", "start_wr"} => tx_data = msg[idx]
  /\ pc = "poll" => ~start /\ sent = msg[idx] /\ (state # "IDLE" \/ completed)
  /\ pc = "poll" /\ Got /\ ~axi_rdata.word.busy => Resting
  /\ pc = "rx" => completed
  /\ pc = "rx" /\ Got => axi_rdata.word = answer

-----------------------------------------------------------------------------
\* A pending interrupt is that of the last transfer: main cannot get to the
\* next start before SPI_ISR has run.

\* The accesses main has begun since its last poll, at least.
Begun == (CASE pc \in {"poll", "tx", "rx", "desel_rd"} -> 0
            [] pc \in {"start_rd", "desel_wr"}         -> 1
            [] OTHER                                   -> 2)
         + (IF issued /\ pc # "poll" THEN 1 ELSE 0)

IsrInv ==
  /\ slipped \in 0 .. MaxSlip
  /\ irq # "pending" => slipped = 0
  /\ irq = "pending" => slipped >= Begun
  /\ irq # "no" => completed /\ Resting
  /\ irq = "in" /\ axi_rvalid => axi_rdata.word = answer

-----------------------------------------------------------------------------
\* The bus.

LEMMA SameBus ==
  /\ Axi!WrEn <=> Bus!WrEn
  /\ Axi!RdEn <=> Bus!RdEn
  /\ Axi!Responded <=> Bus!Responded
  /\ Axi!HoldOnBus <=> Bus!HoldOnBus
  /\ Axi!AxiInit <=> Bus!AxiInit
  /\ Axi!AxiReset <=> Bus!AxiReset
  /\ \A shown : Axi!SubordinateEdge(shown) <=> Bus!SubordinateEdge(shown)
  /\ \A access : Axi!PutOnBus(access) <=> Bus!PutOnBus(access)
<1>1. (Axi!WrEn <=> Bus!WrEn) /\ (Axi!RdEn <=> Bus!RdEn) /\ (Axi!Responded <=> Bus!Responded)
  BY DEF Axi!WrEn, Bus!WrEn, Axi!RdEn, Bus!RdEn, Axi!Responded, Bus!Responded
<1>2. Axi!HoldOnBus <=> Bus!HoldOnBus
  BY DEF Axi!HoldOnBus, Bus!HoldOnBus
<1>3. (Axi!AxiInit <=> Bus!AxiInit) /\ (Axi!AxiReset <=> Bus!AxiReset)
  BY DEF Axi!AxiInit, Bus!AxiInit, Axi!AxiReset, Bus!AxiReset, Axi!ManagerReset, Bus!ManagerReset,
         Axi!SubordinateReset, Bus!SubordinateReset, Axi!Zero, Bus!Zero
<1>4. ASSUME NEW shown PROVE Axi!SubordinateEdge(shown) <=> Bus!SubordinateEdge(shown)
  BY DEF Axi!SubordinateEdge, Bus!SubordinateEdge, Axi!WriteEdge, Bus!WriteEdge,
         Axi!AwEdge, Bus!AwEdge, Axi!WEdge, Bus!WEdge, Axi!BEdge, Bus!BEdge,
         Axi!ArEdge, Bus!ArEdge, Axi!REdge, Bus!REdge, Axi!WrEn, Bus!WrEn, Axi!RdEn, Bus!RdEn
<1>5. ASSUME NEW access PROVE Axi!PutOnBus(access) <=> Bus!PutOnBus(access)
  BY DEF Axi!PutOnBus, Bus!PutOnBus
<1>. QED
  BY <1>1, <1>2, <1>3, <1>4, <1>5


LEMMA Accesses ==
  /\ ReadsCtrl => Access = [write |-> FALSE, addr |-> 0]
  /\ pc = "poll" => Access = [write |-> FALSE, addr |-> 2]
  /\ pc = "rx" => Access = [write |-> FALSE, addr |-> 3]
  /\ pc = "tx" => Access = [write |-> TRUE, addr |-> 1, word |-> [word |-> msg[idx]]]
  /\ pc = "start_wr" =>
       Access = [write |-> TRUE, addr |-> 0, word |-> [word |-> [c |-> tmp, start |-> TRUE]]]
  /\ pc \in Places /\ ~ReadsCtrl /\ pc \notin {"poll", "rx", "tx", "start_wr"} =>
       \E c : Access = [write |-> TRUE, addr |-> 0,
                        word |-> [word |-> [c |-> c, start |-> FALSE]]]
  /\ pc = "init" => Access.word.word.c = ResetCtrl
  /\ pc = "div_wr" => Access.word.word.c = [tmp EXCEPT !.clk_div = Divider]
  /\ pc = "ie_wr" => Access.word.word.c = [tmp EXCEPT !.done_ie = TRUE]
  /\ pc \in {"sel_wr", "sel2_wr", "desel_wr"} => Access.word.word.c = [tmp EXCEPT !.cs_sel = 0]
<1> USE DEF Access, Axi!WriteOf, Axi!ReadOf, CTRL, TXDATA, STATUS, RXDATA, CtrlWord, ByteWord,
            Places, ReadsCtrl
<1>1. ReadsCtrl => Access = [write |-> FALSE, addr |-> 0]
  OBVIOUS
<1>2. pc = "init" => Access = [write |-> TRUE, addr |-> 0,
                               word |-> [word |-> [c |-> ResetCtrl, start |-> FALSE]]]
  OBVIOUS
<1>3. pc = "div_wr" => Access = [write |-> TRUE, addr |-> 0,
         word |-> [word |-> [c |-> [tmp EXCEPT !.clk_div = Divider], start |-> FALSE]]]
  OBVIOUS
<1>4. pc = "ie_wr" => Access = [write |-> TRUE, addr |-> 0,
         word |-> [word |-> [c |-> [tmp EXCEPT !.done_ie = TRUE], start |-> FALSE]]]
  OBVIOUS
<1>5. pc \in {"sel_wr", "sel2_wr", "desel_wr"} => Access = [write |-> TRUE, addr |-> 0,
         word |-> [word |-> [c |-> [tmp EXCEPT !.cs_sel = 0], start |-> FALSE]]]
  OBVIOUS
<1>6. /\ pc = "poll" => Access = [write |-> FALSE, addr |-> 2]
      /\ pc = "rx" => Access = [write |-> FALSE, addr |-> 3]
  OBVIOUS
<1>7. /\ pc = "tx" => Access = [write |-> TRUE, addr |-> 1, word |-> [word |-> msg[idx]]]
      /\ pc = "start_wr" =>
           Access = [write |-> TRUE, addr |-> 0, word |-> [word |-> [c |-> tmp, start |-> TRUE]]]
  OBVIOUS
<1> HIDE DEF Access, CtrlWord, ByteWord, Axi!WriteOf, Axi!ReadOf
<1>8. pc \in Places /\ ~ReadsCtrl /\ pc \notin {"poll", "rx", "tx", "start_wr"} =>
       \E c : Access = [write |-> TRUE, addr |-> 0,
                        word |-> [word |-> [c |-> c, start |-> FALSE]]]
  BY <1>2, <1>3, <1>4, <1>5
<1>9. pc = "init" => Access.word.word.c = ResetCtrl
  BY <1>2
<1>10. pc = "div_wr" => Access.word.word.c = [tmp EXCEPT !.clk_div = Divider]
  BY <1>3
<1>11. pc = "ie_wr" => Access.word.word.c = [tmp EXCEPT !.done_ie = TRUE]
  <2> DEFINE c == [tmp EXCEPT !.done_ie = TRUE]
  <2>1. pc = "ie_wr" => Access = [write |-> TRUE, addr |-> 0,
                                  word |-> [word |-> [c |-> c, start |-> FALSE]]]
    BY <1>4
  <2> HIDE DEF c
  <2>2. pc = "ie_wr" => Access.word.word.c = c
    BY <2>1
  <2>. QED
    BY <2>2 DEF c
<1>12. pc \in {"sel_wr", "sel2_wr", "desel_wr"} => Access.word.word.c = [tmp EXCEPT !.cs_sel = 0]
  BY <1>5
<1>. QED
  BY <1>1, <1>6, <1>7, <1>8, <1>9, <1>10, <1>11, <1>12

program == << pc, reading, msg, idx, tmp >>

\* What a clock edge does to the bus and to main's program.
Begins == ~issued /\ UNCHANGED program /\ ~Axi!WrEn /\ ~Axi!RdEn /\ ~axi_bvalid' /\ ~axi_rvalid'
GoesOn == issued /\ issued' /\ UNCHANGED program /\ (irq = "in" <=> irq' = "in")
          /\ ~axi_bvalid /\ ~axi_rvalid
Ends   == /\ issued /\ ~issued' /\ ~Axi!WrEn /\ ~Axi!RdEn /\ irq' # "in"
          /\ axi_bvalid \/ axi_rvalid
          /\ IF irq = "in" THEN UNCHANGED program ELSE Complete(axi_rdata)

LEMMA BusStep ==
  ASSUME FirmwareTypes, BusInv, DriverClock
  PROVE  /\ BusInv'
         /\ axi_bvalid' <=> Axi!WrEn
         /\ axi_rvalid' <=> Axi!RdEn
         /\ Axi!WrEn => /\ issued /\ irq # "in" /\ Access.write
                        /\ axi_awaddr = Access.addr /\ wdata = Access.word
         /\ Axi!RdEn => /\ issued /\ axi_rdata' = reg_data_out
                        /\ IF irq = "in" THEN axi_araddr = RXDATA
                           ELSE ~Access.write /\ axi_araddr = Access.addr
         /\ ~Axi!RdEn => axi_rdata' = axi_rdata
         /\ issued /\ axi_bvalid => irq # "in" /\ Access.write
         /\ issued /\ axi_rvalid => irq = "in" \/ ~Access.write
         /\ Begins \/ GoesOn \/ Ends
<1>0. /\ Bus!SubordinateEdge({reg_data_out})
      /\ (Axi!WrEn <=> Bus!WrEn) /\ (Axi!RdEn <=> Bus!RdEn) /\ (Axi!Responded <=> Bus!Responded)
  BY SameBus DEF DriverClock
<1>1. /\ Current.write => irq # "in" /\ Current = Access
      /\ irq # "in" => Current = Access
      /\ irq = "in" => Current = [write |-> FALSE, addr |-> RXDATA]
  BY DEF Current, Axi!ReadOf
<1>2. CASE Wait /\ IrqEdge
  <2>1. Bus!Free /\ UNCHANGED Bus!manager /\ ~issued /\ irq # "in"
    BY <1>2 DEF Wait, BusInv, FirmwareTypes, manager, Bus!manager, Bus!writeManager, Bus!readManager
  <2>2. Bus!Free' /\ ~Bus!WrEn /\ ~Bus!RdEn /\ axi_rdata' = axi_rdata
    BY <1>0, <2>1, Bus!FreeWaits
  <2>3. ~axi_bvalid' /\ ~axi_rvalid'
    BY <2>2 DEF Bus!Free, Bus!WriteFree, Bus!ReadFree
  <2>4. UNCHANGED << pc, issued, reading, msg, idx, tmp >>
    BY <1>2 DEF Wait, firmware
  <2>. QED
    BY <1>0, <2>1, <2>2, <2>3, <2>4 DEF BusInv, Begins, program
<1>3. CASE Issue /\ IrqEdge
  <2>1. /\ Bus!Free /\ Bus!PutOnBus(Access) /\ ~issued /\ issued' = TRUE
        /\ UNCHANGED << pc, reading, msg, idx, tmp >> /\ irq # "in"
    BY <1>3, SameBus DEF Issue, BusInv, FirmwareTypes
  <2>2. irq' # "in"
    BY <1>3, <2>1 DEF IrqEdge, FirmwareTypes
  <2>3. Current' = Access /\ Access' = Access
    BY <2>1, <2>2 DEF Current, Access, Axi!WriteOf, Axi!ReadOf
  <2>4. /\ Bus!Carries(Access)' /\ ~Bus!WrEn /\ ~Bus!RdEn /\ axi_rdata' = axi_rdata
        /\ ~axi_bvalid' /\ ~axi_rvalid'
    BY <1>0, <2>1, <2>3, Bus!FreeTakes DEF Bus!Carries
  <2>5. BusInv'
    BY <2>1, <2>3, <2>4 DEF BusInv, Bus!Carries
  <2>. QED
    BY <1>0, <2>1, <2>4, <2>5 DEF Begins, program
<1>4. CASE IssueIsr /\ irq' = "in"
  <2>1. /\ Bus!Free /\ Bus!PutOnBus(Axi!ReadOf(RXDATA)) /\ ~issued /\ issued' = TRUE
        /\ UNCHANGED << pc, reading, msg, idx, tmp >>
    BY <1>4, SameBus DEF IssueIsr, BusInv
  <2>2. Current' = Axi!ReadOf(RXDATA)
    BY <1>4 DEF Current, Axi!ReadOf
  <2>3. /\ Bus!Carries(Axi!ReadOf(RXDATA))' /\ ~Bus!WrEn /\ ~Bus!RdEn /\ axi_rdata' = axi_rdata
        /\ ~axi_bvalid' /\ ~axi_rvalid'
    BY <1>0, <2>1, Bus!FreeTakes
  <2>4. BusInv'
    BY <2>1, <2>2, <2>3 DEF BusInv, Bus!Carries
  <2>. QED
    BY <1>0, <2>1, <2>3, <2>4 DEF Begins, program
<1>5. CASE OnBus /\ IrqEdge
  <2>1. issued /\ Bus!Carries(Current) /\ Bus!HoldOnBus
    BY <1>5, SameBus DEF OnBus, BusInv
  <2>2. /\ Bus!WrEn => Current.write /\ axi_awaddr = Current.addr /\ wdata = Current.word
        /\ Bus!RdEn => ~Current.write /\ axi_araddr = Current.addr
        /\ axi_bvalid' <=> Bus!WrEn
        /\ axi_rvalid' <=> Bus!RdEn
        /\ IF Bus!RdEn THEN axi_rdata' \in {reg_data_out} ELSE axi_rdata' = axi_rdata
        /\ axi_bvalid => Current.write
        /\ axi_rvalid => ~Current.write
        /\ Bus!Responded => Bus!Free' /\ ~Bus!WrEn /\ ~Bus!RdEn
    BY <1>0, <2>1, Bus!CarriesOn
  <2>3. Bus!Responded <=> axi_bvalid \/ axi_rvalid
    BY DEF Bus!Responded
  <2>4. CASE Bus!Responded
    <3>1. issued' = FALSE /\ irq' # "in"
      BY <1>0, <1>5, <2>1, <2>4 DEF OnBus, IrqEdge, Complete, FirmwareTypes
    <3>2. IF irq = "in" THEN UNCHANGED program ELSE Complete(axi_rdata)
      BY <1>0, <1>5, <2>4 DEF OnBus, program
    <3>3. BusInv'
      BY <2>2, <2>4, <3>1 DEF BusInv
    <3>4. Ends
      BY <1>0, <2>1, <2>2, <2>3, <2>4, <3>1, <3>2 DEF Ends
    <3>. QED
      BY <1>0, <1>1, <2>1, <2>2, <2>4, <3>3, <3>4
  <2>5. CASE ~Bus!Responded
    <3>1. UNCHANGED << pc, issued, reading, msg, idx, tmp >>
      BY <1>0, <1>5, <2>5 DEF OnBus, firmware
    <3>2. irq = "in" <=> irq' = "in"
      BY <1>0, <1>5, <2>5 DEF IrqEdge, FirmwareTypes
    <3>3. Current' = Current
      BY <3>1, <3>2 DEF Current, Access, Axi!ReadOf
    <3>4. BusInv'
      BY <1>0, <2>1, <2>5, <3>1, <3>3, Bus!CarriesOn DEF BusInv, Bus!Carries
    <3>5. GoesOn
      BY <2>1, <2>3, <2>5, <3>1, <3>2 DEF GoesOn, program
    <3>. QED
      BY <1>0, <1>1, <2>1, <2>2, <2>3, <2>5, <3>4, <3>5
  <2>. QED
    BY <2>4, <2>5
<1>. QED
  BY <1>2, <1>3, <1>4, <1>5 DEF DriverClock

-----------------------------------------------------------------------------
\* The settings of CTRL.

LEMMA SettingFields ==
  ASSUME NEW d, NEW e, NEW x
  PROVE  /\ Setting(d, e).cs_sel = 0 /\ Setting(d, e).clk_div = d
         /\ [Setting(d, e) EXCEPT !.clk_div = x] = Setting(x, e)
         /\ [Setting(d, e) EXCEPT !.done_ie = x] = Setting(d, x)
         /\ [Setting(d, e) EXCEPT !.cs_sel = 0] = Setting(d, e)
  BY DEF Setting

LEMMA SettingFacts ==
  ASSUME NEW c \in Settings
  PROVE  /\ c \in Config /\ c \in Configs /\ c.cs_sel = 0
         /\ [c EXCEPT !.clk_div = Divider] \in Settings
         /\ [c EXCEPT !.clk_div = Divider].clk_div = Divider
         /\ c.clk_div = Divider => [c EXCEPT !.done_ie = TRUE] \in Settings
         /\ [c EXCEPT !.cs_sel = 0] = c
<1>1. c \in Configs /\ c \in Config
  BY SpiAssumption, DriverAssumption
<1>2. \/ c = Setting(0, FALSE)
      \/ c = Setting(Divider, FALSE)
      \/ c = Setting(Divider, TRUE)
  BY DEF Settings
<1>3. PICK d, e : c = Setting(d, e) /\ Setting(Divider, e) \in Settings
  BY <1>2 DEF Settings
<1>4. c.cs_sel = 0 /\ [c EXCEPT !.cs_sel = 0] = c /\ c.clk_div = d
  BY <1>3, SettingFields
<1>5. [c EXCEPT !.clk_div = Divider] = Setting(Divider, e)
  BY <1>3, SettingFields
<1>6. [c EXCEPT !.clk_div = Divider].clk_div = Divider
  BY <1>5, SettingFields
<1>7. [c EXCEPT !.done_ie = TRUE] = Setting(d, TRUE)
  <2> DEFINE yes == TRUE
  <2> HIDE DEF yes
  <2>1. [c EXCEPT !.done_ie = yes] = Setting(d, yes)
    BY <1>3 DEF Setting
  <2>. QED
    BY <2>1 DEF yes
<1>8. Setting(Divider, TRUE) \in Settings
  BY DEF Settings
<1>. QED
  BY <1>1, <1>3, <1>4, <1>5, <1>6, <1>7, <1>8

-----------------------------------------------------------------------------
\* One lemma for each part of the invariant and a clock edge.

LEMMA CommandTypes ==
  ASSUME NewCommand PROVE msg' \in [1 .. 3 -> Byte] /\ idx' \in 1 .. 3
<1>1. ZeroByte \in Byte /\ SPI_CMD_WRITE \in Byte /\ SPI_CMD_READ \in Byte
  <2>1. NBits \in 1 .. NBits
    BY SpiAssumption
  <2>. QED
    BY <2>1, ResetTypes DEF SPI_CMD_WRITE, SPI_CMD_READ, Byte, Bit
<1>2. ASSUME NEW a \in Byte, NEW b \in Byte, NEW c \in Byte PROVE << a, b, c >> \in [1 .. 3 -> Byte]
  OBVIOUS
<1>. QED
  BY <1>1, <1>2 DEF NewCommand

LEMMA FirmwareTypesStep ==
  ASSUME FirmwareTypes, BusInv, DriverClock
  PROVE  FirmwareTypes'
<1>1. /\ irq' \in {"no", "pending", "in"} /\ (irq' = "in" => issued')
      /\ issued' \in BOOLEAN
  <2>1. CASE IssueIsr /\ irq' = "in"
    BY <2>1 DEF IssueIsr
  <2>2. CASE (Issue \/ Wait \/ OnBus) /\ IrqEdge
    <3>1. irq' \in {"no", "pending", "in"} /\ (irq' = "in" => irq = "in" /\ issued /\ ~Axi!Responded)
      BY <2>2 DEF IrqEdge, FirmwareTypes
    <3>2. issued' \in BOOLEAN /\ (issued /\ ~Axi!Responded => issued')
      BY <2>2 DEF Issue, Wait, OnBus, Complete, firmware, FirmwareTypes
    <3>. QED
      BY <3>1, <3>2
  <2>. QED
    BY <2>1, <2>2 DEF DriverClock
<1>2. pc' \in Places /\ msg' \in [1 .. 3 -> Byte] /\ idx' \in 1 .. 3
  <2>1. CASE UNCHANGED program
    BY <2>1 DEF program, FirmwareTypes
  <2>2. CASE Complete(axi_rdata)
    <3>1. pc' \in Places /\ (pc = "poll" /\ pc' = "tx" => idx < 3)
      BY <2>2 DEF Complete, Then, Places, FirmwareTypes
    <3>2. CASE pc' = "sel_rd"
      BY <2>2, <3>1, <3>2, CommandTypes DEF Complete
    <3>3. CASE pc' # "sel_rd"
      BY <2>2, <3>1, <3>3 DEF Complete, FirmwareTypes
    <3>. QED
      BY <3>1, <3>2, <3>3
  <2>. QED
    BY <2>1, <2>2, BusStep DEF Begins, GoesOn, Ends
<1>. QED
  BY <1>1, <1>2 DEF FirmwareTypes

\* What a write strobe does to the registers.
LEMMA RegisterStep ==
  ASSUME FirmwareTypes, BusInv, CtrlInv, DriverClock
  PROVE  /\ ctrl' \in Settings
         /\ start' <=> Axi!WrEn /\ pc = "start_wr"
         /\ tx_data' = IF Axi!WrEn /\ pc = "tx" THEN msg[idx] ELSE tx_data
         /\ Axi!WrEn /\ pc = "div_wr" => ctrl'.clk_div = Divider
         /\ ~Axi!WrEn => ctrl' = ctrl
         /\ WriteCtrl \/ WriteTxData \/ NoWrite
<1>0. RegisterEdge
  BY DEF DriverClock
<1>1. CASE ~Axi!WrEn
  BY <1>0, <1>1 DEF RegisterEdge, NoWrite, CtrlInv
<1>2. CASE Axi!WrEn /\ pc = "tx"
  <2>1. axi_awaddr = TXDATA /\ axi_awaddr # CTRL /\ wdata.word = msg[idx] /\ msg[idx] \in Byte
    BY <1>2, BusStep, Accesses DEF TXDATA, CTRL, FirmwareTypes
  <2>. QED
    BY <1>0, <1>2, <2>1 DEF RegisterEdge, WriteTxData, CtrlInv
<1>3. CASE Axi!WrEn /\ pc # "tx"
  <2>1. /\ Access.write /\ wdata = Access.word /\ axi_awaddr = Access.addr
        /\ pc \notin {"poll", "rx"} /\ ~ReadsCtrl
    BY <1>3, BusStep, Accesses
  <2>2. Access.addr = 0 /\ (Access.word.word.start <=> pc = "start_wr")
    <3>1. CASE pc = "start_wr"
      <4>1. Access = [write |-> TRUE, addr |-> 0, word |-> [word |-> [c |-> tmp, start |-> TRUE]]]
        BY <3>1, Accesses
      <4>. QED
        BY <3>1, <4>1
    <3>2. CASE pc # "start_wr"
      <4>1. PICK c : Access = [write |-> TRUE, addr |-> 0,
                               word |-> [word |-> [c |-> c, start |-> FALSE]]]
        BY <1>3, <2>1, <3>2, Accesses DEF FirmwareTypes
      <4>. QED
        BY <3>2, <4>1
    <3>. QED
      BY <3>1, <3>2
  <2>3. /\ axi_awaddr = CTRL /\ axi_awaddr # TXDATA
        /\ wdata.word = Access.word.word
    BY <2>1, <2>2 DEF CTRL, TXDATA
  <2>4. Access.word.word.c \in Settings /\ (pc = "div_wr" => Access.word.word.c.clk_div = Divider)
    <3>1. CASE pc = "init"
      BY <3>1, Accesses DEF Settings, Setting, ResetCtrl
    <3>2. CASE pc = "div_wr"
      BY <3>2, Accesses, SettingFacts DEF CtrlInv
    <3>3. CASE pc = "ie_wr"
      BY <3>3, Accesses, SettingFacts DEF CtrlInv
    <3>4. CASE pc \in {"sel_wr", "sel2_wr", "desel_wr"}
      BY <3>4, Accesses, SettingFacts DEF CtrlInv
    <3>5. CASE pc = "start_wr"
      <4>1. Access = [write |-> TRUE, addr |-> 0, word |-> [word |-> [c |-> tmp, start |-> TRUE]]]
        BY <3>5, Accesses
      <4>2. Access.word.word.c = tmp
        BY <4>1
      <4>. QED
        BY <3>5, <4>2 DEF CtrlInv
    <3>. QED
      BY <1>3, <2>1, <3>1, <3>2, <3>3, <3>4, <3>5 DEF FirmwareTypes, Places, ReadsCtrl
  <2>5. /\ ctrl' = Access.word.word.c /\ tx_data' = tx_data
        /\ start' <=> pc = "start_wr"
        /\ start' \in BOOLEAN
    BY <1>0, <1>3, <2>2, <2>3 DEF RegisterEdge
  <2>6. WriteCtrl
    BY <2>4, <2>5, SettingFacts DEF WriteCtrl
  <2>. QED
    BY <1>3, <2>2, <2>3, <2>4, <2>5, <2>6
<1>. QED
  BY <1>1, <1>2, <1>3

\* The peripheral makes a step of SpiController.
LEMMA CoreStep ==
  ASSUME FirmwareTypes, BusInv, CtrlInv, SpiTypes, Transfer, OnTheWire, DriverClock
  PROVE  SpiTypes' /\ Transfer' /\ OnTheWire'
<1>1. Clock
  BY RegisterStep DEF DriverClock, Clock
<1>. QED
  BY <1>1, TypesClock, TransferClock, OnTheWireClock

\* The step of main's program: it goes on when its access has been answered.
LEMMA ProgramStep ==
  ASSUME FirmwareTypes, BusInv, DriverClock
  PROVE  /\ IF Wrote \/ Got THEN Complete(axi_rdata) /\ ~Axi!WrEn /\ ~Axi!RdEn
            ELSE UNCHANGED program
         /\ Wrote => Access.write /\ ~Got
         /\ Got => ~Access.write
         /\ Wrote' => Axi!WrEn /\ UNCHANGED program
         /\ Got' => /\ Axi!RdEn /\ ~Axi!WrEn /\ UNCHANGED program /\ axi_rdata' = reg_data_out
                    /\ ~Access.write /\ axi_araddr = Access.addr
         /\ Axi!WrEn => Wrote' /\ Access.write
<1>1. CASE Begins
  BY <1>1, BusStep DEF Begins, Wrote, Got
<1>2. CASE GoesOn
  BY <1>2, BusStep DEF GoesOn, Wrote, Got
<1>3. CASE Ends
  BY <1>3, BusStep DEF Ends, Wrote, Got
<1>. QED
  BY <1>1, <1>2, <1>3, BusStep

\* What main reads into tmp.
LEMMA TmpStep ==
  ASSUME FirmwareTypes, BusInv, CtrlInv, DriverClock
  PROVE  tmp' = IF ReadsCtrl /\ Got THEN ctrl ELSE tmp
<1>1. CASE Wrote \/ Got
  <2>1. tmp' = IF ~Access.write /\ Access.addr = CTRL THEN axi_rdata.word.c ELSE tmp
    BY <1>1, ProgramStep DEF Complete
  <2>2. ReadsCtrl => ~Access.write /\ Access.addr = CTRL /\ Got
    BY <1>1, ProgramStep, Accesses DEF CTRL
  <2>3. ~ReadsCtrl => Access.write \/ Access.addr # CTRL
    BY Accesses DEF CTRL, FirmwareTypes
  <2>. QED
    BY <2>1, <2>2, <2>3 DEF CtrlInv
<1>2. CASE ~(Wrote \/ Got)
  BY <1>2, ProgramStep DEF program
<1>. QED
  BY <1>1, <1>2

LEMMA CtrlStep ==
  ASSUME FirmwareTypes, BusInv, CtrlInv, DriverClock
  PROVE  CtrlInv'
<1>1. ctrl' \in Settings /\ tmp' \in Settings
  BY RegisterStep, TmpStep DEF CtrlInv
<1>2. (cfg_r').cs_sel = 0
  <2>1. cfg_r' = ctrl \/ cfg_r' = cfg_r
    BY DEF DriverClock, CoreEdge, IdleEdge, StartEdge, DataWait, DataShift, DataSample, StopEdge
  <2>. QED
    BY <2>1, SettingFacts DEF CtrlInv
<1>3. ASSUME ReadsCtrl', Got' PROVE (axi_rdata').word.c = ctrl'
  <2>1. ReadsCtrl /\ ~Axi!WrEn /\ axi_rdata' = reg_data_out /\ axi_araddr = Access.addr
    BY <1>3, ProgramStep DEF ReadsCtrl, program
  <2>2. axi_rdata' = CtrlWord(ctrl, FALSE)
    <3>1. axi_araddr = CTRL
      BY <2>1, Accesses DEF CTRL
    <3>. QED
      BY <2>1, <3>1 DEF reg_data_out, CTRL, TXDATA, STATUS, RXDATA
  <2>. QED
    BY <2>1, <2>2, RegisterStep DEF CtrlWord
<1>4. ASSUME pc' = "div_wr", Wrote' PROVE (ctrl').clk_div = Divider
  BY <1>4, ProgramStep, RegisterStep DEF program
<1>5. ASSUME pc' = "ie_rd" PROVE (ctrl').clk_div = Divider
  <2>1. CASE Wrote \/ Got
    <3>1. pc = "div_wr"
      BY <1>5, <2>1, ProgramStep DEF Complete, Then, FirmwareTypes, Places
    <3>2. Access.write
      BY <3>1, Accesses DEF Places, ReadsCtrl
    <3>3. Wrote /\ ~Axi!WrEn
      BY <2>1, <3>2, ProgramStep
    <3>. QED
      BY <3>1, <3>3, RegisterStep DEF CtrlInv
  <2>2. CASE ~(Wrote \/ Got)
    <3>1. pc = "ie_rd"
      BY <1>5, <2>2, ProgramStep DEF program
    <3>2. ~Axi!WrEn
      BY <3>1, ProgramStep, Accesses DEF ReadsCtrl
    <3>. QED
      BY <3>1, <3>2, RegisterStep DEF CtrlInv
  <2>. QED
    BY <2>1, <2>2
<1>6. ASSUME pc' = "ie_wr" PROVE (tmp').clk_div = Divider
  <2>1. CASE Wrote \/ Got
    <3>1. pc = "ie_rd"
      BY <1>6, <2>1, ProgramStep DEF Complete, Then, FirmwareTypes, Places
    <3>2. ReadsCtrl /\ Got
      BY <2>1, <3>1, ProgramStep, Accesses DEF ReadsCtrl
    <3>. QED
      BY <3>1, <3>2, TmpStep DEF CtrlInv
  <2>2. CASE ~(Wrote \/ Got)
    BY <1>6, <2>2, ProgramStep DEF program, CtrlInv
  <2>. QED
    BY <2>1, <2>2
<1>. QED
  BY <1>1, <1>2, <1>3, <1>4, <1>5, <1>6 DEF CtrlInv

\* What a clock edge does to the transfer.
LEMMA TransferMoves ==
  ASSUME SpiTypes, Transfer, DriverClock
  PROVE  /\ IF state = "IDLE" /\ start THEN state' # "IDLE" /\ sent' = tx_data
            ELSE sent' = sent /\ answer' = answer
         /\ state = "IDLE" /\ ~start => state' = "IDLE" /\ completed' = completed
         /\ state # "IDLE" => state' # "IDLE" \/ completed'
         /\ state = "IDLE" => ~done'
         /\ rx_reg' = IF done THEN rx_data ELSE rx_reg
<1>0. /\ CoreEdge /\ HistoryEdge /\ RxRegEdge /\ state \in {"IDLE", "START", "DATA", "STOP"}
  BY DEF DriverClock, SpiTypes, CoreTypes
<1>1. IF state = "IDLE" /\ start THEN sent' = tx_data ELSE sent' = sent /\ answer' = answer
  BY <1>0 DEF HistoryEdge
<1>2. state = "IDLE" => /\ ~done' /\ (IF start THEN state' # "IDLE" ELSE state' = "IDLE")
                        /\ (~start => completed' = completed)
  <2>1. state = "IDLE" => IdleEdge
    BY <1>0 DEF CoreEdge, StartEdge, DataWait, DataShift, DataSample, StopEdge
  <2>2. state = "IDLE" /\ ~start => completed' = completed
    BY <1>0 DEF HistoryEdge, SpiTypes, TargetTypes
  <2>. QED
    BY <2>1, <2>2 DEF IdleEdge
<1>3. state # "IDLE" => state' # "IDLE" \/ completed'
  <2>1. state \in {"START", "DATA"} => state' # "IDLE"
    BY <1>0 DEF CoreEdge, IdleEdge, StartEdge, DataWait, DataShift, DataSample, StopEdge
  <2>2. state = "STOP" => completed'
    BY <1>0 DEF HistoryEdge
  <2>. QED
    BY <1>0, <2>1, <2>2
<1>4. rx_reg' = IF done THEN rx_data ELSE rx_reg
  BY <1>0 DEF RxRegEdge
<1>. QED
  BY <1>1, <1>2, <1>3, <1>4

\* The byte in RX DATA once a transfer is over.
LEMMA AnswerLatched ==
  ASSUME CtrlInv, OnTheWire, Resting, completed PROVE rx_reg = answer
  BY DriverAssumption DEF CtrlInv, OnTheWire, Resting

LEMMA PhaseStep ==
  ASSUME FirmwareTypes, BusInv, CtrlInv, PhaseInv, SpiTypes, Transfer, OnTheWire, DriverClock
  PROVE  PhaseInv'
<1>1. start' <=> Axi!WrEn /\ pc = "start_wr"
  BY RegisterStep
<1>2. tx_data' = IF Axi!WrEn /\ pc = "tx" THEN msg[idx] ELSE tx_data
  BY RegisterStep
\* Outside a transfer nothing moves.
<1>3. Resting /\ ~start' => Resting'
  BY TransferMoves DEF Resting
<1>4. CASE ~(Wrote \/ Got)
  <2>1. UNCHANGED << pc, msg, idx >>
    BY <1>4, ProgramStep DEF program
  <2>2. pc' \notin {"start_wr", "poll"} => Resting'
    BY <1>1, <1>3, <2>1 DEF PhaseInv
  <2>3. pc' = "start_wr" => IF Wrote' THEN start' /\ state' = "IDLE" /\ ~done' ELSE Resting'
    <3>1. pc = "start_wr" => Resting
      BY <1>4 DEF PhaseInv
    <3>2. CASE Axi!WrEn
      BY <1>1, <2>1, <3>1, <3>2, ProgramStep, TransferMoves DEF Resting
    <3>3. CASE ~Axi!WrEn
      BY <1>1, <1>3, <2>1, <3>1, <3>3, ProgramStep
    <3>. QED
      BY <3>2, <3>3
  <2>4. /\ pc' = "tx" /\ Wrote' => tx_data' = msg'[idx']
        /\ pc' \in {"start_rd", "start_wr"} => tx_data' = msg'[idx']
    BY <1>2, <2>1, ProgramStep DEF PhaseInv
  <2>5. pc' = "poll" => ~start' /\ sent' = msg'[idx'] /\ (state' # "IDLE" \/ completed')
    BY <1>1, <2>1, TransferMoves DEF PhaseInv
  <2>6. ASSUME pc' = "poll", Got', ~axi_rdata'.word.busy PROVE Resting'
    <3>1. axi_rdata' = reg_data_out /\ axi_araddr = STATUS /\ pc = "poll" /\ ~Axi!WrEn
      BY <2>1, <2>6, ProgramStep, Accesses DEF STATUS
    <3>2. axi_rdata' = StatusWord(done, busy)
      BY <3>1 DEF reg_data_out, CTRL, TXDATA, STATUS, RXDATA
    <3>3. ~busy
      BY <2>6, <3>2 DEF StatusWord
    <3>4. state = "IDLE" /\ ~start
      BY <3>1, <3>3 DEF Transfer, PhaseInv
    <3>. QED
      BY <1>1, <3>1, <3>4, TransferMoves DEF Resting
  <2>7. pc' = "rx" => completed'
    BY <2>1, TransferMoves DEF PhaseInv, Resting
  <2>8. ASSUME pc' = "rx", Got' PROVE axi_rdata'.word = answer'
    <3>1. axi_rdata' = reg_data_out /\ axi_araddr = RXDATA /\ pc = "rx"
      BY <2>1, <2>8, ProgramStep, Accesses DEF RXDATA
    <3>2. axi_rdata'.word = rx_reg
      BY <3>1 DEF reg_data_out, ByteWord, CTRL, TXDATA, STATUS, RXDATA
    <3>3. Resting /\ completed
      BY <3>1 DEF PhaseInv
    <3>4. answer' = answer
      BY <3>3, TransferMoves DEF Resting
    <3>. QED
      BY <3>2, <3>3, <3>4, AnswerLatched
  <2>. QED
    BY <2>2, <2>3, <2>4, <2>5, <2>6, <2>7, <2>8 DEF PhaseInv
<1>5. CASE Wrote \/ Got
  <2>1. Complete(axi_rdata) /\ ~Wrote' /\ ~Got' /\ ~start' /\ tx_data' = tx_data
    BY <1>1, <1>2, <1>5, ProgramStep
  <2>2. pc' = Then(axi_rdata) /\ (pc' # "sel_rd" => UNCHANGED msg)
        /\ (pc' \notin {"sel_rd", "tx"} => UNCHANGED idx)
    BY <2>1 DEF Complete
  <2>3. CASE pc = "start_wr"
    <3>1. Wrote /\ pc' = "poll"
      BY <1>5, <2>2, <2>3, ProgramStep, Accesses DEF Then
    <3>2. state = "IDLE" /\ start /\ tx_data = msg[idx]
      BY <2>3, <3>1 DEF PhaseInv
    <3>3. sent' = msg'[idx'] /\ state' # "IDLE"
      BY <2>2, <3>1, <3>2, TransferMoves
    <3>. QED
      BY <2>1, <3>1, <3>3 DEF PhaseInv
  <2>4. CASE pc = "poll"
    <3>1. Got
      BY <1>5, <2>4, ProgramStep, Accesses
    <3>2. ~start /\ sent = msg[idx] /\ (state # "IDLE" \/ completed)
      BY <2>4 DEF PhaseInv
    <3>3. CASE axi_rdata.word.busy
      <4>1. pc' = "poll"
        BY <2>2, <2>4, <3>3 DEF Then
      <4>2. sent' = msg'[idx'] /\ (state' # "IDLE" \/ completed')
        BY <2>2, <3>2, <4>1, TransferMoves
      <4>. QED
        BY <2>1, <4>1, <4>2 DEF PhaseInv
    <3>4. CASE ~axi_rdata.word.busy
      <4>1. pc' \in {"tx", "rx", "desel_rd"}
        BY <2>2, <2>4, <3>4 DEF Then
      <4>2. Resting
        BY <2>4, <3>1, <3>4 DEF PhaseInv
      <4>3. Resting' /\ completed'
        BY <1>3, <2>1, <3>2, <4>2, TransferMoves DEF Resting
      <4>. QED
        BY <2>1, <4>1, <4>3 DEF PhaseInv
    <3>. QED
      BY <3>3, <3>4
  <2>5. CASE pc \notin {"start_wr", "poll"}
    <3>1. Resting'
      BY <1>3, <2>1, <2>5 DEF PhaseInv
    <3>2. pc' \notin {"poll", "rx"}
      BY <2>2, <2>5 DEF Then, FirmwareTypes, Places
    <3>3. pc' \in {"start_rd", "start_wr"} => tx_data' = msg'[idx']
      <4>1. pc' = "start_rd" => pc = "tx"
        BY <2>2, <2>5 DEF Then, FirmwareTypes, Places
      <4>2. pc' = "start_wr" => pc = "start_rd"
        BY <2>2, <2>5 DEF Then, FirmwareTypes, Places
      <4>3. pc = "tx" => Wrote
        BY <1>5, ProgramStep, Accesses
      <4>. QED
        BY <2>1, <2>2, <4>1, <4>2, <4>3 DEF PhaseInv
    <3>. QED
      BY <2>1, <3>1, <3>2, <3>3 DEF PhaseInv
  <2>. QED
    BY <2>3, <2>4, <2>5
<1>. QED
  BY <1>4, <1>5

LEMMA IsrStep ==
  ASSUME FirmwareTypes, BusInv, CtrlInv, PhaseInv, IsrInv, SpiTypes, Transfer, OnTheWire,
         DriverClock, MaxSlip <= 2
  PROVE  IsrInv'
<1>0. MaxSlip \in Nat /\ slipped \in 0 .. MaxSlip
  BY DriverAssumption DEF IsrInv
<1>1. start' <=> Axi!WrEn /\ pc = "start_wr"
  BY RegisterStep
<1>2. done => completed /\ pc = "poll" /\ state = "IDLE" /\ ~start
  BY DEF Transfer, PhaseInv, Resting
<1>3. /\ slipped' \in 0 .. MaxSlip
      /\ irq' # "pending" => slipped' = 0
  BY <1>0 DEF DriverClock, Issue, Wait, OnBus, IssueIsr, IrqEdge, IsrInv, FirmwareTypes
<1>4. ASSUME irq # "no" PROVE completed' /\ Resting'
  <2>1. completed /\ Resting
    BY <1>4 DEF IsrInv
  <2>2. ~start'
    <3>1. SUFFICES ASSUME Axi!WrEn, pc = "start_wr" PROVE FALSE
      BY <1>1
    <3>2. issued /\ irq = "pending"
      BY <1>4, <3>1, BusStep DEF FirmwareTypes
    <3>3. slipped >= 3
      BY <3>1, <3>2 DEF IsrInv, Begun
    <3>. QED
      BY <1>0, <3>3
  <2>. QED
    BY <2>1, <2>2, TransferMoves DEF Resting
<1>5. ASSUME irq = "no", irq' # "no" PROVE irq' = "pending" /\ done
  BY <1>5 DEF DriverClock, IssueIsr, IrqEdge, intr
<1>6. ASSUME irq = "no", irq' # "no" PROVE completed' /\ Resting' /\ pc' = "poll"
  <2>1. done /\ completed /\ pc = "poll" /\ state = "IDLE" /\ ~start
    BY <1>2, <1>5, <1>6
  <2>2. completed' /\ Resting'
    BY <1>1, <2>1, TransferMoves DEF Resting
  <2>3. pc' = "poll"
    <3>1. CASE Wrote \/ Got
      <4>1. Got
        BY <2>1, <3>1, ProgramStep, Accesses
      <4>2. axi_rdata.word.busy
        BY <2>1, <4>1 DEF PhaseInv, Resting
      <4>. QED
        BY <2>1, <3>1, <4>2, ProgramStep DEF Complete, Then
    <3>2. CASE ~(Wrote \/ Got)
      BY <2>1, <3>2, ProgramStep DEF program
    <3>. QED
      BY <3>1, <3>2
  <2>. QED
    BY <2>2, <2>3
<1>7. irq' # "no" => completed' /\ Resting'
  BY <1>4, <1>6
<1>8. ASSUME irq' = "pending" PROVE slipped' >= Begun'
  <2>1. CASE irq # "pending"
    <3>1. irq = "no"
      BY <1>8, <2>1 DEF DriverClock, IrqEdge, FirmwareTypes
    <3>. QED
      BY <1>0, <1>3, <1>6, <1>8, <3>1 DEF Begun
  <2>2. CASE irq = "pending"
    <3>1. slipped >= Begun
      BY <2>2 DEF IsrInv
    <3>2. CASE Issue
      <4>1. slipped' = slipped + 1 /\ pc' = pc /\ ~issued
        BY <2>2, <3>2 DEF Issue
      <4>. QED
        BY <1>0, <3>1, <4>1 DEF Begun
    <3>3. CASE Wait \/ (OnBus /\ ~Axi!Responded)
      <4>1. slipped' = slipped /\ pc' = pc /\ issued' = issued
        BY <3>3 DEF Wait, OnBus, firmware
      <4>. QED
        BY <3>1, <4>1 DEF Begun
    <3>4. CASE OnBus /\ Axi!Responded
      <4>1. slipped' = slipped /\ issued /\ ~issued' /\ pc' = Then(axi_rdata)
        BY <2>2, <3>4 DEF OnBus, Complete
      <4>2. slipped <= 2
        BY <1>0
      <4>3. CASE pc = "poll"
        <5>1. pc' \in {"poll", "tx", "rx", "desel_rd"}
          BY <4>1, <4>3 DEF Then
        <5>. QED
          BY <1>0, <4>1, <5>1 DEF Begun
      <4>4. CASE pc \in {"tx", "rx", "desel_rd"}
        <5>1. slipped >= 1
          BY <3>1, <4>1, <4>4 DEF Begun
        <5>2. pc' \in {"start_rd", "desel_rd", "desel_wr"}
          BY <4>1, <4>4 DEF Then
        <5>. QED
          BY <1>0, <4>1, <5>1, <5>2 DEF Begun
      <4>5. CASE pc \in {"start_rd", "desel_wr"}
        <5>1. slipped >= 2
          BY <3>1, <4>1, <4>5 DEF Begun
        <5>2. Begun' <= 2
          BY <4>1 DEF Begun
        <5>. QED
          BY <1>0, <4>1, <5>1, <5>2 DEF Begun
      <4>6. CASE pc \notin {"poll", "tx", "rx", "desel_rd", "start_rd", "desel_wr"}
        <5>1. slipped >= 3
          BY <3>1, <4>1, <4>6 DEF Begun
        <5>. QED
          BY <1>0, <4>2, <5>1
      <4>. QED
        BY <4>3, <4>4, <4>5, <4>6
    <3>. QED
      BY <1>8, <3>2, <3>3, <3>4 DEF DriverClock, OnBus
  <2>. QED
    BY <2>1, <2>2
<1>9. ASSUME irq' = "in", axi_rvalid' PROVE axi_rdata'.word = answer'
  <2>1. Axi!RdEn /\ issued /\ axi_rdata' = reg_data_out
    BY <1>9, BusStep
  <2>2. irq = "in"
    BY <1>9, <2>1 DEF DriverClock, IssueIsr, IrqEdge, FirmwareTypes
  <2>3. axi_araddr = RXDATA
    BY <2>1, <2>2, BusStep
  <2>4. axi_rdata'.word = rx_reg
    BY <2>1, <2>3 DEF reg_data_out, ByteWord, CTRL, TXDATA, STATUS, RXDATA
  <2>5. completed /\ Resting
    BY <2>2 DEF IsrInv
  <2>6. answer' = answer
    BY <2>5, TransferMoves DEF Resting
  <2>. QED
    BY <2>4, <2>5, <2>6, AnswerLatched
<1>. QED
  BY <1>3, <1>7, <1>8, <1>9 DEF IsrInv

\* A read in progress is answered by its data.
LEMMA ReadsAnswered ==
  ASSUME BusInv, issued, irq # "in", pc \in {"poll", "rx"} PROVE ~axi_bvalid
  BY Accesses DEF BusInv, Current, Bus!Carries, Bus!WriteFree

-----------------------------------------------------------------------------
\* The whole invariant.

DriverInv ==
  /\ FirmwareTypes /\ BusInv /\ CtrlInv /\ PhaseInv
  /\ SpiTypes /\ Transfer /\ OnTheWire

LEMMA DriverInvInit == DriverInit => DriverInv /\ IsrInv
<1> SUFFICES ASSUME DriverInit PROVE DriverInv /\ IsrInv
  OBVIOUS
<1>1. SpiTypes /\ Transfer /\ OnTheWire
  BY TypesInit, TransferStart DEF DriverInit, Init, AtReset, OnTheWire
<1>2. /\ state = "IDLE" /\ ~start /\ ~done /\ ctrl = ResetCtrl /\ cfg_r = ResetCtrl
      /\ pc = "init" /\ ~issued /\ idx = 1 /\ tmp = ResetCtrl /\ irq = "no" /\ slipped = 0
      /\ msg = [i \in 1 .. 3 |-> ZeroByte] /\ issued \in BOOLEAN
  BY DEF DriverInit, Init, AtReset
<1>3. FirmwareTypes
  BY <1>2, ResetTypes DEF FirmwareTypes, Places
<1>4. BusInv
  <2>1. Bus!AxiInit
    BY SameBus DEF DriverInit
  <2>. QED
    BY <1>2, <2>1, Bus!ResetFree DEF BusInv
<1>5. CtrlInv
  <2>1. ResetCtrl \in Settings
    BY DEF Settings, Setting, ResetCtrl
  <2>. QED
    BY <1>2, <2>1, SettingFacts DEF CtrlInv, ReadsCtrl
<1>6. PhaseInv
  BY <1>2 DEF PhaseInv, Resting
<1>7. IsrInv
  BY <1>2, DriverAssumption DEF IsrInv
<1>. QED
  BY <1>1, <1>3, <1>4, <1>5, <1>6, <1>7 DEF DriverInv

LEMMA DriverInvStep == DriverInv /\ [DriverClock]_driverVars => DriverInv'
<1> SUFFICES ASSUME DriverInv, [DriverClock]_driverVars PROVE DriverInv'
  OBVIOUS
<1>1. CASE DriverClock
  BY <1>1, BusStep, FirmwareTypesStep, CtrlStep, PhaseStep, CoreStep DEF DriverInv
<1>2. CASE UNCHANGED driverVars
  <2> USE <1>2 DEF DriverInv, driverVars, vars, registers, pins, core, target, history,
                   manager, subordinate, firmware, interrupt
  <2>1. FirmwareTypes' /\ CtrlInv' /\ PhaseInv'
    BY DEF FirmwareTypes, CtrlInv, PhaseInv, Resting, Wrote, Got, ReadsCtrl
  <2>2. SpiTypes' /\ Transfer' /\ OnTheWire'
    BY DEF SpiTypes, RegisterTypes, CoreTypes, TargetTypes, Transfer, OnTheWire, StartWire,
           DataWire, Exchanged, Left, Filled, ShiftedOut, Samples, is_leading
  <2>3. BusInv'
    <3>1. Current' = Current
      BY DEF Current, Access, Axi!WriteOf, Axi!ReadOf, CtrlWord, ByteWord
    <3>2. Bus!Free => Bus!Free'
      BY DEF Bus!Free, Bus!WriteFree, Bus!ReadFree
    <3>3. Bus!Carries(Current) => Bus!Carries(Current)'
      BY <3>1 DEF Bus!Carries, Bus!WriteFree, Bus!ReadFree, Bus!WriteOffered, Bus!WriteAccepted,
                  Bus!WriteAnswered, Bus!ReadOffered, Bus!ReadAccepted, Bus!ReadAnswered
    <3>. QED
      BY <3>2, <3>3 DEF BusInv
  <2>. QED
    BY <2>1, <2>2, <2>3
<1>. QED
  BY <1>1, <1>2

THEOREM DriverInvariant == DriverSpec => []DriverInv
<1>1. DriverInit => DriverInv
  BY DriverInvInit
<1>. QED
  BY <1>1, DriverInvStep, PTL DEF DriverSpec

\* No start is given to a controller that is not idle, whatever the time the
\* CPU lets pass between two accesses, interrupts included.
THEOREM EveryStartIsTaken == DriverSpec => []NoStartLost
<1>1. DriverInv => NoStartLost
  BY DEF DriverInv, PhaseInv, Resting, NoStartLost
<1>. QED
  BY <1>1, DriverInvariant, PTL

\* A poll that reads busy = 0 means that the transfer of the byte just given
\* has run to its end.
THEOREM PollsAreTrue == DriverSpec => []PollMeansDone
<1>1. DriverInv => PollMeansDone
  <2> SUFFICES ASSUME DriverInv, Finishes("poll"), ~axi_rdata.word.busy
               PROVE  completed /\ sent = msg[idx]
    BY DEF PollMeansDone
  <2>1. pc = "poll" /\ Got
    BY ReadsAnswered DEF DriverInv, Finishes, Axi!Responded, Got
  <2>. QED
    BY <2>1 DEF DriverInv, PhaseInv, Resting
<1>. QED
  BY <1>1, DriverInvariant, PTL

\* The byte SPI_RAM_Read returns is the target's answer to the third byte.
THEOREM ReadsReturnAnswer == DriverSpec => []ReadReturnsAnswer
<1>1. DriverInv => ReadReturnsAnswer
  <2> SUFFICES ASSUME DriverInv, Finishes("rx") PROVE axi_rdata.word = answer
    BY DEF ReadReturnsAnswer
  <2>1. pc = "rx" /\ Got
    BY ReadsAnswered DEF DriverInv, Finishes, Axi!Responded, Got
  <2>. QED
    BY <2>1 DEF DriverInv, PhaseInv
<1>. QED
  BY <1>1, DriverInvariant, PTL

\* SPI_ISR reads the byte of the transfer whose end raised the interrupt, if
\* main begins at most two accesses while it is pending.
THEOREM IsrReadsItsTransfer ==
  ASSUME MaxSlip <= 2 PROVE DriverSpec => []IsrReadsItsByte
<1>1. DriverInit => IsrInv
  BY DriverInvInit
<1>2. DriverInv /\ IsrInv /\ [DriverClock]_driverVars => IsrInv'
  <2> SUFFICES ASSUME DriverInv, IsrInv, [DriverClock]_driverVars PROVE IsrInv'
    OBVIOUS
  <2>1. CASE DriverClock
    BY <2>1, IsrStep DEF DriverInv
  <2>2. CASE UNCHANGED driverVars
    BY <2>2 DEF IsrInv, Begun, Resting, driverVars, vars, registers, pins, core, history,
                subordinate, firmware, interrupt
  <2>. QED
    BY <2>1, <2>2
<1>3. DriverInv /\ IsrInv => IsrReadsItsByte
  <2> SUFFICES ASSUME DriverInv, IsrInv, irq = "in", issued, Axi!Responded
               PROVE  completed /\ axi_rdata.word = answer
    BY DEF IsrReadsItsByte
  <2>1. axi_rvalid
    BY DEF DriverInv, BusInv, Current, Axi!ReadOf, Bus!Carries, Bus!WriteFree, Axi!Responded
  <2>. QED
    BY <2>1 DEF IsrInv
<1>. QED
  BY <1>1, <1>2, <1>3, DriverInvariant, PTL DEF DriverSpec

=============================================================================
