--------------------------- MODULE SpiController ---------------------------
(***************************************************************************)
(* The SPI peripheral, clock edge by clock edge: the master of             *)
(* spi_controller.sv, the register block of spi_v1_0_S00_AXI.v and, on     *)
(* chip select Target, the target of tb/spi_uvm/rtl_spi_target_model.sv.   *)
(*                                                                         *)
(* A byte is a sequence of NBits bits, most significant first.  A register *)
(* write is one strobe of the AXI handshake, at most one per clock edge,   *)
(* at any time, transfers in progress included.  The target is set to the  *)
(* mode of the transfer, as the testbench does.                            *)
(***************************************************************************)
EXTENDS Integers, Sequences

CONSTANTS
  NBits,      \* bits of a byte (eight in the hardware)
  Configs,    \* the CTRL settings written: records in Config
  Target,     \* the chip select the target is wired to
  None        \* no chip select is low

Bit  == {0, 1}
Byte == [1 .. NBits -> Bit]

\* CTRL (slv_reg0) without its start bit, which is not stored.
Config == [done_ie : BOOLEAN, cpol : Bit, cpha : Bit, cs_sel : 0 .. 3, clk_div : Nat]

ASSUME SpiAssumption ==
  /\ NBits \in Nat \ {0}
  /\ Configs \subseteq Config
  /\ Target \in 0 .. 3
  /\ None \notin 0 .. 3

VARIABLES
  \* the register block
  ctrl, tx_data, rx_reg, start,
  \* spi_controller
  state, div_cnt, half_tick,
  cfg_r,                    \* cpol_r, cpha_r, clk_div_r, cs_sel_r
  tx_shift_reg, rx_shift_reg, sample_cnt,
  busy, done, rx_data,
  sclk, sdo, cs,            \* pins; cs is the chip select that is low
  \* the target
  shift_tx, shift_rx, sdo_t,
  \* history of the current or last transfer
  sent,                     \* the byte the master was given
  answer,                   \* the byte the target was given
  completed,                \* it ran to its end
  sclk_age                  \* clocks since SCLK last changed under this CS

registers == << ctrl, tx_data, rx_reg, start >>
pins      == << sclk, sdo, cs >>
core      == << state, div_cnt, half_tick, cfg_r, tx_shift_reg, rx_shift_reg,
                sample_cnt, busy, done, rx_data >>
target    == << shift_tx, shift_rx, sdo_t >>
history   == << sent, answer, completed, sclk_age >>
vars      == << registers, pins, core, target, history >>

ZeroByte   == [i \in 1 .. NBits |-> 0]
ResetCtrl  == [done_ie |-> FALSE, cpol |-> 0, cpha |-> 0, cs_sel |-> 0, clk_div |-> 0]

\* {shift[6:0], b}
ShiftIn(shift, b) == Append(Tail(shift), b)

intr == ctrl.done_ie /\ done

\* Reset values of the register block and of spi_controller.
AtReset(c, td, rr, st, s, dc, ht, cr, ts, rs, sc, bu, do, rd, sk, so, sel) ==
  /\ c = ResetCtrl /\ td = ZeroByte /\ rr = ZeroByte /\ st = FALSE
  /\ s = "IDLE" /\ dc = 0 /\ ht = FALSE /\ cr = ResetCtrl
  /\ ts = ZeroByte /\ rs = ZeroByte /\ sc = 0
  /\ bu = FALSE /\ do = FALSE /\ rd = ZeroByte
  /\ sk = 0 /\ so = 1 /\ sel = None

Init ==
  /\ AtReset(ctrl, tx_data, rx_reg, start, state, div_cnt, half_tick, cfg_r,
             tx_shift_reg, rx_shift_reg, sample_cnt, busy, done, rx_data,
             sclk, sdo, cs)
  /\ shift_tx = ZeroByte /\ shift_rx = ZeroByte /\ sdo_t = 1
  /\ sent = ZeroByte /\ answer = ZeroByte /\ completed = FALSE /\ sclk_age = 0

-----------------------------------------------------------------------------
\* The register block at a clock edge.

WriteCtrl ==
  /\ ctrl' \in Configs
  /\ start' \in BOOLEAN
  /\ UNCHANGED tx_data

WriteTxData ==
  /\ tx_data' \in Byte
  /\ start' = FALSE
  /\ UNCHANGED ctrl

NoWrite ==
  /\ start' = FALSE
  /\ UNCHANGED << ctrl, tx_data >>

\* Fault: RX DATA is latched at the start of a transfer.
RxRegEdgeAtStart == rx_reg' = IF start THEN rx_data ELSE rx_reg

RxRegEdge == rx_reg' = IF done THEN rx_data ELSE rx_reg

-----------------------------------------------------------------------------
\* spi_controller at a clock edge.

\* Fault: the divider of the register instead of the latched one.
DivEdgeLive ==
  LET match == state = "DATA" /\ div_cnt >= ctrl.clk_div
  IN  /\ half_tick' = match
      /\ div_cnt' = IF state = "DATA" /\ ~match THEN div_cnt + 1 ELSE 0

DivEdge ==
  LET match == state = "DATA" /\ div_cnt = cfg_r.clk_div
  IN  /\ half_tick' = match
      /\ div_cnt' = IF state = "DATA" /\ ~match THEN div_cnt + 1 ELSE 0

is_leading == sclk = cfg_r.cpol

\* Fault: CPHA is ignored.
SamplesLeading == is_leading

\* The edge about to be made on SCLK samples SDI (else it shifts SDO out).
Samples == is_leading = (cfg_r.cpha = 0)

ShiftOut ==
  /\ sdo' = Head(tx_shift_reg)
  /\ tx_shift_reg' = ShiftIn(tx_shift_reg, 0)

\* Fault: busy is not raised with the chip select.
IdleEdgeNotBusy ==
  /\ state = "IDLE"
  /\ done' = FALSE /\ sdo' = 1 /\ sclk' = ctrl.cpol
  /\ IF start
     THEN /\ state' = "START"
          /\ cfg_r' = ctrl /\ tx_shift_reg' = tx_data /\ sample_cnt' = 0
          /\ cs' = ctrl.cs_sel
     ELSE /\ cs' = None
          /\ UNCHANGED << state, cfg_r, tx_shift_reg, sample_cnt >>
  /\ UNCHANGED << busy, rx_shift_reg, rx_data >>

IdleEdge ==
  /\ state = "IDLE"
  /\ done' = FALSE /\ sdo' = 1 /\ sclk' = ctrl.cpol
  /\ IF start
     THEN /\ state' = "START" /\ busy' = TRUE
          /\ cfg_r' = ctrl /\ tx_shift_reg' = tx_data /\ sample_cnt' = 0
          /\ cs' = ctrl.cs_sel
     ELSE /\ cs' = None
          /\ UNCHANGED << state, busy, cfg_r, tx_shift_reg, sample_cnt >>
  /\ UNCHANGED << rx_shift_reg, rx_data >>

StartEdge ==
  /\ state = "START"
  /\ done' = FALSE /\ state' = "DATA"
  /\ IF cfg_r.cpha = 0 THEN ShiftOut ELSE UNCHANGED << sdo, tx_shift_reg >>
  /\ UNCHANGED << cfg_r, rx_shift_reg, sample_cnt, busy, rx_data, sclk, cs >>

DataWait ==
  /\ state = "DATA" /\ ~half_tick
  /\ done' = FALSE
  /\ UNCHANGED << state, cfg_r, tx_shift_reg, rx_shift_reg, sample_cnt, busy,
                  rx_data, pins >>

DataShift ==
  /\ state = "DATA" /\ half_tick /\ ~Samples
  /\ done' = FALSE /\ sclk' = 1 - sclk
  /\ ShiftOut
  /\ UNCHANGED << state, cfg_r, rx_shift_reg, sample_cnt, busy, rx_data, cs >>

\* Fault: busy dropped with the last bit.
DataSampleFreesEarly(sdi) ==
  /\ state = "DATA" /\ half_tick /\ Samples
  /\ done' = FALSE /\ sclk' = 1 - sclk
  /\ rx_shift_reg' = ShiftIn(rx_shift_reg, sdi)
  /\ sample_cnt' = sample_cnt + 1
  /\ busy' = (sample_cnt < NBits - 1)
  /\ IF sample_cnt = NBits - 1
     THEN state' = "STOP" /\ rx_data' = ShiftIn(rx_shift_reg, sdi)
     ELSE UNCHANGED << state, rx_data >>
  /\ UNCHANGED << cfg_r, tx_shift_reg, sdo, cs >>

DataSample(sdi) ==
  /\ state = "DATA" /\ half_tick /\ Samples
  /\ done' = FALSE /\ sclk' = 1 - sclk
  /\ rx_shift_reg' = ShiftIn(rx_shift_reg, sdi)
  /\ sample_cnt' = sample_cnt + 1
  /\ IF sample_cnt = NBits - 1
     THEN state' = "STOP" /\ rx_data' = ShiftIn(rx_shift_reg, sdi)
     ELSE UNCHANGED << state, rx_data >>
  /\ UNCHANGED << cfg_r, tx_shift_reg, busy, sdo, cs >>

\* Fault: busy is not dropped at the end.
StopEdgeStaysBusy ==
  /\ state = "STOP"
  /\ done' = TRUE /\ state' = "IDLE"
  /\ cs' = None /\ sclk' = cfg_r.cpol /\ sdo' = 1 /\ sample_cnt' = 0
  /\ UNCHANGED << busy, cfg_r, tx_shift_reg, rx_shift_reg, rx_data >>

StopEdge ==
  /\ state = "STOP"
  /\ done' = TRUE /\ busy' = FALSE /\ state' = "IDLE"
  /\ cs' = None /\ sclk' = cfg_r.cpol /\ sdo' = 1 /\ sample_cnt' = 0
  /\ UNCHANGED << cfg_r, tx_shift_reg, rx_shift_reg, rx_data >>

\* SDI is the target's output while it is selected, and floats otherwise.
SdiValues == IF cs = Target THEN {sdo_t} ELSE Bit

CoreEdge ==
  /\ DivEdge
  /\ \/ IdleEdge \/ StartEdge \/ DataWait \/ DataShift \/ StopEdge
     \/ \E sdi \in SdiValues : DataSample(sdi)

-----------------------------------------------------------------------------
\* The target at a change of its chip select or of SCLK.

TargetSelected ==
  /\ shift_rx' = ZeroByte
  /\ IF cfg_r'.cpha = 0
     THEN sdo_t' = Head(answer') /\ shift_tx' = ShiftIn(answer', 0)
     ELSE sdo_t' = 0 /\ shift_tx' = answer'

TargetClocked ==
  LET leading == sclk' # cfg_r.cpol
  IN  IF leading = (cfg_r.cpha = 0)
      THEN shift_rx' = ShiftIn(shift_rx, sdo') /\ UNCHANGED << shift_tx, sdo_t >>
      ELSE /\ sdo_t' = Head(shift_tx) /\ shift_tx' = ShiftIn(shift_tx, 0)
           /\ UNCHANGED shift_rx

TargetEdge ==
  IF cs # Target /\ cs' = Target THEN TargetSelected
  ELSE IF cs' = Target /\ sclk' # sclk THEN TargetClocked
  ELSE UNCHANGED target

HistoryEdge ==
  LET begins == state = "IDLE" /\ start
  IN  /\ sent' = IF begins THEN tx_data ELSE sent
      /\ IF ~begins THEN UNCHANGED answer
         ELSE IF ctrl.cs_sel = Target THEN answer' \in Byte
         ELSE answer' = ZeroByte
      /\ completed' = IF begins THEN FALSE ELSE (completed \/ state = "STOP")
      /\ sclk_age' = IF cs' = None \/ cs = None \/ sclk' # sclk THEN 0
                     ELSE sclk_age + 1

-----------------------------------------------------------------------------

Clock ==
  /\ WriteCtrl \/ WriteTxData \/ NoWrite
  /\ RxRegEdge
  /\ CoreEdge
  /\ HistoryEdge
  /\ TargetEdge

\* A reset raises the chip selects; the target keeps its shift registers.
Reset ==
  /\ AtReset(ctrl', tx_data', rx_reg', start', state', div_cnt', half_tick', cfg_r',
             tx_shift_reg', rx_shift_reg', sample_cnt', busy', done', rx_data',
             sclk', sdo', cs')
  /\ UNCHANGED target
  /\ sent' = ZeroByte /\ answer' = ZeroByte /\ completed' = FALSE /\ sclk_age' = 0

Next == Clock \/ Reset

\* The clock runs, and the handshake leaves edges without a write strobe
\* between two writes.
Spec == Init /\ [][Next]_vars /\ WF_vars(Clock /\ NoWrite)

-----------------------------------------------------------------------------
\* A completed transfer has exchanged the two bytes, in all four modes,
\* whatever was written to CTRL and TX DATA meanwhile: the target holds the
\* byte in TX DATA when the transfer started, RX DATA (one clock after done)
\* the byte of the target.
ByteExchanged ==
  completed /\ cfg_r.cs_sel = Target =>
    /\ shift_rx = sent
    /\ rx_data = answer
    /\ done \/ rx_reg = answer

\* busy covers the transfer from chip select to the last bit: software that
\* reads busy = 0 finds the bus released and the transfer complete.
BusyCoversTransfer ==
  /\ busy = (cs # None)
  /\ busy = (state # "IDLE")
  /\ done => completed /\ ~busy

\* SCLK = clk / (2*(clk_div+1)): under a chip select every level of SCLK is
\* held for clk_div+1 clocks (the first, which includes START, for two more).
PhaseLength == cfg_r.clk_div + (IF is_leading /\ sample_cnt = 0 THEN 3 ELSE 1)

SclkPhases ==
  [][~Reset /\ cs # None /\ cs' # None /\ sclk' # sclk
       => sclk_age + 1 = PhaseLength]_vars

\* Every transfer ends, whatever the divider and the mode: a driver that
\* polls busy (SPI_RAM.c) is not caught for ever.
TransferEnds == busy ~> ~busy

=============================================================================
