--------------------------- MODULE IicController ---------------------------
(***************************************************************************)
(* The IIC peripheral, clock edge by clock edge: the controller of         *)
(* iic_controller.sv, the open-drain bus, the register block of            *)
(* iic_v1_0_S00_AXI.v and the target of tb/iic_uvm/rtl_iic_target_model.sv.*)
(*                                                                         *)
(* A byte is a sequence of NBits bits, most significant first; an address  *)
(* byte is an address of NBits - 1 bits and the direction.  The three      *)
(* shift registers of the target, used one after the other, are one.       *)
(***************************************************************************)
EXTENDS Integers, Sequences

CONSTANTS
  NBits,          \* bits of a byte (eight in the hardware)
  CLK_DIV_INIT,   \* clocks per quarter bit when clk_div is 0 (250 in the hardware)
  OwnAddr         \* the address the target answers to

Bit     == {0, 1}
Byte    == [1 .. NBits -> Bit]
Address == [1 .. NBits - 1 -> Bit]

ASSUME IicAssumption ==
  /\ NBits \in Nat \ {0, 1}
  /\ CLK_DIV_INIT \in Nat \ {0}
  /\ OwnAddr \in Address

VARIABLES
  \* the register block; start is the pulse of a CTRL write
  ctrl, config, status, tx_data, start,
  \* iic_controller
  state, byte_phase, clk_div_r, div_cnt, qtr_tick, step, bit_cnt,
  tx_shift_reg, rx_shift_reg, rw_r, ack_in_r, ack_seen, rx_data, busy, done,
  scl_drive_low, sda_drive_low,
  \* the target; t_scl and t_sda are << meta, sync, prev >>
  t_state, t_scl, t_sda, t_shift, t_cnt, t_rw, t_ack_active, t_drive_low,
  t_rx_data, t_rx_valid,
  \* history of the current or last transfer
  asked,          \* address and direction
  sent,           \* the byte the controller was given to write
  answer,         \* the byte the target was given to be read
  ack_data        \* the target acknowledges a byte written

registers  == << ctrl, config, status, tx_data, start >>
bus_driven == << scl_drive_low, sda_drive_low >>
shifts     == << tx_shift_reg, rx_shift_reg >>
latched    == << clk_div_r, rw_r, ack_in_r >>
controller == << state, byte_phase, latched, div_cnt, qtr_tick, step, bit_cnt,
                 shifts, ack_seen, rx_data, busy, done, bus_driven >>
target     == << t_state, t_scl, t_sda, t_shift, t_cnt, t_rw, t_ack_active,
                 t_drive_low, t_rx_data, t_rx_valid >>
history    == << asked, sent, answer, ack_data >>
iicVars    == << registers, controller, target, history >>

ZeroByte == [i \in 1 .. NBits |-> 0]
Ones     == [i \in 1 .. NBits |-> 1]

\* CTRL without its pulses, CONFIG and STATUS after reset.
ResetCtrl   == [rw |-> FALSE, ack_in |-> 1, intr_en |-> FALSE]
ResetConfig == [addr |-> [i \in 1 .. NBits - 1 |-> 0], clk_div |-> CLK_DIV_INIT]
ResetStatus == [busy |-> FALSE, done |-> FALSE, ack_seen |-> FALSE, rx |-> ZeroByte]

\* {shift[6:0], b}
ShiftIn(shift, b) == Append(Tail(shift), b)

\* The bus: pulled up, low when somebody drives it low.
scl == IF scl_drive_low THEN 0 ELSE 1
sda == IF sda_drive_low \/ t_drive_low THEN 0 ELSE 1

intr == ctrl.intr_en /\ status.done

-----------------------------------------------------------------------------
\* iic_controller at a clock edge.

Divider == IF config.clk_div = 0 THEN CLK_DIV_INIT ELSE config.clk_div

DivEdge ==
  LET match == div_cnt = clk_div_r - 1
  IN  IF state \in {"IDLE", "DONE"}
      THEN qtr_tick' = FALSE /\ div_cnt' = 0
      ELSE qtr_tick' = match /\ div_cnt' = IF match THEN 0 ELSE div_cnt + 1

Idle ==
  /\ state = "IDLE"
  /\ busy' = start /\ done' = FALSE
  /\ scl_drive_low' = FALSE /\ sda_drive_low' = FALSE
  /\ step' = 0 /\ bit_cnt' = 0
  /\ IF start
     THEN /\ state' = "GEN_START" /\ byte_phase' = "ADDR"
          /\ ack_seen' = FALSE
          /\ clk_div_r' = Divider /\ rw_r' = ctrl.rw /\ ack_in_r' = ctrl.ack_in
          /\ tx_shift_reg' = Append(config.addr, IF ctrl.rw THEN 1 ELSE 0)
          /\ rx_shift_reg' = ZeroByte
     ELSE UNCHANGED << state, byte_phase, ack_seen, latched, shifts >>
  /\ UNCHANGED rx_data

Done ==
  /\ state = "DONE"
  /\ state' = "IDLE" /\ busy' = FALSE /\ done' = TRUE
  /\ scl_drive_low' = FALSE /\ sda_drive_low' = FALSE
  /\ UNCHANGED << byte_phase, latched, step, bit_cnt, shifts, ack_seen, rx_data >>

GenStart ==
  /\ state = "GEN_START"
  /\ scl_drive_low' = (step = 2) /\ sda_drive_low' = (step # 0)
  /\ IF step = 2 THEN step' = 0 /\ state' = "TX_BYTE"
     ELSE step' = step + 1 /\ UNCHANGED state
  /\ UNCHANGED << byte_phase, bit_cnt, shifts, ack_seen, rx_data >>

GenStop ==
  /\ state = "GEN_STOP"
  /\ scl_drive_low' = (step = 0) /\ sda_drive_low' = (step # 2)
  /\ IF step = 2 THEN step' = 0 /\ state' = "DONE"
     ELSE step' = step + 1 /\ UNCHANGED state
  /\ UNCHANGED << byte_phase, bit_cnt, shifts, ack_seen, rx_data >>

\* The four quarters of a bit: SDA is set in the first, SCL is high from the
\* second, SDA is sampled in the third, SCL falls in the fourth.
BitClock ==
  /\ step' = (step + 1) % 4
  /\ scl_drive_low' = IF step = 2 THEN scl_drive_low ELSE step # 1

\* The fourth quarter of a bit of a byte.
NextBit(after) ==
  IF bit_cnt = NBits - 1 THEN bit_cnt' = 0 /\ state' = after
  ELSE bit_cnt' = bit_cnt + 1 /\ UNCHANGED state

TxByte ==
  /\ state = "TX_BYTE" /\ BitClock
  /\ sda_drive_low' = IF step = 0 THEN Head(tx_shift_reg) = 0 ELSE sda_drive_low
  /\ IF step = 3
     THEN NextBit("WAIT_ACK") /\ tx_shift_reg' = ShiftIn(tx_shift_reg, 0)
     ELSE UNCHANGED << state, bit_cnt, tx_shift_reg >>
  /\ UNCHANGED << byte_phase, rx_shift_reg, ack_seen, rx_data >>

\* The byte to write is taken from DATA as it is after the address.
AfterAck ==
  IF byte_phase = "ADDR" /\ ~rw_r
  THEN state' = "TX_BYTE" /\ byte_phase' = "DATA" /\ tx_shift_reg' = tx_data
  ELSE /\ state' = IF byte_phase = "ADDR" THEN "RX_BYTE" ELSE "GEN_STOP"
       /\ UNCHANGED << byte_phase, tx_shift_reg >>

WaitAck ==
  /\ state = "WAIT_ACK" /\ BitClock
  /\ sda_drive_low' = (step # 0 /\ sda_drive_low)
  /\ ack_seen' = IF step = 2 THEN sda = 0 ELSE ack_seen
  /\ IF step = 3 THEN AfterAck ELSE UNCHANGED << state, byte_phase, tx_shift_reg >>
  /\ UNCHANGED << bit_cnt, rx_shift_reg, rx_data >>

\* Fault: SDA is sampled at the edge at which SCL rises.
RxByteEarly ==
  /\ state = "RX_BYTE" /\ BitClock
  /\ sda_drive_low' = (step # 0 /\ sda_drive_low)
  /\ rx_shift_reg' = IF step = 0 THEN ShiftIn(rx_shift_reg, sda) ELSE rx_shift_reg
  /\ IF step = 3
     THEN /\ NextBit("SEND_ACK")
          /\ rx_data' = IF bit_cnt = NBits - 1 THEN rx_shift_reg ELSE rx_data
     ELSE UNCHANGED << state, bit_cnt, rx_data >>
  /\ UNCHANGED << byte_phase, tx_shift_reg, ack_seen >>

RxByte ==
  /\ state = "RX_BYTE" /\ BitClock
  /\ sda_drive_low' = (step # 0 /\ sda_drive_low)
  /\ rx_shift_reg' = IF step = 2 THEN ShiftIn(rx_shift_reg, sda) ELSE rx_shift_reg
  /\ IF step = 3
     THEN /\ NextBit("SEND_ACK")
          /\ rx_data' = IF bit_cnt = NBits - 1 THEN rx_shift_reg ELSE rx_data
     ELSE UNCHANGED << state, bit_cnt, rx_data >>
  /\ UNCHANGED << byte_phase, tx_shift_reg, ack_seen >>

\* Fault: the acknowledge is taken back in the third quarter.
SendAckShort ==
  /\ state = "SEND_ACK" /\ BitClock
  /\ sda_drive_low' = CASE step = 0 -> ack_in_r = 0
                        [] step = 2 -> FALSE
                        [] OTHER    -> sda_drive_low
  /\ state' = IF step = 3 THEN "GEN_STOP" ELSE state
  /\ UNCHANGED << byte_phase, bit_cnt, shifts, ack_seen, rx_data >>

SendAck ==
  /\ state = "SEND_ACK" /\ BitClock
  /\ sda_drive_low' = CASE step = 0 -> ack_in_r = 0
                        [] step = 3 -> FALSE
                        [] OTHER    -> sda_drive_low
  /\ state' = IF step = 3 THEN "GEN_STOP" ELSE state
  /\ UNCHANGED << byte_phase, bit_cnt, shifts, ack_seen, rx_data >>

Transferring ==
  /\ UNCHANGED << latched, busy >> /\ done' = FALSE
  /\ IF qtr_tick
     THEN GenStart \/ TxByte \/ WaitAck \/ RxByte \/ SendAck \/ GenStop
     ELSE UNCHANGED << state, byte_phase, step, bit_cnt, shifts, ack_seen,
                       rx_data, bus_driven >>

ControllerEdge ==
  /\ DivEdge
  /\ Idle \/ Done \/ (state \notin {"IDLE", "DONE"} /\ Transferring)

-----------------------------------------------------------------------------
\* The target at a clock edge.

scl_rise     == t_scl[3] = 0 /\ t_scl[2] = 1
scl_fall     == t_scl[3] = 1 /\ t_scl[2] = 0
start_detect == t_scl[2] = 1 /\ t_sda[3] = 1 /\ t_sda[2] = 0
stop_detect  == t_scl[2] = 1 /\ t_sda[3] = 0 /\ t_sda[2] = 1

TargetStart ==
  /\ t_state' = "RX_ADDR" /\ t_shift' = ZeroByte /\ t_cnt' = 0
  /\ t_rw' = FALSE /\ t_ack_active' = FALSE /\ t_drive_low' = FALSE
  /\ t_rx_valid' = FALSE
  /\ UNCHANGED t_rx_data

TargetStop ==
  /\ t_state' = "IDLE" /\ t_cnt' = 0
  /\ t_ack_active' = FALSE /\ t_drive_low' = FALSE
  /\ UNCHANGED << t_shift, t_rw, t_rx_data, t_rx_valid >>

\* A rising SCL: a bit of the address or of the data comes in.
TargetSamples ==
  LET byte == ShiftIn(t_shift, t_sda[2])
      last == t_cnt = NBits - 1
  IN  /\ t_state \in {"RX_ADDR", "RX_DATA"}
      /\ t_shift' = byte
      /\ t_cnt' = IF last THEN 0 ELSE t_cnt + 1
      /\ \/ /\ t_state = "RX_ADDR" /\ last
            /\ t_rw' = (byte[NBits] = 1)
            /\ t_state' = IF SubSeq(byte, 1, NBits - 1) = OwnAddr
                          THEN "ADDR_ACK" ELSE "IGNORE"
            /\ UNCHANGED << t_rx_data, t_rx_valid >>
         \/ /\ t_state = "RX_DATA" /\ last
            /\ t_rx_data' = byte /\ t_rx_valid' = TRUE
            /\ t_state' = "DATA_ACK"
            /\ UNCHANGED t_rw
         \/ ~last /\ UNCHANGED << t_state, t_rw, t_rx_data, t_rx_valid >>
      /\ UNCHANGED << t_ack_active, t_drive_low >>

\* A falling SCL: the target lets go of SDA or drives its next bit or its
\* acknowledge.
TargetDrives ==
  /\ \/ /\ t_state \in {"ADDR_ACK", "DATA_ACK"} /\ ~t_ack_active
        /\ t_drive_low' = (t_state = "ADDR_ACK" \/ ack_data)
        /\ t_ack_active' = TRUE
        /\ UNCHANGED << t_state, t_shift, t_cnt >>
     \/ /\ t_state = "ADDR_ACK" /\ t_ack_active
        /\ t_ack_active' = FALSE /\ t_cnt' = 0
        /\ IF t_rw
           THEN /\ t_state' = "TX_DATA" /\ t_shift' = answer
                /\ t_drive_low' = (Head(answer) = 0)
           ELSE /\ t_state' = "RX_DATA" /\ t_shift' = ZeroByte
                /\ t_drive_low' = FALSE
     \/ /\ t_state = "DATA_ACK" /\ t_ack_active
        /\ t_ack_active' = FALSE /\ t_drive_low' = FALSE /\ t_state' = "IGNORE"
        /\ UNCHANGED << t_shift, t_cnt >>
     \/ /\ t_state = "TX_DATA"
        /\ IF t_cnt = NBits - 1
           THEN /\ t_cnt' = 0 /\ t_drive_low' = FALSE /\ t_state' = "WAIT_ACK"
                /\ UNCHANGED t_shift
           ELSE /\ t_cnt' = t_cnt + 1 /\ t_shift' = ShiftIn(t_shift, 0)
                /\ t_drive_low' = (t_shift[2] = 0)
                /\ UNCHANGED t_state
        /\ UNCHANGED t_ack_active
     \/ /\ t_state = "WAIT_ACK" /\ t_state' = "IGNORE"
        /\ UNCHANGED << t_shift, t_cnt, t_ack_active, t_drive_low >>
  /\ UNCHANGED << t_rw, t_rx_data, t_rx_valid >>

TargetQuiet ==
  /\ t_drive_low' = (t_drive_low /\ t_state \notin {"IDLE", "IGNORE"})
  /\ UNCHANGED << t_state, t_shift, t_cnt, t_rw, t_ack_active, t_rx_data, t_rx_valid >>

TargetEdge ==
  /\ t_scl' = << scl, t_scl[1], t_scl[2] >>
  /\ t_sda' = << sda, t_sda[1], t_sda[2] >>
  /\ IF start_detect THEN TargetStart
     ELSE IF stop_detect THEN TargetStop
     ELSE IF scl_rise /\ t_state \in {"RX_ADDR", "RX_DATA"} THEN TargetSamples
     ELSE IF scl_fall /\ t_state \in {"ADDR_ACK", "DATA_ACK", "TX_DATA", "WAIT_ACK"}
     THEN TargetDrives
     ELSE TargetQuiet

-----------------------------------------------------------------------------
\* The register block at a clock edge.

\* Fault: DONE is set when the STOP begins.
StatusEdgeEarly(clear) ==
  status' = [busy |-> busy,
             done |-> ~clear /\ (state = "GEN_STOP" \/ status.done),
             ack_seen |-> ack_seen, rx |-> rx_data]

\* Fault: DONE follows the pulse.
StatusEdgePulse(clear) ==
  status' = [busy |-> busy, done |-> ~clear /\ done,
             ack_seen |-> ack_seen, rx |-> rx_data]

\* clear: CTRL is written with DONE_CLR, which prevails over done.
StatusEdge(clear) ==
  status' = [busy |-> busy, done |-> ~clear /\ (done \/ status.done),
             ack_seen |-> ack_seen, rx |-> rx_data]

Begins == state = "IDLE" /\ start

\* Bytes: those the target may be given to send.
HistoryEdge(Bytes) ==
  /\ sent' = IF state = "WAIT_ACK" /\ state' = "TX_BYTE" THEN tx_data ELSE sent
  /\ IF Begins
     THEN /\ asked' = [addr |-> config.addr, rw |-> ctrl.rw]
          /\ IF ctrl.rw THEN answer' \in Bytes /\ ack_data' = FALSE
                         ELSE answer' = ZeroByte /\ ack_data' \in BOOLEAN
     ELSE UNCHANGED << asked, answer, ack_data >>

-----------------------------------------------------------------------------

\* Reset values of the registers, the controller and the target.
RegistersAtReset(c, g, s, td, st) ==
  /\ c = ResetCtrl /\ g = ResetConfig /\ s = ResetStatus
  /\ td = ZeroByte /\ st = FALSE

ControllerAtReset(s, bp, cd, dc, qt, sp, bc, ts, rs, rw, ai, as, rd, bu, do, cl, dl) ==
  /\ s = "IDLE" /\ bp = "ADDR" /\ cd = CLK_DIV_INIT /\ dc = 0 /\ qt = FALSE
  /\ sp = 0 /\ bc = 0 /\ ts = ZeroByte /\ rs = ZeroByte
  /\ rw = FALSE /\ ai = 1 /\ as = FALSE /\ rd = ZeroByte
  /\ bu = FALSE /\ do = FALSE /\ cl = FALSE /\ dl = FALSE

TargetAtReset(s, cl, da, sh, ct, rw, aa, dl, rd, rv) ==
  /\ s = "IDLE" /\ cl = << 1, 1, 1 >> /\ da = << 1, 1, 1 >>
  /\ sh = ZeroByte /\ ct = 0 /\ rw = FALSE /\ aa = FALSE /\ dl = FALSE
  /\ rd = ZeroByte /\ rv = FALSE

HistoryAtReset(a, b, c, d) ==
  /\ a = [addr |-> ResetConfig.addr, rw |-> FALSE]
  /\ b = ZeroByte /\ c = ZeroByte /\ d = FALSE

IicInit ==
  /\ RegistersAtReset(ctrl, config, status, tx_data, start)
  /\ ControllerAtReset(state, byte_phase, clk_div_r, div_cnt, qtr_tick, step,
                       bit_cnt, tx_shift_reg, rx_shift_reg, rw_r, ack_in_r,
                       ack_seen, rx_data, busy, done, scl_drive_low, sda_drive_low)
  /\ TargetAtReset(t_state, t_scl, t_sda, t_shift, t_cnt, t_rw, t_ack_active,
                   t_drive_low, t_rx_data, t_rx_valid)
  /\ HistoryAtReset(asked, sent, answer, ack_data)

-----------------------------------------------------------------------------
\* When a transfer ends the byte has crossed, to or from the target addressed
\* and no other, and ack_seen is the target's last acknowledge: that of the
\* data when writing, of the address when reading.
ByteTransferred ==
  done =>
    LET present == asked.addr = OwnAddr
    IN  /\ ack_seen = (present /\ (asked.rw \/ ack_data))
        /\ t_rx_valid = (present /\ ~asked.rw)
        /\ t_rx_valid => t_rx_data = sent
        /\ asked.rw => rx_data = IF present THEN answer ELSE Ones

=============================================================================
