----------------------------- MODULE IicProofs -----------------------------
(***************************************************************************)
(* Proofs about the IIC peripheral and its firmware, for every length of a *)
(* byte, every address and every divider the target keeps up with, with    *)
(* calls that give up and resets at any time.                              *)
(*                                                                         *)
(* A quarter bit lasts clk_div_r >= 2 clocks, so each half of SCL at least *)
(* four; the target sees an edge of SCL in the third clock after it.  What *)
(* the target does is therefore settled within the half, and its state is  *)
(* a function of the controller's and of whether the half is three clocks  *)
(* old (FallSeen, RiseSeen).                                               *)
(***************************************************************************)
EXTENDS IicDriver, TLAPS

Bus == INSTANCE AxiLiteProofs WITH
  Lanes <- {"word"}, Bytes <- {ResetWord}, ZeroByte <- ResetWord,
  Accessed <- {}, WriteData <- {}, WriteStrobes <- {}

-----------------------------------------------------------------------------
\* Bytes and addresses.

LEMMA Shifted ==
  ASSUME NEW s \in Byte, NEW b \in Bit
  PROVE  /\ ShiftIn(s, b) \in Byte
         /\ \A i \in 1 .. NBits - 1 : ShiftIn(s, b)[i] = s[i + 1]
         /\ ShiftIn(s, b)[NBits] = b
         /\ Head(s) = s[1] /\ s[1] \in Bit /\ s[2] \in Bit
<1>1. NBits \in Nat /\ NBits >= 2
  BY IicAssumption
<1>2. s \in Seq(Bit) /\ Len(s) = NBits /\ s # << >>
  BY <1>1 DEF Byte
<1>3. /\ Tail(s) \in Seq(Bit) /\ Len(Tail(s)) = NBits - 1
      /\ \A i \in 1 .. NBits - 1 : Tail(s)[i] = s[i + 1]
  BY <1>1, <1>2
<1>4. /\ ShiftIn(s, b) \in Seq(Bit) /\ Len(ShiftIn(s, b)) = NBits
      /\ \A i \in 1 .. NBits - 1 : ShiftIn(s, b)[i] = Tail(s)[i]
      /\ ShiftIn(s, b)[NBits] = b
  BY <1>1, <1>3 DEF ShiftIn
<1>5. ShiftIn(s, b) \in Byte
  BY <1>1, <1>4 DEF Byte
<1>6. Head(s) = s[1] /\ s[1] \in Bit /\ s[2] \in Bit
  BY <1>1, <1>2 DEF Byte
<1>. QED
  BY <1>3, <1>4, <1>5, <1>6

\* Bits shifted in one by one stand at the end, in their order.
LEMMA ShiftedIn ==
  ASSUME NEW s \in Byte, NEW w, NEW k \in 0 .. NBits - 1, NEW b \in Bit, b = w[k + 1],
         \A j \in 1 .. k : s[NBits - k + j] = w[j]
  PROVE  \A j \in 1 .. k + 1 : ShiftIn(s, b)[NBits - (k + 1) + j] = w[j]
<1>0. NBits \in Nat /\ NBits >= 2
  BY IicAssumption
<1>1. /\ \A i \in 1 .. NBits - 1 : ShiftIn(s, b)[i] = s[i + 1]
      /\ ShiftIn(s, b)[NBits] = b
  BY Shifted
<1>. SUFFICES ASSUME NEW j \in 1 .. k + 1
              PROVE  ShiftIn(s, b)[NBits - (k + 1) + j] = w[j]
  OBVIOUS
<1>2. CASE j = k + 1
  <2>1. NBits - (k + 1) + j = NBits
    BY <1>0, <1>2
  <2>. QED
    BY <1>1, <1>2, <2>1
<1>3. CASE j # k + 1
  <2>1. /\ j \in 1 .. k /\ NBits - (k + 1) + j \in 1 .. NBits - 1
        /\ (NBits - (k + 1) + j) + 1 = NBits - k + j
    BY <1>0, <1>3
  <2>. QED
    BY <1>1, <2>1
<1>. QED
  BY <1>2, <1>3

LEMMA SameByte ==
  ASSUME NEW s \in Byte, NEW t \in Byte, \A i \in 1 .. NBits : s[i] = t[i]
  PROVE  s = t
<1>1. s = [i \in 1 .. NBits |-> s[i]] /\ t = [i \in 1 .. NBits |-> t[i]]
  BY Zenon DEF Byte
<1>2. [i \in 1 .. NBits |-> s[i]] = [i \in 1 .. NBits |-> t[i]]
  BY Zenon
<1>. QED
  BY <1>1, <1>2, Zenon

LEMMA ByteOf ==
  ASSUME NEW s \in Seq(Bit), Len(s) = NBits
  PROVE  s \in Byte
  BY IicAssumption DEF Byte

LEMMA Appended ==
  ASSUME NEW a \in Address, NEW b \in Bit
  PROVE  /\ Append(a, b) \in Byte
         /\ \A i \in 1 .. NBits - 1 : Append(a, b)[i] = a[i]
         /\ Append(a, b)[NBits] = b
<1>1. NBits \in Nat /\ NBits >= 2
  BY IicAssumption
<1>2. a \in Seq(Bit) /\ Len(a) = NBits - 1
  BY <1>1 DEF Address
<1>3. /\ Append(a, b) \in Seq(Bit) /\ Len(Append(a, b)) = NBits
      /\ \A i \in 1 .. NBits - 1 : Append(a, b)[i] = a[i]
      /\ Append(a, b)[NBits] = b
  BY <1>1, <1>2
<1>4. Append(a, b) \in Byte
  BY <1>3, ByteOf
<1>. QED
  BY <1>3, <1>4

\* The address the target takes out of an address byte.
LEMMA AddressOf ==
  ASSUME NEW s \in Byte, NEW a \in Address, \A i \in 1 .. NBits - 1 : s[i] = a[i]
  PROVE  SubSeq(s, 1, NBits - 1) = a
<1>1. NBits \in Nat /\ NBits >= 2
  BY IicAssumption
<1>2. s \in Seq(Bit) /\ Len(s) = NBits
  BY <1>1 DEF Byte
<1>3. a \in Seq(Bit) /\ Len(a) = NBits - 1
  BY <1>1 DEF Address
<1>4. /\ SubSeq(s, 1, NBits - 1) \in Seq(Bit) /\ Len(SubSeq(s, 1, NBits - 1)) = NBits - 1
      /\ \A i \in 1 .. NBits - 1 : SubSeq(s, 1, NBits - 1)[i] = s[i]
  BY <1>1, <1>2
<1>. QED
  BY <1>1, <1>3, <1>4

-----------------------------------------------------------------------------
\* Types.

Setting == [rw : BOOLEAN, ack_in : Bit, intr_en : BOOLEAN]
Config  == [addr : Address, clk_div : Nat \ {1}]

RegisterTypes ==
  /\ ctrl \in Setting /\ config \in Config /\ tx_data \in Byte /\ start \in BOOLEAN

Clocked == {"TX_BYTE", "WAIT_ACK", "RX_BYTE", "SEND_ACK", "GEN_STOP"}

ControllerTypes ==
  /\ state \in {"IDLE", "GEN_START", "DONE"} \cup Clocked
  /\ byte_phase \in {"ADDR", "DATA"} /\ bit_cnt \in 0 .. NBits - 1
  /\ tx_shift_reg \in Byte /\ rx_shift_reg \in Byte /\ rx_data \in Byte /\ ack_in_r \in Bit

ControllerFlags ==
  /\ qtr_tick \in BOOLEAN /\ rw_r \in BOOLEAN /\ ack_seen \in BOOLEAN /\ done \in BOOLEAN
  /\ scl_drive_low \in BOOLEAN /\ sda_drive_low \in BOOLEAN

TargetTypes ==
  /\ t_scl[1] \in Bit /\ t_scl[2] \in Bit /\ t_scl[3] \in Bit
  /\ t_sda[1] \in Bit /\ t_sda[2] \in Bit /\ t_sda[3] \in Bit
  /\ t_shift \in Byte /\ t_cnt \in Int /\ t_rx_data \in Byte

TargetFlags ==
  /\ t_rw \in BOOLEAN /\ t_ack_active \in BOOLEAN
  /\ t_drive_low \in BOOLEAN /\ t_rx_valid \in BOOLEAN

HistoryTypes ==
  /\ asked \in [addr : Address, rw : BOOLEAN] /\ sent \in Byte
  /\ answer \in Byte /\ ack_data \in BOOLEAN

IicTypes == /\ RegisterTypes /\ ControllerTypes /\ ControllerFlags
            /\ TargetTypes /\ TargetFlags /\ HistoryTypes

\* A clock edge of the peripheral and the target, whatever is written to the
\* registers.
Edge == ControllerEdge /\ TargetEdge /\ HistoryEdge(Answers) /\ RegisterTypes'

-----------------------------------------------------------------------------
\* Types are kept.

LEMMA ConstantTypes ==
  /\ NBits \in Nat /\ NBits >= 2 /\ ZeroByte \in Byte /\ Ones \in Byte
  /\ ResetConfig \in Config /\ ResetCtrl \in Setting
<1>1. NBits \in Nat /\ NBits >= 2 /\ ZeroByte \in Byte /\ Ones \in Byte
  BY IicAssumption DEF ZeroByte, Ones, Byte, Bit
<1>2. ResetConfig \in Config
  BY IicAssumption, DriverAssumption DEF Bit, Address, ResetConfig, Config
<1>3. ResetCtrl \in Setting
  BY DEF ResetCtrl, Setting, Bit
<1>. QED
  BY <1>1, <1>2, <1>3

LEMMA ControllerFlagsStep ==
  ASSUME IicTypes, Edge
  PROVE  ControllerFlags'
<1>1. qtr_tick' \in BOOLEAN
  BY Zenon DEF Edge, ControllerEdge, DivEdge
<1>2. ctrl.rw \in BOOLEAN
  BY DEF IicTypes, RegisterTypes, Setting
<1>3. CASE Idle
  BY <1>1, <1>2, <1>3, Zenon DEF Idle, IicTypes, ControllerFlags, latched
<1>4. CASE Done
  BY <1>1, <1>4, Zenon DEF Done, IicTypes, ControllerFlags, latched
<1>5. CASE Transferring /\ ~qtr_tick
  BY <1>1, <1>5, Zenon DEF Transferring, IicTypes, ControllerFlags, latched, bus_driven
<1>6. CASE Transferring /\ qtr_tick
  <2>0. rw_r' \in BOOLEAN /\ done' \in BOOLEAN
    BY <1>6, Zenon DEF Transferring, IicTypes, ControllerFlags, latched
  <2>. SUFFICES /\ ack_seen' \in BOOLEAN
                /\ scl_drive_low' \in BOOLEAN /\ sda_drive_low' \in BOOLEAN
    BY <1>1, <2>0 DEF ControllerFlags
  <2>1. CASE GenStart \/ GenStop
    BY <2>1, Zenon DEF GenStart, GenStop, IicTypes, ControllerFlags
  <2>2. CASE TxByte \/ RxByte \/ WaitAck
    BY <2>2, Zenon DEF TxByte, RxByte, WaitAck, BitClock, IicTypes, ControllerFlags
  <2>3. CASE SendAck
    <3>1. sda_drive_low' \in BOOLEAN
      BY <2>3 DEF SendAck, IicTypes, ControllerFlags
    <3>. QED
      BY <2>3, <3>1, Zenon DEF SendAck, BitClock, IicTypes, ControllerFlags
  <2>. QED
    BY <1>6, <2>1, <2>2, <2>3 DEF Transferring
<1>. QED
  BY <1>3, <1>4, <1>5, <1>6 DEF Edge, ControllerEdge

LEMMA ControllerTypesStep ==
  ASSUME IicTypes, Edge
  PROVE  ControllerTypes'
<1>0. /\ NBits \in Nat /\ NBits >= 2 /\ ZeroByte \in Byte /\ tx_data \in Byte
      /\ ShiftIn(tx_shift_reg, 0) \in Byte /\ ShiftIn(rx_shift_reg, sda) \in Byte
      /\ ctrl.ack_in \in Bit
  BY ConstantTypes, Shifted DEF IicTypes, RegisterTypes, ControllerTypes, sda, Bit, Setting
<1>1. Append(config.addr, IF ctrl.rw THEN 1 ELSE 0) \in Byte
  BY Appended DEF IicTypes, RegisterTypes, Config, Bit
<1>3. CASE Idle
  <2>1. CASE start
    <3>1. tx_shift_reg' \in Byte
      BY <1>1, <1>3, <2>1 DEF Idle
    <3>2. /\ ack_in_r' = ctrl.ack_in /\ state' = "GEN_START" /\ byte_phase' = "ADDR"
          /\ rx_shift_reg' = ZeroByte /\ bit_cnt' = 0 /\ rx_data' = rx_data
      BY <1>3, <2>1 DEF Idle
    <3>. QED
      BY <1>0, <3>1, <3>2 DEF IicTypes, ControllerTypes
  <2>2. CASE ~start
    BY <1>0, <1>3, <2>2 DEF Idle, IicTypes, ControllerTypes, latched, shifts
  <2>. QED
    BY <2>1, <2>2
<1>4. CASE Done
  BY <1>0, <1>4 DEF Done, IicTypes, ControllerTypes, latched, shifts
<1>5. CASE Transferring /\ ~qtr_tick
  BY <1>5 DEF Transferring, IicTypes, ControllerTypes, latched, shifts
<1>6. CASE Transferring /\ qtr_tick
  <2>0. ack_in_r' \in Bit
    BY <1>6 DEF Transferring, latched, IicTypes, ControllerTypes
  <2>. USE DEF IicTypes, ControllerTypes, Clocked
  <2>1. CASE GenStart
    BY <2>0, <2>1 DEF GenStart, shifts
  <2>2. CASE TxByte
    BY <1>0, <2>0, <2>2 DEF TxByte, NextBit
  <2>3. CASE WaitAck
    BY <1>0, <2>0, <2>3 DEF WaitAck, AfterAck
  <2>4. CASE RxByte
    BY <1>0, <2>0, <2>4 DEF RxByte, NextBit
  <2>5. CASE SendAck
    BY <2>0, <2>5 DEF SendAck, shifts
  <2>6. CASE GenStop
    BY <2>0, <2>6 DEF GenStop, shifts
  <2>. QED
    BY <1>6, <2>1, <2>2, <2>3, <2>4, <2>5, <2>6 DEF Transferring
<1>. QED
  BY <1>3, <1>4, <1>5, <1>6 DEF Edge, ControllerEdge

LEMMA HistoryTypesStep ==
  ASSUME IicTypes, Edge
  PROVE  HistoryTypes'
<1>1. sent' \in Byte
  BY DEF Edge, HistoryEdge, IicTypes, HistoryTypes, RegisterTypes
<1>2. CASE Begins
  <2>1. /\ asked' = [addr |-> config.addr, rw |-> ctrl.rw]
        /\ answer' \in Answers \/ answer' = ZeroByte
    BY <1>2 DEF Edge, HistoryEdge
  <2>2. ack_data' \in BOOLEAN
    BY <1>2, Zenon DEF Edge, HistoryEdge
  <2>3. config.addr \in Address /\ ctrl.rw \in BOOLEAN
    BY DEF IicTypes, RegisterTypes, Config, Setting
  <2>. QED
    BY <1>1, <2>1, <2>2, <2>3, ConstantTypes, DriverAssumption DEF HistoryTypes
<1>3. CASE ~Begins
  BY <1>1, <1>3 DEF Edge, HistoryEdge, IicTypes, HistoryTypes
<1>. QED
  BY <1>2, <1>3

LEMMA TargetFlagsStep ==
  ASSUME IicTypes, Edge
  PROVE  TargetFlags'
<1>. USE DEF IicTypes, TargetFlags
<1>1. CASE TargetStart
  BY <1>1, Zenon DEF TargetStart
<1>2. CASE TargetStop
  BY <1>2, Zenon DEF TargetStop
<1>3. CASE TargetSamples
  BY <1>3, Zenon DEF TargetSamples
<1>4. CASE TargetDrives
  BY <1>4, Zenon DEF TargetDrives
<1>5. CASE TargetQuiet
  BY <1>5, Zenon DEF TargetQuiet
<1>. QED
  BY <1>1, <1>2, <1>3, <1>4, <1>5 DEF Edge, TargetEdge

LEMMA TargetTypesStep ==
  ASSUME IicTypes, Edge
  PROVE  TargetTypes'
<1>0. /\ NBits \in Nat /\ NBits >= 2 /\ ZeroByte \in Byte /\ answer \in Byte
      /\ ShiftIn(t_shift, t_sda[2]) \in Byte /\ ShiftIn(t_shift, 0) \in Byte
  BY ConstantTypes, Shifted DEF IicTypes, TargetTypes, HistoryTypes, Bit
<1>1. /\ t_scl'[1] \in Bit /\ t_scl'[2] \in Bit /\ t_scl'[3] \in Bit
      /\ t_sda'[1] \in Bit /\ t_sda'[2] \in Bit /\ t_sda'[3] \in Bit
  BY DEF Edge, TargetEdge, IicTypes, TargetTypes, scl, sda, Bit
<1>. USE DEF IicTypes, TargetTypes
<1>2. CASE TargetStart
  BY <1>0, <1>1, <1>2 DEF TargetStart
<1>3. CASE TargetStop
  BY <1>1, <1>3 DEF TargetStop
<1>4. CASE TargetSamples
  BY <1>0, <1>1, <1>4 DEF TargetSamples
<1>5. CASE TargetDrives
  BY <1>0, <1>1, <1>5 DEF TargetDrives
<1>6. CASE TargetQuiet
  BY <1>1, <1>6 DEF TargetQuiet
<1>. QED
  BY <1>2, <1>3, <1>4, <1>5, <1>6 DEF Edge, TargetEdge

LEMMA TypesStep ==
  ASSUME IicTypes, Edge
  PROVE  IicTypes'
  BY ControllerTypesStep, ControllerFlagsStep, TargetTypesStep, TargetFlagsStep, HistoryTypesStep
     DEF IicTypes, Edge

-----------------------------------------------------------------------------
\* The divider and the clock line.

Fresh == state = "GEN_START" /\ div_cnt = 0 /\ ~qtr_tick

TimingInv ==
  /\ clk_div_r \in Nat /\ clk_div_r >= 2 /\ div_cnt \in 0 .. clk_div_r - 1
  /\ state \in {"IDLE", "DONE"} => ~qtr_tick
  /\ qtr_tick => div_cnt = 0
  /\ state \notin {"IDLE", "DONE"} /\ ~Fresh /\ ~qtr_tick => div_cnt > 0
  /\ Fresh => step = 0
  /\ state \in Clocked => step \in 0 .. 3
  /\ state \in {"GEN_START", "GEN_STOP"} => step \in 0 .. 2

\* SCL is low in the first two quarters of a bit.
SclInv == scl_drive_low <=> state \in Clocked /\ step < 2

\* The clocks since the last quarter began, and since the last edge of SCL.
Age     == IF qtr_tick THEN clk_div_r - 1 ELSE div_cnt - 1
HalfAge == IF step \in {1, 3} THEN clk_div_r + Age ELSE Age

LEMMA Waits ==
  ASSUME IicTypes, TimingInv, Edge, state \notin {"IDLE", "DONE"}, ~qtr_tick
  PROVE  /\ Age' = Age + 1 /\ Age >= 0 - 1 /\ Age < clk_div_r - 1 /\ ~Fresh' /\ (~Fresh => Age >= 0)
         /\ clk_div_r' = clk_div_r /\ (qtr_tick' \/ div_cnt' > 0) /\ (qtr_tick' => div_cnt' = 0)
         /\ div_cnt' \in 0 .. clk_div_r - 1 /\ done' = FALSE
         /\ UNCHANGED << state, byte_phase, step, bit_cnt, tx_shift_reg, rx_shift_reg, rw_r,
                         ack_in_r, ack_seen, rx_data, scl_drive_low, sda_drive_low >>
<1>1. /\ UNCHANGED << state, byte_phase, step, bit_cnt, tx_shift_reg, rx_shift_reg, rw_r,
                      ack_in_r, ack_seen, rx_data, scl_drive_low, sda_drive_low, clk_div_r >>
      /\ done' = FALSE
  BY DEF Edge, ControllerEdge, Idle, Done, Transferring, latched, shifts, bus_driven
<1>2. qtr_tick' = (div_cnt = clk_div_r - 1)
      /\ div_cnt' = IF div_cnt = clk_div_r - 1 THEN 0 ELSE div_cnt + 1
  BY DEF Edge, ControllerEdge, DivEdge
<1>3. CASE div_cnt = clk_div_r - 1
  <2>1. qtr_tick' /\ div_cnt' = 0
    BY <1>2, <1>3, Zenon
  <2>. QED
    BY <1>1, <1>3, <2>1 DEF TimingInv, Age, Fresh
<1>4. CASE div_cnt # clk_div_r - 1
  <2>1. ~qtr_tick' /\ div_cnt' = div_cnt + 1
    BY <1>2, <1>4, Zenon
  <2>. QED
    BY <1>1, <1>4, <2>1 DEF TimingInv, Age, Fresh
<1>. QED
  BY <1>3, <1>4

LEMMA Ticks ==
  ASSUME IicTypes, TimingInv, Edge, qtr_tick
  PROVE  /\ state \notin {"IDLE", "DONE"} /\ ~Fresh
         /\ Age = clk_div_r - 1 /\ Age' = 0 /\ clk_div_r' = clk_div_r /\ div_cnt' = 1
         /\ ~qtr_tick' /\ ~Fresh' /\ done' = FALSE /\ rw_r' = rw_r /\ ack_in_r' = ack_in_r
         /\ GenStart \/ TxByte \/ WaitAck \/ RxByte \/ SendAck \/ GenStop
<1>1. state \notin {"IDLE", "DONE"} /\ div_cnt = 0 /\ clk_div_r >= 2 /\ clk_div_r \in Nat
  BY DEF TimingInv
<1>2. Transferring
  BY <1>1 DEF Edge, ControllerEdge, Idle, Done
<1>3. qtr_tick' = (div_cnt = clk_div_r - 1)
      /\ div_cnt' = IF div_cnt = clk_div_r - 1 THEN 0 ELSE div_cnt + 1
  BY <1>1 DEF Edge, ControllerEdge, DivEdge
<1>4. div_cnt # clk_div_r - 1
  BY <1>1
<1>5. ~qtr_tick' /\ div_cnt' = div_cnt + 1
  BY <1>3, <1>4, Zenon
<1>. QED
  BY <1>1, <1>2, <1>5 DEF Transferring, latched, Age, Fresh

\* The controller's actions, with truth values as equivalences.
LEMMA IdleEdge ==
  ASSUME IicTypes, Edge, state = "IDLE"
  PROVE  /\ ~done' /\ ~scl_drive_low' /\ ~sda_drive_low' /\ ~qtr_tick' /\ div_cnt' = 0
         /\ step' = 0 /\ bit_cnt' = 0 /\ rx_data' = rx_data
         /\ start => /\ state' = "GEN_START" /\ byte_phase' = "ADDR" /\ ~ack_seen'
                     /\ clk_div_r' = Divider /\ Divider \in Nat /\ Divider >= 2
                     /\ (rw_r' <=> ctrl.rw) /\ ack_in_r' = ctrl.ack_in
                     /\ tx_shift_reg' = Append(config.addr, IF ctrl.rw THEN 1 ELSE 0)
         /\ ~start => /\ state' = "IDLE"
                      /\ UNCHANGED << byte_phase, ack_seen, clk_div_r, rw_r, ack_in_r,
                                      tx_shift_reg, rx_shift_reg >>
<1>1. Idle /\ ~qtr_tick' /\ div_cnt' = 0
  BY DEF Edge, ControllerEdge, Idle, Done, DivEdge
<1>2. Divider \in Nat /\ Divider >= 2
  BY DriverAssumption, IicAssumption DEF Divider, IicTypes, RegisterTypes, Config
<1>. QED
  BY <1>1, <1>2 DEF Idle, latched, shifts

LEMMA DoneEdge ==
  ASSUME IicTypes, Edge, state = "DONE"
  PROVE  /\ state' = "IDLE" /\ done' /\ ~scl_drive_low' /\ ~sda_drive_low' /\ ~qtr_tick' /\ div_cnt' = 0
         /\ UNCHANGED << byte_phase, clk_div_r, rw_r, ack_in_r, step, bit_cnt, tx_shift_reg,
                         rx_shift_reg, ack_seen, rx_data >>
  BY DEF Edge, ControllerEdge, Idle, Done, DivEdge, latched, shifts

LEMMA StartTick ==
  ASSUME IicTypes, TimingInv, Edge, qtr_tick, state = "GEN_START"
  PROVE  /\ scl_drive_low' <=> step = 2
         /\ sda_drive_low' <=> step # 0
         /\ IF step = 2 THEN step' = 0 /\ state' = "TX_BYTE" ELSE step' = step + 1 /\ state' = "GEN_START"
         /\ UNCHANGED << byte_phase, bit_cnt, tx_shift_reg, rx_shift_reg, ack_seen, rx_data >>
<1>1. GenStart
  BY Ticks DEF GenStart, TxByte, WaitAck, RxByte, SendAck, GenStop
<1>2. (scl_drive_low' <=> step = 2) /\ (sda_drive_low' <=> step # 0)
  BY <1>1, Zenon DEF GenStart
<1>. QED
  BY <1>1, <1>2 DEF GenStart, shifts

LEMMA BitTick ==
  ASSUME TimingInv, BitClock, state \in Clocked
  PROVE  /\ step' = IF step = 3 THEN 0 ELSE step + 1
         /\ scl_drive_low' <=> IF step = 2 THEN scl_drive_low ELSE step # 1
<1>1. scl_drive_low' <=> IF step = 2 THEN scl_drive_low ELSE step # 1
  BY Zenon DEF BitClock
<1>2. step \in 0 .. 3
  BY DEF TimingInv, Clocked
<1>. QED
  BY <1>1, <1>2 DEF BitClock

LEMMA TxTick ==
  ASSUME IicTypes, TimingInv, Edge, qtr_tick, state = "TX_BYTE"
  PROVE  /\ step' = IF step = 3 THEN 0 ELSE step + 1
         /\ scl_drive_low' <=> IF step = 2 THEN scl_drive_low ELSE step # 1
         /\ sda_drive_low' <=> IF step = 0 THEN tx_shift_reg[1] = 0 ELSE sda_drive_low
         /\ IF step = 3
            THEN /\ tx_shift_reg' = ShiftIn(tx_shift_reg, 0)
                 /\ IF bit_cnt = NBits - 1 THEN bit_cnt' = 0 /\ state' = "WAIT_ACK"
                    ELSE bit_cnt' = bit_cnt + 1 /\ state' = "TX_BYTE"
            ELSE UNCHANGED << state, bit_cnt, tx_shift_reg >>
         /\ UNCHANGED << byte_phase, rx_shift_reg, ack_seen, rx_data >>
<1>1. TxByte
  BY Ticks DEF GenStart, TxByte, WaitAck, RxByte, SendAck, GenStop
<1>2. tx_shift_reg[1] = Head(tx_shift_reg)
  BY Shifted DEF IicTypes, ControllerTypes, Bit
<1>3. sda_drive_low' <=> IF step = 0 THEN Head(tx_shift_reg) = 0 ELSE sda_drive_low
  BY <1>1, Zenon DEF TxByte
<1>. QED
  BY <1>1, <1>2, <1>3, BitTick DEF TxByte, NextBit, Clocked

LEMMA AckTick ==
  ASSUME IicTypes, TimingInv, Edge, qtr_tick, state = "WAIT_ACK"
  PROVE  /\ step' = IF step = 3 THEN 0 ELSE step + 1
         /\ scl_drive_low' <=> IF step = 2 THEN scl_drive_low ELSE step # 1
         /\ sda_drive_low' <=> step # 0 /\ sda_drive_low
         /\ ack_seen' <=> IF step = 2 THEN sda = 0 ELSE ack_seen
         /\ IF step = 3 THEN AfterAck ELSE UNCHANGED << state, byte_phase, tx_shift_reg >>
         /\ UNCHANGED << bit_cnt, rx_shift_reg, rx_data >>
<1>1. WaitAck
  BY Ticks DEF GenStart, TxByte, WaitAck, RxByte, SendAck, GenStop
<1>2. /\ sda_drive_low' <=> step # 0 /\ sda_drive_low
      /\ ack_seen' <=> IF step = 2 THEN sda = 0 ELSE ack_seen
  BY <1>1, Zenon DEF WaitAck
<1>. QED
  BY <1>1, <1>2, BitTick DEF WaitAck, Clocked

LEMMA RxTick ==
  ASSUME IicTypes, TimingInv, Edge, qtr_tick, state = "RX_BYTE"
  PROVE  /\ step' = IF step = 3 THEN 0 ELSE step + 1
         /\ scl_drive_low' <=> IF step = 2 THEN scl_drive_low ELSE step # 1
         /\ sda_drive_low' <=> step # 0 /\ sda_drive_low
         /\ rx_shift_reg' = IF step = 2 THEN ShiftIn(rx_shift_reg, sda) ELSE rx_shift_reg
         /\ IF step = 3
            THEN IF bit_cnt = NBits - 1 THEN bit_cnt' = 0 /\ state' = "SEND_ACK" /\ rx_data' = rx_shift_reg
                 ELSE bit_cnt' = bit_cnt + 1 /\ state' = "RX_BYTE" /\ rx_data' = rx_data
            ELSE UNCHANGED << state, bit_cnt, rx_data >>
         /\ UNCHANGED << byte_phase, tx_shift_reg, ack_seen >>
<1>1. RxByte
  BY Ticks DEF GenStart, TxByte, WaitAck, RxByte, SendAck, GenStop
<1>2. sda_drive_low' <=> step # 0 /\ sda_drive_low
  BY <1>1, Zenon DEF RxByte
<1>. QED
  BY <1>1, <1>2, BitTick DEF RxByte, NextBit, Clocked

LEMMA SendTick ==
  ASSUME IicTypes, TimingInv, Edge, qtr_tick, state = "SEND_ACK"
  PROVE  /\ step' = IF step = 3 THEN 0 ELSE step + 1
         /\ scl_drive_low' <=> IF step = 2 THEN scl_drive_low ELSE step # 1
         /\ step = 0 => (sda_drive_low' <=> ack_in_r = 0)
         /\ step = 3 => ~sda_drive_low'
         /\ step \notin {0, 3} => sda_drive_low' = sda_drive_low
         /\ state' = IF step = 3 THEN "GEN_STOP" ELSE "SEND_ACK"
         /\ UNCHANGED << byte_phase, bit_cnt, tx_shift_reg, rx_shift_reg, ack_seen, rx_data >>
<1>1. SendAck
  BY Ticks DEF GenStart, TxByte, WaitAck, RxByte, SendAck, GenStop
<1>2. /\ step = 0 => sda_drive_low' = (ack_in_r = 0)
      /\ step = 3 => sda_drive_low' = FALSE
      /\ step \notin {0, 3} => sda_drive_low' = sda_drive_low
  <2>1. CASE step = 0
    BY <1>1, <2>1 DEF SendAck
  <2>2. CASE step = 3
    BY <1>1, <2>2 DEF SendAck
  <2>3. CASE step \notin {0, 3}
    BY <1>1, <2>3 DEF SendAck
  <2>. QED
    BY <2>1, <2>2, <2>3
<1>3. step = 0 => (sda_drive_low' <=> ack_in_r = 0)
  BY <1>2, Zenon
<1>. QED
  BY <1>1, <1>2, <1>3, BitTick DEF SendAck, shifts, Clocked

LEMMA StopTick ==
  ASSUME IicTypes, TimingInv, Edge, qtr_tick, state = "GEN_STOP"
  PROVE  /\ scl_drive_low' <=> step = 0
         /\ sda_drive_low' <=> step # 2
         /\ IF step = 2 THEN step' = 0 /\ state' = "DONE" ELSE step' = step + 1 /\ state' = "GEN_STOP"
         /\ UNCHANGED << byte_phase, bit_cnt, tx_shift_reg, rx_shift_reg, ack_seen, rx_data >>
<1>1. GenStop
  BY Ticks DEF GenStart, TxByte, WaitAck, RxByte, SendAck, GenStop
<1>2. (scl_drive_low' <=> step = 0) /\ (sda_drive_low' <=> step # 2)
  BY <1>1, Zenon DEF GenStop
<1>. QED
  BY <1>1, <1>2 DEF GenStop, shifts

LEMMA TimingStep ==
  ASSUME IicTypes, TimingInv, SclInv, Edge
  PROVE  TimingInv' /\ SclInv'
<1>. USE DEF TimingInv, SclInv, Fresh, Clocked
<1>1. CASE state = "IDLE"
  BY <1>1, IdleEdge
<1>2. CASE state = "DONE"
  BY <1>2, DoneEdge
<1>3. CASE state \notin {"IDLE", "DONE"} /\ ~qtr_tick
  BY <1>3, Waits
<1>4. CASE qtr_tick
  <2>0. /\ clk_div_r' = clk_div_r /\ div_cnt' = 1 /\ ~qtr_tick' /\ ~Fresh'
        /\ clk_div_r \in Nat /\ clk_div_r >= 2
    BY <1>4, Ticks
  <2>1. CASE state = "GEN_START"
    BY <1>4, <2>0, <2>1, StartTick
  <2>2. CASE state = "TX_BYTE"
    BY <1>4, <2>0, <2>2, TxTick
  <2>3. CASE state = "WAIT_ACK"
    BY <1>4, <2>0, <2>3, AckTick DEF AfterAck
  <2>4. CASE state = "RX_BYTE"
    BY <1>4, <2>0, <2>4, RxTick
  <2>5. CASE state = "SEND_ACK"
    BY <1>4, <2>0, <2>5, SendTick
  <2>6. CASE state = "GEN_STOP"
    BY <1>4, <2>0, <2>6, StopTick
  <2>. QED
    BY <1>4, <2>1, <2>2, <2>3, <2>4, <2>5, <2>6 DEF IicTypes, ControllerTypes
<1>. QED
  BY <1>1, <1>2, <1>3, <1>4

-----------------------------------------------------------------------------
\* What is being transferred.

AddrByte == Append(asked.addr, IF asked.rw THEN 1 ELSE 0)
Outgoing == IF byte_phase = "ADDR" THEN AddrByte ELSE sent

PhaseInv ==
  /\ state \notin {"TX_BYTE", "RX_BYTE"} => bit_cnt = 0
  /\ state # "IDLE" => (rw_r <=> asked.rw)
  /\ state = "GEN_START" => byte_phase = "ADDR" /\ tx_shift_reg = AddrByte
  /\ state \in {"TX_BYTE", "WAIT_ACK"} /\ byte_phase = "DATA" => ~asked.rw
  /\ state \in {"RX_BYTE", "SEND_ACK"} => asked.rw
  /\ state \in {"GEN_STOP", "DONE"} /\ ~asked.rw => byte_phase = "DATA"
  /\ state = "TX_BYTE" =>
       \A i \in 1 .. NBits - bit_cnt : tx_shift_reg[i] = Outgoing[bit_cnt + i]

LEMMA HistoryKept ==
  ASSUME IicTypes, Edge
  PROVE  /\ state # "IDLE" \/ ~start => UNCHANGED << asked, answer, ack_data >>
         /\ state = "IDLE" /\ start => asked' = [addr |-> config.addr, rw |-> ctrl.rw]
         /\ IF state = "WAIT_ACK" /\ state' = "TX_BYTE" THEN sent' = tx_data ELSE sent' = sent
<1>1. state = "IDLE" /\ start => asked' = [addr |-> config.addr, rw |-> ctrl.rw]
  BY DEF Edge, HistoryEdge, Begins
<1>2. state # "IDLE" \/ ~start => UNCHANGED << asked, answer, ack_data >>
  BY DEF Edge, HistoryEdge, Begins
<1>. QED
  BY <1>1, <1>2 DEF Edge, HistoryEdge

LEMMA PhaseStep ==
  ASSUME IicTypes, TimingInv, PhaseInv, Edge
  PROVE  PhaseInv'
<1>0. NBits \in Nat /\ NBits >= 2 /\ bit_cnt \in 0 .. NBits - 1
  BY ConstantTypes DEF IicTypes, ControllerTypes
<1>1. CASE state = "IDLE" /\ start
  <2>1. asked' = [addr |-> config.addr, rw |-> ctrl.rw]
    BY <1>1, HistoryKept
  <2>2. /\ state' = "GEN_START" /\ bit_cnt' = 0 /\ byte_phase' = "ADDR" /\ (rw_r' <=> ctrl.rw)
        /\ tx_shift_reg' = Append(config.addr, IF ctrl.rw THEN 1 ELSE 0)
    BY <1>1, IdleEdge
  <2>3. asked'.addr = config.addr /\ asked'.rw = ctrl.rw
    BY <2>1
  <2>4. tx_shift_reg' = AddrByte'
    BY <2>2, <2>3 DEF AddrByte
  <2>. QED
    BY <2>2, <2>3, <2>4 DEF PhaseInv
<1>2. CASE state = "IDLE" /\ ~start
  BY <1>2, IdleEdge DEF PhaseInv
<1>. SUFFICES ASSUME state # "IDLE" PROVE PhaseInv'
  BY <1>1, <1>2
<1>3. asked' = asked /\ AddrByte' = AddrByte
  BY HistoryKept DEF AddrByte
<1>4. CASE state = "DONE"
  BY <1>4, DoneEdge DEF PhaseInv
<1>5. CASE state # "DONE" /\ ~qtr_tick
  <2>1. /\ UNCHANGED << state, byte_phase, bit_cnt, tx_shift_reg, rw_r >>
        /\ sent' = sent
    BY <1>5, Waits, HistoryKept
  <2>2. Outgoing' = Outgoing
    BY <1>3, <2>1 DEF Outgoing
  <2>. QED
    BY <1>3, <2>1, <2>2 DEF PhaseInv
<1>6. CASE qtr_tick
  <2>0. rw_r' = rw_r
    BY <1>6, Ticks
  <2>1. CASE state = "GEN_START"
    <3>1. CASE step = 2
      <4>1. Outgoing' = AddrByte
        BY <1>3, <1>6, <2>1, StartTick DEF PhaseInv, Outgoing
      <4>2. /\ state' = "TX_BYTE" /\ byte_phase' = "ADDR" /\ bit_cnt' = 0 /\ tx_shift_reg' = AddrByte
        BY <1>6, <2>1, <3>1, StartTick DEF PhaseInv
      <4>. QED
        BY <1>0, <1>3, <2>0, <2>1, <4>1, <4>2 DEF PhaseInv
    <3>2. CASE step # 2
      BY <1>3, <1>6, <2>0, <2>1, <3>2, StartTick DEF PhaseInv
    <3>. QED
      BY <3>1, <3>2
  <2>2. CASE state = "TX_BYTE"
    <3>1. byte_phase' = byte_phase /\ sent' = sent
      BY <1>6, <2>2, TxTick, HistoryKept
    <3>2. Outgoing' = Outgoing
      BY <1>3, <3>1 DEF Outgoing
    <3>3. CASE step = 3 /\ bit_cnt < NBits - 1
      <4>1. bit_cnt' = bit_cnt + 1 /\ state' = "TX_BYTE" /\ tx_shift_reg' = ShiftIn(tx_shift_reg, 0)
        BY <1>0, <1>6, <2>2, <3>3, TxTick
      <4>2. ASSUME NEW i \in 1 .. NBits - (bit_cnt + 1)
            PROVE  tx_shift_reg'[i] = Outgoing[(bit_cnt + 1) + i]
        <5>1. i \in 1 .. NBits - 1 /\ i + 1 \in 1 .. NBits - bit_cnt /\ (bit_cnt + 1) + i = bit_cnt + (i + 1)
          BY <1>0
        <5>2. tx_shift_reg'[i] = tx_shift_reg[i + 1]
          BY <4>1, <5>1, Shifted DEF IicTypes, ControllerTypes, Bit
        <5>. QED
          BY <2>2, <5>1, <5>2 DEF PhaseInv
      <4>. QED
        BY <1>3, <2>0, <2>2, <3>1, <3>2, <4>1, <4>2 DEF PhaseInv
    <3>4. CASE step = 3 /\ bit_cnt = NBits - 1
      BY <1>3, <1>6, <2>0, <2>2, <3>1, <3>4, TxTick DEF PhaseInv
    <3>5. CASE step # 3
      BY <1>3, <1>6, <2>0, <2>2, <3>1, <3>2, <3>5, TxTick DEF PhaseInv
    <3>. QED
      BY <1>0, <3>3, <3>4, <3>5
  <2>3. CASE state = "WAIT_ACK"
    <3>0. bit_cnt' = 0 /\ bit_cnt = 0
      BY <1>6, <2>3, AckTick DEF PhaseInv
    <3>1. CASE step = 3 /\ byte_phase = "ADDR" /\ ~rw_r
      <4>1. state' = "TX_BYTE" /\ byte_phase' = "DATA" /\ tx_shift_reg' = tx_data
        BY <1>6, <2>3, <3>1, AckTick DEF AfterAck
      <4>2. Outgoing' = tx_data
        BY <2>3, <4>1, HistoryKept DEF Outgoing
      <4>. QED
        BY <1>0, <1>3, <2>0, <2>3, <3>0, <3>1, <4>1, <4>2 DEF PhaseInv
    <3>2. CASE step = 3 /\ ~(byte_phase = "ADDR" /\ ~rw_r)
      <4>1. /\ state' = IF byte_phase = "ADDR" THEN "RX_BYTE" ELSE "GEN_STOP"
            /\ byte_phase' = byte_phase
        BY <1>6, <2>3, <3>2, AckTick DEF AfterAck
      <4>2. (rw_r <=> asked.rw) /\ byte_phase \in {"ADDR", "DATA"}
        BY <2>3 DEF PhaseInv, IicTypes, ControllerTypes
      <4>. QED
        BY <1>3, <2>0, <2>3, <3>0, <3>2, <4>1, <4>2 DEF PhaseInv
    <3>3. CASE step # 3
      BY <1>3, <1>6, <2>0, <2>3, <3>0, <3>3, AckTick DEF PhaseInv
    <3>. QED
      BY <3>1, <3>2, <3>3
  <2>4. CASE state = "RX_BYTE"
    BY <1>3, <1>6, <2>0, <2>4, RxTick DEF PhaseInv
  <2>5. CASE state = "SEND_ACK"
    BY <1>3, <1>6, <2>0, <2>5, SendTick DEF PhaseInv
  <2>6. CASE state = "GEN_STOP"
    BY <1>3, <1>6, <2>0, <2>6, StopTick DEF PhaseInv
  <2>. QED
    BY <1>6, <2>1, <2>2, <2>3, <2>4, <2>5, <2>6, Ticks DEF IicTypes, ControllerTypes, Clocked
<1>. QED
  BY <1>4, <1>5, <1>6

-----------------------------------------------------------------------------
\* The data line, as the controller drives it.

\* The first quarter of the first bit: SDA is low still from the START.
First == state = "TX_BYTE" /\ byte_phase = "ADDR" /\ bit_cnt = 0 /\ step = 0

SdaInv ==
  /\ state \in {"IDLE", "DONE", "RX_BYTE"} => ~sda_drive_low
  /\ state = "GEN_START" => (sda_drive_low <=> step = 2)
  /\ First => sda_drive_low
  /\ state = "TX_BYTE" /\ step # 0 => (sda_drive_low <=> tx_shift_reg[1] = 0)
  /\ state = "WAIT_ACK" /\ step # 0 => ~sda_drive_low
  /\ state = "SEND_ACK" => (sda_drive_low <=> step # 0 /\ ack_in_r = 0)
  /\ state = "GEN_STOP" => (sda_drive_low <=> step # 0)

LEMMA SdaStep ==
  ASSUME IicTypes, TimingInv, PhaseInv, SdaInv, Edge
  PROVE  SdaInv'
<1>0. NBits \in Nat /\ NBits >= 2 /\ bit_cnt \in 0 .. NBits - 1 /\ ControllerFlags'
  BY ConstantTypes, ControllerFlagsStep DEF IicTypes, ControllerTypes
<1>. USE DEF SdaInv, First
<1>1. CASE state = "IDLE"
  BY <1>1, IdleEdge
<1>2. CASE state = "DONE"
  BY <1>2, DoneEdge
<1>3. CASE state \notin {"IDLE", "DONE"} /\ ~qtr_tick
  BY <1>3, Waits
<1>4. CASE qtr_tick
  <2>0. ack_in_r' = ack_in_r
    BY <1>4, Ticks
  <2>1. CASE state = "GEN_START"
    BY <1>4, <2>1, StartTick DEF TimingInv
  <2>2. CASE state = "TX_BYTE"
    BY <1>0, <1>4, <2>2, TxTick DEF TimingInv, Clocked
  <2>3. CASE state = "WAIT_ACK"
    BY <1>4, <2>3, AckTick DEF TimingInv, Clocked, AfterAck
  <2>4. CASE state = "RX_BYTE"
    BY <1>4, <2>4, RxTick DEF TimingInv, Clocked
  <2>5. CASE state = "SEND_ACK"
    BY <1>0, <1>4, <2>0, <2>5, SendTick DEF TimingInv, Clocked, IicTypes, ControllerFlags
  <2>6. CASE state = "GEN_STOP"
    BY <1>4, <2>6, StopTick DEF TimingInv
  <2>. QED
    BY <1>4, <2>1, <2>2, <2>3, <2>4, <2>5, <2>6, Ticks DEF IicTypes, ControllerTypes, Clocked
<1>. QED
  BY <1>1, <1>2, <1>3, <1>4

-----------------------------------------------------------------------------
\* The clock line, as the target sees it.

LEMMA HalfStep ==
  ASSUME IicTypes, TimingInv, SclInv, Edge, state \in Clocked, state' \in Clocked
  PROVE  IF qtr_tick /\ step \in {1, 3}
         THEN HalfAge \in Int /\ HalfAge >= 3 /\ HalfAge' = 0 /\ (scl_drive_low' <=> ~scl_drive_low)
         ELSE HalfAge \in Nat /\ HalfAge' = HalfAge + 1 /\ (scl_drive_low' <=> scl_drive_low)
<1>0. clk_div_r \in Nat /\ clk_div_r >= 2 /\ step \in 0 .. 3
  BY DEF TimingInv
<1>1. SclInv'
  BY TimingStep
<1>2. CASE ~qtr_tick
  <2>1. step' = step /\ Age' = Age + 1 /\ Age \in Nat /\ clk_div_r' = clk_div_r /\ scl_drive_low' = scl_drive_low
    <3>1. /\ step' = step /\ Age' = Age + 1 /\ clk_div_r' = clk_div_r /\ scl_drive_low' = scl_drive_low
      BY <1>2, Waits DEF Clocked
    <3>2. div_cnt > 0 /\ div_cnt \in 0 .. clk_div_r - 1
      BY <1>2 DEF TimingInv, Fresh, Clocked
    <3>. QED
      BY <1>0, <1>2, <3>1, <3>2 DEF Age
  <2>. QED
    BY <1>0, <1>2, <2>1 DEF HalfAge
<1>3. CASE qtr_tick
  <2>1. Age = clk_div_r - 1 /\ Age' = 0 /\ clk_div_r' = clk_div_r
    BY <1>3, Ticks
  <2>2. step' = (IF step = 3 THEN 0 ELSE step + 1) /\ (state = "GEN_STOP" => step < 2)
    <3>1. CASE state = "GEN_STOP"
      BY <1>0, <1>3, <3>1, StopTick DEF TimingInv, Clocked
    <3>2. CASE state # "GEN_STOP"
      BY <1>3, <3>2, TxTick, AckTick, RxTick, SendTick DEF Clocked
    <3>. QED
      BY <3>1, <3>2
  <2>3. scl_drive_low' <=> step \in {0, 3}
    BY <1>0, <1>1, <2>2 DEF SclInv
  <2>4. scl_drive_low <=> step < 2
    BY DEF SclInv
  <2>. QED
    BY <1>0, <1>3, <2>1, <2>2, <2>3, <2>4 DEF HalfAge
<1>. QED
  BY <1>2, <1>3

LEMMA HalfNat ==
  ASSUME IicTypes, TimingInv, state \in Clocked
  PROVE  HalfAge \in Nat /\ (step \in {1, 3} => HalfAge >= 2)
<1>1. Age \in Nat
  BY DEF TimingInv, Fresh, Clocked, Age
<1>. QED
  BY <1>1 DEF TimingInv, HalfAge

SclLag ==
  /\ state \in {"IDLE", "GEN_START"} => t_scl[1] = 1 /\ t_scl[2] = 1 /\ t_scl[3] = 1
  /\ state = "DONE" => t_scl[1] = 1 /\ t_scl[2] = 1
  /\ state \in Clocked =>
       /\ t_scl[1] = IF HalfAge < 1 THEN 1 - scl ELSE scl
       /\ t_scl[2] = IF HalfAge < 2 THEN 1 - scl ELSE scl
       /\ t_scl[3] = IF HalfAge < 3 THEN 1 - scl ELSE scl

\* The states that follow a state.
LEMMA NextStates ==
  ASSUME IicTypes, TimingInv, Edge
  PROVE  /\ state = "IDLE" => state' \in {"IDLE", "GEN_START"}
         /\ state = "DONE" => state' = "IDLE"
         /\ state = "GEN_START" => \/ state' = "GEN_START"
                                   \/ state' = "TX_BYTE" /\ qtr_tick /\ step = 2 /\ step' = 0
         /\ state \in Clocked => \/ state' \in Clocked
                                 \/ state = "GEN_STOP" /\ qtr_tick /\ step = 2 /\ state' = "DONE"
<1>1. CASE state = "IDLE"
  BY <1>1, IdleEdge DEF Clocked
<1>2. CASE state = "DONE"
  BY <1>2, DoneEdge DEF Clocked
<1>3. CASE state \notin {"IDLE", "DONE"} /\ ~qtr_tick
  BY <1>3, Waits
<1>4. CASE qtr_tick
  BY <1>4, Ticks, StartTick, TxTick, AckTick, RxTick, SendTick, StopTick
     DEF Clocked, AfterAck
<1>. QED
  BY <1>1, <1>2, <1>3, <1>4

LEMMA SclLagStep ==
  ASSUME IicTypes, TimingInv, SclInv, SclLag, Edge
  PROVE  SclLag'
<1>1. t_scl'[1] = scl /\ t_scl'[2] = t_scl[1] /\ t_scl'[3] = t_scl[2]
  BY DEF Edge, TargetEdge
<1>2. SclInv' /\ TimingInv' /\ IicTypes'
  BY TimingStep, TypesStep
<1>3. scl = IF scl_drive_low THEN 0 ELSE 1
  BY DEF scl
<1>4. scl' = IF scl_drive_low' THEN 0 ELSE 1
  BY DEF scl
<1>5. CASE state \in {"IDLE", "DONE"}
  BY <1>1, <1>3, <1>5, NextStates DEF SclLag, SclInv, Clocked
<1>6. CASE state = "GEN_START"
  <2>1. CASE state' = "GEN_START"
    BY <1>1, <1>3, <1>6, <2>1 DEF SclLag, SclInv, Clocked
  <2>2. CASE state' # "GEN_START"
    <3>1. state' = "TX_BYTE" /\ qtr_tick /\ step' = 0
      BY <1>6, <2>2, NextStates
    <3>2. HalfAge' = 0
      BY <3>1, Ticks DEF HalfAge
    <3>3. scl' = 0 /\ scl = 1
      BY <1>2, <1>3, <1>4, <1>6, <3>1 DEF SclInv, Clocked
    <3>. QED
      BY <1>1, <1>6, <3>1, <3>2, <3>3 DEF SclLag, Clocked
  <2>. QED
    BY <2>1, <2>2
<1>7. CASE state \in Clocked /\ state' \in Clocked
  <2>1. state' \notin {"IDLE", "GEN_START", "DONE"}
    BY <1>7 DEF Clocked
  <2>2. CASE qtr_tick /\ step \in {1, 3}
    BY <1>1, <1>3, <1>4, <1>7, <2>1, <2>2, HalfStep DEF SclLag
  <2>3. CASE ~(qtr_tick /\ step \in {1, 3})
    BY <1>1, <1>3, <1>4, <1>7, <2>1, <2>3, HalfStep DEF SclLag
  <2>. QED
    BY <2>2, <2>3
<1>8. CASE state \in Clocked /\ state' \notin Clocked
  <2>1. state = "GEN_STOP" /\ qtr_tick /\ step = 2 /\ state' = "DONE"
    BY <1>8, NextStates
  <2>2. HalfAge >= 1 /\ scl = 1
    <3>1. Age = clk_div_r - 1 /\ clk_div_r \in Nat /\ clk_div_r >= 2
      BY <2>1, Ticks DEF TimingInv
    <3>2. ~scl_drive_low
      BY <2>1 DEF SclInv
    <3>. QED
      BY <1>3, <2>1, <3>1, <3>2 DEF HalfAge
  <2>. QED
    BY <1>1, <1>8, <2>1, <2>2, HalfNat DEF SclLag, Clocked
<1>. QED
  BY <1>5, <1>6, <1>7, <1>8 DEF IicTypes, ControllerTypes
-----------------------------------------------------------------------------
\* The data line, as the target sees it.

\* The START is on the bus, and for how many clocks.
Starting == (state = "GEN_START" /\ step = 2) \/ First
Since    == IF First THEN clk_div_r + Age ELSE Age

SdaLag ==
  /\ state = "IDLE" => t_sda[1] = 1 /\ (t_sda[3] = 1 => t_sda[2] = 1)
  /\ state = "GEN_START" /\ step # 2 => t_sda[1] = 1 /\ t_sda[2] = 1 /\ (~Fresh => t_sda[3] = 1)
  /\ Starting => /\ t_sda[1] = IF Since < 1 THEN 1 ELSE 0
                 /\ t_sda[2] = IF Since < 2 THEN 1 ELSE 0
                 /\ t_sda[3] = IF Since < 3 THEN 1 ELSE 0
  /\ state \in Clocked /\ ~First /\ scl_drive_low =>
       (HalfAge < 2 => t_sda[2] = t_sda[3]) /\ (HalfAge < 1 => t_sda[1] = t_sda[2])
  /\ state \in Clocked /\ ~scl_drive_low =>
       t_sda[1] = sda /\ (HalfAge >= 1 => t_sda[2] = sda) /\ (HalfAge >= 2 => t_sda[3] = sda)
  /\ state = "DONE" => t_sda[1] = 0 /\ t_sda[2] = 0 /\ t_sda[3] = 0

\* The target drives SDA in three of its states only, and not while the
\* controller makes a START or rests.
DriveInv  == t_drive_low => t_state \in {"ADDR_ACK", "DATA_ACK", "TX_DATA"}
SilentInv == (state \in {"IDLE", "DONE", "GEN_START"} \/ First) => ~t_drive_low

LEMMA DriveStep ==
  ASSUME DriveInv, Edge
  PROVE  DriveInv'
<1>. USE DEF DriveInv
<1>1. CASE TargetStart
  BY <1>1 DEF TargetStart
<1>2. CASE TargetStop
  BY <1>2 DEF TargetStop
<1>3. CASE TargetSamples
  BY <1>3 DEF TargetSamples
<1>4. CASE TargetDrives
  BY <1>4 DEF TargetDrives
<1>5. CASE TargetQuiet
  BY <1>5 DEF TargetQuiet
<1>. QED
  BY <1>1, <1>2, <1>3, <1>4, <1>5 DEF Edge, TargetEdge

\* The target sees a START three clocks after SDA falls, an edge of SCL in
\* the third clock of a half, and a STOP when the controller is idle again.
LEMMA Events ==
  ASSUME IicTypes, TimingInv, SclInv, SclLag, SdaLag
  PROVE  /\ start_detect <=> Starting /\ Since = 2
         /\ stop_detect => state = "IDLE" \/ Fresh
         /\ scl_fall <=> state \in Clocked /\ scl_drive_low /\ HalfAge = 2
         /\ state \in Clocked => (scl_rise <=> ~scl_drive_low /\ HalfAge = 2)
         /\ state \in {"IDLE", "GEN_START"} => ~scl_rise
<1>0. /\ t_scl[1] \in Bit /\ t_scl[2] \in Bit /\ t_scl[3] \in Bit
      /\ t_sda[1] \in Bit /\ t_sda[2] \in Bit /\ t_sda[3] \in Bit
      /\ scl = IF scl_drive_low THEN 0 ELSE 1
  BY DEF IicTypes, TargetTypes, scl
<1>. USE DEF start_detect, stop_detect, scl_fall, scl_rise, Bit
<1>1. CASE state \in {"IDLE", "DONE"}
  BY <1>0, <1>1 DEF SclLag, SdaLag, Starting, First, Clocked
<1>2. CASE state = "GEN_START" /\ step # 2
  BY <1>0, <1>2 DEF SclLag, SdaLag, Starting, First, Clocked, Fresh
<1>3. CASE state = "GEN_START" /\ step = 2
  <2>1. Since = Age /\ Age \in Int /\ Starting /\ ~First /\ state \notin Clocked
    BY <1>3 DEF Since, Age, TimingInv, Starting, First, Clocked
  <2>. QED
    BY <1>0, <1>3, <2>1 DEF SclLag, SdaLag
<1>4. CASE First
  <2>1. /\ Since = clk_div_r + Age /\ HalfAge = Age /\ Age \in Nat /\ Starting /\ state \in Clocked
        /\ scl_drive_low /\ state # "IDLE" /\ ~Fresh /\ clk_div_r \in Nat /\ clk_div_r >= 2
    BY <1>4, HalfNat DEF Since, HalfAge, TimingInv, Starting, First, Clocked, SclInv, Fresh
  <2>. QED
    BY <1>0, <1>4, <2>1 DEF SclLag, SdaLag
<1>5. CASE state \in Clocked /\ ~First
  <2>1. HalfAge \in Nat /\ ~Starting /\ state \notin {"IDLE", "GEN_START", "DONE"}
    BY <1>5, HalfNat DEF Starting, Clocked
  <2>2. CASE scl_drive_low
    BY <1>0, <1>5, <2>1, <2>2 DEF SclLag, SdaLag
  <2>3. CASE ~scl_drive_low
    BY <1>0, <1>5, <2>1, <2>3 DEF SclLag, SdaLag
  <2>. QED
    BY <2>2, <2>3
<1>. QED
  BY <1>1, <1>2, <1>3, <1>4, <1>5 DEF IicTypes, ControllerTypes
LEMMA DriveKept ==
  ASSUME IicTypes, DriveInv, Edge, ~start_detect, ~stop_detect, ~scl_fall
  PROVE  t_drive_low' <=> t_drive_low
<1>1. TargetSamples \/ TargetQuiet
  BY DEF Edge, TargetEdge
<1>2. CASE TargetSamples
  BY <1>2 DEF TargetSamples
<1>3. CASE TargetQuiet
  <2>1. t_drive_low' <=> (t_drive_low /\ t_state \notin {"IDLE", "IGNORE"})
    BY <1>3, Zenon DEF TargetQuiet
  <2>. QED
    BY <2>1 DEF DriveInv
<1>. QED
  BY <1>1, <1>2, <1>3

LEMMA StartingStep ==
  ASSUME IicTypes, TimingInv, PhaseInv, Edge
  PROVE  /\ Starting => Since \in Nat
         /\ Starting' => \/ Starting /\ Since' = Since + 1
                         \/ state = "GEN_START" /\ step = 1 /\ Since' = 0
         /\ First' => Starting
         /\ Starting /\ ~Starting' => Since >= 3 /\ First /\ state' = "TX_BYTE" /\ step' = 1
         /\ state' = "GEN_START" /\ step' # 2 => state \in {"IDLE", "GEN_START"} /\ ~Starting
<1>0. /\ clk_div_r \in Nat /\ clk_div_r >= 2 /\ NBits >= 2 /\ NBits \in Nat
      /\ bit_cnt \in 0 .. NBits - 1
  BY ConstantTypes DEF TimingInv, IicTypes, ControllerTypes
<1>. USE DEF Starting, First, Since
<1>1. CASE state \in {"IDLE", "DONE"}
  BY <1>1, IdleEdge, DoneEdge
<1>2. CASE state \notin {"IDLE", "DONE"} /\ ~qtr_tick
  <2>1. /\ Age' = Age + 1 /\ clk_div_r' = clk_div_r
        /\ UNCHANGED << state, byte_phase, step, bit_cnt >>
    BY <1>2, Waits
  <2>2. ~Fresh => Age \in Nat
    BY <1>2, Waits DEF TimingInv, Age
  <2>3. Starting => Age \in Nat
    BY <2>2 DEF TimingInv, Fresh
  <2>. QED
    BY <1>0, <1>2, <2>1, <2>3 DEF TimingInv
<1>3. CASE qtr_tick
  <2>1. Age = clk_div_r - 1 /\ Age' = 0 /\ clk_div_r' = clk_div_r
    BY <1>3, Ticks
  <2>2. CASE state = "GEN_START"
    BY <1>0, <1>3, <2>1, <2>2, StartTick DEF TimingInv, PhaseInv
  <2>3. CASE state = "TX_BYTE"
    <3>1. ~First'
      BY <1>0, <1>3, <2>3, TxTick DEF TimingInv, Clocked
    <3>2. First => Since >= 3 /\ state' = "TX_BYTE" /\ step' = 1
      BY <1>0, <1>3, <2>1, <2>3, TxTick
    <3>3. state' # "GEN_START"
      BY <2>3, NextStates DEF Clocked
    <3>. QED
      BY <1>0, <2>1, <2>3, <3>1, <3>2, <3>3
  <2>4. CASE state \in Clocked /\ state # "TX_BYTE"
    <3>1. state' # "GEN_START"
      BY <2>4, NextStates DEF Clocked
    <3>2. ~First'
      BY <1>3, <2>4, AckTick, RxTick, SendTick, StopTick DEF Clocked, AfterAck
    <3>. QED
      BY <2>4, <3>1, <3>2 DEF Clocked
  <2>. QED
    BY <1>3, <2>2, <2>3, <2>4, Ticks DEF IicTypes, ControllerTypes, Clocked
<1>. QED
  BY <1>1, <1>2, <1>3

\* While SCL stays high, and when it rises, SDA is what it was.
LEMMA SdaKept ==
  ASSUME IicTypes, TimingInv, SclInv, SdaInv, Edge, state \in Clocked, state' \in Clocked,
         ~scl_drive_low', t_drive_low' <=> t_drive_low
  PROVE  sda' = sda
<1>0. step \in 0 .. 3 /\ (state = "GEN_STOP" => step \in 0 .. 2)
  BY DEF TimingInv
<1>. SUFFICES sda_drive_low' <=> sda_drive_low
  BY DEF sda
<1>1. CASE ~qtr_tick
  <2>1. sda_drive_low' = sda_drive_low
    BY <1>1, Waits DEF Clocked
  <2>. QED
    BY <2>1
<1>2. CASE qtr_tick /\ state = "TX_BYTE"
  BY <1>0, <1>2, TxTick DEF SclInv, Clocked
<1>3. CASE qtr_tick /\ state = "WAIT_ACK"
  BY <1>0, <1>3, AckTick DEF SclInv, Clocked
<1>4. CASE qtr_tick /\ state = "RX_BYTE"
  BY <1>0, <1>4, RxTick DEF SclInv, Clocked
<1>5. CASE qtr_tick /\ state = "SEND_ACK"
  BY <1>0, <1>5, SendTick DEF SclInv, Clocked
<1>6. CASE qtr_tick /\ state = "GEN_STOP"
  BY <1>0, <1>6, StopTick DEF SdaInv, Clocked
<1>. QED
  BY <1>1, <1>2, <1>3, <1>4, <1>5, <1>6 DEF Clocked
LEMMA SdaLagStep ==
  ASSUME IicTypes, TimingInv, SclInv, SclLag, PhaseInv, SdaInv, SdaLag, DriveInv, SilentInv, Edge
  PROVE  SdaLag'
<1>1. t_sda'[1] = sda /\ t_sda'[2] = t_sda[1] /\ t_sda'[3] = t_sda[2]
  BY DEF Edge, TargetEdge
<1>2. SclInv' /\ TimingInv' /\ IicTypes' /\ SdaInv'
  BY TimingStep, TypesStep, SdaStep
<1>3. sda = IF sda_drive_low \/ t_drive_low THEN 0 ELSE 1
  BY DEF sda
<1>4. state' = "IDLE" => t_sda'[1] = 1 /\ (t_sda'[3] = 1 => t_sda'[2] = 1)
  <2>1. state' = "IDLE" => state \in {"IDLE", "DONE"}
    BY NextStates DEF Clocked, IicTypes, ControllerTypes
  <2>. QED
    BY <1>1, <1>3, <2>1 DEF SdaInv, SilentInv, SdaLag
<1>5. state' = "GEN_START" /\ step' # 2 => t_sda'[1] = 1 /\ t_sda'[2] = 1 /\ (~Fresh' => t_sda'[3] = 1)
  <2>. SUFFICES ASSUME state' = "GEN_START", step' # 2
                PROVE  t_sda'[1] = 1 /\ t_sda'[2] = 1 /\ (~Fresh' => t_sda'[3] = 1)
    OBVIOUS
  <2>1. state \in {"IDLE", "GEN_START"} /\ ~Starting
    BY StartingStep
  <2>2. CASE state = "IDLE"
    <3>1. Fresh'
      BY <2>2, IdleEdge DEF Fresh
    <3>. QED
      BY <1>1, <1>3, <2>2, <3>1 DEF SdaInv, SilentInv, SdaLag
  <2>3. CASE state = "GEN_START"
    BY <1>1, <1>3, <2>1, <2>3 DEF SdaInv, SilentInv, SdaLag, Starting
  <2>. QED
    BY <2>1, <2>2, <2>3
<1>6. Starting' => /\ t_sda'[1] = IF Since' < 1 THEN 1 ELSE 0
                   /\ t_sda'[2] = IF Since' < 2 THEN 1 ELSE 0
                   /\ t_sda'[3] = IF Since' < 3 THEN 1 ELSE 0
  <2>. SUFFICES ASSUME Starting'
                PROVE  /\ t_sda'[1] = IF Since' < 1 THEN 1 ELSE 0
                       /\ t_sda'[2] = IF Since' < 2 THEN 1 ELSE 0
                       /\ t_sda'[3] = IF Since' < 3 THEN 1 ELSE 0
    OBVIOUS
  <2>1. CASE Starting /\ Since' = Since + 1
    <3>1. Since \in Nat
      BY <2>1, StartingStep
    <3>2. sda = 0
      BY <1>3, <2>1 DEF SdaInv, Starting
    <3>. QED
      BY <1>1, <2>1, <3>1, <3>2 DEF SdaLag
  <2>2. CASE state = "GEN_START" /\ step = 1 /\ Since' = 0
    <3>1. ~Fresh
      BY <2>2 DEF TimingInv
    <3>. QED
      BY <1>1, <1>3, <2>2, <3>1 DEF SdaInv, SilentInv, SdaLag
  <2>. QED
    BY <2>1, <2>2, StartingStep
<1>7. state' \in Clocked /\ state \in Clocked =>
        /\ HalfAge \in Nat
        /\ \/ HalfAge' = HalfAge + 1 /\ (scl_drive_low' <=> scl_drive_low)
           \/ HalfAge' = 0 /\ HalfAge >= 3 /\ (scl_drive_low' <=> ~scl_drive_low)
  <2>1. CASE qtr_tick /\ step \in {1, 3}
    BY <2>1, HalfStep, HalfNat
  <2>2. CASE ~(qtr_tick /\ step \in {1, 3})
    BY <2>2, HalfStep
  <2>. QED
    BY <2>1, <2>2
<1>8. state' \in Clocked /\ ~First' /\ scl_drive_low' =>
        (HalfAge' < 2 => t_sda'[2] = t_sda'[3]) /\ (HalfAge' < 1 => t_sda'[1] = t_sda'[2])
  <2>. SUFFICES ASSUME state' \in Clocked, ~First', scl_drive_low'
                PROVE  (HalfAge' < 2 => t_sda'[2] = t_sda'[3]) /\ (HalfAge' < 1 => t_sda'[1] = t_sda'[2])
    OBVIOUS
  <2>1. CASE state \in Clocked
    <3>1. CASE First
      <4>1. HalfAge' >= 2
        <5>1. Starting /\ ~Starting'
          BY <2>1, <3>1 DEF Starting, Clocked
        <5>2. step' = 1 /\ state' = "TX_BYTE"
          BY <5>1, StartingStep
        <5>3. qtr_tick
          BY <2>1, <3>1, <5>2, Waits DEF First, Clocked
        <5>4. Age' = 0 /\ clk_div_r' = clk_div_r /\ clk_div_r >= 2 /\ clk_div_r \in Nat
          BY <5>3, Ticks DEF TimingInv
        <5>. QED
          BY <5>2, <5>4 DEF HalfAge
      <4>. QED
        BY <1>7, <2>1, <4>1
    <3>2. CASE ~First
      BY <1>1, <1>7, <2>1, <3>2 DEF SdaLag
    <3>. QED
      BY <3>1, <3>2
  <2>2. CASE state \notin Clocked
    <3>1. state = "GEN_START" /\ state' = "TX_BYTE" /\ step = 2 /\ step' = 0 /\ qtr_tick
      BY <2>2, NextStates DEF Clocked, IicTypes, ControllerTypes
    <3>2. First'
      BY <3>1, StartTick DEF First, PhaseInv
    <3>. QED
      BY <3>2
  <2>. QED
    BY <2>1, <2>2
<1>9. state' \in Clocked /\ ~scl_drive_low' =>
        t_sda'[1] = sda' /\ (HalfAge' >= 1 => t_sda'[2] = sda') /\ (HalfAge' >= 2 => t_sda'[3] = sda')
  <2>. SUFFICES ASSUME state' \in Clocked, ~scl_drive_low'
                PROVE  t_sda'[1] = sda' /\ (HalfAge' >= 1 => t_sda'[2] = sda') /\ (HalfAge' >= 2 => t_sda'[3] = sda')
    OBVIOUS
  <2>1. state \in Clocked
    <3>1. state \notin Clocked => state' = "TX_BYTE" /\ step' = 0
      BY NextStates DEF Clocked, IicTypes, ControllerTypes
    <3>. QED
      BY <1>2, <3>1 DEF SclInv
  <2>2. ~(scl_drive_low /\ HalfAge = 2) /\ ~First
    <3>1. First => step' \in {0, 1} /\ state' = "TX_BYTE"
      <4>1. CASE qtr_tick
        BY <4>1, TxTick DEF First
      <4>2. CASE ~qtr_tick
        BY <4>2, Waits DEF First
      <4>. QED
        BY <4>1, <4>2
    <3>. QED
      BY <1>2, <1>7, <2>1, <3>1 DEF SclInv
  <2>3. t_drive_low' <=> t_drive_low
    BY <2>1, <2>2, Events, DriveKept DEF Starting, Clocked, Fresh
  <2>4. sda' = sda
    BY <2>1, <2>3, SdaKept
  <2>. QED
    BY <1>1, <1>7, <2>1, <2>4 DEF SdaLag
<1>10. state' = "DONE" => t_sda'[1] = 0 /\ t_sda'[2] = 0 /\ t_sda'[3] = 0
  <2>. SUFFICES ASSUME state' = "DONE" PROVE t_sda'[1] = 0 /\ t_sda'[2] = 0 /\ t_sda'[3] = 0
    OBVIOUS
  <2>1. state = "GEN_STOP" /\ qtr_tick /\ step = 2
    BY NextStates DEF Clocked, IicTypes, ControllerTypes
  <2>2. HalfAge >= 1 /\ HalfAge \in Nat /\ ~scl_drive_low /\ state \in Clocked
    <3>1. Age = clk_div_r - 1 /\ clk_div_r \in Nat /\ clk_div_r >= 2
      BY <2>1, Ticks DEF TimingInv
    <3>2. ~scl_drive_low /\ state \in Clocked
      BY <2>1 DEF SclInv, Clocked
    <3>. QED
      BY <2>1, <3>1, <3>2 DEF HalfAge
  <2>3. sda = 0
    BY <1>3, <2>1 DEF SdaInv
  <2>. QED
    BY <1>1, <2>2, <2>3 DEF SdaLag
<1>. QED
  BY <1>4, <1>5, <1>6, <1>8, <1>9, <1>10 DEF SdaLag
-----------------------------------------------------------------------------
\* The target, as a function of the controller.

\* The last edge of SCL has reached the target.
FallSeen == scl_drive_low => HalfAge >= 3
RiseSeen == state \in Clocked /\ ~scl_drive_low /\ HalfAge >= 3

Present == asked.addr = OwnAddr

\* Bits of the byte the target has taken in, and the place of the one it
\* sends.
Taken   == IF RiseSeen THEN bit_cnt + 1 ELSE bit_cnt
Sending == IF state = "SEND_ACK" THEN NBits - 1 ELSE IF FallSeen THEN bit_cnt ELSE bit_cnt - 1

Receives(byte) ==
  /\ t_cnt = Taken /\ ~t_drive_low /\ ~t_ack_active /\ ~t_rx_valid
  /\ \A j \in 1 .. Taken : t_shift[NBits - Taken + j] = byte[j]

ReceivesAddr == t_state = "RX_ADDR" /\ Receives(AddrByte)
ReceivesData == t_state = "RX_DATA" /\ Receives(sent)

AcksAddr(active) ==
  /\ t_state = "ADDR_ACK" /\ (t_ack_active <=> active) /\ (t_drive_low <=> active)
  /\ (t_rw <=> asked.rw) /\ ~t_rx_valid

AcksData(active) ==
  /\ t_state = "DATA_ACK" /\ (t_ack_active <=> active) /\ (t_drive_low <=> active /\ ack_data)
  /\ t_rx_valid /\ t_rx_data = sent

Sends ==
  /\ t_state = "TX_DATA" /\ t_cnt = Sending /\ (t_drive_low <=> answer[Sending + 1] = 0)
  /\ \A i \in 1 .. NBits - Sending : t_shift[i] = answer[Sending + i]
  /\ ~t_rx_valid

Waiting == t_state = "WAIT_ACK" /\ ~t_drive_low /\ ~t_rx_valid

Ignoring ==
  /\ t_state = "IGNORE" /\ ~t_drive_low
  /\ (t_rx_valid <=> Present /\ ~asked.rw) /\ (t_rx_valid => t_rx_data = sent)

TxAddrInv == state = "TX_BYTE" /\ byte_phase = "ADDR" /\ ~Starting =>
  IF Taken < NBits THEN ReceivesAddr ELSE IF Present THEN AcksAddr(FALSE) ELSE Ignoring

AckAddrInv == state = "WAIT_ACK" /\ byte_phase = "ADDR" =>
  IF ~Present THEN Ignoring ELSE IF FallSeen THEN AcksAddr(TRUE) ELSE AcksAddr(FALSE)

TxDataInv == state = "TX_BYTE" /\ byte_phase = "DATA" =>
  IF ~Present THEN Ignoring
  ELSE IF bit_cnt = 0 /\ ~FallSeen THEN AcksAddr(TRUE)
  ELSE IF Taken < NBits THEN ReceivesData ELSE AcksData(FALSE)

AckDataInv == state = "WAIT_ACK" /\ byte_phase = "DATA" =>
  IF ~Present THEN Ignoring ELSE IF FallSeen THEN AcksData(TRUE) ELSE AcksData(FALSE)

RxInv == state = "RX_BYTE" =>
  IF ~Present THEN Ignoring ELSE IF bit_cnt = 0 /\ ~FallSeen THEN AcksAddr(TRUE) ELSE Sends

SendInv == state = "SEND_ACK" =>
  IF ~Present THEN Ignoring ELSE IF FallSeen THEN Waiting ELSE Sends

StopInv == state = "GEN_STOP" =>
  IF ~Present \/ FallSeen THEN Ignoring ELSE IF asked.rw THEN Waiting ELSE AcksData(TRUE)

TargetInv ==
  /\ SilentInv
  /\ Starting /\ Since >= 3 => ReceivesAddr
  /\ TxAddrInv /\ AckAddrInv /\ TxDataInv /\ AckDataInv /\ RxInv /\ SendInv /\ StopInv
  /\ state = "DONE" => Ignoring

\* What is known of the controller and of the lines.
LineInv == TimingInv /\ SclInv /\ SclLag /\ PhaseInv /\ SdaInv /\ SdaLag /\ DriveInv
-----------------------------------------------------------------------------
\* What the target does at an edge.

TargetSame ==
  /\ UNCHANGED << t_state, t_shift, t_cnt, t_rw, t_ack_active, t_rx_data, t_rx_valid >>
  /\ (t_drive_low' <=> t_drive_low)

LEMMA Keeps ==
  ASSUME IicTypes, DriveInv, Edge, ~start_detect, ~stop_detect,
         scl_rise => t_state \notin {"RX_ADDR", "RX_DATA"},
         scl_fall => t_state \notin {"ADDR_ACK", "DATA_ACK", "TX_DATA", "WAIT_ACK"}
  PROVE  TargetSame
<1>1. TargetQuiet
  BY DEF Edge, TargetEdge
<1>2. t_drive_low' <=> (t_drive_low /\ t_state \notin {"IDLE", "IGNORE"})
  BY <1>1, Zenon DEF TargetQuiet
<1>. QED
  BY <1>1, <1>2 DEF TargetQuiet, DriveInv, TargetSame

LEMMA LetsGo ==
  ASSUME IicTypes, Edge, ~scl_fall, ~t_drive_low
  PROVE  ~t_drive_low'
<1>1. TargetStart \/ TargetStop \/ TargetSamples \/ TargetQuiet
  BY DEF Edge, TargetEdge
<1>2. CASE TargetQuiet
  <2>1. t_drive_low' <=> (t_drive_low /\ t_state \notin {"IDLE", "IGNORE"})
    BY <1>2, Zenon DEF TargetQuiet
  <2>. QED
    BY <2>1
<1>. QED
  BY <1>1, <1>2 DEF TargetStart, TargetStop, TargetSamples

\* A quarter with an event in it: the half goes on.
LEMMA EventStep ==
  ASSUME IicTypes, LineInv, Edge, state \in Clocked, state' \in Clocked, HalfAge = 2
  PROVE  /\ UNCHANGED << state, byte_phase, bit_cnt, asked, sent, answer, ack_data >>
         /\ (scl_drive_low' <=> scl_drive_low) /\ HalfAge' = 3
<1>0. /\ step \in 0 .. 3 /\ clk_div_r \in Nat /\ clk_div_r >= 2
      /\ ~(qtr_tick /\ step \in {1, 3})
  BY HalfStep DEF LineInv, TimingInv
<1>1. HalfAge' = 3 /\ (scl_drive_low' <=> scl_drive_low)
  BY <1>0, HalfStep DEF LineInv
<1>2. UNCHANGED << state, byte_phase, bit_cnt >>
  <2>1. CASE ~qtr_tick
    BY <2>1, Waits DEF LineInv, Clocked
  <2>2. CASE qtr_tick
    BY <1>0, <2>2, TxTick, AckTick, RxTick, SendTick, StopTick DEF LineInv, Clocked
  <2>. QED
    BY <2>1, <2>2
<1>3. UNCHANGED << asked, sent, answer, ack_data >>
  BY <1>2, HistoryKept DEF Clocked
<1>. QED
  BY <1>1, <1>2, <1>3

\* A quarter without an event, that does not end a bit.
LEMMA NoEventStep ==
  ASSUME IicTypes, LineInv, Edge, state \in Clocked, state' \in Clocked, HalfAge # 2,
         ~(qtr_tick /\ step = 3)
  PROVE  /\ UNCHANGED << state, byte_phase, bit_cnt, asked, sent, answer, ack_data >>
         /\ (FallSeen' <=> FallSeen) /\ (RiseSeen' <=> RiseSeen)
<1>0. step \in 0 .. 3 /\ clk_div_r \in Nat /\ clk_div_r >= 2
  BY DEF LineInv, TimingInv
<1>2. UNCHANGED << state, byte_phase, bit_cnt >>
  <2>1. CASE ~qtr_tick
    BY <2>1, Waits DEF LineInv, Clocked
  <2>2. CASE qtr_tick
    BY <1>0, <2>2, TxTick, AckTick, RxTick, SendTick, StopTick DEF LineInv, Clocked
  <2>. QED
    BY <2>1, <2>2
<1>3. UNCHANGED << asked, sent, answer, ack_data >>
  BY <1>2, HistoryKept DEF Clocked
<1>4. (FallSeen' <=> FallSeen) /\ (RiseSeen' <=> RiseSeen)
  <2>1. CASE qtr_tick /\ step \in {1, 3}
    <3>1. HalfAge \in Int /\ HalfAge >= 3 /\ HalfAge' = 0 /\ (scl_drive_low' <=> ~scl_drive_low)
      BY <2>1, HalfStep DEF LineInv
    <3>2. scl_drive_low
      BY <2>1 DEF LineInv, SclInv
    <3>. QED
      BY <3>1, <3>2 DEF FallSeen, RiseSeen
  <2>2. CASE ~(qtr_tick /\ step \in {1, 3})
    <3>1. HalfAge \in Nat /\ HalfAge' = HalfAge + 1 /\ (scl_drive_low' <=> scl_drive_low)
      BY <2>2, HalfStep DEF LineInv
    <3>. QED
      BY <1>2, <3>1 DEF FallSeen, RiseSeen
  <2>. QED
    BY <2>1, <2>2
<1>. QED
  BY <1>2, <1>3, <1>4

\* The end of a bit.
LEMMA BitEnds ==
  ASSUME IicTypes, LineInv, Edge, state \in Clocked, qtr_tick, step = 3
  PROVE  /\ state \in {"TX_BYTE", "WAIT_ACK", "RX_BYTE", "SEND_ACK"} /\ state' \in Clocked /\ step' = 0
         /\ FallSeen /\ RiseSeen /\ ~FallSeen' /\ ~RiseSeen' /\ HalfAge >= 3 /\ HalfAge \in Nat
         /\ HalfAge' = 0 /\ ~scl_drive_low /\ scl_drive_low' /\ ~First /\ ~First'
<1>0. TimingInv' /\ IicTypes' /\ SclInv'
  BY TimingStep, TypesStep DEF LineInv
<1>1. state # "GEN_STOP" /\ state \notin {"IDLE", "DONE"}
  BY DEF LineInv, TimingInv, Clocked
<1>2. state' \in Clocked /\ step' = 0
  BY <1>1, TxTick, AckTick, RxTick, SendTick DEF LineInv, AfterAck, Clocked
<1>3. HalfAge \in Nat /\ HalfAge >= 3 /\ HalfAge' = 0 /\ (scl_drive_low' <=> ~scl_drive_low)
  BY <1>2, HalfStep DEF LineInv
<1>4. ~scl_drive_low
  BY DEF LineInv, SclInv
<1>5. ~First'
  BY StartingStep DEF LineInv, Starting, First, Clocked
<1>. QED
  BY <1>1, <1>2, <1>3, <1>4, <1>5 DEF Clocked, FallSeen, RiseSeen, First

\* What is said of the target stays true while neither side moves.
LEMMA ShapesKept ==
  ASSUME TargetSame,
         UNCHANGED << state, byte_phase, bit_cnt, asked, sent, answer, ack_data >>,
         FallSeen' <=> FallSeen, RiseSeen' <=> RiseSeen
  PROVE  /\ Taken' = Taken /\ (Present' <=> Present)
         /\ ReceivesAddr => ReceivesAddr'
         /\ ReceivesData => ReceivesData'
         /\ \A a \in BOOLEAN : (AcksAddr(a) => AcksAddr(a)') /\ (AcksData(a) => AcksData(a)')
         /\ Sends => Sends'
         /\ Waiting => Waiting'
         /\ Ignoring => Ignoring'
<1>1. /\ Taken' = Taken /\ Sending' = Sending /\ AddrByte' = AddrByte /\ (Present' <=> Present)
  BY DEF Taken, Sending, AddrByte, Present
<1>2. (ReceivesAddr => ReceivesAddr') /\ (ReceivesData => ReceivesData')
  BY <1>1 DEF TargetSame, ReceivesAddr, ReceivesData, Receives
<1>3. \A a \in BOOLEAN : (AcksAddr(a) => AcksAddr(a)') /\ (AcksData(a) => AcksData(a)')
  BY <1>1 DEF TargetSame, AcksAddr, AcksData
<1>4. Sends => Sends'
  BY <1>1 DEF TargetSame, Sends
<1>5. (Waiting => Waiting') /\ (Ignoring => Ignoring')
  BY <1>1 DEF TargetSame, Waiting, Ignoring
<1>. QED
  BY <1>1, <1>2, <1>3, <1>4, <1>5

\* The parts of TargetInv that speak of the clocked states.
ShapeInv == TxAddrInv /\ AckAddrInv /\ TxDataInv /\ AckDataInv /\ RxInv /\ SendInv /\ StopInv

LEMMA NoEventShape ==
  ASSUME IicTypes, LineInv, TargetInv, Edge, state \in Clocked, state' \in Clocked, HalfAge # 2,
         ~(qtr_tick /\ step = 3), ~(Starting /\ Since < 3)
  PROVE  ShapeInv' /\ TargetSame
<1>0. /\ UNCHANGED << state, byte_phase, bit_cnt, asked, sent, answer, ack_data >>
      /\ (FallSeen' <=> FallSeen) /\ (RiseSeen' <=> RiseSeen)
  BY NoEventStep
<1>1. TargetSame
  <2>1. ~start_detect /\ ~stop_detect /\ ~scl_rise /\ ~scl_fall
    <3>1. Starting => Since \in Nat
      BY StartingStep DEF LineInv
    <3>. QED
      BY <3>1, Events DEF LineInv, Clocked, Fresh
  <2>. QED
    BY <2>1, Keeps DEF LineInv
<1>2. /\ Taken' = Taken /\ (Present' <=> Present) /\ asked' = asked /\ state' = state
      /\ byte_phase' = byte_phase /\ bit_cnt' = bit_cnt
      /\ (FallSeen' <=> FallSeen)
      /\ ReceivesAddr => ReceivesAddr'
      /\ ReceivesData => ReceivesData'
      /\ (AcksAddr(TRUE) => AcksAddr(TRUE)') /\ (AcksData(TRUE) => AcksData(TRUE)')
      /\ (AcksAddr(FALSE) => AcksAddr(FALSE)') /\ (AcksData(FALSE) => AcksData(FALSE)')
      /\ Sends => Sends'
      /\ Waiting => Waiting'
      /\ Ignoring => Ignoring'
  BY <1>0, <1>1, ShapesKept
<1>3. TxAddrInv'
  <2>1. CASE Starting
    <3>1. Taken = 0 /\ 0 < NBits /\ ReceivesAddr
      <4>1. RiseSeen => step >= 2
        BY DEF RiseSeen, LineInv, SclInv, TimingInv
      <4>2. ReceivesAddr
        BY <2>1, StartingStep DEF TargetInv, LineInv
      <4>. QED
        BY <2>1, <4>1, <4>2, ConstantTypes DEF Taken, Starting, First, Clocked
    <3>. QED
      BY <1>2, <3>1 DEF TxAddrInv
  <2>2. CASE ~Starting
    BY <1>2, <2>2 DEF TargetInv, TxAddrInv
  <2>. QED
    BY <2>1, <2>2
<1>4. AckAddrInv' /\ TxDataInv'
  BY <1>2 DEF TargetInv, AckAddrInv, TxDataInv
<1>5. AckDataInv' /\ RxInv' /\ SendInv'
  BY <1>2 DEF TargetInv, AckDataInv, RxInv, SendInv
<1>6. StopInv'
  BY <1>2 DEF TargetInv, StopInv
<1>. QED
  BY <1>1, <1>3, <1>4, <1>5, <1>6 DEF ShapeInv

LEMMA BitEndsShape ==
  ASSUME IicTypes, LineInv, TargetInv, Edge, state \in Clocked, qtr_tick, step = 3
  PROVE  ShapeInv' /\ TargetSame
<1>0. /\ state \in {"TX_BYTE", "WAIT_ACK", "RX_BYTE", "SEND_ACK"} /\ state' \in Clocked
      /\ FallSeen /\ RiseSeen /\ ~FallSeen' /\ ~RiseSeen' /\ ~First /\ ~First'
      /\ ~Starting /\ ~Starting' /\ HalfAge # 2
  BY BitEnds DEF Starting, Clocked
<1>1. TargetSame
  <2>1. ~start_detect /\ ~stop_detect /\ ~scl_rise /\ ~scl_fall
    BY <1>0, Events DEF LineInv, Clocked, Fresh
  <2>. QED
    BY <2>1, Keeps DEF LineInv
<1>2. UNCHANGED << asked, answer, ack_data >> /\ (Present' <=> Present) /\ AddrByte' = AddrByte
  BY <1>0, HistoryKept DEF Present, AddrByte
<1>3. /\ NBits \in Nat /\ NBits >= 2 /\ bit_cnt \in 0 .. NBits - 1
      /\ Taken = bit_cnt + 1 /\ Taken' = bit_cnt'
  BY <1>0, ConstantTypes DEF Taken, IicTypes, ControllerTypes
<1>4. /\ AcksAddr(TRUE) => AcksAddr(TRUE)'
      /\ AcksAddr(FALSE) => AcksAddr(FALSE)'
      /\ Waiting => Waiting'
  BY <1>1, <1>2 DEF AcksAddr, Waiting, TargetSame
<1>5. /\ (sent' = sent \/ ~Present) => (Ignoring => Ignoring')
      /\ sent' = sent => (AcksData(TRUE) => AcksData(TRUE)') /\ (AcksData(FALSE) => AcksData(FALSE)')
  BY <1>1, <1>2 DEF AcksData, Ignoring, TargetSame
<1>. SUFFICES ShapeInv'
  BY <1>1
<1>6. CASE state = "TX_BYTE"
  <2>0. byte_phase' = byte_phase /\ sent' = sent
    BY <1>6, TxTick, HistoryKept DEF LineInv
  <2>1. CASE bit_cnt = NBits - 1
    <3>1. state' = "WAIT_ACK" /\ bit_cnt' = 0 /\ ~(Taken < NBits)
      BY <1>3, <1>6, <2>1, TxTick DEF LineInv
    <3>2. AckAddrInv' /\ AckDataInv'
      BY <1>0, <1>2, <1>3, <1>4, <1>5, <1>6, <2>0, <3>1
         DEF TargetInv, TxAddrInv, TxDataInv, AckAddrInv, AckDataInv
    <3>. QED
      BY <3>1, <3>2 DEF ShapeInv, TxAddrInv, TxDataInv, RxInv, SendInv, StopInv
  <2>2. CASE bit_cnt < NBits - 1
    <3>1. state' = "TX_BYTE" /\ bit_cnt' = bit_cnt + 1 /\ Taken' = Taken /\ Taken < NBits
      BY <1>3, <1>6, <2>2, TxTick DEF LineInv
    <3>2. (ReceivesAddr => ReceivesAddr') /\ (ReceivesData => ReceivesData')
      BY <1>1, <1>2, <2>0, <3>1 DEF ReceivesAddr, ReceivesData, Receives, TargetSame
    <3>3. bit_cnt + 1 # 0 /\ Taken' < NBits
      BY <1>3, <3>1
    <3>4. TxAddrInv'
      BY <1>0, <1>6, <2>0, <3>1, <3>2, <3>3 DEF TargetInv, TxAddrInv
    <3>5. byte_phase = "DATA" => IF ~Present THEN Ignoring ELSE ReceivesData
      BY <1>0, <1>6, <3>1 DEF TargetInv, TxDataInv
    <3>6. TxDataInv'
      BY <1>0, <1>2, <1>5, <2>0, <3>1, <3>2, <3>3, <3>5 DEF TxDataInv
    <3>. QED
      BY <3>1, <3>4, <3>6 DEF ShapeInv, AckAddrInv, AckDataInv, RxInv, SendInv, StopInv
  <2>. QED
    BY <1>3, <2>1, <2>2
<1>7. CASE state = "WAIT_ACK"
  <2>0. bit_cnt' = 0 /\ AfterAck /\ (rw_r <=> asked.rw) /\ (state' # "TX_BYTE" => sent' = sent)
    BY <1>7, AckTick, HistoryKept DEF LineInv, PhaseInv
  <2>1. CASE byte_phase = "ADDR" /\ ~asked.rw
    <3>1. state' = "TX_BYTE" /\ byte_phase' = "DATA"
      BY <2>0, <2>1 DEF AfterAck
    <3>2. TxDataInv'
      BY <1>0, <1>2, <1>4, <1>5, <1>7, <2>0, <2>1, <3>1 DEF TargetInv, AckAddrInv, TxDataInv
    <3>. QED
      BY <3>1, <3>2 DEF ShapeInv, TxAddrInv, AckAddrInv, AckDataInv, RxInv, SendInv, StopInv
  <2>2. CASE byte_phase = "ADDR" /\ asked.rw
    <3>1. state' = "RX_BYTE"
      BY <2>0, <2>2 DEF AfterAck
    <3>2. RxInv'
      BY <1>0, <1>2, <1>4, <1>5, <1>7, <2>0, <2>2, <3>1 DEF TargetInv, AckAddrInv, RxInv
    <3>. QED
      BY <3>1, <3>2 DEF ShapeInv, TxAddrInv, AckAddrInv, TxDataInv, AckDataInv, SendInv, StopInv
  <2>3. CASE byte_phase = "DATA"
    <3>1. state' = "GEN_STOP" /\ ~asked.rw
      BY <1>7, <2>0, <2>3 DEF AfterAck, LineInv, PhaseInv
    <3>2. StopInv'
      BY <1>0, <1>2, <1>5, <1>7, <2>0, <2>3, <3>1 DEF TargetInv, AckDataInv, StopInv
    <3>. QED
      BY <3>1, <3>2 DEF ShapeInv, TxAddrInv, AckAddrInv, TxDataInv, AckDataInv, SendInv, RxInv
  <2>. QED
    BY <2>1, <2>2, <2>3 DEF IicTypes, ControllerTypes
<1>8. CASE state = "RX_BYTE"
  <2>0. sent' = sent /\ Sending = bit_cnt
    BY <1>0, <1>8, HistoryKept DEF Sending
  <2>1. Sending' = Sending
    BY <1>0, <1>3, <1>8, <2>0, RxTick DEF LineInv, Sending
  <2>2. Sends => Sends'
    BY <1>1, <1>2, <2>1 DEF Sends, TargetSame
  <2>3. IF bit_cnt = NBits - 1 THEN state' = "SEND_ACK" ELSE state' = "RX_BYTE" /\ bit_cnt' = bit_cnt + 1
    BY <1>8, RxTick DEF LineInv
  <2>4. bit_cnt + 1 # 0
    BY <1>3
  <2>5. IF ~Present THEN Ignoring' ELSE Sends'
    BY <1>0, <1>5, <1>8, <2>0, <2>2 DEF TargetInv, RxInv
  <2>6. RxInv' /\ SendInv'
    BY <1>0, <1>2, <2>3, <2>4, <2>5 DEF RxInv, SendInv
  <2>. QED
    BY <2>3, <2>6 DEF ShapeInv, TxAddrInv, AckAddrInv, TxDataInv, AckDataInv, StopInv
<1>9. CASE state = "SEND_ACK"
  <2>0. sent' = sent /\ state' = "GEN_STOP" /\ asked.rw
    BY <1>9, SendTick, HistoryKept DEF LineInv, PhaseInv
  <2>1. StopInv'
    BY <1>0, <1>2, <1>4, <1>5, <1>9, <2>0 DEF TargetInv, SendInv, StopInv
  <2>. QED
    BY <2>0, <2>1 DEF ShapeInv, TxAddrInv, AckAddrInv, TxDataInv, AckDataInv, RxInv, SendInv
<1>. QED
  BY <1>0, <1>6, <1>7, <1>8, <1>9

\* A falling SCL reaches the target.
LEMMA Drives ==
  ASSUME IicTypes, Edge, ~start_detect, ~stop_detect, scl_fall,
         t_state \in {"ADDR_ACK", "DATA_ACK", "TX_DATA", "WAIT_ACK"}
  PROVE  /\ UNCHANGED << t_rw, t_rx_data, t_rx_valid >>
         /\ t_state \in {"ADDR_ACK", "DATA_ACK"} /\ ~t_ack_active =>
              /\ t_ack_active' /\ t_state' = t_state
              /\ (t_drive_low' <=> (t_state = "ADDR_ACK" \/ ack_data))
         /\ t_state = "ADDR_ACK" /\ t_ack_active =>
              /\ ~t_ack_active' /\ t_cnt' = 0
              /\ t_rw => /\ t_state' = "TX_DATA" /\ t_shift' = answer
                         /\ (t_drive_low' <=> answer[1] = 0)
              /\ ~t_rw => t_state' = "RX_DATA" /\ t_shift' = ZeroByte /\ ~t_drive_low'
         /\ t_state = "DATA_ACK" /\ t_ack_active => t_state' = "IGNORE" /\ ~t_drive_low'
         /\ t_state = "TX_DATA" /\ t_cnt = NBits - 1 => t_state' = "WAIT_ACK" /\ ~t_drive_low'
         /\ t_state = "TX_DATA" /\ t_cnt # NBits - 1 =>
              /\ t_state' = "TX_DATA" /\ t_cnt' = t_cnt + 1 /\ t_shift' = ShiftIn(t_shift, 0)
              /\ (t_drive_low' <=> t_shift[2] = 0)
         /\ t_state = "WAIT_ACK" => t_state' = "IGNORE" /\ t_drive_low' = t_drive_low
<1>1. TargetDrives
  BY DEF Edge, TargetEdge, scl_fall, scl_rise
<1>2. Head(answer) = answer[1]
  BY Shifted DEF IicTypes, HistoryTypes, Bit
<1>3. CASE t_state \in {"ADDR_ACK", "DATA_ACK"} /\ ~t_ack_active
  <2>1. /\ t_ack_active' = TRUE /\ t_drive_low' = (t_state = "ADDR_ACK" \/ ack_data)
        /\ UNCHANGED << t_state, t_rw, t_rx_data, t_rx_valid >>
    BY <1>1, <1>3 DEF TargetDrives
  <2>2. t_drive_low' <=> (t_state = "ADDR_ACK" \/ ack_data)
    BY <2>1, Zenon
  <2>. QED
    BY <1>3, <2>1, <2>2
<1>4. CASE t_state = "ADDR_ACK" /\ t_ack_active
  <2>1. /\ t_ack_active' = FALSE /\ t_cnt' = 0 /\ UNCHANGED << t_rw, t_rx_data, t_rx_valid >>
        /\ t_rw => t_state' = "TX_DATA" /\ t_shift' = answer /\ t_drive_low' = (Head(answer) = 0)
        /\ ~t_rw => t_state' = "RX_DATA" /\ t_shift' = ZeroByte /\ t_drive_low' = FALSE
    BY <1>1, <1>4 DEF TargetDrives
  <2>2. t_rw => (t_drive_low' <=> Head(answer) = 0)
    BY <2>1, Zenon
  <2>. QED
    BY <1>2, <1>4, <2>1, <2>2
<1>5. CASE t_state = "DATA_ACK" /\ t_ack_active
  BY <1>1, <1>5 DEF TargetDrives
<1>6. CASE t_state = "TX_DATA"
  <2>1. CASE t_cnt = NBits - 1
    BY <1>1, <1>6, <2>1 DEF TargetDrives
  <2>2. CASE t_cnt # NBits - 1
    <3>1. /\ t_state' = "TX_DATA" /\ t_cnt' = t_cnt + 1 /\ t_shift' = ShiftIn(t_shift, 0)
          /\ t_drive_low' = (t_shift[2] = 0)
          /\ UNCHANGED << t_rw, t_rx_data, t_rx_valid >>
      BY <1>1, <1>6, <2>2 DEF TargetDrives
    <3>2. t_drive_low' <=> t_shift[2] = 0
      BY <3>1, Zenon
    <3>. QED
      BY <1>6, <2>2, <3>1, <3>2
  <2>. QED
    BY <2>1, <2>2
<1>7. CASE t_state = "WAIT_ACK"
  BY <1>1, <1>7 DEF TargetDrives
<1>. QED
  BY <1>3, <1>4, <1>5, <1>6, <1>7

LEMMA FallShape ==
  ASSUME IicTypes, LineInv, TargetInv, Edge, state \in Clocked, state' \in Clocked, HalfAge = 2,
         scl_drive_low
  PROVE  ShapeInv' /\ (Starting => TargetSame)
<1>0. /\ UNCHANGED << state, byte_phase, bit_cnt, asked, sent, answer, ack_data >>
      /\ ~FallSeen /\ ~RiseSeen /\ FallSeen' /\ ~RiseSeen' /\ Taken' = Taken /\ Taken = bit_cnt
      /\ (Present' <=> Present) /\ AddrByte' = AddrByte
  BY EventStep DEF FallSeen, RiseSeen, Taken, Present, AddrByte
<1>1. ~start_detect /\ ~stop_detect /\ ~scl_rise /\ scl_fall
  <2>1. Starting => Since >= 3
    BY DEF Starting, Since, First, HalfAge, Clocked, LineInv, TimingInv
  <2>. QED
    BY <2>1, StartingStep, Events DEF LineInv, Clocked, Fresh
<1>2. NBits \in Nat /\ NBits >= 2 /\ bit_cnt \in 0 .. NBits - 1
  BY ConstantTypes DEF IicTypes, ControllerTypes
<1>23. Taken < NBits /\ Taken' < NBits
  BY <1>0, <1>2
<1>3. t_state \notin {"ADDR_ACK", "DATA_ACK", "TX_DATA", "WAIT_ACK"} =>
        /\ TargetSame
        /\ (Ignoring => Ignoring') /\ (ReceivesAddr => ReceivesAddr') /\ (ReceivesData => ReceivesData')
  <2>. SUFFICES ASSUME t_state \notin {"ADDR_ACK", "DATA_ACK", "TX_DATA", "WAIT_ACK"}
                PROVE  /\ TargetSame
                       /\ (Ignoring => Ignoring') /\ (ReceivesAddr => ReceivesAddr')
                       /\ (ReceivesData => ReceivesData')
    OBVIOUS
  <2>1. TargetSame
    BY <1>1, Keeps DEF LineInv
  <2>. QED
    BY <1>0, <2>1 DEF TargetSame, Ignoring, ReceivesAddr, ReceivesData, Receives
<1>4. AcksAddr(FALSE) => AcksAddr(TRUE)'
  BY <1>0, <1>1, Drives DEF AcksAddr
<1>5. AcksData(FALSE) => AcksData(TRUE)'
  BY <1>0, <1>1, Drives DEF AcksData
<1>6. Ignoring => Ignoring'
  BY <1>3 DEF Ignoring
<1>7. ReceivesAddr => ReceivesAddr'
  BY <1>3 DEF ReceivesAddr
<1>8. ReceivesData => ReceivesData'
  BY <1>3 DEF ReceivesData
<1>9. AcksAddr(TRUE) /\ bit_cnt = 0 /\ ~asked.rw => ReceivesData'
  <2>. SUFFICES ASSUME AcksAddr(TRUE), bit_cnt = 0, ~asked.rw PROVE ReceivesData'
    OBVIOUS
  <2>1. t_state' = "RX_DATA" /\ ~t_ack_active' /\ t_cnt' = 0 /\ ~t_drive_low' /\ ~t_rx_valid'
    BY <1>1, Drives DEF AcksAddr
  <2>. QED
    BY <1>0, <2>1 DEF ReceivesData, Receives
<1>10. AcksAddr(TRUE) /\ bit_cnt = 0 /\ asked.rw /\ state = "RX_BYTE" => Sends'
  <2>. SUFFICES ASSUME AcksAddr(TRUE), bit_cnt = 0, asked.rw, state = "RX_BYTE" PROVE Sends'
    OBVIOUS
  <2>1. /\ t_state' = "TX_DATA" /\ t_cnt' = 0 /\ t_shift' = answer /\ (t_drive_low' <=> answer[1] = 0)
        /\ ~t_rx_valid'
    BY <1>1, Drives DEF AcksAddr
  <2>2. Sending' = 0
    BY <1>0 DEF Sending
  <2>. QED
    BY <1>0, <1>2, <2>1, <2>2 DEF Sends
<1>11. Sends /\ state = "RX_BYTE" /\ bit_cnt > 0 => Sends'
  <2>. SUFFICES ASSUME Sends, state = "RX_BYTE", bit_cnt > 0 PROVE Sends'
    OBVIOUS
  <2>1. Sending = bit_cnt - 1 /\ Sending' = bit_cnt
    BY <1>0 DEF Sending
  <2>2. /\ t_state = "TX_DATA" /\ t_cnt # NBits - 1 /\ t_cnt = bit_cnt - 1 /\ ~t_rx_valid
        /\ \A i \in 1 .. NBits - (bit_cnt - 1) : t_shift[i] = answer[(bit_cnt - 1) + i]
    BY <1>2, <2>1 DEF Sends
  <2>3. /\ t_state' = "TX_DATA" /\ t_cnt' = t_cnt + 1 /\ t_shift' = ShiftIn(t_shift, 0)
        /\ (t_drive_low' <=> t_shift[2] = 0) /\ ~t_rx_valid'
    BY <1>1, <2>2, Drives
  <2>4. t_shift[2] = answer[bit_cnt + 1]
    BY <1>2, <2>2
  <2>5. \A i \in 1 .. NBits - 1 : ShiftIn(t_shift, 0)[i] = t_shift[i + 1]
    BY Shifted DEF IicTypes, TargetTypes, Bit
  <2>6. ASSUME NEW i \in 1 .. NBits - bit_cnt
        PROVE  t_shift'[i] = answer[bit_cnt + i]
    <3>1. i \in 1 .. NBits - 1 /\ i + 1 \in 1 .. NBits - (bit_cnt - 1) /\ (bit_cnt - 1) + (i + 1) = bit_cnt + i
      BY <1>2
    <3>. QED
      BY <2>2, <2>3, <2>5, <3>1
  <2>7. t_cnt' = bit_cnt
    BY <1>2, <2>2, <2>3
  <2>. QED
    BY <1>0, <2>1, <2>3, <2>4, <2>6, <2>7 DEF Sends
<1>12. Sends /\ state = "SEND_ACK" => Waiting'
  <2>. SUFFICES ASSUME Sends, state = "SEND_ACK" PROVE Waiting'
    OBVIOUS
  <2>1. t_state = "TX_DATA" /\ t_cnt = NBits - 1 /\ ~t_rx_valid
    BY DEF Sends, Sending
  <2>. QED
    BY <1>1, <2>1, Drives DEF Waiting
<1>13. Waiting /\ asked.rw => Ignoring'
  BY <1>0, <1>1, Drives DEF Waiting, Ignoring
<1>14. AcksData(TRUE) /\ Present /\ ~asked.rw => Ignoring'
  BY <1>0, <1>1, Drives DEF AcksData, Ignoring
<1>15. TxAddrInv'
  <2>. SUFFICES ASSUME state = "TX_BYTE", byte_phase = "ADDR" PROVE ReceivesAddr' /\ Taken' < NBits
    BY <1>0 DEF TxAddrInv
  <2>1. CASE Starting
    <3>1. Since >= 3
      BY <2>1 DEF Starting, Since, First, HalfAge, Clocked, LineInv, TimingInv
    <3>. QED
      BY <1>7, <1>23, <2>1, <3>1 DEF TargetInv
  <2>2. CASE ~Starting
    BY <1>0, <1>7, <1>23, <2>2 DEF TargetInv, TxAddrInv
  <2>. QED
    BY <2>1, <2>2
<1>16. AckAddrInv'
  BY <1>0, <1>4, <1>6 DEF TargetInv, AckAddrInv
<1>17. TxDataInv'
  <2>. SUFFICES ASSUME state = "TX_BYTE", byte_phase = "DATA"
                PROVE  IF Present THEN ReceivesData' /\ Taken' < NBits ELSE Ignoring'
    BY <1>0 DEF TxDataInv
  <2>1. ~asked.rw
    BY DEF LineInv, PhaseInv
  <2>. QED
    BY <1>0, <1>6, <1>8, <1>9, <1>23, <2>1 DEF TargetInv, TxDataInv
<1>18. AckDataInv'
  BY <1>0, <1>5, <1>6 DEF TargetInv, AckDataInv
<1>19. RxInv'
  <2>. SUFFICES ASSUME state = "RX_BYTE"
                PROVE  IF Present THEN Sends' ELSE Ignoring'
    BY <1>0 DEF RxInv
  <2>1. asked.rw
    BY DEF LineInv, PhaseInv
  <2>2. bit_cnt = 0 \/ bit_cnt > 0
    BY <1>2
  <2>. QED
    BY <1>0, <1>6, <1>10, <1>11, <2>1, <2>2 DEF TargetInv, RxInv
<1>20. SendInv'
  BY <1>0, <1>6, <1>12 DEF TargetInv, SendInv
<1>21. StopInv'
  BY <1>0, <1>6, <1>13, <1>14 DEF TargetInv, StopInv
<1>22. Starting => TargetSame
  <2>. SUFFICES ASSUME Starting PROVE TargetSame
    OBVIOUS
  <2>1. Since >= 3
    BY DEF Starting, Since, First, HalfAge, Clocked, LineInv, TimingInv
  <2>. QED
    BY <1>3, <2>1 DEF TargetInv, ReceivesAddr
<1>. QED
  BY <1>15, <1>16, <1>17, <1>18, <1>19, <1>20, <1>21, <1>22 DEF ShapeInv

\* A rising SCL reaches the target: a bit of the byte comes in.
LEMMA Samples ==
  ASSUME IicTypes, Edge, ~start_detect, ~stop_detect, scl_rise,
         t_state \in {"RX_ADDR", "RX_DATA"}
  PROVE  /\ t_shift' = ShiftIn(t_shift, t_sda[2])
         /\ UNCHANGED << t_ack_active, t_drive_low >>
         /\ t_cnt # NBits - 1 => t_cnt' = t_cnt + 1 /\ UNCHANGED << t_state, t_rw, t_rx_data, t_rx_valid >>
         /\ t_cnt = NBits - 1 /\ t_state = "RX_ADDR" =>
              /\ (t_rw' <=> t_shift'[NBits] = 1) /\ UNCHANGED << t_rx_data, t_rx_valid >>
              /\ t_state' = IF SubSeq(t_shift', 1, NBits - 1) = OwnAddr THEN "ADDR_ACK" ELSE "IGNORE"
         /\ t_cnt = NBits - 1 /\ t_state = "RX_DATA" =>
              t_rx_data' = t_shift' /\ t_rx_valid' /\ t_state' = "DATA_ACK"
<1>1. TargetSamples
  BY DEF Edge, TargetEdge
<1>2. t_shift' = ShiftIn(t_shift, t_sda[2]) /\ UNCHANGED << t_ack_active, t_drive_low >>
  BY <1>1 DEF TargetSamples
<1>3. CASE t_cnt # NBits - 1
  BY <1>1, <1>2, <1>3 DEF TargetSamples
<1>4. CASE t_cnt = NBits - 1 /\ t_state = "RX_ADDR"
  <2>1. /\ t_rw' = (ShiftIn(t_shift, t_sda[2])[NBits] = 1)
        /\ t_state' = IF SubSeq(ShiftIn(t_shift, t_sda[2]), 1, NBits - 1) = OwnAddr
                      THEN "ADDR_ACK" ELSE "IGNORE"
        /\ UNCHANGED << t_rx_data, t_rx_valid >>
    BY <1>1, <1>4 DEF TargetSamples
  <2>2. t_rw' <=> ShiftIn(t_shift, t_sda[2])[NBits] = 1
    BY <2>1, Zenon
  <2>. QED
    BY <1>2, <1>4, <2>1, <2>2
<1>5. CASE t_cnt = NBits - 1 /\ t_state = "RX_DATA"
  BY <1>1, <1>2, <1>5 DEF TargetSamples
<1>. QED
  BY <1>2, <1>3, <1>4, <1>5

LEMMA TakesBit ==
  ASSUME IicTypes, LineInv, Edge, state = "TX_BYTE", HalfAge = 2, ~scl_drive_low,
         ~start_detect, ~stop_detect, scl_rise,
         t_state \in {"RX_ADDR", "RX_DATA"}, ~t_drive_low, t_cnt = bit_cnt,
         \A j \in 1 .. bit_cnt : t_shift[NBits - bit_cnt + j] = Outgoing[j]
  PROVE  /\ \A j \in 1 .. bit_cnt + 1 : t_shift'[NBits - (bit_cnt + 1) + j] = Outgoing[j]
         /\ t_shift' \in Byte
<1>0. NBits \in Nat /\ NBits >= 2 /\ bit_cnt \in 0 .. NBits - 1 /\ t_sda[2] \in Bit
  BY ConstantTypes DEF IicTypes, ControllerTypes, TargetTypes
<1>1. t_sda[2] = Outgoing[bit_cnt + 1]
  <2>1. t_sda[2] = sda
    BY DEF LineInv, SdaLag, Clocked
  <2>2. step \in 0 .. 3 /\ ~(step < 2)
    BY DEF LineInv, SclInv, TimingInv, Clocked
  <2>3. sda_drive_low <=> tx_shift_reg[1] = 0
    BY <2>2 DEF LineInv, SdaInv
  <2>4. tx_shift_reg[1] = Outgoing[bit_cnt + 1]
    BY <1>0 DEF LineInv, PhaseInv
  <2>5. tx_shift_reg[1] \in Bit
    BY Shifted DEF IicTypes, ControllerTypes, Bit
  <2>. QED
    BY <2>1, <2>3, <2>4, <2>5 DEF sda, Bit
<1>2. t_shift' = ShiftIn(t_shift, t_sda[2])
  BY Samples
<1>3. t_shift \in Byte
  BY DEF IicTypes, TargetTypes
<1>4. \A j \in 1 .. bit_cnt + 1 :
        ShiftIn(t_shift, t_sda[2])[NBits - (bit_cnt + 1) + j] = Outgoing[j]
  BY <1>0, <1>1, <1>3, ShiftedIn
<1>5. ShiftIn(t_shift, t_sda[2]) \in Byte
  BY <1>0, <1>3, Shifted
<1>. QED
  BY <1>2, <1>4, <1>5

LEMMA RiseShape ==
  ASSUME IicTypes, LineInv, TargetInv, Edge, state \in Clocked, state' \in Clocked, HalfAge = 2,
         ~scl_drive_low
  PROVE  ShapeInv'
<1>0. /\ UNCHANGED << state, byte_phase, bit_cnt, asked, sent, answer, ack_data >>
      /\ FallSeen /\ ~RiseSeen /\ FallSeen' /\ RiseSeen' /\ Taken = bit_cnt /\ Taken' = bit_cnt + 1
      /\ (Present' <=> Present) /\ AddrByte' = AddrByte
  BY EventStep DEF FallSeen, RiseSeen, Taken, Present, AddrByte
<1>1. ~start_detect /\ ~stop_detect /\ scl_rise /\ ~scl_fall /\ ~Starting
  <2>1. ~Starting
    BY DEF Starting, First, Clocked, LineInv, SclInv
  <2>. QED
    BY <2>1, Events DEF LineInv, Clocked, Fresh
<1>2. NBits \in Nat /\ NBits >= 2 /\ bit_cnt \in 0 .. NBits - 1
  BY ConstantTypes DEF IicTypes, ControllerTypes
<1>9. Taken < NBits
  BY <1>0, <1>2
<1>3. t_state \notin {"RX_ADDR", "RX_DATA"} =>
        /\ (Ignoring => Ignoring') /\ (Sends => Sends') /\ (Waiting => Waiting')
        /\ (AcksAddr(TRUE) => AcksAddr(TRUE)') /\ (AcksData(TRUE) => AcksData(TRUE)')
  <2>. SUFFICES ASSUME t_state \notin {"RX_ADDR", "RX_DATA"}
                PROVE  /\ (Ignoring => Ignoring') /\ (Sends => Sends') /\ (Waiting => Waiting')
                       /\ (AcksAddr(TRUE) => AcksAddr(TRUE)') /\ (AcksData(TRUE) => AcksData(TRUE)')
    OBVIOUS
  <2>1. TargetSame
    BY <1>1, Keeps DEF LineInv
  <2>2. Sending' = Sending
    BY <1>0 DEF Sending
  <2>3. Sends => Sends'
    BY <1>0, <2>1, <2>2 DEF TargetSame, Sends
  <2>. QED
    BY <1>0, <2>1, <2>3 DEF TargetSame, Ignoring, Waiting, AcksAddr, AcksData
<1>4. (Ignoring => Ignoring') /\ (Sends => Sends') /\ (Waiting => Waiting')
      /\ (AcksAddr(TRUE) => AcksAddr(TRUE)') /\ (AcksData(TRUE) => AcksData(TRUE)')
  BY <1>3 DEF Ignoring, Sends, Waiting, AcksAddr, AcksData
<1>5. AckAddrInv' /\ AckDataInv'
  BY <1>0, <1>4 DEF TargetInv, AckAddrInv, AckDataInv
<1>6. RxInv' /\ SendInv' /\ StopInv'
  BY <1>0, <1>4 DEF TargetInv, RxInv, SendInv, StopInv
<1>7. TxAddrInv'
  <2>. SUFFICES ASSUME state = "TX_BYTE", byte_phase = "ADDR"
                PROVE  IF Taken' < NBits THEN ReceivesAddr'
                       ELSE IF Present' THEN AcksAddr(FALSE)' ELSE Ignoring'
    BY <1>0 DEF TxAddrInv
  <2>1. ReceivesAddr
    BY <1>1, <1>9 DEF TargetInv, TxAddrInv
  <2>2. /\ t_state = "RX_ADDR" /\ t_cnt = bit_cnt /\ ~t_drive_low /\ ~t_ack_active /\ ~t_rx_valid
        /\ \A j \in 1 .. bit_cnt : t_shift[NBits - bit_cnt + j] = AddrByte[j]
    BY <1>0, <2>1 DEF ReceivesAddr, Receives
  <2>3. Outgoing = AddrByte
    BY DEF Outgoing
  <2>4. /\ \A j \in 1 .. bit_cnt + 1 : t_shift'[NBits - (bit_cnt + 1) + j] = AddrByte[j]
        /\ t_shift' \in Byte
    BY <1>1, <2>2, <2>3, TakesBit
  <2>5. ~t_ack_active' /\ ~t_drive_low'
    BY <1>1, <2>2, Samples
  <2>6. CASE bit_cnt # NBits - 1
    <3>1. t_state' = "RX_ADDR" /\ t_cnt' = bit_cnt + 1 /\ ~t_rx_valid'
      BY <1>1, <2>2, <2>6, Samples
    <3>2. Taken' < NBits
      BY <1>0, <1>2, <2>6
    <3>. QED
      BY <1>0, <2>4, <2>5, <3>1, <3>2 DEF ReceivesAddr, Receives
  <2>7. CASE bit_cnt = NBits - 1
    <3>0. asked.addr \in Address /\ asked.rw \in BOOLEAN
      BY DEF IicTypes, HistoryTypes
    <3>1. \A j \in 1 .. NBits : t_shift'[j] = AddrByte[j]
      BY <1>2, <2>4, <2>7
    <3>2. /\ \A i \in 1 .. NBits - 1 : AddrByte[i] = asked.addr[i]
          /\ AddrByte[NBits] = IF asked.rw THEN 1 ELSE 0
      BY <3>0, Appended DEF AddrByte, Bit
    <3>3. SubSeq(t_shift', 1, NBits - 1) = asked.addr
      <4>1. \A i \in 1 .. NBits - 1 : t_shift'[i] = asked.addr[i]
        BY <1>2, <3>1, <3>2
      <4>. QED
        BY <2>4, <3>0, <4>1, AddressOf
    <3>4. t_shift'[NBits] = 1 <=> asked.rw
      BY <1>2, <3>1, <3>2
    <3>5. /\ (t_rw' <=> asked.rw) /\ ~t_rx_valid'
          /\ t_state' = IF Present THEN "ADDR_ACK" ELSE "IGNORE"
      <4>1. /\ (t_rw' <=> t_shift'[NBits] = 1) /\ t_rx_valid' = t_rx_valid
            /\ t_state' = IF SubSeq(t_shift', 1, NBits - 1) = OwnAddr THEN "ADDR_ACK" ELSE "IGNORE"
        BY <1>1, <2>2, <2>7, Samples
      <4>2. t_state' = IF Present THEN "ADDR_ACK" ELSE "IGNORE"
        BY <3>3, <4>1 DEF Present
      <4>. QED
        BY <2>2, <3>4, <4>1, <4>2
    <3>6. ~(Taken' < NBits)
      BY <1>0, <1>2, <2>7
    <3>. QED
      BY <1>0, <2>5, <3>5, <3>6 DEF AcksAddr, Ignoring
  <2>. QED
    BY <2>6, <2>7
<1>8. TxDataInv'
  <2>. SUFFICES ASSUME state = "TX_BYTE", byte_phase = "DATA", Present
                PROVE  IF Taken' < NBits THEN ReceivesData' ELSE AcksData(FALSE)'
    BY <1>0, <1>4 DEF TargetInv, TxDataInv
  <2>1. ReceivesData
    BY <1>0, <1>9 DEF TargetInv, TxDataInv
  <2>2. /\ t_state = "RX_DATA" /\ t_cnt = bit_cnt /\ ~t_drive_low /\ ~t_ack_active /\ ~t_rx_valid
        /\ \A j \in 1 .. bit_cnt : t_shift[NBits - bit_cnt + j] = sent[j]
    BY <1>0, <2>1 DEF ReceivesData, Receives
  <2>3. Outgoing = sent
    BY DEF Outgoing
  <2>4. /\ \A j \in 1 .. bit_cnt + 1 : t_shift'[NBits - (bit_cnt + 1) + j] = sent[j]
        /\ t_shift' \in Byte
    BY <1>1, <2>2, <2>3, TakesBit
  <2>5. ~t_ack_active' /\ ~t_drive_low'
    BY <1>1, <2>2, Samples
  <2>6. CASE bit_cnt # NBits - 1
    <3>1. t_state' = "RX_DATA" /\ t_cnt' = bit_cnt + 1 /\ ~t_rx_valid'
      BY <1>1, <2>2, <2>6, Samples
    <3>2. Taken' < NBits
      BY <1>0, <1>2, <2>6
    <3>. QED
      BY <1>0, <2>4, <2>5, <3>1, <3>2 DEF ReceivesData, Receives
  <2>7. CASE bit_cnt = NBits - 1
    <3>1. \A j \in 1 .. NBits : t_shift'[j] = sent[j]
      BY <1>2, <2>4, <2>7
    <3>2. t_shift' = sent
      <4>1. sent \in Byte
        BY DEF IicTypes, HistoryTypes
      <4>. QED
        BY <2>4, <3>1, <4>1, SameByte
    <3>3. t_rx_valid' /\ t_rx_data' = sent /\ t_state' = "DATA_ACK"
      BY <1>1, <2>2, <2>7, <3>2, Samples
    <3>4. ~(Taken' < NBits)
      BY <1>0, <1>2, <2>7
    <3>. QED
      BY <1>0, <2>5, <3>3, <3>4 DEF AcksData
  <2>. QED
    BY <2>6, <2>7
<1>. QED
  BY <1>5, <1>6, <1>7, <1>8 DEF ShapeInv

LEMMA TargetStep ==
  ASSUME IicTypes, LineInv, TargetInv, Edge
  PROVE  TargetInv'
<1>0. TimingInv' /\ SclInv' /\ IicTypes' /\ PhaseInv'
  BY TimingStep, TypesStep, PhaseStep DEF LineInv
<1>1. state \in Clocked /\ state' \in Clocked /\ ~(Starting /\ Since < 3) => ShapeInv'
  <2>. SUFFICES ASSUME state \in Clocked, state' \in Clocked, ~(Starting /\ Since < 3) PROVE ShapeInv'
    OBVIOUS
  <2>1. CASE qtr_tick /\ step = 3
    BY <2>1, BitEndsShape
  <2>2. CASE ~(qtr_tick /\ step = 3) /\ HalfAge # 2
    BY <2>2, NoEventShape
  <2>3. CASE HalfAge = 2
    BY <2>3, FallShape, RiseShape
  <2>. QED
    BY <2>1, <2>2, <2>3
<1>2. ShapeInv'
  <2>0. state' \notin Clocked => ShapeInv'
    BY DEF ShapeInv, TxAddrInv, AckAddrInv, TxDataInv, AckDataInv, RxInv, SendInv, StopInv, Clocked
  <2>00. First' => ShapeInv'
    BY DEF First, Starting, ShapeInv, TxAddrInv, AckAddrInv, TxDataInv, AckDataInv, RxInv, SendInv, StopInv
  <2>1. state \notin Clocked => state' \notin Clocked \/ First'
    <3>1. state \notin Clocked => state' \notin Clocked \/ (state = "GEN_START" /\ state' = "TX_BYTE" /\ qtr_tick /\ step = 2)
      BY NextStates DEF IicTypes, ControllerTypes, Clocked, LineInv
    <3>. QED
      BY <3>1, StartTick DEF First, LineInv, PhaseInv
  <2>2. state \in Clocked /\ Starting /\ Since < 3 => First' \/ state' \notin Clocked
    BY StartingStep DEF LineInv, Starting, Clocked
  <2>. QED
    BY <1>1, <2>0, <2>00, <2>1, <2>2
<1>3. state' = "DONE" => Ignoring'
  <2>. SUFFICES ASSUME state' = "DONE" PROVE Ignoring'
    OBVIOUS
  <2>1. state = "GEN_STOP" /\ qtr_tick /\ step = 2
    BY NextStates DEF IicTypes, ControllerTypes, Clocked, LineInv
  <2>2. ~scl_drive_low /\ FallSeen
    BY <2>1 DEF LineInv, SclInv, FallSeen
  <2>3. Ignoring
    BY <2>1, <2>2 DEF TargetInv, StopInv
  <2>4. ~start_detect /\ ~stop_detect
    BY <2>1, Events DEF LineInv, Starting, First, Fresh
  <2>5. TargetSame
    BY <2>3, <2>4, Keeps DEF LineInv, Ignoring
  <2>6. UNCHANGED << asked, sent >>
    BY <2>1, HistoryKept
  <2>. QED
    BY <2>3, <2>5, <2>6 DEF Ignoring, TargetSame, Present
<1>4. Starting' /\ Since' >= 3 => ReceivesAddr'
  <2>. SUFFICES ASSUME Starting', Since' >= 3 PROVE ReceivesAddr'
    OBVIOUS
  <2>1. Starting /\ Since' = Since + 1 /\ Since \in Nat /\ Since >= 2
    BY StartingStep DEF LineInv
  <2>2. Taken' = 0
    BY <1>0 DEF Taken, RiseSeen, Starting, First, SclInv, PhaseInv, Clocked
  <2>3. ~stop_detect
    <3>1. state # "IDLE" /\ ~Fresh
      BY <2>1 DEF LineInv, Starting, First, Fresh, TimingInv
    <3>. QED
      BY <3>1, Events DEF LineInv
  <2>4. CASE Since = 2
    <3>1. TargetStart
      BY <2>1, <2>4, Events DEF LineInv, Edge, TargetEdge
    <3>. QED
      BY <2>2, <3>1 DEF TargetStart, ReceivesAddr, Receives
  <2>5. CASE Since >= 3
    <3>1. ReceivesAddr /\ ~start_detect
      BY <2>1, <2>5, Events DEF LineInv, TargetInv
    <3>2. ~scl_rise
      <4>1. First => scl_drive_low /\ state \in Clocked
        BY DEF First, LineInv, SclInv, Clocked
      <4>. QED
        BY <2>1, <4>1, Events DEF LineInv, Starting
    <3>3. TargetSame
      BY <2>3, <3>1, <3>2, Keeps DEF LineInv, ReceivesAddr
    <3>4. Taken = 0
      BY <2>1 DEF LineInv, Taken, RiseSeen, Starting, First, SclInv, PhaseInv, Clocked
    <3>. QED
      BY <2>2, <3>1, <3>3, <3>4 DEF ReceivesAddr, Receives, TargetSame
  <2>. QED
    BY <2>1, <2>4, <2>5
<1>5. SilentInv'
  <2>1. state \in {"IDLE", "DONE", "GEN_START"} => ~t_drive_low'
    <3>1. state \in {"IDLE", "DONE", "GEN_START"} => ~t_drive_low /\ ~scl_fall
      BY Events DEF LineInv, TargetInv, SilentInv, Clocked
    <3>. QED
      BY <3>1, LetsGo
  <2>2. First => ~t_drive_low'
    <3>. SUFFICES ASSUME First PROVE ~t_drive_low'
      OBVIOUS
    <3>1. ~t_drive_low
      BY DEF TargetInv, SilentInv
    <3>2. CASE scl_fall
      <4>1. state \in Clocked /\ HalfAge = 2 /\ scl_drive_low /\ Starting
        BY <3>2, Events DEF LineInv, Starting
      <4>2. state' \in Clocked
        BY NextStates DEF LineInv, First, Clocked
      <4>. QED
        BY <3>1, <4>1, <4>2, FallShape DEF TargetSame
    <3>3. CASE ~scl_fall
      BY <3>1, <3>3, LetsGo
    <3>. QED
      BY <3>2, <3>3
  <2>3. state' \in {"IDLE", "GEN_START"} => state \in {"IDLE", "DONE", "GEN_START"}
    BY NextStates DEF LineInv, IicTypes, ControllerTypes, Clocked
  <2>4. First' => First \/ state = "GEN_START"
    BY StartingStep DEF LineInv, Starting
  <2>5. state' = "DONE" => ~t_drive_low'
    BY <1>3 DEF Ignoring
  <2>. QED
    BY <2>1, <2>2, <2>3, <2>4, <2>5 DEF SilentInv
<1>. QED
  BY <1>2, <1>3, <1>4, <1>5 DEF TargetInv, ShapeInv

LEMMA LineStep ==
  ASSUME IicTypes, LineInv, TargetInv, Edge
  PROVE  LineInv'
  BY TimingStep, SclLagStep, PhaseStep, SdaStep, SdaLagStep, DriveStep DEF LineInv, TargetInv

-----------------------------------------------------------------------------
\* What the controller has learned.

Reply   == IF Present THEN answer ELSE Ones
Learned == IF step = 3 THEN bit_cnt + 1 ELSE bit_cnt

AckInv ==
  /\ state = "WAIT_ACK" /\ step = 3 => (ack_seen <=> Present /\ (byte_phase = "ADDR" \/ ack_data))
  /\ state \in {"RX_BYTE", "SEND_ACK"} => (ack_seen <=> Present)
  /\ state \in {"GEN_STOP", "DONE"} => (ack_seen <=> Present /\ (asked.rw \/ ack_data))

ReadInv ==
  /\ state = "RX_BYTE" =>
       \A j \in 1 .. Learned : rx_shift_reg[NBits - Learned + j] = Reply[j]
  /\ state \in {"SEND_ACK", "GEN_STOP", "DONE"} /\ asked.rw => rx_data = Reply

\* ByteTransferred, of a transfer that has ended.
Outcome ==
  /\ ack_seen <=> Present /\ (asked.rw \/ ack_data)
  /\ t_rx_valid <=> Present /\ ~asked.rw
  /\ t_rx_valid => t_rx_data = sent
  /\ asked.rw => rx_data = Reply

ResultInv == AckInv /\ ReadInv /\ (done => state = "IDLE" /\ Outcome)

LEMMA AckStep ==
  ASSUME IicTypes, LineInv, TargetInv, AckInv, Edge
  PROVE  AckInv'
<1>. USE DEF AckInv
<1>1. CASE state \in {"IDLE", "DONE"}
  BY <1>1, NextStates DEF LineInv
<1>. SUFFICES ASSUME state \notin {"IDLE", "DONE"} PROVE AckInv'
  BY <1>1
<1>2. UNCHANGED << asked, answer, ack_data >> /\ (Present' <=> Present)
  BY HistoryKept DEF Present
<1>3. CASE ~qtr_tick
  <2>1. UNCHANGED << state, step, byte_phase, ack_seen >>
    BY <1>3, Waits DEF LineInv
  <2>. QED
    BY <1>2, <2>1
<1>4. CASE qtr_tick
  <2>1. CASE state = "GEN_START"
    BY <1>4, <2>1, StartTick DEF LineInv
  <2>2. CASE state = "TX_BYTE"
    BY <1>4, <2>2, TxTick DEF LineInv
  <2>3. CASE state = "WAIT_ACK"
    <3>1. CASE step = 3
      <4>1. ack_seen' <=> ack_seen
        BY <1>4, <2>3, <3>1, AckTick DEF LineInv
      <4>2. state' \in {"TX_BYTE", "RX_BYTE", "GEN_STOP"} /\ (state' = "RX_BYTE" => byte_phase = "ADDR")
            /\ (state' = "GEN_STOP" => byte_phase = "DATA")
        BY <1>4, <2>3, <3>1, AckTick DEF LineInv, AfterAck, IicTypes, ControllerTypes
      <4>3. byte_phase = "DATA" => ~asked.rw
        BY <2>3 DEF LineInv, PhaseInv
      <4>. QED
        BY <1>2, <2>3, <3>1, <4>1, <4>2, <4>3
    <3>2. CASE step = 2
      <4>1. ~scl_drive_low /\ FallSeen /\ ~sda_drive_low
        BY <2>3, <3>2 DEF LineInv, SclInv, SdaInv, FallSeen
      <4>2. t_drive_low <=> Present /\ (byte_phase = "ADDR" \/ ack_data)
        BY <2>3, <4>1 DEF TargetInv, AckAddrInv, AckDataInv, AcksAddr, AcksData, Ignoring, IicTypes, ControllerTypes
      <4>3. sda = 0 <=> t_drive_low
        BY <4>1 DEF sda
      <4>4. ack_seen' <=> sda = 0
        BY <1>4, <2>3, <3>2, AckTick DEF LineInv
      <4>5. state' = "WAIT_ACK" /\ byte_phase' = byte_phase
        BY <1>4, <2>3, <3>2, AckTick DEF LineInv
      <4>. QED
        BY <1>2, <4>2, <4>3, <4>4, <4>5
    <3>3. CASE step \notin {2, 3}
      <4>1. step' # 3 /\ state' = "WAIT_ACK"
        BY <1>4, <2>3, <3>3, AckTick DEF LineInv, TimingInv, Clocked
      <4>. QED
        BY <4>1
    <3>. QED
      BY <3>1, <3>2, <3>3
  <2>4. CASE state = "RX_BYTE"
    BY <1>2, <1>4, <2>4, RxTick DEF LineInv
  <2>5. CASE state = "SEND_ACK"
    <3>1. asked.rw
      BY <2>5 DEF LineInv, PhaseInv
    <3>. QED
      BY <1>2, <1>4, <2>5, <3>1, SendTick DEF LineInv
  <2>6. CASE state = "GEN_STOP"
    BY <1>2, <1>4, <2>6, StopTick DEF LineInv
  <2>. QED
    BY <2>1, <2>2, <2>3, <2>4, <2>5, <2>6 DEF IicTypes, ControllerTypes, Clocked
<1>. QED
  BY <1>3, <1>4

LEMMA ReadStep ==
  ASSUME IicTypes, LineInv, TargetInv, ReadInv, Edge
  PROVE  ReadInv'
<1>0. /\ NBits \in Nat /\ NBits >= 2 /\ bit_cnt \in 0 .. NBits - 1
      /\ rx_shift_reg \in Byte /\ answer \in Byte /\ Reply \in Byte
  BY ConstantTypes DEF IicTypes, ControllerTypes, HistoryTypes, Reply
<1>1. CASE state \in {"IDLE", "DONE"}
  BY <1>1, NextStates DEF LineInv, ReadInv
<1>. SUFFICES ASSUME state \notin {"IDLE", "DONE"} PROVE ReadInv'
  BY <1>1
<1>2. UNCHANGED << asked, answer, ack_data >> /\ (Present' <=> Present) /\ Reply' = Reply
  BY HistoryKept DEF Present, Reply
<1>3. CASE ~qtr_tick
  <2>1. UNCHANGED << state, step, bit_cnt, rx_shift_reg, rx_data >>
    BY <1>3, Waits DEF LineInv
  <2>2. Learned' = Learned
    BY <2>1 DEF Learned
  <2>. QED
    BY <1>2, <2>1, <2>2 DEF ReadInv
<1>4. CASE qtr_tick
  <2>1. CASE state = "GEN_START"
    BY <1>4, <2>1, StartTick DEF LineInv, ReadInv
  <2>2. CASE state = "TX_BYTE"
    BY <1>4, <2>2, TxTick DEF LineInv, ReadInv
  <2>3. CASE state = "WAIT_ACK"
    <3>1. CASE step = 3
      <4>1. state' \in {"TX_BYTE", "RX_BYTE", "GEN_STOP"} /\ (state' = "GEN_STOP" => byte_phase = "DATA")
        BY <1>4, <2>3, <3>1, AckTick DEF LineInv, AfterAck, IicTypes, ControllerTypes
      <4>2. byte_phase = "DATA" => ~asked.rw
        BY <2>3 DEF LineInv, PhaseInv
      <4>3. step' = 0 /\ bit_cnt' = 0
        BY <1>4, <2>3, <3>1, AckTick DEF LineInv, PhaseInv
      <4>4. Learned' = 0
        BY <4>3 DEF Learned
      <4>. QED
        BY <1>2, <4>1, <4>2, <4>4 DEF ReadInv
    <3>2. CASE step # 3
      BY <1>4, <2>3, <3>2, AckTick DEF LineInv, ReadInv
    <3>. QED
      BY <3>1, <3>2
  <2>4. CASE state = "RX_BYTE"
    <3>1. CASE step = 2
      <4>1. ~scl_drive_low /\ FallSeen /\ ~sda_drive_low
        BY <2>4, <3>1 DEF LineInv, SclInv, SdaInv, FallSeen
      <4>2. sda = Reply[bit_cnt + 1]
        <5>1. CASE Present
          <6>1. t_drive_low <=> answer[bit_cnt + 1] = 0
            BY <2>4, <4>1, <5>1 DEF TargetInv, RxInv, Sends, Sending
          <6>2. answer[bit_cnt + 1] \in Bit
            BY <1>0 DEF Byte
          <6>. QED
            BY <4>1, <5>1, <6>1, <6>2 DEF Reply, sda, Bit
        <5>2. CASE ~Present
          <6>1. ~t_drive_low
            BY <2>4, <5>2 DEF TargetInv, RxInv, Ignoring
          <6>2. Ones[bit_cnt + 1] = 1
            BY <1>0 DEF Ones
          <6>. QED
            BY <4>1, <5>2, <6>1, <6>2 DEF Reply, sda
        <5>. QED
          BY <5>1, <5>2
      <4>3. sda \in Bit
        BY DEF sda, Bit
      <4>4. \A j \in 1 .. bit_cnt : rx_shift_reg[NBits - bit_cnt + j] = Reply[j]
        BY <2>4, <3>1 DEF ReadInv, Learned
      <4>5. \A j \in 1 .. bit_cnt + 1 : ShiftIn(rx_shift_reg, sda)[NBits - (bit_cnt + 1) + j] = Reply[j]
        BY <1>0, <4>2, <4>3, <4>4, ShiftedIn
      <4>6. /\ state' = "RX_BYTE" /\ bit_cnt' = bit_cnt /\ step' = 3
            /\ rx_shift_reg' = ShiftIn(rx_shift_reg, sda)
        BY <1>4, <2>4, <3>1, RxTick DEF LineInv
      <4>7. Learned' = bit_cnt + 1
        BY <4>6 DEF Learned
      <4>. QED
        BY <1>2, <4>5, <4>6, <4>7 DEF ReadInv
    <3>2. CASE step = 3
      <4>1. \A j \in 1 .. bit_cnt + 1 : rx_shift_reg[NBits - (bit_cnt + 1) + j] = Reply[j]
        BY <2>4, <3>2 DEF ReadInv, Learned
      <4>2. rx_shift_reg' = rx_shift_reg /\ step' = 0
        BY <1>4, <2>4, <3>2, RxTick DEF LineInv
      <4>3. CASE bit_cnt = NBits - 1
        <5>1. state' = "SEND_ACK" /\ rx_data' = rx_shift_reg
          BY <1>4, <2>4, <3>2, <4>3, RxTick DEF LineInv
        <5>2. \A j \in 1 .. NBits : rx_shift_reg[j] = Reply[j]
          BY <1>0, <4>1, <4>3
        <5>3. rx_shift_reg = Reply
          BY <1>0, <5>2, SameByte
        <5>. QED
          BY <1>2, <5>1, <5>3 DEF ReadInv
      <4>4. CASE bit_cnt # NBits - 1
        <5>1. state' = "RX_BYTE" /\ bit_cnt' = bit_cnt + 1
          BY <1>4, <2>4, <3>2, <4>4, RxTick DEF LineInv
        <5>2. Learned' = bit_cnt + 1
          BY <4>2, <5>1 DEF Learned
        <5>. QED
          BY <1>2, <4>1, <4>2, <5>1, <5>2 DEF ReadInv
      <4>. QED
        BY <4>3, <4>4
    <3>3. CASE step \notin {2, 3}
      <4>1. /\ step' = step + 1 /\ step + 1 # 3 /\ state' = "RX_BYTE"
            /\ UNCHANGED << bit_cnt, rx_shift_reg >>
        BY <1>4, <2>4, <3>3, RxTick DEF LineInv, TimingInv, Clocked
      <4>2. Learned' = Learned
        BY <3>3, <4>1 DEF Learned
      <4>. QED
        BY <1>2, <2>4, <4>1, <4>2 DEF ReadInv
    <3>. QED
      BY <3>1, <3>2, <3>3
  <2>5. CASE state = "SEND_ACK"
    BY <1>2, <1>4, <2>5, SendTick DEF LineInv, ReadInv
  <2>6. CASE state = "GEN_STOP"
    BY <1>2, <1>4, <2>6, StopTick DEF LineInv, ReadInv
  <2>. QED
    BY <2>1, <2>2, <2>3, <2>4, <2>5, <2>6 DEF IicTypes, ControllerTypes, Clocked
<1>. QED
  BY <1>3, <1>4

\* Nothing moves on the bus between two transfers.
LEMMA RestKept ==
  ASSUME IicTypes, LineInv, Edge, state \in {"IDLE", "DONE"}, state = "DONE" => Ignoring
  PROVE  UNCHANGED << t_rx_data, t_rx_valid >>
<1>1. ~start_detect /\ ~scl_fall /\ (state = "IDLE" => ~scl_rise)
  BY Events DEF LineInv, Starting, First, Clocked
<1>2. TargetStop \/ TargetQuiet
  BY <1>1 DEF Edge, TargetEdge, Ignoring
<1>. QED
  BY <1>2 DEF TargetStop, TargetQuiet

LEMMA OutcomeKept ==
  ASSUME IicTypes, LineInv, Edge, state = "IDLE", ~start, Outcome
  PROVE  Outcome' /\ UNCHANGED << ack_seen, rx_data, asked, sent >>
<1>1. UNCHANGED << t_rx_data, t_rx_valid >>
  BY RestKept
<1>2. UNCHANGED << ack_seen, rx_data >>
  BY IdleEdge
<1>3. UNCHANGED << asked, answer, ack_data, sent >> /\ Reply' = Reply
  BY HistoryKept DEF Reply, Present
<1>. QED
  BY <1>1, <1>2, <1>3 DEF Outcome, Present

LEMMA ResultStep ==
  ASSUME IicTypes, LineInv, TargetInv, ResultInv, Edge
  PROVE  ResultInv'
<1>1. AckInv' /\ ReadInv'
  BY AckStep, ReadStep DEF ResultInv
<1>2. CASE state = "DONE"
  <2>1. Ignoring /\ AckInv /\ ReadInv
    BY <1>2 DEF TargetInv, ResultInv
  <2>2. UNCHANGED << t_rx_data, t_rx_valid >>
    BY <1>2, <2>1, RestKept
  <2>3. state' = "IDLE" /\ UNCHANGED << ack_seen, rx_data >>
    BY <1>2, DoneEdge
  <2>4. UNCHANGED << asked, answer, ack_data, sent >> /\ Reply' = Reply /\ (Present' <=> Present)
    BY <1>2, HistoryKept DEF Reply, Present
  <2>5. Outcome
    BY <1>2, <2>1 DEF Outcome, AckInv, ReadInv, Ignoring
  <2>6. Outcome'
    BY <2>2, <2>3, <2>4, <2>5 DEF Outcome
  <2>. QED
    BY <1>1, <2>3, <2>6 DEF ResultInv
<1>3. CASE state # "DONE"
  <2>1. ~done'
    BY <1>3, IdleEdge, Waits, Ticks DEF LineInv
  <2>. QED
    BY <1>1, <2>1 DEF ResultInv
<1>. QED
  BY <1>2, <1>3

IicInv == IicTypes /\ LineInv /\ TargetInv /\ ResultInv

LEMMA IicStep ==
  ASSUME IicInv, Edge
  PROVE  IicInv'
  BY TypesStep, LineStep, TargetStep, ResultStep DEF IicInv

-----------------------------------------------------------------------------
\* Reset.

AtRest ==
  /\ ctrl = ResetCtrl /\ config = ResetConfig /\ tx_data = ZeroByte
  /\ state = "IDLE" /\ byte_phase = "ADDR" /\ clk_div_r = CLK_DIV_INIT /\ div_cnt = 0
  /\ qtr_tick = FALSE /\ step = 0 /\ bit_cnt = 0
  /\ tx_shift_reg = ZeroByte /\ rx_shift_reg = ZeroByte /\ rx_data = ZeroByte /\ ack_in_r = 1
  /\ rw_r = FALSE /\ ack_seen = FALSE /\ done = FALSE
  /\ scl_drive_low = FALSE /\ sda_drive_low = FALSE
  /\ t_state = "IDLE" /\ t_scl = << 1, 1, 1 >> /\ t_sda = << 1, 1, 1 >> /\ t_shift = ZeroByte
  /\ t_cnt = 0 /\ t_rx_data = ZeroByte
  /\ t_rw = FALSE /\ t_ack_active = FALSE /\ t_drive_low = FALSE /\ t_rx_valid = FALSE
  /\ asked = [addr |-> ResetConfig.addr, rw |-> FALSE] /\ sent = ZeroByte
  /\ answer = ZeroByte /\ ack_data = FALSE /\ start = FALSE

LEMMA RestInv == AtRest => IicInv
<1>. SUFFICES ASSUME AtRest PROVE IicInv
  OBVIOUS
<1>. USE DEF AtRest
<1>1. IicTypes
  <2>1. RegisterTypes
    BY ConstantTypes DEF RegisterTypes
  <2>2. ControllerTypes
    BY ConstantTypes DEF ControllerTypes, Bit
  <2>3. ControllerFlags /\ TargetFlags
    BY DEF ControllerFlags, TargetFlags
  <2>4. TargetTypes
    BY ConstantTypes DEF TargetTypes, Bit
  <2>5. HistoryTypes
    BY ConstantTypes DEF HistoryTypes, Config
  <2>. QED
    BY <2>1, <2>2, <2>3, <2>4, <2>5 DEF IicTypes
<1>2. LineInv
  <2>1. TimingInv
    BY IicAssumption, DriverAssumption DEF TimingInv, Clocked, Fresh
  <2>2. SclInv /\ SclLag
    BY DEF SclInv, SclLag, Clocked
  <2>3. PhaseInv /\ SdaInv
    BY DEF PhaseInv, SdaInv, First
  <2>4. SdaLag /\ DriveInv
    BY DEF SdaLag, DriveInv, Starting, First, Clocked
  <2>. QED
    BY <2>1, <2>2, <2>3, <2>4 DEF LineInv
<1>3. TargetInv
  BY DEF TargetInv, SilentInv, Starting, First, TxAddrInv, AckAddrInv, TxDataInv, AckDataInv,
         RxInv, SendInv, StopInv
<1>4. ResultInv
  BY DEF ResultInv, AckInv, ReadInv
<1>. QED
  BY <1>1, <1>2, <1>3, <1>4 DEF IicInv

LEMMA ResetRests == (Init => AtRest) /\ (Reset => AtRest')
<1>1. Init => AtRest
  BY DEF Init, IicInit, RegistersAtReset, ControllerAtReset, TargetAtReset, HistoryAtReset, AtRest
<1>2. Reset => AtRest'
  BY DEF Reset, RegistersAtReset, ControllerAtReset, TargetAtReset, HistoryAtReset, AtRest
<1>. QED
  BY <1>1, <1>2

LEMMA ResetInv == (Init => IicInv) /\ (Reset => IicInv')
<1>1. AtRest' => IicInv'
  BY RestInv, PTL
<1>. QED
  BY <1>1, RestInv, ResetRests

-----------------------------------------------------------------------------
\* The bus accesses of the firmware.

FirmwareTypes ==
  /\ pc \in {"config", "data", "start", "poll", "clear"} /\ issued \in BOOLEAN
  /\ call \in Calls /\ behind \in BOOLEAN /\ status.done \in BOOLEAN

BusInv == IF issued THEN Bus!Carries(Access(call)) ELSE Bus!Free

\* A write or a read has taken effect and is being answered.
Wrote == issued /\ axi_bvalid
Got   == issued /\ axi_rvalid

LEMMA SameBus ==
  /\ Axi!WrEn <=> Bus!WrEn
  /\ Axi!RdEn <=> Bus!RdEn
  /\ Axi!Responded <=> Bus!Responded
  /\ Axi!HoldOnBus <=> Bus!HoldOnBus
  /\ Axi!AxiInit <=> Bus!AxiInit
  /\ Axi!AxiReset <=> Bus!AxiReset
  /\ \A shown : Axi!SubordinateEdge(shown) <=> Bus!SubordinateEdge(shown)
  /\ \A access : Axi!PutOnBus(access) <=> Bus!PutOnBus(access)
<1>1. (Axi!WrEn <=> Bus!WrEn) /\ (Axi!RdEn <=> Bus!RdEn) /\ (Axi!Responded <=> Bus!Responded)
  BY DEF Axi!WrEn, Bus!WrEn, Axi!RdEn, Bus!RdEn, Axi!Responded, Bus!Responded
<1>2. Axi!HoldOnBus <=> Bus!HoldOnBus
  BY DEF Axi!HoldOnBus, Bus!HoldOnBus
<1>3. (Axi!AxiInit <=> Bus!AxiInit) /\ (Axi!AxiReset <=> Bus!AxiReset)
  BY DEF Axi!AxiInit, Bus!AxiInit, Axi!AxiReset, Bus!AxiReset, Axi!ManagerReset, Bus!ManagerReset,
         Axi!SubordinateReset, Bus!SubordinateReset, Axi!Zero, Bus!Zero
<1>4. ASSUME NEW shown PROVE Axi!SubordinateEdge(shown) <=> Bus!SubordinateEdge(shown)
  BY DEF Axi!SubordinateEdge, Bus!SubordinateEdge, Axi!WriteEdge, Bus!WriteEdge,
         Axi!AwEdge, Bus!AwEdge, Axi!WEdge, Bus!WEdge, Axi!BEdge, Bus!BEdge,
         Axi!ArEdge, Bus!ArEdge, Axi!REdge, Bus!REdge, Axi!WrEn, Bus!WrEn, Axi!RdEn, Bus!RdEn
<1>5. ASSUME NEW access PROVE Axi!PutOnBus(access) <=> Bus!PutOnBus(access)
  BY DEF Axi!PutOnBus, Bus!PutOnBus
<1>. QED
  BY <1>1, <1>2, <1>3, <1>4, <1>5

LEMMA CallTypes ==
  ASSUME NEW c \in Calls
  PROVE  /\ c.read \in BOOLEAN /\ c.addr \in Address /\ c.clk_div \in Nat \ {1}
         /\ c.data \in Byte /\ c.ack_in \in Bit
<1>1. CASE \E a \in Address, d \in Dividers, b \in DataBytes :
            c = [read |-> FALSE, addr |-> a, clk_div |-> d, data |-> b, ack_in |-> 1]
  <2>1. PICK a \in Address, d \in Dividers, b \in DataBytes :
            c = [read |-> FALSE, addr |-> a, clk_div |-> d, data |-> b, ack_in |-> 1]
    BY <1>1
  <2>2. d \in Nat \ {1} /\ b \in Byte /\ 1 \in Bit
    BY DriverAssumption DEF Bit
  <2>. QED
    BY <2>1, <2>2
<1>2. CASE \E a \in Address, d \in Dividers, k \in Bit :
            c = [read |-> TRUE, addr |-> a, clk_div |-> d, data |-> ZeroByte, ack_in |-> k]
  <2>1. PICK a \in Address, d \in Dividers, k \in Bit :
            c = [read |-> TRUE, addr |-> a, clk_div |-> d, data |-> ZeroByte, ack_in |-> k]
    BY <1>2
  <2>2. d \in Nat \ {1} /\ ZeroByte \in Byte
    BY DriverAssumption, ConstantTypes
  <2>. QED
    BY <2>1, <2>2
<1>3. \/ \E a \in Address, d \in Dividers, b \in DataBytes :
           c = [read |-> FALSE, addr |-> a, clk_div |-> d, data |-> b, ack_in |-> 1]
      \/ \E a \in Address, d \in Dividers, k \in Bit :
           c = [read |-> TRUE, addr |-> a, clk_div |-> d, data |-> ZeroByte, ack_in |-> k]
  BY DEF Calls
<1>. QED
  BY <1>1, <1>2, <1>3

LEMMA Accesses ==
  ASSUME NEW c
  PROVE  /\ pc = "config" => Access(c) = [write |-> TRUE, addr |-> 1,
                               word |-> [word |-> [addr |-> c.addr, clk_div |-> c.clk_div]]]
         /\ pc = "data"   => Access(c) = [write |-> TRUE, addr |-> 3,
                               word |-> [word |-> [tx |-> c.data, rx |-> ZeroByte]]]
         /\ pc = "start"  => Access(c) = [write |-> TRUE, addr |-> 0,
                               word |-> [word |-> [c |-> [rw |-> c.read, ack_in |-> c.ack_in,
                                                          intr_en |-> FALSE],
                                                   start |-> TRUE, done_clr |-> FALSE]]]
         /\ pc = "poll"   => Access(c) = [write |-> FALSE, addr |-> 2]
         /\ pc = "clear"  => Access(c) = [write |-> TRUE, addr |-> 0,
                               word |-> [word |-> [c |-> ResetCtrl, start |-> FALSE, done_clr |-> TRUE]]]
  BY DEF Access, Axi!WriteOf, Axi!ReadOf, CTRL, CONFIG, STATUS, DATA, CtrlWord, ConfigWord, DataWord

LEMMA BusStep ==
  ASSUME FirmwareTypes, BusInv, Clock
  PROVE  /\ BusInv' /\ issued' \in BOOLEAN /\ call' \in Calls
         /\ pc' \in {"config", "data", "start", "poll", "clear"}
         /\ axi_bvalid' <=> Axi!WrEn
         /\ axi_rvalid' <=> Axi!RdEn
         /\ Axi!WrEn => /\ issued /\ axi_awaddr = Access(call).addr /\ wdata = Access(call).word
                        /\ pc # "poll"
         /\ Axi!RdEn => issued /\ axi_araddr = 2 /\ axi_rdata' = reg_data_out /\ pc = "poll"
         /\ ~Axi!RdEn => axi_rdata' = axi_rdata
         /\ IF issued /\ Axi!Responded
            THEN ~issued' /\ pc' \in Then(axi_rdata) /\ call' = call /\ ~Axi!WrEn /\ ~Axi!RdEn
            ELSE pc' = pc /\ (issued => issued') /\ (issued \/ pc # "config" => call' = call)
         /\ Axi!Responded => issued
         /\ axi_bvalid => pc # "poll"
         /\ axi_rvalid => pc = "poll"
<1>0. /\ Bus!SubordinateEdge({reg_data_out})
      /\ (Axi!WrEn <=> Bus!WrEn) /\ (Axi!RdEn <=> Bus!RdEn) /\ (Axi!Responded <=> Bus!Responded)
  BY SameBus DEF Clock
<1>1. /\ Access(call).write <=> pc # "poll"
      /\ pc = "poll" => Access(call).addr = 2
  BY Accesses DEF FirmwareTypes
<1>2. CASE Wait
  <2>1. Bus!Free /\ UNCHANGED Bus!manager /\ ~issued
    BY <1>2 DEF Wait, BusInv, manager, Bus!manager, Bus!writeManager, Bus!readManager
  <2>2. Bus!Free' /\ ~Bus!WrEn /\ ~Bus!RdEn /\ axi_rdata' = axi_rdata
    BY <1>0, <2>1, Bus!FreeWaits
  <2>3. ~axi_bvalid /\ ~axi_rvalid /\ ~axi_bvalid' /\ ~axi_rvalid'
    BY <2>1, <2>2 DEF Bus!Free, Bus!WriteFree, Bus!ReadFree
  <2>4. UNCHANGED << pc, issued, call >>
    BY <1>2 DEF Wait, firmware
  <2>. QED
    BY <1>0, <2>1, <2>2, <2>3, <2>4 DEF BusInv, FirmwareTypes, Bus!Responded
<1>3. CASE Issue
  <2>1. Bus!Free /\ Bus!PutOnBus(Access(call')) /\ ~issued /\ issued' = TRUE /\ pc' = pc
        /\ (IF pc = "config" THEN call' \in Calls ELSE call' = call)
    BY <1>3, SameBus DEF Issue, BusInv
  <2>2. Access(call)' = Access(call')
    BY <2>1 DEF Access, Axi!WriteOf, Axi!ReadOf, CtrlWord, ConfigWord, DataWord, ResetCtrl
  <2>3. /\ Bus!Carries(Access(call))' /\ ~Bus!WrEn /\ ~Bus!RdEn /\ axi_rdata' = axi_rdata
        /\ ~axi_bvalid' /\ ~axi_rvalid'
    BY <1>0, <2>1, <2>2, Bus!FreeTakes DEF Bus!Carries
  <2>4. ~axi_bvalid /\ ~axi_rvalid
    BY <2>1 DEF Bus!Free, Bus!WriteFree, Bus!ReadFree
  <2>. QED
    BY <1>0, <2>1, <2>3, <2>4 DEF BusInv, FirmwareTypes, Bus!Responded
<1>4. CASE OnBus
  <2>1. issued /\ Bus!Carries(Access(call)) /\ Bus!HoldOnBus
    BY <1>4, SameBus DEF OnBus, BusInv
  <2>2. /\ Bus!WrEn => Access(call).write /\ axi_awaddr = Access(call).addr /\ wdata = Access(call).word
        /\ Bus!RdEn => ~Access(call).write /\ axi_araddr = Access(call).addr
        /\ axi_bvalid' <=> Bus!WrEn
        /\ axi_rvalid' <=> Bus!RdEn
        /\ IF Bus!RdEn THEN axi_rdata' \in {reg_data_out} ELSE axi_rdata' = axi_rdata
        /\ axi_bvalid => Access(call).write
        /\ axi_rvalid => ~Access(call).write
        /\ Bus!Responded => Bus!Free' /\ ~Bus!WrEn /\ ~Bus!RdEn
    BY <1>0, <2>1, Bus!CarriesOn
  <2>3. CASE Bus!Responded
    <3>1. issued' = FALSE /\ pc' \in Then(axi_rdata) /\ call' = call
      BY <1>0, <1>4, <2>3 DEF OnBus, Complete
    <3>2. Then(axi_rdata) \subseteq {"config", "data", "start", "poll", "clear"}
      BY DEF Then, FirmwareTypes
    <3>. QED
      BY <1>0, <1>1, <2>1, <2>2, <2>3, <3>1, <3>2 DEF BusInv, FirmwareTypes
  <2>4. CASE ~Bus!Responded
    <3>1. UNCHANGED << pc, issued, call >>
      BY <1>0, <1>4, <2>4 DEF OnBus, firmware
    <3>2. Access(call)' = Access(call)
      BY <3>1 DEF Access, Axi!WriteOf, Axi!ReadOf, CtrlWord, ConfigWord, DataWord, ResetCtrl
    <3>3. Bus!Carries(Access(call))'
      BY <1>0, <2>1, <2>4, <3>2, Bus!CarriesOn DEF Bus!Carries
    <3>. QED
      BY <1>0, <1>1, <2>1, <2>2, <2>4, <3>1, <3>3 DEF BusInv, FirmwareTypes
  <2>. QED
    BY <2>3, <2>4
<1>. QED
  BY <1>2, <1>3, <1>4 DEF Clock

-----------------------------------------------------------------------------
\* What an access to a register does.

LEMMA RegisterStep ==
  ASSUME FirmwareTypes, BusInv, RegisterTypes, Clock
  PROVE  /\ RegisterTypes'
         /\ start' <=> Axi!WrEn /\ pc = "start"
         /\ Axi!WrEn /\ pc = "start" => ctrl'.rw = call.read
         /\ IF Axi!WrEn /\ pc = "config"
            THEN config' = [addr |-> call.addr, clk_div |-> call.clk_div] ELSE config' = config
         /\ tx_data' = IF Axi!WrEn /\ pc = "data" THEN call.data ELSE tx_data
         /\ status'.done \in BOOLEAN
         /\ status'.done <=> ~(Axi!WrEn /\ pc = "clear") /\ (done \/ status.done)
         /\ status'.ack_seen = ack_seen /\ status'.rx = rx_data
<1>1. Axi!WrEn => /\ axi_awaddr = Access(call).addr /\ wdata = Access(call).word
                  /\ pc \in {"config", "data", "start", "clear"}
  BY BusStep DEF FirmwareTypes
<1>2. /\ call.read \in BOOLEAN /\ call.addr \in Address /\ call.clk_div \in Nat \ {1}
      /\ call.data \in Byte /\ call.ack_in \in Bit /\ ResetCtrl \in Setting
  BY CallTypes, ConstantTypes DEF FirmwareTypes
<1>3. /\ start' = (Writes(CTRL) /\ wdata.word.start)
      /\ ctrl' = IF Writes(CTRL) THEN wdata.word.c ELSE ctrl
      /\ config' = IF Writes(CONFIG) THEN wdata.word ELSE config
      /\ tx_data' = IF Writes(DATA) THEN wdata.word.tx ELSE tx_data
  BY DEF Clock, RegisterEdge
<1>4. /\ Writes(CTRL) <=> Axi!WrEn /\ axi_awaddr = 0
      /\ Writes(CONFIG) <=> Axi!WrEn /\ axi_awaddr = 1
      /\ Writes(DATA) <=> Axi!WrEn /\ axi_awaddr = 3
  BY DEF Writes, CTRL, CONFIG, DATA
<1>5. /\ Axi!WrEn /\ pc = "config" => axi_awaddr = 1 /\ wdata.word = [addr |-> call.addr, clk_div |-> call.clk_div]
      /\ Axi!WrEn /\ pc = "data" => axi_awaddr = 3 /\ wdata.word.tx = call.data
      /\ Axi!WrEn /\ pc = "start" => /\ axi_awaddr = 0 /\ wdata.word.start = TRUE /\ wdata.word.done_clr = FALSE
                                     /\ wdata.word.c = [rw |-> call.read, ack_in |-> call.ack_in,
                                                        intr_en |-> FALSE]
      /\ Axi!WrEn /\ pc = "clear" => /\ axi_awaddr = 0 /\ wdata.word.start = FALSE /\ wdata.word.done_clr = TRUE
                                     /\ wdata.word.c = ResetCtrl
  <2>1. CASE pc = "config"
    <3>1. Access(call) = [write |-> TRUE, addr |-> 1,
                         word |-> [word |-> [addr |-> call.addr, clk_div |-> call.clk_div]]]
      BY <2>1, Accesses
    <3>. QED
      BY <1>1, <2>1, <3>1
  <2>2. CASE pc = "data"
    <3>1. Access(call) = [write |-> TRUE, addr |-> 3,
                         word |-> [word |-> [tx |-> call.data, rx |-> ZeroByte]]]
      BY <2>2, Accesses
    <3>. QED
      BY <1>1, <2>2, <3>1
  <2>3. CASE pc = "start"
    <3>1. Access(call) = [write |-> TRUE, addr |-> 0,
                         word |-> [word |-> [c |-> [rw |-> call.read, ack_in |-> call.ack_in,
                                                    intr_en |-> FALSE],
                                             start |-> TRUE, done_clr |-> FALSE]]]
      BY <2>3, Accesses
    <3>2. /\ Access(call).addr = 0
          /\ Access(call).word.word = [c |-> [rw |-> call.read, ack_in |-> call.ack_in,
                                              intr_en |-> FALSE],
                                       start |-> TRUE, done_clr |-> FALSE]
      <4>1. ASSUME NEW k, NEW a, a = [write |-> TRUE, addr |-> 0,
                                      word |-> [word |-> [c |-> k, start |-> TRUE, done_clr |-> FALSE]]]
            PROVE  a.addr = 0 /\ a.word.word = [c |-> k, start |-> TRUE, done_clr |-> FALSE]
        BY <4>1
      <4>. QED
        BY <3>1, <4>1, Zenon
    <3>3. /\ Access(call).word.word.start = TRUE /\ Access(call).word.word.done_clr = FALSE
          /\ Access(call).word.word.c = [rw |-> call.read, ack_in |-> call.ack_in,
                                         intr_en |-> FALSE]
      BY <3>2
    <3>. QED
      BY <1>1, <2>3, <3>2, <3>3
  <2>4. CASE pc = "clear"
    <3>1. Access(call) = [write |-> TRUE, addr |-> 0,
                         word |-> [word |-> [c |-> ResetCtrl, start |-> FALSE, done_clr |-> TRUE]]]
      BY <2>4, Accesses
    <3>. QED
      BY <1>1, <2>4, <3>1
  <2>. QED
    BY <2>1, <2>2, <2>3, <2>4
<1>6. /\ Writes(CTRL) <=> Axi!WrEn /\ pc \in {"start", "clear"}
      /\ Writes(CONFIG) <=> Axi!WrEn /\ pc = "config"
      /\ Writes(DATA) <=> Axi!WrEn /\ pc = "data"
  BY <1>1, <1>4, <1>5
<1>7. start' \in BOOLEAN /\ (start' <=> Writes(CTRL) /\ wdata.word.start)
  BY <1>3, Zenon
<1>8. start' <=> Axi!WrEn /\ pc = "start"
  BY <1>5, <1>6, <1>7
<1>9. Axi!WrEn /\ pc = "start" => ctrl'.rw = call.read
  BY <1>3, <1>5, <1>6
<1>10. IF Axi!WrEn /\ pc = "config"
       THEN config' = [addr |-> call.addr, clk_div |-> call.clk_div] ELSE config' = config
  BY <1>3, <1>5, <1>6
<1>11. tx_data' = IF Axi!WrEn /\ pc = "data" THEN call.data ELSE tx_data
  BY <1>3, <1>5, <1>6
<1>12. ctrl' \in Setting
  <2>1. [rw |-> call.read, ack_in |-> call.ack_in, intr_en |-> FALSE] \in Setting
    BY <1>2 DEF Setting
  <2>2. ctrl' \in {ctrl, ResetCtrl, [rw |-> call.read, ack_in |-> call.ack_in, intr_en |-> FALSE]}
    BY <1>3, <1>5, <1>6
  <2>. QED
    BY <1>2, <2>1, <2>2 DEF RegisterTypes
<1>13. config' \in Config /\ tx_data' \in Byte
  BY <1>2, <1>10, <1>11 DEF RegisterTypes, Config
<1>14. status' = [busy |-> busy,
                  done |-> ~(Writes(CTRL) /\ wdata.word.done_clr) /\ (done \/ status.done),
                  ack_seen |-> ack_seen, rx |-> rx_data]
  BY DEF Clock, RegisterEdge, StatusEdge
<1>15. status'.ack_seen = ack_seen /\ status'.rx = rx_data
       /\ status'.done = (~(Writes(CTRL) /\ wdata.word.done_clr) /\ (done \/ status.done))
  BY <1>14
<1>16. /\ status'.done \in BOOLEAN
       /\ status'.done <=> ~(Writes(CTRL) /\ wdata.word.done_clr) /\ (done \/ status.done)
  BY <1>15, Zenon
<1>17. status'.done <=> ~(Axi!WrEn /\ pc = "clear") /\ (done \/ status.done)
  BY <1>5, <1>6, <1>16
<1>. QED
  BY <1>7, <1>8, <1>9, <1>10, <1>11, <1>12, <1>13, <1>15, <1>16, <1>17 DEF RegisterTypes

LEMMA ClockEdge ==
  ASSUME FirmwareTypes, BusInv, RegisterTypes, Clock
  PROVE  Edge
  BY RegisterStep DEF Clock, Edge

-----------------------------------------------------------------------------
\* What the registers hold of the call.

CallInv ==
  /\ start <=> pc = "start" /\ Wrote
  /\ pc \in {"data", "start", "poll"} \/ (pc = "config" /\ Wrote) => config.addr = call.addr
  /\ (pc \in {"start", "poll"} \/ (pc = "data" /\ Wrote)) /\ ~call.read => tx_data = call.data
  /\ start => ctrl.rw = call.read

\* An access that completes leads on; one that does not stays as it is.
LEMMA Leads ==
  ASSUME FirmwareTypes, BusInv, Clock
  PROVE  /\ issued /\ Axi!Responded =>
              /\ ~issued' /\ call' = call /\ ~Axi!WrEn /\ ~Axi!RdEn
              /\ IF pc = "poll" THEN Got ELSE Wrote
              /\ pc = "config" => pc' = IF call.read THEN "start" ELSE "data"
              /\ pc = "data"   => pc' = "start"
              /\ pc = "start"  => pc' = "poll"
              /\ pc = "poll"   => pc' \in {"poll", "clear"} /\ (axi_rdata.word.done => pc' = "clear")
              /\ pc = "clear"  => pc' = "config"
         /\ ~(issued /\ Axi!Responded) =>
              pc' = pc /\ (issued \/ pc # "config" => call' = call)
         /\ Wrote' <=> Axi!WrEn
         /\ Got' <=> Axi!RdEn
<1>1. CASE issued /\ Axi!Responded
  <2>1. ~issued' /\ call' = call /\ ~Axi!WrEn /\ ~Axi!RdEn /\ pc' \in Then(axi_rdata)
    BY <1>1, BusStep
  <2>2. IF pc = "poll" THEN Got ELSE Wrote
    BY <1>1, BusStep DEF Axi!Responded, Got, Wrote
  <2>3. Then(axi_rdata) = IF pc = "config" THEN {IF call.read THEN "start" ELSE "data"}
                          ELSE IF pc = "data" THEN {"start"}
                          ELSE IF pc = "start" THEN {"poll"}
                          ELSE IF pc = "poll" THEN (IF axi_rdata.word.done THEN {"clear"} ELSE {"poll", "clear"})
                          ELSE {"config"}
    BY DEF Then, FirmwareTypes
  <2>. QED
    BY <1>1, <2>1, <2>2, <2>3 DEF Wrote, Got
<1>2. CASE ~(issued /\ Axi!Responded)
  BY <1>2, BusStep DEF Wrote, Got
<1>. QED
  BY <1>1, <1>2

LEMMA CallStep ==
  ASSUME FirmwareTypes, BusInv, RegisterTypes, CallInv, Clock
  PROVE  CallInv'
<1>1. pc \in {"config", "data", "start", "poll", "clear"} /\ (Axi!WrEn => issued /\ pc # "poll")
  BY BusStep DEF FirmwareTypes
<1>2. start' <=> pc' = "start" /\ Wrote'
  BY <1>1, RegisterStep, Leads
<1>3. start' => ctrl'.rw = call'.read
  BY <1>1, RegisterStep, Leads
<1>4. pc' \in {"data", "start", "poll"} \/ (pc' = "config" /\ Wrote') => config'.addr = call'.addr
  BY <1>1, RegisterStep, Leads DEF CallInv
<1>5. (pc' \in {"start", "poll"} \/ (pc' = "data" /\ Wrote')) /\ ~call'.read => tx_data' = call'.data
  BY <1>1, RegisterStep, Leads DEF CallInv
<1>. QED
  BY <1>2, <1>3, <1>4, <1>5 DEF CallInv

-----------------------------------------------------------------------------
\* The transfer of the call.

LEMMA Progress ==
  ASSUME IicTypes, LineInv, Edge
  PROVE  /\ state = "IDLE" => ~done' /\ state' = IF start THEN "GEN_START" ELSE "IDLE"
         /\ state = "IDLE" /\ start => byte_phase' = "ADDR"
         /\ state = "DONE" => done' /\ state' = "IDLE"
         /\ state \notin {"IDLE", "DONE"} => ~done' /\ state' # "IDLE"
<1>1. CASE state = "IDLE"
  BY <1>1, IdleEdge
<1>2. CASE state = "DONE"
  BY <1>2, DoneEdge
<1>3. CASE state \notin {"IDLE", "DONE"}
  <2>1. ~done'
    BY <1>3, Waits, Ticks DEF LineInv
  <2>2. state' # "IDLE"
    BY <1>3, NextStates DEF LineInv, IicTypes, ControllerTypes, Clocked
  <2>. QED
    BY <1>3, <2>1, <2>2
<1>. QED
  BY <1>1, <1>2, <1>3

\* The byte to write is taken after the address, once.
LEMMA SentOnce ==
  ASSUME IicTypes, LineInv, Edge, state # "IDLE", ~asked.rw, state' = "IDLE" \/ byte_phase' = "DATA"
  PROVE  sent' = tx_data \/ (byte_phase = "DATA" /\ sent' = sent)
<1>1. IF state = "WAIT_ACK" /\ state' = "TX_BYTE" THEN sent' = tx_data ELSE sent' = sent
  BY HistoryKept
<1>2. CASE state = "DONE"
  BY <1>1, <1>2 DEF LineInv, PhaseInv
<1>3. CASE state # "DONE" /\ ~qtr_tick
  BY <1>1, <1>3, Waits, Progress DEF LineInv
<1>4. CASE state # "DONE" /\ qtr_tick
  <2>1. byte_phase' = "DATA"
    BY <1>4, Progress
  <2>2. CASE state = "WAIT_ACK"
    BY <1>1, <2>1, <2>2, <1>4, AckTick DEF AfterAck, LineInv
  <2>3. CASE state \in {"GEN_START", "TX_BYTE", "RX_BYTE", "SEND_ACK", "GEN_STOP"}
    BY <1>1, <1>4, <2>1, <2>3, StartTick, TxTick, RxTick, SendTick, StopTick DEF LineInv
  <2>. QED
    BY <1>4, <2>2, <2>3 DEF IicTypes, ControllerTypes, Clocked
<1>. QED
  BY <1>2, <1>3, <1>4

\* Where the transfer is when no call that gave up has left one behind: none,
\* on the bus, ended and not yet in STATUS, or in STATUS with its outcome.
Quiet    == state = "IDLE" /\ ~start /\ ~done /\ ~status.done
Running  == state # "IDLE" /\ ~start /\ ~done /\ ~status.done
Ended    == state = "IDLE" /\ ~start /\ done /\ ~status.done
Reported == /\ state = "IDLE" /\ ~start /\ ~done /\ status.done
            /\ status.ack_seen = ack_seen /\ status.rx = rx_data /\ Outcome

\* The transfer is the call's.
OfCall ==
  /\ asked = [addr |-> call.addr, rw |-> call.read]
  /\ ~call.read /\ (state = "IDLE" \/ byte_phase = "DATA") => sent = call.data

Own ==
  /\ pc \in {"config", "data"} => Quiet
  /\ pc = "start" => IF Wrote THEN state = "IDLE" /\ ~done /\ ~status.done ELSE Quiet
  /\ pc = "poll" => OfCall /\ (Running \/ Ended \/ Reported)
  /\ pc = "poll" /\ Got /\ axi_rdata.word.done =>
       Reported /\ axi_rdata.word.ack_seen = ack_seen /\ axi_rdata.word.rx = rx_data
  /\ pc = "clear" => IF Wrote THEN Quiet ELSE state = "IDLE" /\ ~done /\ ~start /\ status.done

OwnInv == ~behind => Own

\* The transfer of the call begins.
LEMMA OwnBegins ==
  ASSUME IicInv, FirmwareTypes, BusInv, CallInv, Clock, Begins, ~done, ~status.done
  PROVE  Own'
<1>1. Edge /\ IicTypes /\ LineInv /\ RegisterTypes
  BY ClockEdge DEF IicInv, IicTypes
<1>2. state = "IDLE" /\ start /\ pc = "start" /\ Wrote
  BY DEF Begins, CallInv
<1>3. pc' = "poll" /\ call' = call /\ ~Axi!WrEn /\ ~Axi!RdEn
  BY <1>2, Leads DEF Wrote, Axi!Responded
<1>4. ~start' /\ ~status'.done /\ ~Got'
  BY <1>1, <1>3, RegisterStep, Leads
<1>5. state' = "GEN_START" /\ byte_phase' = "ADDR" /\ ~done'
  BY <1>1, <1>2, Progress
<1>6. asked' = [addr |-> config.addr, rw |-> ctrl.rw]
  BY <1>1, <1>2, HistoryKept
<1>7. config.addr = call.addr /\ ctrl.rw = call.read
  BY <1>2 DEF CallInv
<1>. QED
  BY <1>3, <1>4, <1>5, <1>6, <1>7 DEF Own, OfCall, Running

\* An edge at which no transfer begins.
LEMMA OwnGoesOn ==
  ASSUME IicInv, FirmwareTypes, BusInv, CallInv, Own, Clock, ~start, ~GivesUp
  PROVE  Own'
<1>1. Edge /\ IicTypes /\ LineInv /\ RegisterTypes /\ ResultInv
  BY ClockEdge DEF IicInv, IicTypes
<1>2. /\ start' <=> Axi!WrEn /\ pc = "start"
      /\ status'.done <=> ~(Axi!WrEn /\ pc = "clear") /\ (done \/ status.done)
      /\ status'.ack_seen = ack_seen /\ status'.rx = rx_data
  BY <1>1, RegisterStep
<1>3. /\ state = "IDLE" => ~done' /\ state' = "IDLE"
      /\ state = "DONE" => done' /\ state' = "IDLE"
      /\ state \notin {"IDLE", "DONE"} => ~done' /\ state' # "IDLE"
  BY <1>1, Progress
<1>4. pc \in {"config", "data", "start", "poll", "clear"} /\ (Axi!WrEn => pc # "poll")
  BY BusStep DEF FirmwareTypes
<1>5. CASE pc \in {"config", "data"}
  <2>1. Quiet
    BY <1>5 DEF Own
  <2>2. Quiet' /\ pc' \in {"config", "data", "start"}
    BY <1>2, <1>3, <1>5, <2>1, Leads DEF Quiet
  <2>3. pc' = "start" => ~Wrote'
    BY <1>5, Leads
  <2>. QED
    BY <2>2, <2>3 DEF Own
<1>6. CASE pc = "start"
  <2>1. ~Wrote /\ Quiet
    BY <1>6 DEF Own, CallInv
  <2>2. pc' = "start"
    BY <1>6, <2>1, Leads
  <2>3. state' = "IDLE" /\ ~done' /\ ~status'.done /\ (~Wrote' => ~start')
    BY <1>2, <1>3, <2>1, Leads DEF Quiet
  <2>. QED
    BY <2>2, <2>3 DEF Own, Quiet
<1>7. CASE pc = "clear"
  <2>1. CASE Wrote
    <3>1. pc' = "config"
      BY <1>7, <2>1, Leads DEF Wrote, Axi!Responded
    <3>2. Quiet'
      BY <1>2, <1>3, <1>7, <2>1 DEF Own, Quiet
    <3>. QED
      BY <3>1, <3>2 DEF Own
  <2>2. CASE ~Wrote
    <3>1. pc' = "clear" /\ (Wrote' <=> Axi!WrEn)
      BY <1>7, <2>2, Leads
    <3>2. state' = "IDLE" /\ ~done' /\ ~start' /\ (status'.done <=> ~Wrote')
      BY <1>2, <1>3, <1>7, <2>2, <3>1 DEF Own
    <3>. QED
      BY <3>1, <3>2 DEF Own, Quiet
  <2>. QED
    BY <2>1, <2>2
<1>8. CASE pc = "poll"
  <2>1. OfCall /\ (Running \/ Ended \/ Reported) /\ ~start' /\ (status'.done <=> done \/ status.done)
    BY <1>2, <1>4, <1>8 DEF Own
  <2>2. call' = call /\ pc' \in {"poll", "clear"} /\ ~Wrote'
    BY <1>4, <1>8, Leads
  <2>3. ASSUME pc' = "clear" PROVE Own'
    <3>1. Got /\ axi_rdata.word.done
      BY <1>8, <2>3, Leads DEF GivesUp, Finishes
    <3>2. Reported
      BY <1>8, <3>1 DEF Own
    <3>. QED
      BY <1>3, <2>1, <2>2, <2>3, <3>2 DEF Own, Reported
  <2>4. ASSUME pc' = "poll" PROVE Own'
    <3>1. OfCall'
      <4>1. asked' = asked
        BY <1>1, HistoryKept
      <4>2. CASE state = "IDLE"
        <5>1. sent' = sent
          BY <1>1, <4>2, HistoryKept
        <5>. QED
          BY <2>1, <2>2, <4>1, <4>2, <5>1 DEF OfCall
      <4>3. CASE state # "IDLE"
        <5>1. ~call.read => tx_data = call.data /\ ~asked.rw
          BY <1>8, <2>1 DEF CallInv, OfCall
        <5>2. ~call.read /\ (state' = "IDLE" \/ byte_phase' = "DATA") => sent' = call.data
          BY <1>1, <2>1, <4>3, <5>1, SentOnce DEF OfCall
        <5>. QED
          BY <2>1, <2>2, <4>1, <5>2 DEF OfCall
      <4>. QED
        BY <4>2, <4>3
    <3>2. Running => Running' \/ Ended'
      BY <1>3, <2>1 DEF Running, Ended
    <3>3. Ended \/ Reported => Reported' /\ ack_seen' = ack_seen /\ rx_data' = rx_data
      <4>. SUFFICES ASSUME Ended \/ Reported
                    PROVE  Reported' /\ ack_seen' = ack_seen /\ rx_data' = rx_data
        OBVIOUS
      <4>1. state = "IDLE" /\ Outcome
        BY <1>1 DEF Ended, Reported, ResultInv
      <4>2. Outcome' /\ UNCHANGED << ack_seen, rx_data >>
        BY <1>1, <4>1, OutcomeKept
      <4>3. state' = "IDLE" /\ ~done' /\ status'.done
        BY <1>3, <2>1, <4>1 DEF Ended, Reported
      <4>. QED
        BY <1>2, <2>1, <4>2, <4>3 DEF Reported
    <3>4. Got' /\ axi_rdata'.word.done =>
            Reported' /\ axi_rdata'.word.ack_seen = ack_seen' /\ axi_rdata'.word.rx = rx_data'
      <4>. SUFFICES ASSUME Got', axi_rdata'.word.done
                    PROVE  Reported' /\ axi_rdata'.word.ack_seen = ack_seen' /\ axi_rdata'.word.rx = rx_data'
        OBVIOUS
      <4>1. axi_rdata' = reg_data_out /\ axi_araddr = 2
        BY Leads, BusStep
      <4>2. axi_rdata' = [word |-> status]
        BY <4>1 DEF reg_data_out, StatusWord, CTRL, CONFIG, STATUS, DATA
      <4>3. status.done
        BY <4>2
      <4>4. Reported
        BY <2>1, <4>3 DEF Running, Ended
      <4>. QED
        BY <3>3, <4>2, <4>4 DEF Reported
    <3>. QED
      BY <2>4, <3>1, <3>2, <3>3, <3>4, <2>1 DEF Own
  <2>. QED
    BY <2>2, <2>3, <2>4
<1>. QED
  BY <1>4, <1>5, <1>6, <1>7, <1>8

-----------------------------------------------------------------------------
\* The invariant of the whole.

DriverInv == IicInv /\ FirmwareTypes /\ BusInv /\ CallInv /\ OwnInv

LEMMA BehindStep ==
  ASSUME Clock
  PROVE  behind' \in BOOLEAN /\ (behind' <=> GivesUp \/ (behind /\ ~(Begins /\ ~done /\ ~status.done)))
  BY Zenon DEF Clock

LEMMA ClockInv == DriverInv /\ Clock => DriverInv'
<1>. SUFFICES ASSUME DriverInv, Clock PROVE DriverInv'
  OBVIOUS
<1>. USE DEF DriverInv
<1>1. RegisterTypes
  BY DEF IicInv, IicTypes
<1>2. IicInv'
  BY <1>1, ClockEdge, IicStep
<1>3. FirmwareTypes'
  BY <1>1, BusStep, RegisterStep, BehindStep DEF FirmwareTypes
<1>4. BusInv' /\ CallInv'
  BY <1>1, BusStep, CallStep
<1>5. OwnInv'
  <2>. SUFFICES ASSUME ~behind' PROVE Own'
    BY DEF OwnInv
  <2>1. ~GivesUp /\ (~behind \/ (Begins /\ ~done /\ ~status.done))
    BY BehindStep
  <2>2. CASE Begins /\ ~done /\ ~status.done
    BY <2>2, OwnBegins
  <2>3. CASE ~behind /\ ~(Begins /\ ~done /\ ~status.done)
    <3>1. Own
      BY <2>3 DEF OwnInv
    <3>2. ~start
      BY <2>3, <3>1 DEF Own, CallInv, Begins
    <3>. QED
      BY <2>1, <3>1, <3>2, OwnGoesOn
  <2>. QED
    BY <2>1, <2>2, <2>3
<1>. QED
  BY <1>2, <1>3, <1>4, <1>5

\* Reset, of the firmware and of the bus as well.
AtStart ==
  /\ AtRest /\ Bus!Free /\ status = ResetStatus
  /\ pc = "config" /\ issued = FALSE /\ call \in Calls /\ behind = FALSE

LEMMA StartInv == AtStart => DriverInv
<1>. SUFFICES ASSUME AtStart PROVE DriverInv
  OBVIOUS
<1>1. IicInv
  BY RestInv DEF AtStart
<1>2. status.done = FALSE /\ state = "IDLE" /\ done = FALSE /\ start = FALSE
  BY DEF AtStart, AtRest, ResetStatus
<1>3. FirmwareTypes /\ BusInv
  BY <1>2 DEF AtStart, FirmwareTypes, BusInv
<1>4. CallInv /\ OwnInv
  BY <1>2 DEF AtStart, CallInv, OwnInv, Own, Quiet, Wrote
<1>. QED
  BY <1>1, <1>3, <1>4 DEF DriverInv

LEMMA StartsAndResets == (Init => AtStart) /\ (Reset /\ call \in Calls => AtStart')
<1>1. Init => AtStart
  BY ResetRests, SameBus, Bus!ResetFree DEF Init, IicInit, RegistersAtReset, AtStart
<1>2. Reset /\ call \in Calls => AtStart'
  BY ResetRests, SameBus, Bus!ResetFree DEF Reset, RegistersAtReset, AtStart
<1>. QED
  BY <1>1, <1>2

LEMMA ResetDriver == (Init => DriverInv) /\ (DriverInv /\ Reset => DriverInv')
<1>1. AtStart' => DriverInv'
  BY StartInv, PTL
<1>. QED
  BY <1>1, StartInv, StartsAndResets DEF DriverInv, FirmwareTypes

LEMMA StutterInv == DriverInv /\ UNCHANGED driverVars => DriverInv'
<1>. SUFFICES ASSUME DriverInv, UNCHANGED driverVars PROVE DriverInv'
  OBVIOUS
<1>. USE DEF DriverInv
<1>1. /\ UNCHANGED << ctrl, config, status, tx_data, start >>
      /\ UNCHANGED << state, byte_phase, clk_div_r, div_cnt, qtr_tick, step, bit_cnt, tx_shift_reg,
                      rx_shift_reg, rw_r, ack_in_r, ack_seen, rx_data, busy, done,
                      scl_drive_low, sda_drive_low >>
      /\ UNCHANGED << t_state, t_scl, t_sda, t_shift, t_cnt, t_rw, t_ack_active, t_drive_low,
                      t_rx_data, t_rx_valid >>
      /\ UNCHANGED << asked, sent, answer, ack_data >>
      /\ UNCHANGED << pc, issued, call, behind >>
      /\ UNCHANGED << awvalid, awaddr, wvalid, wdata, wstrb, bready, arvalid, araddr, rready >>
      /\ UNCHANGED << axi_awready, axi_wready, aw_en, axi_awaddr, axi_bvalid,
                      axi_arready, axi_araddr, axi_rvalid, axi_rdata >>
  BY DEF driverVars, iicVars, registers, controller, target, history, manager, subordinate,
         firmware, latched, shifts, bus_driven
<1>2. IicTypes'
  BY <1>1 DEF IicInv, IicTypes, RegisterTypes, ControllerTypes, ControllerFlags, TargetTypes,
              TargetFlags, HistoryTypes
<1>3. LineInv'
  <2>1. TimingInv' /\ SclInv' /\ SclLag'
    BY <1>1 DEF IicInv, LineInv, TimingInv, Fresh, SclInv, SclLag, HalfAge, Age, scl
  <2>2. PhaseInv'
    BY <1>1 DEF IicInv, LineInv, PhaseInv, AddrByte, Outgoing
  <2>3. SdaInv' /\ SdaLag' /\ DriveInv'
    BY <1>1 DEF IicInv, LineInv, SdaInv, SdaLag, DriveInv, First, Starting, Since, HalfAge, Age, Fresh, sda
  <2>. QED
    BY <2>1, <2>2, <2>3 DEF LineInv
<1>4. /\ Present' = Present /\ FallSeen' = FallSeen /\ Taken' = Taken /\ Sending' = Sending
      /\ AddrByte' = AddrByte /\ Reply' = Reply /\ Learned' = Learned
  BY <1>1 DEF Present, FallSeen, Taken, RiseSeen, Sending, AddrByte, Reply, Learned, HalfAge, Age
<1>5. TargetInv'
  <2>1. Starting' = Starting /\ Since' = Since
    BY <1>1 DEF Starting, First, Since, Age
  <2>2. ReceivesAddr' <=> ReceivesAddr
    BY <1>1, <1>4 DEF ReceivesAddr, Receives
  <2>3. ReceivesData' <=> ReceivesData
    BY <1>1, <1>4 DEF ReceivesData, Receives
  <2>4. Sends' <=> Sends
    BY <1>1, <1>4 DEF Sends
  <2>5. TxAddrInv' /\ AckAddrInv' /\ TxDataInv' /\ AckDataInv'
    BY <1>1, <1>4, <2>1, <2>2, <2>3
       DEF IicInv, TargetInv, TxAddrInv, AckAddrInv, TxDataInv, AckDataInv, AcksAddr, AcksData, Ignoring
  <2>6. RxInv' /\ SendInv' /\ StopInv'
    BY <1>1, <1>4, <2>4
       DEF IicInv, TargetInv, RxInv, SendInv, StopInv, AcksAddr, AcksData, Waiting, Ignoring
  <2>. QED
    BY <1>1, <1>4, <2>1, <2>2, <2>5, <2>6 DEF IicInv, TargetInv, SilentInv, First, Ignoring
<1>6. ResultInv'
  BY <1>1, <1>4 DEF IicInv, ResultInv, AckInv, ReadInv, Outcome
<1>7. BusInv'
  <2>1. Access(call)' = Access(call)
    BY <1>1 DEF Access, Axi!WriteOf, Axi!ReadOf, CtrlWord, ConfigWord, DataWord, ResetCtrl
  <2>2. Bus!Free => Bus!Free'
    BY <1>1 DEF Bus!Free, Bus!WriteFree, Bus!ReadFree
  <2>3. Bus!Carries(Access(call)) => Bus!Carries(Access(call))'
    BY <1>1, <2>1 DEF Bus!Carries, Bus!WriteFree, Bus!ReadFree, Bus!WriteOffered, Bus!WriteAccepted,
                      Bus!WriteAnswered, Bus!ReadOffered, Bus!ReadAccepted, Bus!ReadAnswered
  <2>. QED
    BY <1>1, <2>2, <2>3 DEF BusInv
<1>8. FirmwareTypes' /\ CallInv' /\ OwnInv'
  BY <1>1, <1>4 DEF FirmwareTypes, CallInv, OwnInv, Own, Quiet, Running, Ended, Reported, OfCall, Outcome, Wrote, Got
<1>. QED
  BY <1>2, <1>3, <1>5, <1>6, <1>7, <1>8 DEF IicInv

-----------------------------------------------------------------------------
\* The firmware and the peripheral, always.

THEOREM DriverInvariant == Spec => []DriverInv
<1>1. Init => DriverInv
  BY ResetDriver
<1>2. DriverInv /\ [Next]_driverVars => DriverInv'
  BY ClockInv, ResetDriver, StutterInv DEF Next
<1>. QED
  BY <1>1, <1>2, PTL DEF Spec

\* When a transfer ends, the byte has crossed and ack_seen is the target's last
\* acknowledge.
THEOREM ByteIsTransferred == Spec => []ByteTransferred
<1>1. DriverInv => ByteTransferred
  <2>. SUFFICES ASSUME DriverInv, done
                PROVE  /\ ack_seen = (asked.addr = OwnAddr /\ (asked.rw \/ ack_data))
                       /\ t_rx_valid = (asked.addr = OwnAddr /\ ~asked.rw)
                       /\ t_rx_valid => t_rx_data = sent
                       /\ asked.rw => rx_data = IF asked.addr = OwnAddr THEN answer ELSE Ones
    BY DEF ByteTransferred
  <2>1. Outcome
    BY DEF DriverInv, IicInv, ResultInv
  <2>2. ack_seen \in BOOLEAN /\ t_rx_valid \in BOOLEAN
    BY DEF DriverInv, IicInv, IicTypes, ControllerFlags, TargetFlags
  <2>3. /\ ack_seen = (asked.addr = OwnAddr /\ (asked.rw \/ ack_data))
        /\ t_rx_valid = (asked.addr = OwnAddr /\ ~asked.rw)
    BY <2>1, <2>2, Zenon DEF Outcome, Present
  <2>4. /\ t_rx_valid => t_rx_data = sent
        /\ asked.rw => rx_data = IF asked.addr = OwnAddr THEN answer ELSE Ones
    BY <2>1 DEF Outcome, Present, Reply
  <2>. QED
    BY <2>3, <2>4
<1>. QED
  BY <1>1, DriverInvariant, PTL

\* Unless a call gave up and left its transfer behind, the DONE a call sees is
\* that of its own transfer, and what it returns is that transfer's outcome.
THEOREM StatusIsOwn == Spec => []DoneIsOwn
<1>1. DriverInv => DoneIsOwn
  <2>. SUFFICES ASSUME DriverInv, Finishes("poll"), axi_rdata.word.done, ~behind
                PROVE  /\ state = "IDLE"
                       /\ asked = [addr |-> call.addr, rw |-> call.read]
                       /\ axi_rdata.word.ack_seen = (call.addr = OwnAddr /\ (call.read \/ ack_data))
                       /\ IF call.read
                          THEN axi_rdata.word.rx = IF call.addr = OwnAddr THEN answer ELSE Ones
                          ELSE call.addr = OwnAddr => t_rx_data = call.data
    BY DEF DoneIsOwn
  <2>1. pc = "poll" /\ issued /\ (axi_bvalid \/ axi_rvalid)
    BY DEF Finishes, Axi!Responded
  <2>2. Bus!Carries(Access(call)) /\ ~Access(call).write
    BY <2>1, Accesses DEF DriverInv, BusInv
  <2>3. Got
    BY <2>1, <2>2 DEF Got, Bus!Carries, Bus!WriteFree
  <2>4. OfCall /\ Reported /\ axi_rdata.word.ack_seen = ack_seen /\ axi_rdata.word.rx = rx_data
    BY <2>1, <2>3 DEF DriverInv, OwnInv, Own
  <2>5. /\ asked.addr = call.addr /\ asked.rw = call.read /\ state = "IDLE"
        /\ asked = [addr |-> call.addr, rw |-> call.read] /\ (~call.read => sent = call.data)
    BY <2>4 DEF OfCall, Reported
  <2>6. Outcome
    BY <2>4 DEF Reported
  <2>7. ack_seen \in BOOLEAN
    BY DEF DriverInv, IicInv, IicTypes, ControllerFlags
  <2>8. ack_seen <=> call.addr = OwnAddr /\ (call.read \/ ack_data)
    BY <2>5, <2>6 DEF Outcome, Present
  <2>9. axi_rdata.word.ack_seen = (call.addr = OwnAddr /\ (call.read \/ ack_data))
    BY <2>4, <2>7, <2>8, Zenon
  <2>10. IF call.read
         THEN rx_data = IF call.addr = OwnAddr THEN answer ELSE Ones
         ELSE call.addr = OwnAddr => t_rx_data = call.data
    BY <2>5, <2>6 DEF Outcome, Present, Reply
  <2>. QED
    BY <2>4, <2>5, <2>9, <2>10
<1>. QED
  BY <1>1, DriverInvariant, PTL

LEMMA SdaHolds ==
  ASSUME IicInv, IicInv', Edge, scl = 1, scl' = 1, sda # sda'
  PROVE  state = IF sda = 1 THEN "GEN_START" ELSE "GEN_STOP"
<1>1. IicTypes /\ LineInv /\ SilentInv /\ LineInv' /\ SilentInv'
  BY DEF IicInv, TargetInv
<1>2. TimingInv /\ SclInv /\ SdaInv /\ DriveInv /\ SclInv' /\ SdaInv'
  BY <1>1 DEF LineInv
<1>3. ~scl_drive_low /\ ~scl_drive_low'
  BY DEF scl
<1>4. CASE state \in {"IDLE", "DONE"}
  <2>1. state' = "IDLE" \/ (state' = "GEN_START" /\ step' = 0)
    BY <1>1, <1>4, IdleEdge, DoneEdge
  <2>2. ~sda_drive_low /\ ~t_drive_low /\ ~sda_drive_low' /\ ~t_drive_low'
    BY <1>1, <1>2, <1>4, <2>1 DEF SdaInv, SilentInv
  <2>. QED
    BY <2>2 DEF sda
<1>5. CASE state = "GEN_START"
  <2>1. state' = "GEN_START"
    <3>1. state' = "GEN_START" \/ (state' = "TX_BYTE" /\ step' = 0)
      BY <1>1, <1>2, <1>5, NextStates
    <3>. QED
      BY <1>2, <1>3, <3>1 DEF SclInv, Clocked
  <2>2. step = 2 => step' = 2
    <3>1. step = 2 => ~qtr_tick
      BY <1>1, <1>2, <1>5, <2>1, StartTick
    <3>. QED
      BY <1>1, <1>2, <1>5, <3>1, Waits
  <2>3. ~t_drive_low /\ ~t_drive_low'
    BY <1>1, <1>5, <2>1 DEF SilentInv
  <2>4. (sda_drive_low <=> step = 2) /\ (sda_drive_low' <=> step' = 2)
    BY <1>2, <1>5, <2>1 DEF SdaInv
  <2>. QED
    BY <1>5, <2>2, <2>3, <2>4 DEF sda
<1>6. CASE state \in Clocked /\ state' \in Clocked
  <2>1. ~Starting
    BY <1>2, <1>3, <1>6 DEF Starting, First, SclInv, Clocked
  <2>2. ~start_detect /\ ~stop_detect /\ ~scl_fall
    BY <1>1, <1>3, <1>6, <2>1, Events DEF LineInv, Clocked, Fresh
  <2>3. t_drive_low' <=> t_drive_low
    BY <1>1, <1>2, <2>2, DriveKept
  <2>4. sda' = sda
    BY <1>1, <1>2, <1>3, <1>6, <2>3, SdaKept
  <2>. QED
    BY <2>4
<1>7. CASE state \in Clocked /\ state' \notin Clocked
  <2>1. state = "GEN_STOP" /\ step = 2
    BY <1>1, <1>2, <1>7, NextStates
  <2>2. sda_drive_low
    BY <1>2, <2>1 DEF SdaInv
  <2>. QED
    BY <2>1, <2>2 DEF sda
<1>. QED
  BY <1>1, <1>4, <1>5, <1>6, <1>7 DEF IicTypes, ControllerTypes, Clocked

\* SDA changes under a high SCL only as the START and the STOP, however late
\* the target sees the clock.
THEOREM SdaIsSettled == Spec => OnlyStartAndStop
<1>1. DriverInv /\ DriverInv' /\ [Next]_driverVars =>
        [~Reset /\ scl = 1 /\ scl' = 1 /\ sda # sda' =>
           state = IF sda = 1 THEN "GEN_START" ELSE "GEN_STOP"]_driverVars
  <2>. SUFFICES ASSUME DriverInv, DriverInv', Next, ~Reset, scl = 1, scl' = 1, sda # sda'
                PROVE  state = IF sda = 1 THEN "GEN_START" ELSE "GEN_STOP"
    OBVIOUS
  <2>1. Clock /\ IicInv /\ IicInv' /\ RegisterTypes
    BY DEF Next, DriverInv, IicInv, IicTypes
  <2>2. Edge
    BY <2>1, ClockEdge DEF DriverInv
  <2>. QED
    BY <2>1, <2>2, SdaHolds
<1>. QED
  BY <1>1, DriverInvariant, PTL DEF OnlyStartAndStop, Spec

=============================================================================
