----------------------------- MODULE IicDriver -----------------------------
(***************************************************************************)
(* The firmware of IIC.c driving the IIC peripheral over AXI4-Lite:        *)
(* IicController composed with the handshake of AxiLite and the register   *)
(* decoding of iic_v1_0_S00_AXI.v.                                         *)
(*                                                                         *)
(* The CPU makes one bus access at a time and waits any time between two.  *)
(* IIC_WaitDone may give up after any number of polls.                     *)
(***************************************************************************)
EXTENDS IicController

CONSTANTS
  Dividers,       \* the clk_div values calls are made with
  DataBytes,      \* the bytes written
  Answers         \* the bytes the target may have to send

\* The calls of main use 250 clocks per quarter bit, as CLK_DIV_INIT is; with
\* a single one the target, three clocks behind SCL, drives SDA too late.
ASSUME DriverAssumption ==
  /\ CLK_DIV_INIT > 1
  /\ Dividers \subseteq Nat \ {1}
  /\ DataBytes \subseteq Byte /\ Answers \subseteq Byte

VARIABLES
  \* the AXI4-Lite signals (AxiLite)
  awvalid, awaddr, wvalid, wdata, wstrb, bready, arvalid, araddr, rready,
  axi_awready, axi_wready, aw_en, axi_awaddr, axi_bvalid,
  axi_arready, axi_araddr, axi_rvalid, axi_rdata,
  \* the firmware
  pc,         \* the bus access it makes next, or is making
  issued,     \* that access is on the bus
  call,       \* the arguments of IIC_WriteByte or IIC_ReadByte
  \* history
  behind      \* a call gave up, and no transfer was started from rest since

manager     == << awvalid, awaddr, wvalid, wdata, wstrb, bready, arvalid, araddr, rready >>
subordinate == << axi_awready, axi_wready, aw_en, axi_awaddr, axi_bvalid,
                  axi_arready, axi_araddr, axi_rvalid, axi_rdata >>
firmware    == << pc, issued, call >>
driverVars  == << iicVars, manager, subordinate, firmware, behind >>

CTRL   == 0
CONFIG == 1
STATUS == 2
DATA   == 3

\* A word, in its one lane, is the value of the register it belongs to.
CtrlWord(c, s, clr) == [word |-> [c |-> c, start |-> s, done_clr |-> clr]]
ConfigWord(g)       == [word |-> g]
StatusWord(s)       == [word |-> s]
DataWord(tx, rx)    == [word |-> [tx |-> tx, rx |-> rx]]
ResetWord           == [tx |-> ZeroByte, rx |-> ZeroByte]

Axi == INSTANCE AxiLite WITH
  Lanes <- {"word"}, Bytes <- {ResetWord}, ZeroByte <- ResetWord,
  Accessed <- {}, WriteData <- {}, WriteStrobes <- {}

-----------------------------------------------------------------------------
\* The register block, decoded from the handshake.

Writes(a) == Axi!WrEn /\ axi_awaddr = a

RegisterEdge ==
  /\ ctrl' = IF Writes(CTRL) THEN wdata.word.c ELSE ctrl
  /\ start' = (Writes(CTRL) /\ wdata.word.start)
  /\ config' = IF Writes(CONFIG) THEN wdata.word ELSE config
  /\ tx_data' = IF Writes(DATA) THEN wdata.word.tx ELSE tx_data
  /\ StatusEdge(Writes(CTRL) /\ wdata.word.done_clr)

reg_data_out ==
  CASE axi_araddr = CTRL   -> CtrlWord(ctrl, FALSE, FALSE)
    [] axi_araddr = CONFIG -> ConfigWord(config)
    [] axi_araddr = STATUS -> StatusWord(status)
    [] axi_araddr = DATA   -> DataWord(tx_data, status.rx)

-----------------------------------------------------------------------------
\* The firmware: IIC_WriteByte (IIC_ProbeAddress, and the scan in main.c) and
\* IIC_ReadByte, called again and again.

Access(c) ==
  CASE pc = "config" -> Axi!WriteOf(CONFIG,
                          ConfigWord([addr |-> c.addr, clk_div |-> c.clk_div]))
    [] pc = "data"   -> Axi!WriteOf(DATA, DataWord(c.data, ZeroByte))
    [] pc = "start"  -> Axi!WriteOf(CTRL,
                          CtrlWord([rw |-> c.read, ack_in |-> c.ack_in,
                                    intr_en |-> FALSE], TRUE, FALSE))
    [] pc = "poll"   -> Axi!ReadOf(STATUS)
    [] pc = "clear"  -> Axi!WriteOf(CTRL, CtrlWord(ResetCtrl, FALSE, TRUE))

\* Where the access at pc, completed with word w, leads.
Then(w) ==
  CASE pc = "config" -> {IF call.read THEN "start" ELSE "data"}
    [] pc = "data"   -> {"start"}
    [] pc = "start"  -> {"poll"}
    [] pc = "poll"   -> IF w.word.done THEN {"clear"} ELSE {"poll", "clear"}
    [] pc = "clear"  -> {"config"}

\* IIC_StartWrite always sets ACK_IN; a read has no data.
Calls ==
  { [read |-> FALSE, addr |-> a, clk_div |-> d, data |-> b, ack_in |-> 1] :
      a \in Address, d \in Dividers, b \in DataBytes } \cup
  { [read |-> TRUE, addr |-> a, clk_div |-> d, data |-> ZeroByte, ack_in |-> k] :
      a \in Address, d \in Dividers, k \in Bit }

Complete(w) ==
  /\ issued' = FALSE
  /\ pc' \in Then(w)
  /\ UNCHANGED call

\* A call begins with the write of CONFIG.
Issue ==
  /\ ~issued
  /\ issued' = TRUE
  /\ IF pc = "config" THEN call' \in Calls ELSE UNCHANGED call
  /\ Axi!PutOnBus(Access(call'))
  /\ UNCHANGED pc

Wait == ~issued /\ UNCHANGED << manager, firmware >>

OnBus ==
  /\ issued
  /\ Axi!HoldOnBus
  /\ IF Axi!Responded THEN Complete(axi_rdata) ELSE UNCHANGED firmware

\* The access completing at this edge.
Finishes(p) == pc = p /\ issued /\ Axi!Responded

-----------------------------------------------------------------------------

Init ==
  /\ IicInit
  /\ Axi!AxiInit
  /\ pc = "config" /\ issued = FALSE /\ call \in Calls
  /\ behind = FALSE

GivesUp == Finishes("poll") /\ ~axi_rdata.word.done /\ pc' = "clear"

\* One clock edge of the whole.
Clock ==
  /\ Issue \/ Wait \/ OnBus
  /\ Axi!SubordinateEdge({reg_data_out})
  /\ RegisterEdge
  /\ ControllerEdge
  /\ TargetEdge
  /\ HistoryEdge(Answers)
  /\ behind' = (GivesUp \/ (behind /\ ~(Begins /\ ~done /\ ~status.done)))

\* The reset input, which the testbenches give to the target as well.
Reset ==
  /\ RegistersAtReset(ctrl', config', status', tx_data', start')
  /\ ControllerAtReset(state', byte_phase', clk_div_r', div_cnt', qtr_tick',
                       step', bit_cnt', tx_shift_reg', rx_shift_reg', rw_r',
                       ack_in_r', ack_seen', rx_data', busy', done',
                       scl_drive_low', sda_drive_low')
  /\ TargetAtReset(t_state', t_scl', t_sda', t_shift', t_cnt', t_rw',
                   t_ack_active', t_drive_low', t_rx_data', t_rx_valid')
  /\ Axi!AxiReset
  /\ pc' = "config" /\ issued' = FALSE /\ UNCHANGED call
  /\ HistoryAtReset(asked', sent', answer', ack_data') /\ behind' = FALSE

Next == Clock \/ Reset

\* The clock runs and the CPU does not wait for ever between two accesses.
Spec ==
  /\ Init /\ [][Next]_driverVars
  /\ WF_driverVars(Clock)
  /\ WF_driverVars(Clock /\ Issue)

-----------------------------------------------------------------------------
\* SDA changes under a high SCL only as the START and the STOP the controller
\* makes: whatever the target drives, and however late it sees the clock, it
\* has settled before SCL rises.  A reset may cut a transfer anywhere.
OnlyStartAndStop ==
  [][~Reset /\ scl = 1 /\ scl' = 1 /\ sda # sda' =>
       state = IF sda = 1 THEN "GEN_START" ELSE "GEN_STOP"]_driverVars

\* Unless an earlier call gave up, a status with DONE is that of the call's
\* own transfer: it was started, with the call's address and direction, it
\* has ended, ack_seen tells whether the target took part and the byte
\* returned is the target's.  A call that gave up leaves a transfer behind
\* whose DONE the next calls may be given; that ends with the first transfer
\* started while the controller is idle and DONE is clear.
DoneIsOwn ==
  Finishes("poll") /\ axi_rdata.word.done /\ ~behind =>
    LET present == call.addr = OwnAddr
    IN  /\ state = "IDLE"
        /\ asked = [addr |-> call.addr, rw |-> call.read]
        /\ axi_rdata.word.ack_seen = (present /\ (call.read \/ ack_data))
        /\ IF call.read
           THEN axi_rdata.word.rx = IF present THEN answer ELSE Ones
           ELSE present => t_rx_data = call.data

\* A call that goes on polling sees DONE, also one whose start was dropped
\* because the transfer of a call that gave up was still going on.
CallsReturn == pc = "poll" ~> pc # "poll"

=============================================================================
