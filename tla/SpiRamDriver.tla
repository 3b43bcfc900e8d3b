---------------------------- MODULE SpiRamDriver ----------------------------
(***************************************************************************)
(* The firmware driving the SPI peripheral over AXI4-Lite: main.c's set up *)
(* and the commands of SPI_RAM.c, interrupted by SPI_ISR.  SpiController   *)
(* is composed with the handshake of AxiLite and with the register         *)
(* decoding of spi_v1_0_S00_AXI.v.                                         *)
(*                                                                         *)
(* The CPU makes one bus access at a time (device accesses of a MicroBlaze *)
(* are strictly ordered) and waits any time between two.  It offers AW     *)
(* with W and keeps BREADY and RREADY high during an access: withholding   *)
(* one of them has no effect on the subordinate but delay, which the wait  *)
(* between accesses covers.                                                *)
(*                                                                         *)
(* The interrupt is a pulse of one clock.  The interrupt controller, which *)
(* is not in the repository, may latch it or miss it; what it has latched  *)
(* reaches the CPU between two accesses.                                   *)
(***************************************************************************)
EXTENDS SpiController

CONSTANTS
  Divider,    \* the clk_div main sets (8 in main.c)
  MaxSlip     \* accesses main may still begin when an interrupt is pending

\* The settings the firmware makes on its way: after reset, with the divider
\* set, and with the interrupt of done enabled.
Setting(div, ie) ==
  [done_ie |-> ie, cpol |-> 0, cpha |-> 0, cs_sel |-> 0, clk_div |-> div]
Settings == { Setting(0, FALSE), Setting(Divider, FALSE), Setting(Divider, TRUE) }

\* The RAM is the target at the chip select its driver uses.
ASSUME DriverAssumption ==
  /\ Divider \in Nat
  /\ MaxSlip \in Nat
  /\ Settings \subseteq Configs
  /\ Target = 0

VARIABLES
  \* the AXI4-Lite signals (AxiLite)
  awvalid, awaddr, wvalid, wdata, wstrb, bready, arvalid, araddr, rready,
  axi_awready, axi_wready, aw_en, axi_awaddr, axi_bvalid,
  axi_arready, axi_araddr, axi_rvalid, axi_rdata,
  \* the firmware
  pc,         \* the bus access it makes next, or is making
  issued,     \* that access is on the bus
  reading,    \* SPI_RAM_Read (else SPI_RAM_Write)
  msg, idx,   \* the three bytes of the command, and the one being sent
  tmp,        \* CTRL as read by the read-modify-write in progress
  irq,        \* SPI_ISR: "no", "pending", or "in" it
  slipped     \* accesses begun since the interrupt was pending

manager     == << awvalid, awaddr, wvalid, wdata, wstrb, bready, arvalid, araddr, rready >>
subordinate == << axi_awready, axi_wready, aw_en, axi_awaddr, axi_bvalid,
                  axi_arready, axi_araddr, axi_rvalid, axi_rdata >>
firmware    == << pc, issued, reading, msg, idx, tmp >>
interrupt   == << irq, slipped >>
driverVars  == << vars, manager, subordinate, firmware, interrupt >>

CTRL == 0
TXDATA == 1
STATUS == 2
RXDATA == 3

\* A word, in its one lane, is the value of the register it belongs to.
CtrlWord(c, s)   == [word |-> [c |-> c, start |-> s]]
ByteWord(x)      == [word |-> x]
StatusWord(d, b) == [word |-> [done |-> d, busy |-> b]]

Axi == INSTANCE AxiLite WITH
  Lanes <- {"word"}, Bytes <- {ZeroByte}, ZeroByte <- ZeroByte,
  Accessed <- {}, WriteData <- {}, WriteStrobes <- {}

-----------------------------------------------------------------------------
\* The register block, decoded from the handshake.

RegisterEdge ==
  /\ ctrl' = IF Axi!WrEn /\ axi_awaddr = CTRL THEN wdata.word.c ELSE ctrl
  /\ start' = (Axi!WrEn /\ axi_awaddr = CTRL /\ wdata.word.start)
  /\ tx_data' = IF Axi!WrEn /\ axi_awaddr = TXDATA THEN wdata.word ELSE tx_data

reg_data_out ==
  CASE axi_araddr = CTRL   -> CtrlWord(ctrl, FALSE)
    [] axi_araddr = TXDATA -> ByteWord(tx_data)
    [] axi_araddr = STATUS -> StatusWord(done, busy)
    [] axi_araddr = RXDATA -> ByteWord(rx_reg)

-----------------------------------------------------------------------------
\* The firmware.  Each step is one bus access; "|=" and "&=" are two.

Access ==
  CASE pc = "init"     -> Axi!WriteOf(CTRL, CtrlWord(ResetCtrl, FALSE))
    [] pc = "div_wr"   -> Axi!WriteOf(CTRL, CtrlWord([tmp EXCEPT !.clk_div = Divider], FALSE))
    [] pc = "ie_wr"    -> Axi!WriteOf(CTRL, CtrlWord([tmp EXCEPT !.done_ie = TRUE], FALSE))
    [] pc \in {"sel_wr", "sel2_wr", "desel_wr"} ->
         Axi!WriteOf(CTRL, CtrlWord([tmp EXCEPT !.cs_sel = 0], FALSE))
    [] pc = "tx"       -> Axi!WriteOf(TXDATA, ByteWord(msg[idx]))
    [] pc = "start_wr" -> Axi!WriteOf(CTRL, CtrlWord(tmp, TRUE))
    [] pc = "poll"     -> Axi!ReadOf(STATUS)
    [] pc = "rx"       -> Axi!ReadOf(RXDATA)
    [] OTHER           -> Axi!ReadOf(CTRL)

\* Where the firmware goes when the access at pc has completed with word w.
Then(w) ==
  CASE pc = "init"     -> "div_rd"
    [] pc = "div_rd"   -> "div_wr"
    [] pc = "div_wr"   -> "ie_rd"
    [] pc = "ie_rd"    -> "ie_wr"
    [] pc = "ie_wr"    -> "sel_rd"
    [] pc = "sel_rd"   -> "sel_wr"
    [] pc = "sel_wr"   -> "sel2_rd"
    [] pc = "sel2_rd"  -> "sel2_wr"
    [] pc = "sel2_wr"  -> "tx"
    [] pc = "tx"       -> "start_rd"
    [] pc = "start_rd" -> "start_wr"
    [] pc = "start_wr" -> "poll"
    [] pc = "poll"     -> IF w.word.busy THEN "poll"
                          ELSE IF idx < 3 THEN "tx"
                          ELSE IF reading THEN "rx" ELSE "desel_rd"
    [] pc = "rx"       -> "desel_rd"
    [] pc = "desel_rd" -> "desel_wr"
    [] pc = "desel_wr" -> "sel_rd"

\* SPI_RAM_Write(addr, data) or SPI_RAM_Read(addr) is called: command byte,
\* address, and data or the dummy byte 0x00.
SPI_CMD_READ  == ZeroByte
SPI_CMD_WRITE == [ZeroByte EXCEPT ![NBits] = 1]

NewCommand ==
  /\ idx' = 1
  /\ \E addr \in Byte, data \in Byte :
       \/ reading' = TRUE  /\ msg' = << SPI_CMD_READ, addr, ZeroByte >>
       \/ reading' = FALSE /\ msg' = << SPI_CMD_WRITE, addr, data >>

Complete(w) ==
  /\ issued' = FALSE
  /\ pc' = Then(w)
  /\ tmp' = IF ~Access.write /\ Access.addr = CTRL THEN w.word.c ELSE tmp
  /\ IF pc' = "sel_rd" THEN NewCommand
     ELSE /\ idx' = IF pc = "poll" /\ pc' = "tx" THEN idx + 1 ELSE idx
          /\ UNCHANGED << reading, msg >>

\* The access at pc is put on the bus.
Issue ==
  /\ ~issued
  /\ irq = "pending" => slipped < MaxSlip
  /\ issued' = TRUE
  /\ slipped' = IF irq = "pending" THEN slipped + 1 ELSE slipped
  /\ Axi!PutOnBus(Access)
  /\ UNCHANGED << pc, reading, msg, idx, tmp >>

\* SPI_ISR is entered and puts its read of RX DATA on the bus.
IssueIsr ==
  /\ ~issued /\ irq = "pending"
  /\ issued' = TRUE /\ slipped' = 0
  /\ Axi!PutOnBus(Axi!ReadOf(RXDATA))
  /\ UNCHANGED << pc, reading, msg, idx, tmp >>

Wait == ~issued /\ UNCHANGED << manager, firmware, slipped >>

OnBus ==
  /\ issued
  /\ Axi!HoldOnBus
  /\ UNCHANGED slipped
  /\ IF ~Axi!Responded THEN UNCHANGED firmware
     ELSE IF irq = "in" THEN issued' = FALSE /\ UNCHANGED << pc, reading, msg, idx, tmp >>
     ELSE Complete(axi_rdata)

\* What becomes of irq at a clock edge other than IssueIsr's.
IrqEdge ==
  IF irq = "in" THEN irq' = IF issued /\ Axi!Responded THEN "no" ELSE "in"
  ELSE irq' \in {irq} \cup (IF intr THEN {"pending"} ELSE {})

-----------------------------------------------------------------------------

DriverInit ==
  /\ Init
  /\ Axi!AxiInit
  /\ pc = "init" /\ issued = FALSE
  /\ reading = FALSE /\ msg = [i \in 1 .. 3 |-> ZeroByte] /\ idx = 1
  /\ tmp = ResetCtrl
  /\ irq = "no" /\ slipped = 0

\* One clock edge of the whole.
DriverClock ==
  /\ \/ (Issue \/ Wait \/ OnBus) /\ IrqEdge
     \/ IssueIsr /\ irq' = "in"
  /\ Axi!SubordinateEdge({reg_data_out})
  /\ RegisterEdge
  /\ RxRegEdge
  /\ CoreEdge
  /\ HistoryEdge
  /\ TargetEdge

\* The clock runs and the CPU does not wait for ever.
DriverSpec ==
  /\ DriverInit /\ [][DriverClock]_driverVars
  /\ WF_driverVars(DriverClock)
  /\ WF_driverVars(DriverClock /\ (Issue \/ IssueIsr))

-----------------------------------------------------------------------------
\* The access of main completing at this edge.
Finishes(p) == pc = p /\ irq # "in" /\ issued /\ Axi!Responded

\* Between the write that starts a byte and the first STATUS read the
\* peripheral has had time to raise busy: a poll that reads busy = 0 means
\* that the transfer of this very byte has run to its end, never that it has
\* not begun.
PollMeansDone ==
  Finishes("poll") /\ ~axi_rdata.word.busy => completed /\ sent = msg[idx]

\* The byte SPI_RAM_Read returns is the target's answer to the third byte.
ReadReturnsAnswer ==
  Finishes("rx") => axi_rdata.word = answer

\* SPI_ISR reads the byte of the transfer whose end raised the interrupt: RX
\* DATA, latched a clock after the pulse, is there already, and main, which has
\* seen busy fall as well, has not got as far as the next start.
IsrReadsItsByte ==
  irq = "in" /\ issued /\ Axi!Responded => completed /\ axi_rdata.word = answer

\* No start is given to a busy controller, which would drop it.
NoStartLost == start => state = "IDLE"

\* The firmware always gets through its command.
CommandsFinish == []<>(pc = "desel_rd")

\* SPI_RAM.c puts "CS_n LOW" before the three bytes of a command and "CS_n HIGH"
\* after them: once low, the chip select does not rise before the last byte.
ChipSelectHeld ==
  [][cs = Target /\ cs' # Target => idx = 3]_driverVars

=============================================================================
