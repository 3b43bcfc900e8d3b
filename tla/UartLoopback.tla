---------------------------- MODULE UartLoopback ----------------------------
(***************************************************************************)
(* The UART peripheral behind its AXI4-Lite handshake with TX wired to RX, *)
(* as tb/tb_uart.sv wires it, and the software at the bus: the sequence of *)
(* that testbench (which polls SR), or a caller of UART_Transmit (UART.c). *)
(*                                                                         *)
(* The CPU makes one bus access at a time and waits any time between two.  *)
(***************************************************************************)
EXTENDS Uart

\* The receiver, four clocks behind the line (synchroniser and detection of
\* the start bit), is past the middle of a stop bit before the bit ends.
ASSUME LoopbackAssumption == HALF_BIT + 4 <= CLKS_PER_BIT

VARIABLES
  \* the AXI4-Lite signals (AxiLite)
  awvalid, awaddr, wvalid, wdata, wstrb, bready, arvalid, araddr, rready,
  axi_awready, axi_wready, aw_en, axi_awaddr, axi_bvalid,
  axi_arready, axi_araddr, axi_rvalid, axi_rdata,
  \* the software
  pc,         \* the bus access it makes next, or is making
  issued,     \* that access is on the bus
  TDR,        \* the byte it sends
  \* history
  owed        \* bytes written to TDR and not received since

manager     == << awvalid, awaddr, wvalid, wdata, wstrb, bready, arvalid, araddr, rready >>
subordinate == << axi_awready, axi_wready, aw_en, axi_awaddr, axi_bvalid,
                  axi_arready, axi_araddr, axi_rvalid, axi_rdata >>
software    == << pc, issued, TDR >>
loopVars    == << uartVars, manager, subordinate, software, owed >>

SR_ADDR  == 0
TDR_ADDR == 1
RDR_ADDR == 2
CR_ADDR  == 3

\* A word, in its one lane, is the value of the register it belongs to.
StatusWord(flag, ready) == [word |-> [rx_flag |-> flag, tx_ready |-> ready]]
ByteWord(b)             == [word |-> b]
ControlWord(ie)         == [word |-> ie]

Axi == INSTANCE AxiLite WITH
  Lanes <- {"word"}, Bytes <- {ZeroByte}, ZeroByte <- ZeroByte,
  Accessed <- {}, WriteData <- {}, WriteStrobes <- {}

-----------------------------------------------------------------------------
\* The register block, decoded from the handshake.

RegisterEdge ==
  /\ IF Axi!WrEn /\ axi_awaddr = TDR_ADDR THEN WriteTDR(wdata.word) ELSE KeepTDR
  /\ rx_ie' = IF Axi!WrEn /\ axi_awaddr = CR_ADDR THEN wdata.word ELSE rx_ie
  /\ RdrEdge(Axi!RdEn /\ axi_araddr = RDR_ADDR)

reg_data_out ==
  CASE axi_araddr = SR_ADDR  -> StatusWord(rx_flag, tx_ready)
    [] axi_araddr = TDR_ADDR -> ByteWord(uart_tdr)
    [] axi_araddr = RDR_ADDR -> ByteWord(uart_rdr)
    [] axi_araddr = CR_ADDR  -> ControlWord(rx_ie)

-----------------------------------------------------------------------------
\* The software.

Access ==
  CASE pc = "cr"              -> Axi!WriteOf(CR_ADDR, ControlWord(TRUE))
    [] pc \in {"tdr", "put"}  -> Axi!WriteOf(TDR_ADDR, ByteWord(TDR))
    [] pc \in {"rdr", "intr"} -> Axi!ReadOf(RDR_ADDR)
    [] OTHER                  -> Axi!ReadOf(SR_ADDR)

\* tb_uart.sv: where the access at pc, completed with word w, leads.  The byte
\* is awaited by polling SR or by waiting for the interrupt.  A program that
\* only sends ("poll", "put") is the sending half of that sequence: bytes go
\* back to back, and nobody reads RDR.
Testbench(w) ==
  CASE pc = "cr"    -> {"ready", "poll"}
    [] pc = "ready" -> IF w.word.tx_ready THEN {"tdr"} ELSE {"ready"}
    [] pc = "tdr"   -> {"flag", "intr"}
    [] pc = "flag"  -> IF w.word.rx_flag THEN {"rdr"} ELSE {"flag"}
    [] pc = "poll"  -> IF w.word.tx_ready THEN {"put"} ELSE {"poll"}
    [] pc = "put"   -> {"poll"}
    [] OTHER        -> {"ready"}

\* UART_Transmit called again and again: it reads SR once and writes TDR
\* whatever it read ("if(!(...));").
Transmits(w) ==
  CASE pc = "cr"    -> {"ready"}
    [] pc = "ready" -> {"tdr"}
    [] OTHER        -> {"ready"}

Issue ==
  /\ ~issued
  /\ pc = "intr" => intr \/ rx_flag
  /\ issued' = TRUE
  /\ Axi!PutOnBus(Access)
  /\ UNCHANGED << pc, TDR >>

Wait == ~issued /\ UNCHANGED << manager, software >>

OnBus(next) ==
  /\ issued
  /\ Axi!HoldOnBus
  /\ IF Axi!Responded
     THEN /\ issued' = FALSE
          /\ pc' \in next
          /\ IF pc' \in {"tdr", "put"} THEN TDR' \in Byte ELSE UNCHANGED TDR
     ELSE UNCHANGED software

-----------------------------------------------------------------------------

Init ==
  /\ UartInit /\ rx_ie = FALSE
  /\ Axi!AxiInit
  /\ pc = "cr" /\ issued = FALSE /\ TDR = ZeroByte
  /\ owed = 0

Hardware ==
  /\ Axi!SubordinateEdge({reg_data_out})
  /\ RegisterEdge
  /\ TxEdge
  /\ RxEdge(tx)
  /\ owed' = (IF tx_valid' THEN 1 ELSE 0) + (IF rx_valid' THEN 0 ELSE owed)

TestbenchEdge == (Issue \/ Wait \/ OnBus(Testbench(axi_rdata))) /\ Hardware
TransmitEdge  == (Issue \/ Wait \/ OnBus(Transmits(axi_rdata))) /\ Hardware

\* The reset input: peripheral and CPU start over.
Reset ==
  /\ UartReset /\ rx_ie' = FALSE
  /\ Axi!AxiReset
  /\ pc' = "cr" /\ issued' = FALSE /\ TDR' = ZeroByte
  /\ owed' = 0

TestbenchNext == TestbenchEdge \/ Reset

\* The clock runs and the software does not wait for ever.
TestbenchSpec ==
  /\ Init /\ [][TestbenchNext]_loopVars
  /\ WF_loopVars(TestbenchEdge)
  /\ WF_loopVars(TestbenchEdge /\ Issue)

TransmitSpec == Init /\ [][TransmitEdge]_loopVars /\ WF_loopVars(TransmitEdge)

-----------------------------------------------------------------------------
\* The access completing at this edge.
Finishes(p) == pc = p /\ issued /\ Axi!Responded

\* SR.tx_ready read as 1 holds until software writes TDR: the read a few
\* clocks after a TDR write already sees the transmitter busy, and a TDR
\* write that follows such a read meets an idle transmitter.
NoByteDropped == tx_valid => tx_state = "IDLE"

\* The receiver hands on the byte the transmitter was given, whatever came
\* before it on the line and however soon after, and what is read from RDR,
\* once SR or the interrupt announced it, is the byte last written to TDR.
LoopbackReturns ==
  /\ rx_valid => rx_data = uart_tdr
  /\ Finishes("rdr") \/ Finishes("intr") => axi_rdata.word = TDR

\* tx_ready comes back only when the receiver has got the whole frame, stop
\* bit included up to its middle: the next start bit cannot meet a receiver
\* that is still in the frame before.
ReadyAfterFrame == tx_state = "IDLE" /\ ~tx_valid => rx_state = "IDLE" /\ owed = 0

\* The testbench never hangs: every byte it sends comes back, and a sender
\* gets to send the next, unless the system is reset (pc = "cr").
BytesComeBack == []<>(pc \in {"tdr", "put", "cr"})

=============================================================================
