-------------------------------- MODULE Uart --------------------------------
(***************************************************************************)
(* The UART peripheral, clock edge by clock edge: the transmitter of       *)
(* uart_tx.v, the receiver of uart_rx.v and the registers of               *)
(* uart_v1_0_S00_AXI.v.  A byte is NBits bits, least significant first.    *)
(*                                                                         *)
(* The module has no Next of its own: what drives the RX pin and strobes   *)
(* the registers is composed with it, a serial peer in UartReceive, the    *)
(* CPU with TX wired to RX in UartLoopback.                                *)
(***************************************************************************)
EXTENDS Integers, Sequences

CONSTANTS
  NBits,          \* bits of a byte (eight in the hardware)
  CLKS_PER_BIT    \* clocks of a bit (868 in the hardware)

ASSUME UartAssumption ==
  /\ NBits \in Nat \ {0}
  /\ CLKS_PER_BIT \in Nat /\ CLKS_PER_BIT > 1

VARIABLES
  \* uart_tx
  tx_state, tx_cnt, tx_idx, tx_shift, tx, tx_ready,
  \* uart_rx
  rx_sync0, rx_sync, rx_state, rx_cnt, rx_idx, rx_shift, rx_data, rx_valid,
  \* the register block
  uart_tdr, tx_valid, uart_rdr, rx_flag, rx_ie

sender    == << tx_state, tx_cnt, tx_idx, tx_shift, tx, tx_ready >>
receiver  == << rx_sync0, rx_sync, rx_state, rx_cnt, rx_idx, rx_shift, rx_data, rx_valid >>
registers == << uart_tdr, tx_valid, uart_rdr, rx_flag, rx_ie >>
uartVars  == << sender, receiver, registers >>

HALF_BIT == CLKS_PER_BIT \div 2

Bit       == {0, 1}
Byte      == [0 .. NBits - 1 -> Bit]
ZeroByte  == [i \in 0 .. NBits - 1 |-> 0]

intr == rx_ie /\ rx_valid

\* Reset values of the transmitter, the receiver and the register block.
SenderAtReset(st, cnt, idx, shift, pin, ready) ==
  st = "IDLE" /\ cnt = 0 /\ idx = 0 /\ shift = ZeroByte /\ pin = 1 /\ ready = TRUE

ReceiverAtReset(s0, s1, st, cnt, idx, shift, data, valid) ==
  /\ s0 = 1 /\ s1 = 1
  /\ st = "IDLE" /\ cnt = 0 /\ idx = 0 /\ shift = ZeroByte
  /\ data = ZeroByte /\ valid = FALSE

RegistersAtReset(tdr, tv, rdr, flag) ==
  tdr = ZeroByte /\ tv = FALSE /\ rdr = ZeroByte /\ flag = FALSE

UartInit ==
  /\ SenderAtReset(tx_state, tx_cnt, tx_idx, tx_shift, tx, tx_ready)
  /\ ReceiverAtReset(rx_sync0, rx_sync, rx_state, rx_cnt, rx_idx, rx_shift, rx_data, rx_valid)
  /\ RegistersAtReset(uart_tdr, tx_valid, uart_rdr, rx_flag)

UartReset ==
  /\ SenderAtReset(tx_state', tx_cnt', tx_idx', tx_shift', tx', tx_ready')
  /\ ReceiverAtReset(rx_sync0', rx_sync', rx_state', rx_cnt', rx_idx', rx_shift',
                     rx_data', rx_valid')
  /\ RegistersAtReset(uart_tdr', tx_valid', uart_rdr', rx_flag')

-----------------------------------------------------------------------------
\* uart_tx at a clock edge.

TxBitEnds == tx_cnt = CLKS_PER_BIT - 1
TxCount   == tx_cnt' = IF TxBitEnds THEN 0 ELSE tx_cnt + 1

TxIdle ==
  /\ tx_state = "IDLE"
  /\ tx' = 1
  /\ tx_ready' = ~tx_valid
  /\ IF tx_valid
     THEN tx_state' = "START" /\ tx_shift' = uart_tdr /\ tx_cnt' = 0
     ELSE UNCHANGED << tx_state, tx_shift, tx_cnt >>
  /\ UNCHANGED tx_idx
\* Faults a run must detect: ready given back at the start bit, bits sent in
\* the wrong order, the bit index not bounded, the stop bit not held.
TxStartReady ==
  /\ tx_state = "START"
  /\ tx' = 0
  /\ TxCount
  /\ IF TxBitEnds THEN tx_state' = "DATA" /\ tx_idx' = 0
     ELSE UNCHANGED << tx_state, tx_idx >>
  /\ tx_ready' = TRUE
  /\ UNCHANGED tx_shift

TxStart ==
  /\ tx_state = "START"
  /\ tx' = 0
  /\ TxCount
  /\ IF TxBitEnds THEN tx_state' = "DATA" /\ tx_idx' = 0
     ELSE UNCHANGED << tx_state, tx_idx >>
  /\ UNCHANGED << tx_shift, tx_ready >>
TxDataMsbFirst ==
  /\ tx_state = "DATA"
  /\ tx' = tx_shift[NBits - 1 - tx_idx]
  /\ TxCount
  /\ tx_state' = IF TxBitEnds /\ tx_idx = NBits - 1 THEN "STOP" ELSE "DATA"
  /\ tx_idx' = IF TxBitEnds /\ tx_idx < NBits - 1 THEN tx_idx + 1 ELSE tx_idx
  /\ UNCHANGED << tx_shift, tx_ready >>

TxData ==
  /\ tx_state = "DATA"
  /\ tx' = tx_shift[tx_idx]
  /\ TxCount
  /\ tx_state' = IF TxBitEnds /\ tx_idx = NBits - 1 THEN "STOP" ELSE "DATA"
  /\ tx_idx' = IF TxBitEnds /\ tx_idx < NBits - 1 THEN tx_idx + 1 ELSE tx_idx
  /\ UNCHANGED << tx_shift, tx_ready >>
TxStopAtOnce ==
  /\ tx_state = "STOP"
  /\ tx' = 1
  /\ tx_cnt' = 0 /\ tx_state' = "IDLE"
  /\ UNCHANGED << tx_idx, tx_shift, tx_ready >>

TxStop ==
  /\ tx_state = "STOP"
  /\ tx' = 1
  /\ TxCount
  /\ tx_state' = IF TxBitEnds THEN "IDLE" ELSE "STOP"
  /\ UNCHANGED << tx_idx, tx_shift, tx_ready >>

TxEdge == TxIdle \/ TxStart \/ TxData \/ TxStop

-----------------------------------------------------------------------------
\* uart_rx at a clock edge; line is the level of the RX pin.

RxBitEnds == rx_cnt = CLKS_PER_BIT - 1

RxIdle ==
  /\ rx_state = "IDLE"
  /\ rx_cnt' = 0 /\ rx_idx' = 0
  /\ rx_state' = IF rx_sync = 0 THEN "START" ELSE "IDLE"
  /\ rx_valid' = FALSE
  /\ UNCHANGED << rx_shift, rx_data >>

\* Faults: the start bit is not looked at again; it is, with the wrong level.
RxStartUnchecked ==
  /\ rx_state = "START"
  /\ IF rx_cnt = HALF_BIT - 1
     THEN rx_cnt' = 0 /\ rx_state' = "DATA"
     ELSE rx_cnt' = rx_cnt + 1 /\ UNCHANGED rx_state
  /\ rx_valid' = FALSE
  /\ UNCHANGED << rx_idx, rx_shift, rx_data >>

RxStartInverted ==
  /\ rx_state = "START"
  /\ IF rx_cnt = HALF_BIT - 1
     THEN rx_cnt' = 0 /\ rx_state' = IF rx_sync = 1 THEN "DATA" ELSE "IDLE"
     ELSE rx_cnt' = rx_cnt + 1 /\ UNCHANGED rx_state
  /\ rx_valid' = FALSE
  /\ UNCHANGED << rx_idx, rx_shift, rx_data >>

\* Half a bit later the line has to be low still.
RxStart ==
  /\ rx_state = "START"
  /\ IF rx_cnt = HALF_BIT - 1
     THEN rx_cnt' = 0 /\ rx_state' = IF rx_sync = 0 THEN "DATA" ELSE "IDLE"
     ELSE rx_cnt' = rx_cnt + 1 /\ UNCHANGED rx_state
  /\ rx_valid' = FALSE
  /\ UNCHANGED << rx_idx, rx_shift, rx_data >>

RxData ==
  /\ rx_state = "DATA"
  /\ rx_cnt' = IF RxBitEnds THEN 0 ELSE rx_cnt + 1
  /\ rx_shift' = IF RxBitEnds THEN [rx_shift EXCEPT ![rx_idx] = rx_sync] ELSE rx_shift
  /\ rx_state' = IF RxBitEnds /\ rx_idx = NBits - 1 THEN "STOP" ELSE "DATA"
  /\ rx_idx' = IF RxBitEnds /\ rx_idx < NBits - 1 THEN rx_idx + 1 ELSE rx_idx
  /\ rx_valid' = FALSE
  /\ UNCHANGED rx_data

\* The stop bit is waited for, not looked at.
RxStop ==
  /\ rx_state = "STOP"
  /\ rx_valid' = RxBitEnds
  /\ rx_cnt' = IF RxBitEnds THEN 0 ELSE rx_cnt + 1
  /\ rx_state' = IF RxBitEnds THEN "IDLE" ELSE "STOP"
  /\ rx_data' = IF RxBitEnds THEN rx_shift ELSE rx_data
  /\ UNCHANGED << rx_idx, rx_shift >>

RxEdge(line) ==
  /\ rx_sync0' = line /\ rx_sync' = rx_sync0
  /\ RxIdle \/ RxStart \/ RxData \/ RxStop

-----------------------------------------------------------------------------
\* The register block at a clock edge, without and with a write strobe.

KeepTDR == tx_valid' = FALSE /\ UNCHANGED uart_tdr

WriteTDR(byte) == tx_valid' = TRUE /\ uart_tdr' = byte

\* Fault: the flag is a pulse.
RdrEdgePulse(readsRDR) ==
  /\ uart_rdr' = IF rx_valid THEN rx_data ELSE uart_rdr
  /\ rx_flag' = (~readsRDR /\ rx_valid)

\* readsRDR: RDR is read at this edge, which clears the flag even when a byte
\* arrives at the same edge.
RdrEdge(readsRDR) ==
  /\ uart_rdr' = IF rx_valid THEN rx_data ELSE uart_rdr
  /\ rx_flag' = (~readsRDR /\ (rx_valid \/ rx_flag))

=============================================================================
