---------------------------- MODULE UartReceive ----------------------------
(***************************************************************************)
(* The UART receiver with a serial peer on its RX pin and an interrupt     *)
(* handler (UART_ISR, which calls UART_Receive) behind its registers.      *)
(*                                                                         *)
(* The peer (external) sends frames one after the other or with pauses, at *)
(* a bit time of its own, and the idle line may carry a spike.  The        *)
(* handler reads RDR at most Latency clocks after the interrupt pulse, as  *)
(* long as interrupts take in the system.                                  *)
(***************************************************************************)
EXTENDS Uart

CONSTANTS
  PeerBits,     \* the bit times of the peer, in clocks of the receiver
  Spikes,       \* the lengths of the spikes on an idle line
  Latency       \* clocks from the interrupt pulse to the read of RDR

\* What the receiver is on the line for: from the first low sample to IDLE.
RxClocks == HALF_BIT + CLKS_PER_BIT * (NBits + 1) + 1

\* The bit times at which every bit is sampled inside itself, the receiver is
\* back in IDLE within the stop bit, and frame after frame still is.
Tolerated(p) ==
  /\ \A i \in 1 .. NBits :
       p * i <= HALF_BIT + CLKS_PER_BIT * i /\ HALF_BIT + CLKS_PER_BIT * i < p * (i + 1)
  /\ p * (NBits + 1) <= RxClocks
  /\ RxClocks <= p * (NBits + 2)

ASSUME PeerAssumption ==
  /\ PeerBits \subseteq { p \in Nat : Tolerated(p) }
  /\ Spikes \subseteq 1 .. HALF_BIT
  /\ Latency \in Nat \ {0} /\ Latency < RxClocks

VARIABLES
  wave,     \* the levels the peer is committed to, clock by clock
  late,     \* clocks since the interrupt whose handler has not read RDR yet
  unread    \* history: the bytes sent and not yet read

receiveVars == << uartVars, wave, late, unread >>

\* After UART_StartInterrupt.
ReceiveInit ==
  /\ UartInit /\ rx_ie = TRUE
  /\ wave = << >> /\ late = 0 /\ unread = << >>

-----------------------------------------------------------------------------
\* The RX pin: what is left of the wave, or an idle line.
line == IF wave = << >> THEN 1 ELSE Head(wave)

\* A frame at p clocks a bit: start bit, data, stop bit.
Frame(byte, p) ==
  [k \in 1 .. p * (NBits + 2) |->
     LET i == (k - 1) \div p
     IN  IF i = 0 THEN 0 ELSE IF i <= NBits THEN byte[i - 1] ELSE 1]

\* A spike, and the time the receiver needs to have forgotten it.
Spike(n) == [k \in 1 .. n + HALF_BIT + 1 |-> IF k <= n THEN 0 ELSE 1]

\* The peer at a clock edge; sent is the byte whose frame it begins, if any.
\* A frame follows the last level of the one before at once, or later.
PeerEdge(sent) ==
  IF Len(wave) > 1
  THEN sent = << >> /\ wave' = Tail(wave)
  ELSE IF sent = << >>
  THEN wave' \in { << >> } \cup { Spike(n) : n \in Spikes }
  ELSE \E p \in PeerBits : wave' = Frame(Head(sent), p)

\* The interrupt handler at a clock edge: it reads RDR, or it does not.
HandlerEdge(readsRDR) ==
  /\ readsRDR => late > 0
  /\ late = Latency => readsRDR
  /\ late' = IF intr THEN 1 ELSE IF readsRDR \/ late = 0 THEN 0 ELSE late + 1

Clock ==
  \E readsRDR \in BOOLEAN, sent \in { << >> } \cup { << byte >> : byte \in Byte } :
    /\ PeerEdge(sent)
    /\ HandlerEdge(readsRDR)
    /\ RxEdge(line)
    /\ RdrEdge(readsRDR)
    /\ KeepTDR /\ TxEdge /\ UNCHANGED rx_ie
    /\ unread' = (IF readsRDR THEN SubSeq(unread, 2, Len(unread)) ELSE unread) \o sent

Spec == ReceiveInit /\ [][Clock]_receiveVars /\ WF_receiveVars(Clock)

-----------------------------------------------------------------------------
\* The handler gets the bytes of the peer in order, none twice, none made up
\* from a spike, whatever bit time within Tolerated each frame has.
BytesInOrder ==
  [][rx_flag /\ ~rx_flag' => unread # << >> /\ uart_rdr = Head(unread)]_receiveVars

\* A byte is lost in no way: when the line and the receiver are at rest and
\* no byte is flagged, everything sent has been read.
NothingLost ==
  /\ wave = << >> /\ rx_sync0 = 1 /\ rx_sync = 1
  /\ rx_state = "IDLE" /\ ~rx_valid /\ ~rx_flag
  => unread = << >>

\* Every byte sent is read in the end.
BytesAreRead ==
  unread # << >> ~> (rx_flag /\ unread # << >> /\ uart_rdr = Head(unread))

=============================================================================
