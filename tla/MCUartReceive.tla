--------------------------- MODULE MCUartReceive ---------------------------
(* Bytes of two bits at ten clocks a bit: every tolerated bit time of the peer,
   9 to 12 clocks, spikes up to half a bit, and the slowest handler allowed. *)
EXTENDS UartReceive

AllTolerated == { p \in 1 .. 2 * CLKS_PER_BIT : Tolerated(p) }
=============================================================================
