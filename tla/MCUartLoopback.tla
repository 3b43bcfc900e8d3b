--------------------------- MODULE MCUartLoopback ---------------------------
(* Bytes of three bits at ten clocks a bit: a frame lasts about twelve accesses. *)
EXTENDS UartLoopback
=============================================================================
