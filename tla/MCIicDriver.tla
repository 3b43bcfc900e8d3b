---------------------------- MODULE MCIicDriver ----------------------------
(* Bytes of two bits, hence two addresses; two clocks per quarter bit, which *)
(* is the least the target keeps up with.  The byte written, the byte read,  *)
(* the byte after reset (00) and what an absent target reads as (11) are     *)
(* four different bytes.                                                     *)
EXTENDS IicDriver

Own     == << 1 >>
Written == { << 0, 1 >> }
Read    == { << 1, 0 >> }
=============================================================================
