------------------------------- MODULE MCSpi -------------------------------
(* Bytes of two bits, dividers 0 and 1, the target on chip select 0. *)
EXTENDS SpiController

Setting(pol, pha, sel, div) ==
  [done_ie |-> TRUE, cpol |-> pol, cpha |-> pha, cs_sel |-> sel, clk_div |-> div]

\* The four modes, and a transfer to another chip select.
Modes == { Setting(0, 0, 0, 1), Setting(1, 0, 0, 0), Setting(0, 1, 0, 0),
           Setting(1, 1, 0, 0), Setting(1, 1, 1, 0) }
=============================================================================
