------------------------------ MODULE AxiWord ------------------------------
(***************************************************************************)
(* The data of a 32-bit AXI4-Lite register as the five peripherals see it: *)
(* four registers selected by address bits [3:2], each a word of byte      *)
(* lanes, written lane by lane under WSTRB.  What a byte holds is left to  *)
(* the peripheral.                                                         *)
(***************************************************************************)
EXTENDS Integers, FiniteSets

CONSTANTS
  Lanes,      \* byte lanes of a word (four in the hardware)
  Bytes,      \* the values of one byte lane
  ZeroByte    \* the reset value of a byte lane

ASSUME WordAssumption == ZeroByte \in Bytes

\* Registers are selected by axi_awaddr / axi_araddr [3:2].
Regs == 0 .. 3

Word   == [Lanes -> Bytes]
Strobe == SUBSET Lanes

Zero == [l \in Lanes |-> ZeroByte]

\* Lanes whose strobe is set take the new byte, the others keep the old one.
Merge(old, data, strb) ==
  [l \in Lanes |-> IF l \in strb THEN data[l] ELSE old[l]]

=============================================================================
