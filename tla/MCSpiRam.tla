------------------------------ MODULE MCSpiRam ------------------------------
(* The RAM commands with bytes of two bits in mode 0, as main sets it. *)
EXTENDS SpiRamDriver

DriverConfigs ==
  {ResetCtrl} \cup { [ResetCtrl EXCEPT !.clk_div = Divider, !.done_ie = ie] : ie \in BOOLEAN }
=============================================================================
