----------------------------- MODULE MCAxiLite -----------------------------
(* AxiLite on one byte lane: two registers addressed, two data values, write
   with and without its strobe. *)
EXTENDS AxiLite

AllWords   == Word
AllStrobes == Strobe
=============================================================================
