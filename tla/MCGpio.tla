------------------------------- MODULE MCGpio -------------------------------
(* A port of one pin in words of one or two lanes. *)
EXTENDS Gpio

PinBytes   == SUBSET Pins
AllWords   == Word
AllStrobes == Strobe
NoPin      == {}
=============================================================================
