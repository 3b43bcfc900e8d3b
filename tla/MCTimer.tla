------------------------------ MODULE MCTimer ------------------------------
(* The timer with two-bit registers: every PSC, ARR and CNT of 0 .. 3. *)
EXTENDS TimerCounter
=============================================================================
