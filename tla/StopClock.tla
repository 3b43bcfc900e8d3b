----------------------------- MODULE StopClock -----------------------------
(***************************************************************************)
(* What a stopwatch promises whoever reads it: one number, counted up by   *)
(* one while it runs, and set to zero only while it does not.              *)
(***************************************************************************)
EXTENDS Integers

CONSTANT Day    \* the reading wraps

VARIABLES reading, running

ClockInit == reading = 0 /\ running = FALSE

Advance   == running /\ reading' = (reading + 1) % Day /\ UNCHANGED running
StartStop == running' = ~running /\ UNCHANGED reading
SetToZero == ~running /\ reading' = 0 /\ UNCHANGED running

ClockNext == Advance \/ StartStop \/ SetToZero

ClockSpec == ClockInit /\ [][ClockNext]_<< reading, running >>

=============================================================================
