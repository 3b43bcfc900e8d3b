------------------------------- MODULE Button -------------------------------
(***************************************************************************)
(* Button.c: push buttons polled by the main loop, with a blocking delay   *)
(* of one millisecond after each event.                                    *)
(*                                                                         *)
(* A contact that moves chatters before it rests.  It chatters no longer   *)
(* than the delay lasts: chatter that was there when a delay began is over *)
(* when the delay ends.  That is all the model says of the durations.      *)
(***************************************************************************)
EXTENDS Integers

CONSTANTS
  Buttons,
  MaxOwed         \* bound on the moves of a contact not yet reported

ASSUME ButtonAssumption == MaxOwed \in Nat

VARIABLES
  contact,        \* where each contact rests, TRUE = pressed
  chatter,        \* "none", "new", or "old": begun before the last delay began
  prevState,      \* hbutton.prevState, TRUE = PUSHED
  owed            \* history: moves of the contact less events reported

buttonVars == << contact, chatter, prevState, owed >>

ButtonInit ==
  /\ contact = [b \in Buttons |-> FALSE] /\ chatter = [b \in Buttons |-> "none"]
  /\ prevState = [b \in Buttons |-> FALSE] /\ owed = [b \in Buttons |-> 0]

\* The button is pressed or released.
Move(b) ==
  /\ chatter[b] = "none" /\ owed[b] < MaxOwed
  /\ contact' = [contact EXCEPT ![b] = ~@]
  /\ chatter' = [chatter EXCEPT ![b] = "new"]
  /\ owed' = [owed EXCEPT ![b] = @ + 1]
  /\ UNCHANGED prevState

Settle(b) ==
  /\ chatter[b] # "none"
  /\ chatter' = [chatter EXCEPT ![b] = "none"]
  /\ UNCHANGED << contact, prevState, owed >>

\* The level of the pin.
Levels(b) == IF chatter[b] = "none" THEN {contact[b]} ELSE BOOLEAN

\* delay_ms(1) begins; while it lasts nothing is polled.
\* Fault: no delay.
DelayBeginsNot == UNCHANGED chatter

DelayBegins == chatter' = [b \in Buttons |-> IF chatter[b] = "none" THEN "none" ELSE "old"]

DelayMayEnd == \A b \in Buttons : chatter[b] # "old"

\* Fault: the level is reported, not its change.
GetStateLevel(b, event) ==
  \E cur \in Levels(b) :
    /\ event = IF cur THEN "ACT_PUSHED" ELSE "NO_ACT"
    /\ prevState' = [prevState EXCEPT ![b] = cur]
    /\ owed' = IF cur # prevState[b] THEN [owed EXCEPT ![b] = @ - 1] ELSE owed
    /\ IF cur THEN DelayBegins ELSE UNCHANGED chatter
    /\ UNCHANGED contact

\* Fault: only a push is an event.
GetStateNoRelease(b, event) ==
  \E cur \in Levels(b) :
    /\ event = IF cur /\ ~prevState[b] THEN "ACT_PUSHED" ELSE "NO_ACT"
    /\ prevState' = [prevState EXCEPT ![b] = cur \/ @]
    /\ IF event = "NO_ACT" THEN UNCHANGED << chatter, owed >>
       ELSE DelayBegins /\ owed' = [owed EXCEPT ![b] = @ - 1]
    /\ UNCHANGED contact

\* Button_GetState up to its delay.
GetState(b, event) ==
  \E cur \in Levels(b) :
    /\ event = CASE cur = prevState[b] -> "NO_ACT"
                 [] cur /\ ~prevState[b] -> "ACT_PUSHED"
                 [] ~cur /\ prevState[b] -> "ACT_RELEASED"
    /\ prevState' = [prevState EXCEPT ![b] = cur]
    /\ IF event = "NO_ACT" THEN UNCHANGED << chatter, owed >>
       ELSE DelayBegins /\ owed' = [owed EXCEPT ![b] = @ - 1]
    /\ UNCHANGED contact

\* However a contact chatters, each of its moves is reported at most once.
EventsAreMoves == \A b \in Buttons : owed[b] >= 0

=============================================================================
