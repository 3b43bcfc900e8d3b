-------------------------------- MODULE Fnd --------------------------------
(***************************************************************************)
(* The seven-segment display of FND.c: TMR_ISR lights one digit after the  *)
(* other, at any moment of the main loop, which sets what is to be shown.  *)
(*                                                                         *)
(* The fonts of the sixteen figures differ in pairs and leave the decimal  *)
(* point to its own bit, so the data port carries a figure and a point.    *)
(* While the handler runs the main loop stands still.                      *)
(***************************************************************************)
EXTENDS Integers

CONSTANTS
  Digits,                 \* digits of the display (4)
  DecRadix, HexRadix,     \* 10 and 16
  Numbers                 \* numbers shown

ASSUME FndAssumption ==
  /\ Digits \in Nat \ {0}
  /\ DecRadix \in Nat \ {0} /\ HexRadix \in Nat \ {0}
  /\ Numbers \subseteq Nat /\ 0 \in Numbers

Digit == 0 .. Digits - 1

VARIABLES
  fndHexMode, fndNumber, fndDPData,   \* fndDPData: the digits with a point
  numDigit, hexDigit,   \* fndDigitState of FND_DispNum and of FND_DispHex
  com, data,            \* the digits lit, and what the data port shows
  isr,                  \* how far the handler is: "out", "off", "drawn"
  call, todo,           \* the call of main, and its assignments to come
  image,                \* history: what each digit showed when last lit
  since,                \* history: refreshes since main last changed anything, up to Digits
  dark                  \* history: refreshes since each digit was last lit

asked   == << fndHexMode, fndNumber, fndDPData >>
ports   == << com, data >>
scan    == << numDigit, hexDigit, isr >>
history == << image, since, dark >>
vars    == << asked, ports, scan, call, todo, history >>

\* num / Radix^i % Radix
Figure(num, hex, i) == LET r == IF hex THEN HexRadix ELSE DecRadix IN (num \div r^i) % r

\* Every segment of a digit.
AllSegments == [figure |-> 8, point |-> TRUE]

Figures == {8} \cup { Figure(n, hex, i) : n \in Numbers, hex \in BOOLEAN, i \in Digit }
Shown   == [figure : Figures, point : BOOLEAN]

TypeOK ==
  /\ fndHexMode \in BOOLEAN /\ fndNumber \in Numbers /\ fndDPData \in SUBSET Digit
  /\ numDigit \in Digit /\ hexDigit \in Digit
  /\ com \in SUBSET Digit /\ data \in Shown
  /\ isr \in {"out", "off", "drawn"}
  /\ call \in [hex : BOOLEAN, number : Numbers] /\ todo \in SUBSET {"mode", "number"}
  /\ image \in [Digit -> Shown] /\ since \in 0 .. Digits /\ dark \in [Digit -> Nat]

\* Fault: one digit is left out.
NextDigitShort(d) == IF Digits = 1 THEN 0 ELSE (d + 1) % (Digits - 1)

NextDigit(d) == (d + 1) % Digits

\* The ports come out of reset as zero, every segment of every digit on.  The
\* model starts in the first refresh, when it has switched the digits off.
Init ==
  /\ fndHexMode = FALSE /\ fndNumber = 0 /\ fndDPData = {}
  /\ numDigit = NextDigit(0) /\ hexDigit = 0
  /\ com = {} /\ data = AllSegments /\ isr = "off"
  /\ call = [hex |-> FALSE, number |-> 0] /\ todo = {}
  /\ image = [i \in Digit |-> AllSegments] /\ since = 0 /\ dark = [i \in Digit |-> 0]

-----------------------------------------------------------------------------
\* The main loop.

\* FND_SetNum, FND_SetHex and FND_SetTime are two assignments, which the
\* compiler may swap.
Call ==
  /\ isr = "out" /\ todo = {}
  /\ call' \in [hex : BOOLEAN, number : Numbers]
  /\ todo' = {"mode", "number"}
  /\ UNCHANGED << asked, ports, scan, history >>

\* An assignment of what is there already, as the stopwatch makes in every pass
\* of its loop, changes nothing.
CountAnew == since' = IF asked' = asked THEN since ELSE 0

\* Fault: the scan starts again with every call.
AssignRestarting ==
  /\ isr = "out"
  /\ \E what \in todo :
       /\ todo' = todo \ {what}
       /\ IF what = "mode" THEN fndHexMode' = call.hex /\ UNCHANGED fndNumber
          ELSE fndNumber' = call.number /\ UNCHANGED fndHexMode
  /\ numDigit' = 0 /\ hexDigit' = 0
  /\ UNCHANGED << fndDPData, ports, isr, call, image, dark >>
  /\ CountAnew

Assign ==
  /\ isr = "out"
  /\ \E what \in todo :
       /\ todo' = todo \ {what}
       /\ IF what = "mode" THEN fndHexMode' = call.hex /\ UNCHANGED fndNumber
          ELSE fndNumber' = call.number /\ UNCHANGED fndHexMode
  /\ UNCHANGED << fndDPData, ports, scan, call, image, dark >>
  /\ CountAnew

FND_SetDP ==
  /\ isr = "out" /\ todo = {}
  /\ \E i \in Digit : fndDPData' \in {fndDPData \cup {i}, fndDPData \ {i}}
  /\ UNCHANGED << fndHexMode, fndNumber, ports, scan, call, todo, image, dark >>
  /\ CountAnew

-----------------------------------------------------------------------------
\* TMR_ISR: FND_Excute up to each write of a port.

\* The digit being refreshed, or refreshed last in this base.
Current == IF fndHexMode THEN hexDigit ELSE numDigit

\* Fault: the digits are not switched off before the data port changes.
NotAllOff ==
  /\ isr = "out" /\ isr' = "off"
  /\ IF fndHexMode THEN hexDigit' = NextDigit(hexDigit) /\ UNCHANGED numDigit
                   ELSE numDigit' = NextDigit(numDigit) /\ UNCHANGED hexDigit
  /\ UNCHANGED << asked, com, data, call, todo, history >>

\* FND_DispAllOff
AllOff ==
  /\ isr = "out" /\ isr' = "off"
  /\ IF fndHexMode THEN hexDigit' = NextDigit(hexDigit) /\ UNCHANGED numDigit
                   ELSE numDigit' = NextDigit(numDigit) /\ UNCHANGED hexDigit
  /\ com' = {}
  /\ UNCHANGED << asked, data, call, todo, history >>

Glyph(i) == [figure |-> Figure(fndNumber, fndHexMode, i), point |-> i \in fndDPData]

\* FND_DispDigit
DispDigit ==
  /\ isr = "off" /\ isr' = "drawn"
  /\ data' = Glyph(Current)
  /\ UNCHANGED << asked, com, numDigit, hexDigit, call, todo, history >>

\* FND_SelDigit
SelDigit ==
  /\ isr = "drawn" /\ isr' = "out"
  /\ com' = {Current}
  /\ image' = [image EXCEPT ![Current] = data]
  /\ since' = IF since < Digits THEN since + 1 ELSE since
  /\ dark' = [i \in Digit |-> IF i = Current THEN 0 ELSE dark[i] + 1]
  /\ UNCHANGED << asked, data, numDigit, hexDigit, call, todo >>

-----------------------------------------------------------------------------

Next == Call \/ Assign \/ FND_SetDP \/ AllOff \/ DispDigit \/ SelDigit

Spec == Init /\ [][Next]_vars

-----------------------------------------------------------------------------
\* While a digit is lit it is the only one, and the data port carries what
\* was put there for it: no digit shows a trace of another.
NoGhost == \A i \in com : com = {i} /\ data = image[i]

\* However the refreshes fall into a call, what was shown in between (the old
\* number in the new base, or the new number in the old base) is gone after
\* one round: every digit then shows its figure of the number called for.
Settles ==
  since = Digits /\ todo = {} =>
    \A i \in Digit : image[i] = [figure |-> Figure(call.number, call.hex, i),
                                 point  |-> i \in fndDPData]

\* However often the base changes, with its own scan position for each base,
\* no digit is left out for longer than a round of each.
NeverDarkLong == \A i \in Digit : dark[i] <= 2 * (Digits - 1)

\* How many digits ago the scan at position d was at i.
Ago(d, i) == IF i <= d THEN d - i ELSE d - i + Digits

\* Digit i has been refreshed since main last changed anything.
Fresh(i) ==
  IF isr = "out" THEN Ago(Current, i) < since
  ELSE IF i = Current THEN since = Digits
  ELSE Ago(Current, i) <= since

\* Neither scan has been at i for longer than this.
DarkBound(i) ==
  IF isr = "out" THEN Ago(numDigit, i) + Ago(hexDigit, i)
  ELSE IF i = Current THEN 2 * (Digits - 1)
  ELSE Ago(numDigit, i) + Ago(hexDigit, i) - 1

FndInv ==
  /\ TypeOK
  /\ NoGhost
  /\ isr # "out" => com = {}
  /\ isr = "drawn" => data = Glyph(Current)
  /\ "mode" \notin todo => fndHexMode = call.hex
  /\ "number" \notin todo => fndNumber = call.number
  /\ \A i \in Digit : Fresh(i) => image[i] = Glyph(i)
  /\ \A i \in Digit : dark[i] <= DarkBound(i)

=============================================================================
