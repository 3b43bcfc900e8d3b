----------------------------- MODULE FndProofs -----------------------------
(***************************************************************************)
(* Proofs about the display for every number of digits, every pair of      *)
(* radices and every set of numbers.                                       *)
(*                                                                         *)
(* FndInv is the inductive invariant.  Its last two conjuncts relate, for  *)
(* each digit, what it shows and how long it has been dark to the scan     *)
(* positions; a refresh moves one position by one, away from every digit   *)
(* but the one it then lights.                                             *)
(***************************************************************************)
EXTENDS Fnd, TLAPS

\* The scan goes on to the next digit and from the last one to the first.
LEMMA NextDigitIs ==
  ASSUME NEW d \in Digit
  PROVE  NextDigit(d) = IF d = Digits - 1 THEN 0 ELSE d + 1
<1>1. Digits \in Nat \ {0} /\ d \in 0 .. Digits - 1
  BY FndAssumption DEF Digit
<1>2. CASE d = Digits - 1
  <2>1. (d + 1) % Digits = Digits % Digits
    BY <1>1, <1>2
  <2>2. Digits % Digits = 0
    BY <1>1
  <2>. QED
    BY <1>2, <2>1, <2>2 DEF NextDigit
<1>3. CASE d # Digits - 1
  <2>1. d + 1 \in 0 .. Digits - 1
    BY <1>1, <1>3
  <2>2. (d + 1) % Digits = d + 1
    BY <1>1, <2>1
  <2>. QED
    BY <1>3, <2>2 DEF NextDigit
<1>. QED
  BY <1>2, <1>3

\* A position has been at any digit less than a round ago; a step leaves the
\* digit stepped to behind by nothing and every other one by one more.
LEMMA AgoRange ==
  ASSUME NEW d \in Digit, NEW i \in Digit
  PROVE  Ago(d, i) \in 0 .. Digits - 1 /\ (Ago(d, i) = 0 <=> i = d)
  BY FndAssumption DEF Ago, Digit

LEMMA AgoNext ==
  ASSUME NEW d \in Digit, NEW i \in Digit
  PROVE  /\ NextDigit(d) \in Digit
         /\ i # NextDigit(d) => Ago(NextDigit(d), i) = Ago(d, i) + 1
         /\ i = NextDigit(d) => Ago(d, i) = Digits - 1
  BY FndAssumption, NextDigitIs DEF Ago, Digit

-----------------------------------------------------------------------------

LEMMA GlyphShown ==
  ASSUME TypeOK, NEW i \in Digit PROVE Glyph(i) \in Shown
  BY DEF TypeOK, Glyph, Shown, Figures

LEMMA InvInit == Init => FndInv
<1> SUFFICES ASSUME Init PROVE FndInv
  OBVIOUS
<1> USE DEF Init
<1>1. 0 \in Digit /\ AllSegments \in Shown
  BY FndAssumption DEF Digit, AllSegments, Shown, Figures
<1>2. numDigit \in Digit /\ Current = numDigit
  BY <1>1, AgoNext DEF Current
<1>3. TypeOK
  <2>0. fndHexMode \in BOOLEAN /\ fndNumber \in Numbers
    BY FndAssumption, Zenon
  <2>1. since \in 0 .. Digits
    BY FndAssumption
  <2>2. /\ fndDPData \in SUBSET Digit /\ com \in SUBSET Digit
        /\ todo \in SUBSET {"mode", "number"}
        /\ image \in [Digit -> Shown] /\ dark \in [Digit -> Nat]
    BY <1>1
  <2>3. call \in [hex : BOOLEAN, number : Numbers]
    BY FndAssumption
  <2>4. numDigit \in Digit /\ hexDigit \in Digit /\ data \in Shown
        /\ isr \in {"out", "off", "drawn"}
    BY <1>1, <1>2
  <2>. QED
    BY <2>0, <2>1, <2>2, <2>3, <2>4, Zenon DEF TypeOK
<1>4. ASSUME NEW i \in Digit
      PROVE  ~Fresh(i) /\ dark[i] <= DarkBound(i)
  <2>1. Ago(numDigit, i) \in 0 .. Digits - 1 /\ (Ago(numDigit, i) = 0 <=> i = numDigit)
        /\ Ago(hexDigit, i) \in 0 .. Digits - 1
    BY <1>1, <1>2, AgoRange
  <2>. QED
    BY <1>2, <2>1, FndAssumption DEF Fresh, DarkBound
<1>5. NoGhost
  BY DEF NoGhost
<1>. QED
  BY <1>3, <1>4, <1>5 DEF FndInv

\* The main loop changes nothing of the display; what it asks for, no digit
\* has been refreshed for.
LEMMA InvMain == FndInv /\ (Call \/ Assign \/ FND_SetDP) => FndInv'
<1> SUFFICES ASSUME FndInv, Call \/ Assign \/ FND_SetDP PROVE FndInv'
  OBVIOUS
<1>1. TypeOK /\ TypeOK'
  <2>1. CASE Call
    BY <2>1 DEF FndInv, TypeOK, Call, asked, ports, scan, history
  <2>2. CASE Assign
    BY <2>2, FndAssumption DEF FndInv, TypeOK, Assign, CountAnew, ports, scan
  <2>3. CASE FND_SetDP
    BY <2>3, FndAssumption DEF FndInv, TypeOK, FND_SetDP, CountAnew, ports, scan
  <2>. QED
    BY <2>1, <2>2, <2>3 DEF FndInv
<1>2. /\ isr = "out" /\ isr' = "out"
      /\ UNCHANGED << com, data, numDigit, hexDigit, image, dark >>
  BY DEF Call, Assign, FND_SetDP, ports, scan, history
<1>3. NoGhost'
  BY <1>2 DEF FndInv, NoGhost
<1>4. /\ "mode" \notin todo' => fndHexMode' = call'.hex
      /\ "number" \notin todo' => fndNumber' = call'.number
  BY DEF FndInv, Call, Assign, FND_SetDP, asked
<1>5. ASSUME NEW i \in Digit, Fresh(i)' PROVE image'[i] = Glyph(i)'
  <2>1. CASE asked' = asked
    <3>1. since' = since
      BY <2>1 DEF Call, Assign, FND_SetDP, CountAnew, history
    <3>. QED
      BY <1>2, <1>5, <2>1, <3>1 DEF FndInv, asked, Fresh, Current, Ago, Glyph
  <2>2. CASE asked' # asked
    <3>1. since' = 0 /\ Current' \in Digit
      BY <1>1, <2>2 DEF Call, Assign, FND_SetDP, CountAnew, TypeOK, Current
    <3>2. Ago(Current', i) \in 0 .. Digits - 1
      BY <3>1, AgoRange
    <3>. QED
      BY <1>2, <1>5, <3>1, <3>2, FndAssumption DEF Fresh, Ago
  <2>. QED
    BY <2>1, <2>2
<1>6. ASSUME NEW i \in Digit PROVE dark'[i] <= DarkBound(i)'
  BY <1>2 DEF FndInv, DarkBound, Ago
<1>. QED
  BY <1>1, <1>2, <1>3, <1>4, <1>5, <1>6 DEF FndInv

\* A refresh begins: one scan moves on, and the digit it comes to is the one
\* it has left behind longest.
LEMMA InvAllOff == FndInv /\ AllOff => FndInv'
<1> SUFFICES ASSUME FndInv, AllOff PROVE FndInv'
  OBVIOUS
<1>1. /\ isr = "out" /\ isr' = "off" /\ com' = {}
      /\ UNCHANGED << fndHexMode, fndNumber, fndDPData, data, call, todo, image, since, dark >>
      /\ TypeOK /\ numDigit \in Digit /\ hexDigit \in Digit /\ since \in 0 .. Digits
  BY DEF AllOff, FndInv, TypeOK, asked, history
<1>2. Current \in Digit /\ Current' = NextDigit(Current)
  BY <1>1 DEF AllOff, Current, TypeOK
<1>3. /\ fndHexMode => hexDigit' = Current' /\ numDigit' = numDigit
      /\ ~fndHexMode => numDigit' = Current' /\ hexDigit' = hexDigit
  BY <1>1 DEF AllOff, Current
<1>4. Current' \in Digit
  BY <1>2, AgoNext
<1>5. TypeOK'
  BY <1>1, <1>3, <1>4 DEF TypeOK, Digit, Shown, Figures, Figure
<1>6. ASSUME NEW i \in Digit, Fresh(i)' PROVE image'[i] = Glyph(i)'
  <2>1. /\ i # Current' => Ago(Current, i)' = Ago(Current, i) + 1
        /\ i = Current' => Ago(Current, i) = Digits - 1
        /\ Ago(Current, i) \in 0 .. Digits - 1
    BY <1>2, AgoNext, AgoRange DEF Ago
  <2>2. Fresh(i)
    BY <1>1, <1>6, <2>1, FndAssumption DEF Fresh
  <2>. QED
    BY <1>1, <2>2 DEF FndInv, Glyph
<1>7. ASSUME NEW i \in Digit PROVE dark'[i] <= DarkBound(i)'
  <2>1. /\ dark[i] <= Ago(numDigit, i) + Ago(hexDigit, i) /\ dark[i] \in Nat
        /\ Ago(numDigit, i) \in 0 .. Digits - 1 /\ Ago(hexDigit, i) \in 0 .. Digits - 1
    BY <1>1, AgoRange DEF FndInv, DarkBound, TypeOK
  <2>2. CASE i = Current'
    BY <1>1, <2>1, <2>2, FndAssumption DEF DarkBound
  <2>3. CASE i # Current'
    <3>1. Ago(Current', i) = Ago(Current, i) + 1
      BY <1>2, <2>3, AgoNext
    <3>2. Ago(numDigit', i) + Ago(hexDigit', i) = Ago(numDigit, i) + Ago(hexDigit, i) + 1
      BY <1>1, <1>3, <2>1, <3>1, FndAssumption DEF Current
    <3>3. DarkBound(i)' = Ago(numDigit', i) + Ago(hexDigit', i) - 1
      BY <1>1, <2>3 DEF DarkBound, Ago
    <3>4. dark'[i] = dark[i]
      BY <1>1
    <3>5. Ago(numDigit', i) \in Int /\ Ago(hexDigit', i) \in Int
      BY <1>1, <1>3, <1>4, AgoRange
    <3>6. DarkBound(i)' = Ago(numDigit, i) + Ago(hexDigit, i)
      BY <2>1, <3>2, <3>3, <3>5
    <3>. QED
      BY <2>1, <3>4, <3>6
  <2>. QED
    BY <2>2, <2>3
<1>. QED
  BY <1>1, <1>5, <1>6, <1>7 DEF FndInv, NoGhost

LEMMA InvDispDigit == FndInv /\ DispDigit => FndInv'
<1> SUFFICES ASSUME FndInv, DispDigit PROVE FndInv'
  OBVIOUS
<1>1. /\ isr = "off" /\ isr' = "drawn" /\ data' = Glyph(Current) /\ com = {} /\ com' = {}
      /\ UNCHANGED << fndHexMode, fndNumber, fndDPData, numDigit, hexDigit, call, todo, image, since, dark >>
      /\ TypeOK
  BY DEF DispDigit, FndInv, asked, history
<1>2. Current \in Digit /\ Current' = Current
  BY <1>1 DEF Current, TypeOK
<1>3. TypeOK'
  BY <1>1, <1>2, GlyphShown DEF TypeOK, Digit, Shown, Figures, Figure
<1>4. ASSUME NEW i \in Digit
      PROVE  (Fresh(i)' => image'[i] = Glyph(i)') /\ dark'[i] <= DarkBound(i)'
  <2>1. Fresh(i)' = Fresh(i) /\ Glyph(i)' = Glyph(i) /\ DarkBound(i)' = DarkBound(i)
    BY <1>1, <1>2 DEF Fresh, Glyph, DarkBound, Ago
  <2>. QED
    BY <1>1, <2>1 DEF FndInv
<1>5. data' = Glyph(Current)'
  BY <1>1, <1>2 DEF Glyph
<1>. QED
  BY <1>1, <1>3, <1>4, <1>5 DEF FndInv, NoGhost

LEMMA InvSelDigit == FndInv /\ SelDigit => FndInv'
<1> SUFFICES ASSUME FndInv, SelDigit PROVE FndInv'
  OBVIOUS
<1>1. /\ isr = "drawn" /\ isr' = "out" /\ data = Glyph(Current) /\ com' = {Current}
      /\ UNCHANGED << fndHexMode, fndNumber, fndDPData, data, numDigit, hexDigit, call, todo >>
      /\ TypeOK
  BY DEF SelDigit, FndInv, asked
<1>2. Current \in Digit /\ Current' = Current
  BY <1>1 DEF Current, TypeOK
<1>3. /\ image' = [image EXCEPT ![Current] = data] /\ image \in [Digit -> Shown]
      /\ dark' = [i \in Digit |-> IF i = Current THEN 0 ELSE dark[i] + 1]
      /\ since' = (IF since < Digits THEN since + 1 ELSE since)
      /\ since \in 0 .. Digits /\ dark \in [Digit -> Nat]
  BY <1>1 DEF SelDigit, TypeOK
<1>4. TypeOK'
  <2>1. image' \in [Digit -> Shown] /\ dark' \in [Digit -> Nat] /\ com' \in SUBSET Digit
    BY <1>1, <1>2, <1>3 DEF TypeOK
  <2>2. since' \in 0 .. Digits
    BY <1>3, FndAssumption
  <2>. QED
    BY <1>1, <2>1, <2>2 DEF TypeOK, Digit, Shown, Figures, Figure
<1>5. ASSUME NEW i \in Digit
      PROVE  (Fresh(i)' => image'[i] = Glyph(i)') /\ dark'[i] <= DarkBound(i)'
  <2>1. /\ Ago(numDigit, i) \in 0 .. Digits - 1 /\ Ago(hexDigit, i) \in 0 .. Digits - 1
        /\ Ago(Current, i) \in 0 .. Digits - 1
        /\ DarkBound(i)' = Ago(numDigit, i) + Ago(hexDigit, i)
        /\ Glyph(i)' = Glyph(i)
    BY <1>1, <1>2, AgoRange DEF TypeOK, DarkBound, Ago, Glyph
  <2>2. CASE i = Current
    BY <1>1, <1>2, <1>3, <2>1, <2>2, FndAssumption
  <2>3. CASE i # Current
    <3>1. Fresh(i)' => Fresh(i)
      BY <1>1, <1>2, <1>3, <2>1, <2>3, FndAssumption DEF Fresh, Ago
    <3>2. image'[i] = image[i] /\ dark'[i] = dark[i] + 1
      BY <1>3, <2>3
    <3>3. dark[i] <= Ago(numDigit, i) + Ago(hexDigit, i) - 1 /\ dark[i] \in Nat
      BY <1>1, <1>3, <2>3 DEF FndInv, DarkBound
    <3>4. dark'[i] <= DarkBound(i)'
      BY <2>1, <3>2, <3>3, FndAssumption
    <3>. QED
      BY <2>1, <3>1, <3>2, <3>4 DEF FndInv
  <2>. QED
    BY <2>2, <2>3
<1>6. NoGhost'
  BY <1>1, <1>2, <1>3 DEF NoGhost
<1>. QED
  BY <1>1, <1>4, <1>5, <1>6 DEF FndInv

-----------------------------------------------------------------------------

\* FndInv holds in every state of the display.
THEOREM FndSafe == Spec => []FndInv
<1>1. FndInv /\ [Next]_vars => FndInv'
  <2> SUFFICES ASSUME FndInv, [Next]_vars PROVE FndInv'
    OBVIOUS
  <2>1. CASE Next
    BY <2>1, InvMain, InvAllOff, InvDispDigit, InvSelDigit DEF Next
  <2>2. CASE UNCHANGED vars
    BY <2>2 DEF vars, asked, ports, scan, history, FndInv, TypeOK, NoGhost, Digit, Shown,
       Figures, Figure, Glyph, Fresh, DarkBound, Current, Ago
  <2>. QED
    BY <2>1, <2>2
<1>. QED
  BY <1>1, InvInit, PTL DEF Spec

\* At most one digit is lit, with its own figure.
THEOREM NoDigitGhosts == Spec => []NoGhost
<1>1. FndInv => NoGhost
  BY DEF FndInv
<1>. QED
  BY <1>1, FndSafe, PTL

\* One round after main has left it alone the display shows what was asked.
THEOREM DisplaySettles == Spec => []Settles
<1>1. FndInv => Settles
  <2> SUFFICES ASSUME FndInv, since = Digits, todo = {}, NEW i \in Digit
               PROVE  image[i] = [figure |-> Figure(call.number, call.hex, i), point |-> i \in fndDPData]
    BY DEF Settles
  <2>1. Current \in Digit
    BY DEF FndInv, TypeOK, Current
  <2>2. Fresh(i)
    BY <2>1, AgoRange, FndAssumption DEF Fresh
  <2>3. fndHexMode = call.hex /\ fndNumber = call.number
    BY DEF FndInv
  <2>. QED
    BY <2>2, <2>3 DEF FndInv, Glyph
<1>. QED
  BY <1>1, FndSafe, PTL

\* No digit is dark for longer than a round of each scan.
THEOREM DigitsAreRefreshed == Spec => []NeverDarkLong
<1>1. FndInv => NeverDarkLong
  <2> SUFFICES ASSUME FndInv, NEW i \in Digit PROVE dark[i] <= 2 * (Digits - 1)
    BY DEF NeverDarkLong
  <2>1. /\ Ago(numDigit, i) \in 0 .. Digits - 1 /\ Ago(hexDigit, i) \in 0 .. Digits - 1
        /\ dark[i] <= DarkBound(i) /\ dark[i] \in Nat
    BY AgoRange DEF FndInv, TypeOK
  <2>. QED
    BY <2>1, FndAssumption DEF DarkBound
<1>. QED
  BY <1>1, FndSafe, PTL

=============================================================================
