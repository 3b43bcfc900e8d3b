-------------------------- MODULE StopWatchProofs --------------------------
(***************************************************************************)
(* Proofs about the stopwatch for every width of its fields and of m_tick, *)
(* every period and row of lights, and any number of ticks a pass.         *)
(*                                                                         *)
(* StopWatchInv says by how much m_tick is ahead of prevTime although both *)
(* are known only modulo TickMod; ButtonInv that a contact is as far from  *)
(* prevState as it has moves to be reported; LedInv that the bits beyond   *)
(* the row repeat it, and how the port of the lights differs from it;      *)
(* PaceInv how far what was counted since the start is from the ticks      *)
(* since.  Each is inductive given the types.  That the watch is an        *)
(* abstract clock rests on the carries: ReadingOfNext.                     *)
(***************************************************************************)
EXTENDS StopWatch, TLAPS

-----------------------------------------------------------------------------
\* Arithmetic.

\* The difference of two readings of a clock that wraps, taken modulo the
\* wrap, is the time between them if that is shorter than a round.
LEMMA WrappedDifference ==
  ASSUME NEW T \in Nat, NEW p \in 0 .. T - 1, NEW a \in 0 .. T - 1
  PROVE  (((p + a) % T) - p) % T = a
<1>1. CASE p + a < T
  <2>1. (p + a) % T = p + a /\ a % T = a
    BY <1>1
  <2>. QED
    BY <2>1
<1>2. CASE p + a >= T
  <2>1. (p + a) % T = p + a - T
    BY <1>2
  <2>2. (a - T) % T = a
    OBVIOUS
  <2>. QED
    BY <2>1, <2>2
<1>. QED
  BY <1>1, <1>2

\* The clock one tick later, in its first or second round.
LEMMA WrappedStep ==
  ASSUME NEW T \in Nat \ {0}, NEW x \in 0 .. 2 * T - 2
  PROVE  ((x % T) + 1) % T = (x + 1) % T
<1>1. CASE x < T - 1
  BY <1>1
<1>2. CASE x = T - 1
  <2>1. x % T = x
    BY <1>2
  <2>. QED
    BY <2>1
<1>3. CASE x >= T
  <2>1. x % T = x - T /\ (x + 1) % T = x + 1 - T
    BY <1>3
  <2>2. (x - T + 1) % T = x - T + 1
    BY <1>3
  <2>. QED
    BY <2>1, <2>2
<1>. QED
  BY <1>1, <1>2, <1>3

\* A number of two places: its range, and how it carries.
LEMMA TwoPlaces ==
  ASSUME NEW A \in Nat, NEW B \in Nat \ {0}, NEW a \in 0 .. A - 1, NEW b \in 0 .. B - 1
  PROVE  /\ a * B + b \in 0 .. A * B - 1
         /\ b = B - 1 => a * B + b + 1 = (a + 1) * B
         /\ a = A - 1 /\ b = B - 1 => a * B + b = A * B - 1
         /\ a # A - 1 \/ b # B - 1 => a * B + b # A * B - 1
<1>1. PICK d \in Nat : A = a + 1 + d
  <2>1. A - 1 - a \in Nat /\ A = a + 1 + (A - 1 - a)
    OBVIOUS
  <2>. QED
    BY <2>1
<1>2. /\ a \in Nat /\ b \in Nat /\ b <= B - 1 /\ a * B \in Nat /\ d * B \in Nat
      /\ d = 0 <=> a = A - 1
  BY <1>1
<1>3. A * B = a * B + B + d * B
  BY <1>1, <1>2
<1>4. (a + 1) * B = a * B + B
  BY <1>2
<1>5. d # 0 => d * B >= B
  <2>1. d # 0 => d - 1 \in Nat /\ (d - 1) * B \in Nat /\ d * B = (d - 1) * B + B
    BY <1>1
  <2>. QED
    BY <2>1
<1>6. d = 0 => d * B = 0
  BY <1>1
<1>. QED
  BY <1>2, <1>3, <1>4, <1>5, <1>6

-----------------------------------------------------------------------------
\* Types, and the pace of the watch.

LEMMA IncTimeType ==
  ASSUME NEW t \in [ms : 0 .. CS - 1, sec : 0 .. SEC - 1, min : 0 .. MIN - 1, hour : 0 .. HOUR - 1]
  PROVE  IncTime(t) \in [ms : 0 .. CS - 1, sec : 0 .. SEC - 1, min : 0 .. MIN - 1, hour : 0 .. HOUR - 1]
<1> DEFINE Times == [ms : 0 .. CS - 1, sec : 0 .. SEC - 1, min : 0 .. MIN - 1, hour : 0 .. HOUR - 1]
<1>1. /\ 0 \in 0 .. CS - 1 /\ 0 \in 0 .. SEC - 1 /\ 0 \in 0 .. MIN - 1 /\ 0 \in 0 .. HOUR - 1
      /\ t.ms # CS - 1 => t.ms + 1 \in 0 .. CS - 1
      /\ t.sec # SEC - 1 => t.sec + 1 \in 0 .. SEC - 1
      /\ t.min # MIN - 1 => t.min + 1 \in 0 .. MIN - 1
      /\ t.hour # HOUR - 1 => t.hour + 1 \in 0 .. HOUR - 1
  BY StopWatchAssumption
<1>2. Zero \in Times
  BY <1>1 DEF Zero
<1>3. CASE t.ms # CS - 1
  BY <1>1, <1>3 DEF IncTime
<1>4. CASE t.ms = CS - 1 /\ t.sec # SEC - 1
  BY <1>1, <1>4 DEF IncTime
<1>5. CASE t.ms = CS - 1 /\ t.sec = SEC - 1 /\ t.min # MIN - 1
  BY <1>1, <1>5 DEF IncTime
<1>6. CASE t.ms = CS - 1 /\ t.sec = SEC - 1 /\ t.min = MIN - 1
  BY <1>1, <1>2, <1>6 DEF IncTime
<1>. QED
  BY <1>3, <1>4, <1>5, <1>6

LEMMA LedInRow ==
  ASSUME NEW led \in SUBSET (0 .. WordBits - 1)
  PROVE  Rotate(led) \in SUBSET (0 .. WordBits - 1)
  BY StopWatchAssumption DEF Rotate

LEMMA TypeInit == Init => StopWatchInv
<1> SUFFICES ASSUME Init PROVE StopWatchInv
  OBVIOUS
<1>1. TypeOK
  BY StopWatchAssumption DEF Init, TypeOK, Zero, Row
<1>2. m_tick = (prevTime + age) % TickMod /\ age <= pass + (Period - 1)
  <2>1. (0 + 0) % TickMod = 0
    BY StopWatchAssumption
  <2>. QED
    BY <2>1, StopWatchAssumption DEF Init
<1>. QED
  BY <1>1, <1>2 DEF StopWatchInv

\* No step but Tick and RunTime touches the clocks.
LEMMA ClocksKept ==
  Next /\ ~Tick /\ ~RunTime => UNCHANGED << m_tick, prevTime, pass, age >>
<1> SUFFICES ASSUME Next, ~Tick, ~RunTime PROVE UNCHANGED << m_tick, prevTime, pass, age >>
  OBVIOUS
<1>1. CASE Receive
  BY <1>1 DEF Receive, clocks
<1>2. CASE Contacts
  BY <1>2 DEF Contacts, swVars, clocks, lights
<1>3. CASE ClearTime \/ PollRunStop \/ RunStopPolled \/ PollClear \/ ClearPolled
  BY <1>3 DEF ClearTime, PollRunStop, RunStopPolled, PollClear, ClearPolled, Poll, Polled, clocks
<1>4. CASE TestR \/ TestC \/ Act \/ Display
  BY <1>4 DEF TestR, TestC, Act, Display, clocks
<1>. QED
  BY <1>1, <1>2, <1>3, <1>4 DEF Next, Main

\* No step but Receive and Display touches the lights.
LEMMA LightsKept ==
  [Next]_vars => Receive \/ Display \/ UNCHANGED lights
<1> SUFFICES ASSUME [Next]_vars PROVE Receive \/ Display \/ UNCHANGED lights
  OBVIOUS
<1>1. CASE RunTime \/ ClearTime \/ TestR \/ TestC \/ Act \/ Tick
  BY <1>1 DEF RunTime, ClearTime, TestR, TestC, Act, Tick
<1>2. CASE PollRunStop \/ RunStopPolled \/ PollClear \/ ClearPolled
  BY <1>2 DEF PollRunStop, RunStopPolled, PollClear, ClearPolled, Poll, Polled
<1>3. CASE Contacts \/ UNCHANGED vars
  BY <1>3 DEF Contacts, vars, swVars
<1>. QED
  BY <1>1, <1>2, <1>3 DEF Next, Main

\* RunTime finds a centisecond over exactly when it is.
LEMMA ElapsedMeansAge ==
  StopWatchInv => (Elapsed <=> age >= Period) /\ age < Period + PassTicks
<1> SUFFICES ASSUME StopWatchInv PROVE (Elapsed <=> age >= Period) /\ age < Period + PassTicks
  OBVIOUS
<1>1. age < Period + PassTicks /\ age \in 0 .. TickMod - 1 /\ prevTime \in 0 .. TickMod - 1
  BY StopWatchAssumption DEF StopWatchInv, TypeOK
<1>2. (((prevTime + age) % TickMod) - prevTime) % TickMod = age
  BY <1>1, WrappedDifference, StopWatchAssumption
<1>. QED
  BY <1>1, <1>2 DEF StopWatchInv, Elapsed

\* The clocks keep their relation.
LEMMA ClockStep ==
  StopWatchInv /\ [Next]_vars =>
    /\ m_tick' \in 0 .. TickMod - 1 /\ prevTime' \in 0 .. TickMod - 1
    /\ pass' \in 0 .. PassTicks /\ age' \in Nat
    /\ m_tick' = (prevTime' + age') % TickMod
    /\ age' <= pass' + (Period - 1)
<1> DEFINE Clocks == /\ m_tick \in 0 .. TickMod - 1 /\ prevTime \in 0 .. TickMod - 1
                     /\ pass \in 0 .. PassTicks /\ age \in Nat
                     /\ m_tick = (prevTime + age) % TickMod
                     /\ age <= pass + (Period - 1)
<1> SUFFICES ASSUME StopWatchInv, [Next]_vars PROVE Clocks'
  OBVIOUS
<1>0. Clocks
  BY DEF StopWatchInv, TypeOK
<1>1. CASE Tick
  <2>1. /\ m_tick' = (m_tick + 1) % TickMod /\ prevTime' = prevTime
        /\ pass' = pass + 1 /\ pass < PassTicks /\ age' = age + 1
    BY <1>1 DEF Tick
  <2>2. prevTime + age \in 0 .. 2 * TickMod - 2 /\ TickMod \in Nat \ {0}
    BY <1>0, StopWatchAssumption
  <2>3. (((prevTime + age) % TickMod) + 1) % TickMod = (prevTime + age + 1) % TickMod
    BY <2>2, WrappedStep
  <2>4. prevTime' + age' = prevTime + age + 1
    BY <1>0, <2>1
  <2>5. (m_tick + 1) % TickMod \in 0 .. TickMod - 1
    BY <1>0, <2>2
  <2>. QED
    BY <1>0, <2>1, <2>3, <2>4, <2>5, StopWatchAssumption
<1>2. CASE RunTime
  <2>1. m_tick' = m_tick /\ pass' = 0
    BY <1>2 DEF RunTime
  <2>2. CASE Elapsed
    <3>1. prevTime' = m_tick /\ age' = 0
      BY <1>2, <2>2 DEF RunTime
    <3>2. (m_tick + 0) % TickMod = m_tick
      BY <1>0, StopWatchAssumption
    <3>. QED
      BY <1>0, <2>1, <3>1, <3>2, StopWatchAssumption
  <2>3. CASE ~Elapsed
    <3>1. prevTime' = prevTime /\ age' = age
      BY <1>2, <2>3 DEF RunTime
    <3>2. age < Period
      BY <1>0, <2>3, ElapsedMeansAge, StopWatchAssumption
    <3>. QED
      BY <1>0, <2>1, <3>1, <3>2, StopWatchAssumption
  <2>. QED
    BY <2>2, <2>3
<1>3. CASE ~Tick /\ ~RunTime
  BY <1>0, <1>3, ClocksKept DEF vars, swVars, clocks, lights
<1>. QED
  BY <1>1, <1>2, <1>3

\* The row and its port keep their types.
LEMMA LightTypes ==
  StopWatchInv /\ [Next]_vars =>
    /\ stopWatchLed' \in SUBSET (0 .. WordBits - 1)
    /\ ledPort' \in SUBSET Row /\ toggled' \in SUBSET Row
<1> SUFFICES ASSUME StopWatchInv, [Next]_vars
             PROVE  /\ stopWatchLed' \in SUBSET (0 .. WordBits - 1)
                    /\ ledPort' \in SUBSET Row /\ toggled' \in SUBSET Row
  OBVIOUS
<1>0. /\ stopWatchLed \in SUBSET (0 .. WordBits - 1)
      /\ ledPort \in SUBSET Row /\ toggled \in SUBSET Row
  BY DEF StopWatchInv, TypeOK
<1>1. CASE Receive
  BY <1>0, <1>1 DEF Receive, LED_Toggle, Flip
<1>2. CASE Display
  <2>1. ASSUME NEW led \in SUBSET (0 .. WordBits - 1), WriteRow(led)
        PROVE  /\ stopWatchLed' \in SUBSET (0 .. WordBits - 1)
               /\ ledPort' \in SUBSET Row /\ toggled' \in SUBSET Row
    BY <2>1 DEF WriteRow
  <2>2. {0} \in SUBSET (0 .. WordBits - 1) /\ Rotate(stopWatchLed) \in SUBSET (0 .. WordBits - 1)
    BY <1>0, LedInRow, StopWatchAssumption
  <2>. QED
    BY <1>0, <1>2, <2>1, <2>2 DEF Display, lights
<1>3. CASE UNCHANGED lights
  BY <1>0, <1>3 DEF lights
<1>. QED
  BY <1>1, <1>2, <1>3, LightsKept

LEMMA TypeStep == StopWatchInv /\ [Next]_vars => TypeOK'
<1> SUFFICES ASSUME StopWatchInv, [Next]_vars PROVE TypeOK'
  OBVIOUS
<1> DEFINE Times == [ms : 0 .. CS - 1, sec : 0 .. SEC - 1, min : 0 .. MIN - 1, hour : 0 .. HOUR - 1]
           Rest == /\ rx_data \in {"none", "r", "c"} /\ seen \in {"none", "r", "c"}
                   /\ stopWatchState \in {"STOP", "RUN", "CLEAR"}
                   /\ time \in Times
                   /\ pc \in {"run", "rs", "rs_wait", "clr", "clr_wait", "load", "load2", "act", "disp"}
                   /\ ran \in 0 .. MaxRan /\ counted \in Nat
<1>0. Rest
  BY DEF StopWatchInv, TypeOK
<1>1. Zero \in Times /\ IncTime(time) \in Times /\ 0 \in 0 .. MaxRan
  BY <1>0, IncTimeType, StopWatchAssumption DEF Zero
<1>2. Rest'
  <2>1. CASE RunTime
    BY <1>0, <1>1, <2>1 DEF RunTime
  <2>2. CASE ClearTime
    BY <1>0, <1>1, <2>2 DEF ClearTime, clocks
  <2>3. CASE PollRunStop \/ PollClear
    BY <1>0, <2>3 DEF PollRunStop, PollClear, Poll, AfterRunStop, clocks
  <2>4. CASE RunStopPolled \/ ClearPolled
    BY <1>0, <1>1, <2>4 DEF RunStopPolled, ClearPolled, Polled, AfterRunStop, Toggled, Enter
  <2>5. CASE TestR \/ TestC \/ Act
    BY <1>0, <1>1, <2>5 DEF TestR, TestC, Act, Toggled, Enter, clocks
  <2>6. CASE Display
    BY <1>0, <2>6 DEF Display, clocks
  <2>7. CASE Tick
    <3>1. ran' \in 0 .. MaxRan
      BY <1>0, <2>7, StopWatchAssumption DEF Tick
    <3>. QED
      BY <1>0, <2>7, <3>1 DEF Tick
  <2>8. CASE Receive
    BY <1>0, <2>8 DEF Receive, clocks
  <2>9. CASE Contacts \/ UNCHANGED vars
    BY <1>0, <2>9 DEF Contacts, vars, swVars, clocks
  <2>. QED
    BY <2>1, <2>2, <2>3, <2>4, <2>5, <2>6, <2>7, <2>8, <2>9 DEF Next, Main
<1>. QED
  BY <1>2, LightTypes, ClockStep DEF TypeOK

\* StopWatchInv holds in every state of the watch.
THEOREM StopWatchSafe == Spec => []StopWatchInv
<1>1. StopWatchInv /\ [Next]_vars => StopWatchInv'
  BY TypeStep, ClockStep DEF StopWatchInv
<1>. QED
  BY <1>1, TypeInit, PTL DEF Spec

\* What the other steps do to the measure of the pace.
LEMMA MeasureKept ==
  [Next]_vars /\ ~Tick /\ ~RunTime =>
    \/ ran' = 0 /\ counted' = 0
    \/ /\ ran' = ran /\ counted' = counted
       /\ stopWatchState' = stopWatchState \/ stopWatchState # "RUN"
<1> SUFFICES ASSUME [Next]_vars, ~Tick, ~RunTime
             PROVE  \/ ran' = 0 /\ counted' = 0
                    \/ /\ ran' = ran /\ counted' = counted
                       /\ stopWatchState' = stopWatchState \/ stopWatchState # "RUN"
  OBVIOUS
<1>1. CASE Receive \/ Contacts \/ UNCHANGED vars
  BY <1>1 DEF Receive, Contacts, vars, swVars, clocks
<1>2. CASE PollRunStop \/ PollClear \/ ClearTime
  BY <1>2 DEF PollRunStop, PollClear, Poll, ClearTime, clocks
<1>3. CASE RunStopPolled \/ ClearPolled
  BY <1>3 DEF RunStopPolled, ClearPolled, Polled, Enter
<1>4. CASE TestR \/ TestC \/ Act \/ Display
  BY <1>4 DEF TestR, TestC, Act, Display, Enter, clocks
<1>. QED
  BY <1>1, <1>2, <1>3, <1>4 DEF Next, Main

\* The products of Pace.
LEMMA Multiples ==
  ASSUME NEW n \in Nat, NEW q \in Nat
  PROVE  n * q \in Nat /\ (n + 1) * q = n * q + q /\ (n - 1) * q = n * q - q /\ 0 * q = 0
  OBVIOUS

LEMMA PaceStep == StopWatchInv /\ PaceInv /\ [Next]_vars => PaceInv'
<1> SUFFICES ASSUME StopWatchInv, PaceInv, [Next]_vars PROVE PaceInv'
  OBVIOUS
<1> DEFINE Q == Period + PassTicks - 1
<1>0. /\ counted \in Nat /\ ran \in Nat /\ age \in Nat /\ Period \in Nat /\ Q \in Nat
      /\ age <= Q
  BY ElapsedMeansAge, StopWatchAssumption DEF StopWatchInv, TypeOK
<1>1. /\ stopWatchState # "RUN" => ran = 0 /\ counted = 0
      /\ counted > 0 => (counted - 1) * Period + age <= ran
      /\ ran <= age + counted * Q
  BY DEF PaceInv
<1>2. CASE Tick
  <2>1. /\ age' = age + 1 /\ counted' = counted /\ stopWatchState' = stopWatchState
        /\ ran' = IF stopWatchState = "RUN" THEN ran + 1 ELSE ran
    BY <1>2 DEF Tick
  <2>2. counted * Q \in Nat /\ (counted - 1) * Period \in Int
    BY <1>0
  <2> DEFINE c == counted * Q
             d == (counted - 1) * Period
  <2>3. /\ stopWatchState # "RUN" => ran' = 0 /\ counted' = 0
        /\ counted' > 0 => d + age' <= ran'
        /\ ran' <= age' + c
    <3> HIDE DEF c, d, Q
    <3>. QED
      BY <1>0, <1>1, <2>1, <2>2 DEF c, d
  <2>. QED
    BY <2>1, <2>3 DEF PaceInv
<1>3. CASE RunTime /\ Elapsed /\ stopWatchState = "RUN"
  <2>1. /\ age' = 0 /\ counted' = counted + 1 /\ ran' = ran /\ stopWatchState' = stopWatchState
        /\ age >= Period
    BY <1>3, ElapsedMeansAge DEF RunTime
  <2>2. counted * Period <= ran
    <3>1. CASE counted = 0
      BY <1>0, <3>1
    <3>2. CASE counted > 0
      <4>1. counted * Period \in Nat /\ (counted - 1) * Period = counted * Period - Period
        BY <1>0, Multiples
      <4>. DEFINE c == counted * Period
      <4>. HIDE DEF c
      <4>. QED
        BY <1>0, <1>1, <2>1, <3>2, <4>1 DEF c
    <3>. QED
      BY <1>0, <3>1, <3>2
  <2>3. ran <= (counted + 1) * Q
    <3>1. counted * Q \in Nat /\ (counted + 1) * Q = counted * Q + Q
      BY <1>0, Multiples
    <3>. DEFINE c == counted * Q
    <3>. HIDE DEF c, Q
    <3>. QED
      BY <1>0, <1>1, <3>1 DEF c
  <2>4. (counted' - 1) * Period + age' = counted * Period /\ age' + counted' * Q = (counted + 1) * Q
    <3>1. counted' - 1 = counted
      BY <1>0, <2>1
    <3>2. counted * Period \in Nat /\ (counted + 1) * Q \in Nat
      BY <1>0
    <3>. QED
      BY <2>1, <3>1, <3>2
  <2>. QED
    BY <1>3, <2>1, <2>2, <2>3, <2>4 DEF PaceInv
<1>4. CASE RunTime /\ Elapsed /\ stopWatchState # "RUN"
  <2>1. age' = 0 /\ counted' = 0 /\ ran' = 0 /\ stopWatchState' = stopWatchState
    BY <1>1, <1>4 DEF RunTime
  <2>. QED
    BY <1>0, <2>1 DEF PaceInv
<1>5. CASE RunTime /\ ~Elapsed
  <2>1. age' = age /\ counted' = counted /\ ran' = ran /\ stopWatchState' = stopWatchState
    BY <1>5 DEF RunTime
  <2>. QED
    BY <1>1, <2>1 DEF PaceInv
<1>6. CASE ~Tick /\ ~RunTime
  <2>1. age' = age
    BY <1>6, ClocksKept DEF vars, swVars, clocks
  <2>2. CASE ran' = 0 /\ counted' = 0
    BY <1>0, <2>1, <2>2 DEF PaceInv
  <2>3. CASE ~(ran' = 0 /\ counted' = 0)
    <3>1. /\ ran' = ran /\ counted' = counted
          /\ stopWatchState' = stopWatchState \/ stopWatchState # "RUN"
      BY <1>6, <2>3, MeasureKept
    <3>. QED
      BY <1>1, <2>1, <3>1 DEF PaceInv
  <2>. QED
    BY <2>2, <2>3
<1>. QED
  BY <1>2, <1>3, <1>4, <1>5, <1>6

\* From its start to its stop a running watch is at most a centisecond ahead of
\* the ticks, and each centisecond less than a pass late.
THEOREM PaceIsKept == Spec => []Pace
<1>1. Init => PaceInv
  BY StopWatchAssumption DEF Init, PaceInv
<1>2. StopWatchInv /\ PaceInv => Pace
  <2> SUFFICES ASSUME StopWatchInv, PaceInv
               PROVE  /\ counted * Period <= ran + Period
                      /\ ran <= (counted + 1) * (Period + PassTicks - 1)
    BY DEF Pace
  <2> DEFINE Q == Period + PassTicks - 1
             c == counted * Period
             d == counted * Q
             e == (counted - 1) * Period
             f == (counted + 1) * Q
  <2>1. /\ counted \in Nat /\ ran \in Nat /\ age \in Nat /\ Period \in Nat /\ Q \in Nat
        /\ age <= Q
    BY ElapsedMeansAge, StopWatchAssumption DEF StopWatchInv, TypeOK
  <2>2. /\ c \in Nat /\ d \in Nat
        /\ counted = 0 => c = 0
        /\ e = c - Period /\ f = d + Q
    BY <2>1, Multiples
  <2>3. /\ counted > 0 => e + age <= ran
        /\ ran <= age + d
    BY DEF PaceInv
  <2>4. c <= ran + Period /\ ran <= f
    <3> HIDE DEF c, d, e, f, Q
    <3>. QED
      BY <2>1, <2>2, <2>3
  <2>. QED
    BY <2>4
<1>. QED
  BY <1>1, <1>2, PaceStep, StopWatchSafe, PTL DEF Spec

-----------------------------------------------------------------------------
\* The buttons.

\* Types of what the buttons are polled with, and ButtonInv.
ButtonsSafe ==
  /\ contact \in [Buttons -> BOOLEAN] /\ prevState \in [Buttons -> BOOLEAN]
  /\ chatter \in [Buttons -> {"none", "new", "old"}] /\ owed \in [Buttons -> Int]
  /\ ButtonInv

Even(n) == n % 2 = 0
Enough(n, c) == n >= IF c = "new" THEN 1 ELSE 0

LEMMA Parity ==
  ASSUME NEW n \in Int
  PROVE  /\ Even(n + 1) <=> ~Even(n)
         /\ Even(n - 1) <=> ~Even(n)
         /\ n >= 0 /\ ~Even(n) => n >= 1
  BY DEF Even

LEMMA ButtonsInit == Init => ButtonsSafe
<1> SUFFICES ASSUME Init PROVE ButtonsSafe
  OBVIOUS
<1>1. /\ contact = [b \in Buttons |-> FALSE] /\ prevState = [b \in Buttons |-> FALSE]
      /\ chatter = [b \in Buttons |-> "none"] /\ owed = [b \in Buttons |-> 0]
  BY DEF Init, ButtonInit
<1>2. /\ contact \in [Buttons -> BOOLEAN] /\ prevState \in [Buttons -> BOOLEAN]
      /\ chatter \in [Buttons -> {"none", "new", "old"}] /\ owed \in [Buttons -> Int]
  BY <1>1
<1>3. ASSUME NEW b \in Buttons
      PROVE  /\ contact[b] = prevState[b] <=> owed[b] % 2 = 0
             /\ owed[b] >= IF chatter[b] = "new" THEN 1 ELSE 0
             /\ chatter[b] = "old" => pc \in {"rs_wait", "clr_wait"}
  <2>1. contact[b] = FALSE /\ prevState[b] = FALSE /\ chatter[b] = "none" /\ owed[b] = 0
    BY <1>1
  <2>2. owed[b] % 2 = 0 /\ owed[b] >= 0
    BY <2>1
  <2>3. contact[b] = prevState[b]
    BY <2>1, Zenon
  <2>. QED
    BY <2>1, <2>2, <2>3
<1>. QED
  BY <1>2, <1>3 DEF ButtonsSafe, ButtonInv

\* What a step that polls no button leaves.
Held(b) ==
  /\ contact[b] = prevState[b] <=> Even(owed[b])
  /\ Enough(owed[b], chatter[b])

LEMMA HeldSafe ==
  ButtonsSafe <=>
    /\ contact \in [Buttons -> BOOLEAN] /\ prevState \in [Buttons -> BOOLEAN]
    /\ chatter \in [Buttons -> {"none", "new", "old"}] /\ owed \in [Buttons -> Int]
    /\ \A b \in Buttons : Held(b) /\ (chatter[b] = "old" => pc \in {"rs_wait", "clr_wait"})
  BY Zenon DEF ButtonsSafe, ButtonInv, Held, Even, Enough

LEMMA MoveStep ==
  ASSUME ButtonsSafe, NEW d \in Buttons, Move(d), pc' = pc
  PROVE  ButtonsSafe'
<1>0. /\ contact \in [Buttons -> BOOLEAN] /\ prevState \in [Buttons -> BOOLEAN]
      /\ chatter \in [Buttons -> {"none", "new", "old"}] /\ owed \in [Buttons -> Int]
  BY HeldSafe
<1>1. /\ contact' = [contact EXCEPT ![d] = ~@] /\ prevState' = prevState
      /\ chatter[d] = "none" /\ chatter' = [chatter EXCEPT ![d] = "new"]
      /\ owed' = [owed EXCEPT ![d] = @ + 1]
  BY DEF Move
<1>2. /\ contact' \in [Buttons -> BOOLEAN] /\ prevState' \in [Buttons -> BOOLEAN]
      /\ chatter' \in [Buttons -> {"none", "new", "old"}] /\ owed' \in [Buttons -> Int]
  BY <1>0, <1>1
<1>3. ASSUME NEW b \in Buttons
      PROVE  Held(b)' /\ (chatter'[b] = "old" => pc' \in {"rs_wait", "clr_wait"})
  <2>0. Held(b) /\ (chatter[b] = "old" => pc \in {"rs_wait", "clr_wait"})
    BY HeldSafe
  <2>1. CASE b # d
    <3>1. /\ contact'[b] = contact[b] /\ prevState'[b] = prevState[b]
          /\ chatter'[b] = chatter[b] /\ owed'[b] = owed[b]
      BY <1>0, <1>1, <2>1
    <3>. QED
      BY <2>0, <3>1 DEF Held
  <2>2. CASE b = d
    <3>1. owed'[b] = owed[b] + 1 /\ chatter'[b] = "new"
      BY <1>0, <1>1, <2>2
    <3>2. contact'[b] = ~contact[b] /\ prevState'[b] = prevState[b]
      BY <1>0, <1>1, <2>2, Zenon
    <3>3. owed[b] \in Int /\ owed[b] >= 0
      BY <1>0, <1>1, <2>0, <2>2 DEF Held, Enough
    <3>4. Enough(owed'[b], chatter'[b])
      BY <3>1, <3>3 DEF Enough
    <3>5. Even(owed'[b]) <=> ~Even(owed[b])
      BY <3>1, <3>3, Parity
    <3>6. contact[b] \in BOOLEAN /\ prevState[b] \in BOOLEAN
      BY <1>0, Zenon
    <3>7. contact'[b] = prevState'[b] <=> Even(owed'[b])
      BY <2>0, <3>2, <3>5, <3>6, Zenon DEF Held
    <3>. QED
      BY <3>1, <3>4, <3>7 DEF Held
  <2>. QED
    BY <2>1, <2>2
<1>. QED
  BY <1>2, <1>3, Zenon DEF ButtonsSafe, ButtonInv, Held, Even, Enough

LEMMA SettleStep ==
  ASSUME ButtonsSafe, NEW d \in Buttons, Settle(d), pc' = pc
  PROVE  ButtonsSafe'
<1>0. /\ contact \in [Buttons -> BOOLEAN] /\ prevState \in [Buttons -> BOOLEAN]
      /\ chatter \in [Buttons -> {"none", "new", "old"}] /\ owed \in [Buttons -> Int]
  BY HeldSafe
<1>1. /\ contact' = contact /\ prevState' = prevState /\ owed' = owed
      /\ chatter' = [chatter EXCEPT ![d] = "none"]
  BY DEF Settle
<1>2. chatter' \in [Buttons -> {"none", "new", "old"}]
  BY <1>0, <1>1
<1>3. ASSUME NEW b \in Buttons
      PROVE  Held(b)' /\ (chatter'[b] = "old" => pc' \in {"rs_wait", "clr_wait"})
  <2>0. Held(b) /\ (chatter[b] = "old" => pc \in {"rs_wait", "clr_wait"})
    BY HeldSafe
  <2>1. chatter'[b] = chatter[b] \/ chatter'[b] = "none"
    BY <1>0, <1>1
  <2>2. owed[b] \in Int /\ (Enough(owed[b], chatter[b]) => Enough(owed[b], chatter'[b]))
    BY <1>0, <2>1 DEF Enough
  <2>. QED
    BY <1>1, <2>0, <2>1, <2>2, Zenon DEF Held
<1>. QED
  BY <1>0, <1>1, <1>2, <1>3, Zenon DEF ButtonsSafe, ButtonInv, Held, Even, Enough

\* A poll of a button whose chatter is not old: the event it reports was owed.
LEMMA PollStep ==
  ASSUME ButtonsSafe, NEW d \in Buttons, NEW e, GetState(d, e), pc \notin {"rs_wait", "clr_wait"},
         e # "NO_ACT" => pc' \in {"rs_wait", "clr_wait"}
  PROVE  ButtonsSafe'
<1>0. /\ contact \in [Buttons -> BOOLEAN] /\ prevState \in [Buttons -> BOOLEAN]
      /\ chatter \in [Buttons -> {"none", "new", "old"}] /\ owed \in [Buttons -> Int]
      /\ \A b \in Buttons : Held(b) /\ chatter[b] # "old"
  BY HeldSafe
<1>1. PICK cur \in Levels(d) :
        /\ e = CASE cur = prevState[d] -> "NO_ACT"
                 [] cur /\ ~prevState[d] -> "ACT_PUSHED"
                 [] ~cur /\ prevState[d] -> "ACT_RELEASED"
        /\ prevState' = [prevState EXCEPT ![d] = cur]
        /\ IF e = "NO_ACT" THEN UNCHANGED << chatter, owed >>
           ELSE DelayBegins /\ owed' = [owed EXCEPT ![d] = @ - 1]
        /\ UNCHANGED contact
  BY Zenon DEF GetState
<1>2. cur \in BOOLEAN /\ (chatter[d] = "none" => cur = contact[d])
  BY <1>0, Zenon DEF Levels
<1>3. CASE cur = prevState[d]
  <2>1. e = "NO_ACT"
    BY <1>1, <1>3, Zenon
  <2>2. prevState' = prevState /\ chatter' = chatter /\ owed' = owed /\ contact' = contact
    BY <1>0, <1>1, <1>3, <2>1
  <2>. QED
    BY <1>0, <2>2, Zenon DEF ButtonsSafe, ButtonInv, Held, Even, Enough
<1>4. CASE cur # prevState[d]
  <2>1. e # "NO_ACT"
    <3>1. prevState[d] \in BOOLEAN
      BY <1>0, Zenon
    <3>. QED
      BY <1>1, <1>2, <1>4, <3>1
  <2>2. /\ prevState' = [prevState EXCEPT ![d] = cur] /\ contact' = contact
        /\ chatter' = [b \in Buttons |-> IF chatter[b] = "none" THEN "none" ELSE "old"]
        /\ owed' = [owed EXCEPT ![d] = @ - 1] /\ pc' \in {"rs_wait", "clr_wait"}
    BY <1>1, <2>1, Zenon DEF DelayBegins
  <2>3. /\ contact' \in [Buttons -> BOOLEAN] /\ prevState' \in [Buttons -> BOOLEAN]
        /\ chatter' \in [Buttons -> {"none", "new", "old"}] /\ owed' \in [Buttons -> Int]
    BY <1>0, <1>2, <2>2
  <2>4. ASSUME NEW b \in Buttons
        PROVE  Held(b)'
    <3>0. /\ chatter'[b] \in {"none", "old"} /\ owed[b] \in Int /\ Held(b)
          /\ contact[b] \in BOOLEAN /\ prevState[b] \in BOOLEAN /\ owed[b] >= 0
      BY <1>0, <2>2 DEF Held, Enough
    <3>1. CASE b # d
      <4>1. prevState'[b] = prevState[b] /\ owed'[b] = owed[b] /\ contact'[b] = contact[b]
        BY <1>0, <2>2, <3>1
      <4>2. Enough(owed'[b], chatter'[b])
        BY <3>0, <4>1 DEF Enough
      <4>. QED
        BY <3>0, <4>1, <4>2, Zenon DEF Held
    <3>2. CASE b = d
      <4>1. owed'[b] = owed[b] - 1 /\ contact'[b] = contact[b]
        BY <1>0, <2>2, <3>2
      <4>2. prevState'[b] = ~prevState[b]
        <5>1. prevState'[b] = cur
          BY <1>0, <2>2, <3>2, Zenon
        <5>. QED
          BY <1>2, <1>4, <3>0, <3>2, <5>1
      <4>3. owed[b] >= 1
        <5>1. CASE chatter[b] = "none"
          <6>1. contact[b] # prevState[b]
            BY <1>2, <1>4, <3>2, <5>1, Zenon
          <6>2. ~Even(owed[b])
            BY <3>0, <6>1, Zenon DEF Held
          <6>. QED
            BY <3>0, <6>2, Parity
        <5>2. CASE chatter[b] = "new"
          BY <3>0, <5>2 DEF Held, Enough
        <5>. QED
          BY <1>0, <5>1, <5>2
      <4>4. Enough(owed'[b], chatter'[b])
        BY <3>0, <4>1, <4>3 DEF Enough
      <4>5. Even(owed'[b]) <=> ~Even(owed[b])
        BY <3>0, <4>1, Parity
      <4>6. contact'[b] = prevState'[b] <=> Even(owed'[b])
        BY <3>0, <4>1, <4>2, <4>5, Zenon DEF Held
      <4>. QED
        BY <4>4, <4>6 DEF Held
    <3>. QED
      BY <3>1, <3>2
  <2>. QED
    BY <2>2, <2>3, <2>4, Zenon DEF ButtonsSafe, ButtonInv, Held, Even, Enough
<1>. QED
  BY <1>3, <1>4

LEMMA ButtonsStep == ButtonsSafe /\ [Next]_vars => ButtonsSafe'
<1> SUFFICES ASSUME ButtonsSafe, [Next]_vars PROVE ButtonsSafe'
  OBVIOUS
<1>1. ASSUME UNCHANGED buttonVars, UNCHANGED pc \/ \A b \in Buttons : chatter[b] # "old"
      PROVE  ButtonsSafe'
  <2>1. contact' = contact /\ prevState' = prevState /\ chatter' = chatter /\ owed' = owed
    BY <1>1 DEF buttonVars
  <2>2. ASSUME NEW b \in Buttons
        PROVE  chatter'[b] = "old" => pc' \in {"rs_wait", "clr_wait"}
    BY <1>1, <2>1 DEF ButtonsSafe, ButtonInv
  <2>. QED
    BY <2>1, <2>2, Zenon DEF ButtonsSafe, ButtonInv
<1>2. pc \notin {"rs_wait", "clr_wait"} => \A b \in Buttons : chatter[b] # "old"
  BY DEF ButtonsSafe, ButtonInv
<1>3. CASE RunTime \/ ClearTime \/ TestR \/ TestC \/ Act \/ Display
  <2>1. UNCHANGED buttonVars /\ pc \notin {"rs_wait", "clr_wait"}
    BY <1>3 DEF RunTime, ClearTime, TestR, TestC, Act, Display
  <2>. QED
    BY <1>1, <1>2, <2>1
<1>4. CASE RunStopPolled \/ ClearPolled
  <2>1. UNCHANGED buttonVars /\ \A b \in Buttons : chatter[b] # "old"
    BY <1>4 DEF RunStopPolled, ClearPolled, Polled, DelayMayEnd
  <2>. QED
    BY <1>1, <2>1
<1>5. CASE PollRunStop
  <2>1. RunStop \in Buttons
    BY ButtonsAssumption
  <2>2. /\ GetState(RunStop, event') /\ pc \notin {"rs_wait", "clr_wait"}
        /\ event' # "NO_ACT" => pc' \in {"rs_wait", "clr_wait"}
    BY <1>5 DEF PollRunStop, Poll
  <2>. QED
    BY <2>1, <2>2, PollStep
<1>6. CASE PollClear
  <2>1. Clear \in Buttons
    BY ButtonsAssumption
  <2>2. /\ GetState(Clear, event') /\ pc \notin {"rs_wait", "clr_wait"}
        /\ event' # "NO_ACT" => pc' \in {"rs_wait", "clr_wait"}
    BY <1>6 DEF PollClear, Poll
  <2>. QED
    BY <2>1, <2>2, PollStep
<1>7. CASE Tick \/ Receive \/ UNCHANGED vars
  <2>1. UNCHANGED buttonVars /\ UNCHANGED pc
    BY <1>7 DEF Tick, Receive, vars, swVars, clocks, lights
  <2>. QED
    BY <1>1, <2>1
<1>8. CASE Contacts
  <2>1. PICK b \in Buttons : Move(b) \/ Settle(b)
    BY <1>8 DEF Contacts
  <2>2. pc' = pc
    BY <1>8 DEF Contacts, swVars, clocks, lights
  <2>. QED
    BY <2>1, <2>2, MoveStep, SettleStep
<1>. QED
  BY <1>3, <1>4, <1>5, <1>6, <1>7, <1>8 DEF Next, Main

\* However its contact chatters, a button is reported no more often than it
\* moved.
THEOREM NoEventInvented == Spec => []EventsAreMoves
<1>1. ButtonsSafe => EventsAreMoves
  <2>1. ASSUME NEW n \in Int, NEW c, Enough(n, c)
        PROVE  n >= 0
    BY <2>1 DEF Enough
  <2>2. ASSUME ButtonsSafe, NEW b \in Buttons
        PROVE  owed[b] \in Int /\ Enough(owed[b], chatter[b])
    BY <2>2, HeldSafe DEF Held
  <2>. QED
    BY <2>1, <2>2 DEF EventsAreMoves
<1>. QED
  BY <1>1, ButtonsInit, ButtonsStep, PTL DEF Spec

-----------------------------------------------------------------------------
\* The lights.

\* Rotating a word that holds the row and its repetitions moves the one light
\* of the row by one, or from the last place to the first.
LEMMA RotateKeeps ==
  ASSUME NEW led \in SUBSET (0 .. WordBits - 1), led # {}, NEW b \in led,
         \A c \in led : c < LedBits <=> c = b,
         \A c \in led : c >= LedBits => c - LedBits \in led
  PROVE  /\ \E d \in Rotate(led) : \A c \in Rotate(led) : c < LedBits <=> c = d
         /\ \A c \in Rotate(led) : c >= LedBits => c - LedBits \in Rotate(led)
<1>0. /\ b \in Nat /\ b < LedBits /\ LedBits \in Nat \ {0} /\ WordBits \in Nat /\ LedBits <= WordBits
      /\ \A c \in led : c \in Nat /\ c < WordBits
  BY StopWatchAssumption
<1>1. ASSUME NEW c \in Int
      PROVE  c \in Rotate(led) <=> \/ c - 1 \in led /\ c < WordBits
                                   \/ c + (LedBits - 1) \in led /\ c >= 0
  <2>1. ASSUME c \in Rotate(led)
        PROVE  \/ c - 1 \in led /\ c < WordBits
               \/ c + (LedBits - 1) \in led /\ c >= 0
    <3>1. CASE c \in { x + 1 : x \in { y \in led : y + 1 < WordBits } }
      BY <1>0, <3>1
    <3>2. CASE c \in { x - (LedBits - 1) : x \in { y \in led : y >= LedBits - 1 } }
      BY <1>0, <3>2
    <3>. QED
      BY <2>1, <3>1, <3>2 DEF Rotate
  <2>2. ASSUME c - 1 \in led, c < WordBits
        PROVE  c \in Rotate(led)
    <3>1. c = (c - 1) + 1
      OBVIOUS
    <3>. QED
      BY <2>2, <3>1 DEF Rotate
  <2>3. ASSUME c + (LedBits - 1) \in led, c >= 0
        PROVE  c \in Rotate(led)
    <3>1. c = (c + (LedBits - 1)) - (LedBits - 1) /\ c + (LedBits - 1) >= LedBits - 1
      BY <1>0, <2>3
    <3>. QED
      BY <2>3, <3>1 DEF Rotate
  <2>. QED
    BY <2>1, <2>2, <2>3
<1>2. \A c \in Rotate(led) : c \in Nat
  BY <1>0 DEF Rotate
<1> DEFINE next == IF b = LedBits - 1 THEN 0 ELSE b + 1
<1>3. next \in Rotate(led)
  <2>1. CASE b = LedBits - 1
    BY <1>0, <1>1, <2>1
  <2>2. CASE b # LedBits - 1
    <3>1. b + 1 \in Int /\ (b + 1) - 1 = b /\ b + 1 < WordBits
      BY <1>0, <2>2
    <3>. QED
      BY <1>1, <2>2, <3>1
  <2>. QED
    BY <2>1, <2>2
<1>4. ASSUME NEW c \in Rotate(led)
      PROVE  c < LedBits <=> c = next
  <2>1. c = next => c < LedBits
    BY <1>0
  <2>2. ASSUME c < LedBits, c - 1 \in led
        PROVE  c = next
    <3>1. c - 1 = b
      BY <1>0, <1>2, <2>2
    <3>. QED
      BY <1>0, <1>2, <2>2, <3>1
  <2>3. ASSUME c < LedBits, c + (LedBits - 1) \in led
        PROVE  c = next
    <3>1. CASE c = 0
      <4>1. LedBits - 1 = b
        BY <1>0, <2>3, <3>1
      <4>. QED
        BY <3>1, <4>1
    <3>2. CASE c # 0
      <4>1. (c + (LedBits - 1)) - LedBits \in led /\ (c + (LedBits - 1)) - LedBits = c - 1
        BY <1>0, <1>2, <2>3, <3>2
      <4>. QED
        BY <2>2, <2>3, <4>1
    <3>. QED
      BY <3>1, <3>2
  <2>. QED
    BY <1>1, <1>2, <2>1, <2>2, <2>3
<1>5. ASSUME NEW c \in Rotate(led), c >= LedBits
      PROVE  c - LedBits \in Rotate(led)
  <2>0. c \in Nat /\ c - LedBits \in Nat
    BY <1>0, <1>2, <1>5
  <2>1. CASE c - 1 \in led /\ c < WordBits
    <3>1. CASE c = LedBits
      <4>1. (c - LedBits) + (LedBits - 1) = c - 1
        BY <1>0, <2>0
      <4>. QED
        BY <1>1, <2>0, <2>1, <4>1
    <3>2. CASE c # LedBits
      <4>1. /\ (c - 1) - LedBits \in led /\ (c - 1) - LedBits = (c - LedBits) - 1
            /\ c - LedBits < WordBits
        BY <1>0, <1>5, <2>0, <2>1, <3>2
      <4>. QED
        BY <1>1, <2>0, <4>1
    <3>. QED
      BY <3>1, <3>2
  <2>2. CASE c + (LedBits - 1) \in led
    <3>1. /\ (c + (LedBits - 1)) - LedBits \in led
          /\ (c + (LedBits - 1)) - LedBits = (c - LedBits) + (LedBits - 1)
      BY <1>0, <1>5, <2>0, <2>2
    <3>. QED
      BY <1>1, <2>0, <3>1
  <2>. QED
    BY <1>1, <2>0, <2>1, <2>2
<1>. QED
  BY <1>3, <1>4, <1>5

\* One bit of the word is in the row, and the others repeat it.
WordInv ==
  /\ stopWatchLed # {} => \E b \in stopWatchLed : \A c \in stopWatchLed : c < LedBits <=> c = b
  /\ \A c \in stopWatchLed : c >= LedBits => c - LedBits \in stopWatchLed

LEMMA WordStep == StopWatchInv /\ WordInv /\ [Next]_vars => WordInv'
<1> SUFFICES ASSUME StopWatchInv, WordInv, [Next]_vars PROVE WordInv'
  OBVIOUS
<1>1. CASE stopWatchLed' = stopWatchLed
  BY <1>1 DEF WordInv
<1>2. CASE stopWatchLed' = {0}
  BY <1>2, StopWatchAssumption DEF WordInv
<1>3. CASE stopWatchLed' = Rotate(stopWatchLed)
  <2>1. CASE stopWatchLed = {}
    <3>1. stopWatchLed' = {}
      BY <1>3, <2>1 DEF Rotate
    <3>. QED
      BY <3>1 DEF WordInv
  <2>2. CASE stopWatchLed # {}
    <3>1. stopWatchLed \in SUBSET (0 .. WordBits - 1)
      BY DEF StopWatchInv, TypeOK
    <3>2. PICK b \in stopWatchLed : \A c \in stopWatchLed : c < LedBits <=> c = b
      BY <2>2 DEF WordInv
    <3>3. \A c \in stopWatchLed : c >= LedBits => c - LedBits \in stopWatchLed
      BY DEF WordInv
    <3>. QED
      BY <1>3, <2>2, <3>1, <3>2, <3>3, RotateKeeps DEF WordInv
  <2>. QED
    BY <2>1, <2>2
<1>4. stopWatchLed' \in {stopWatchLed, {0}, Rotate(stopWatchLed)}
  BY LightsKept DEF Receive, Display, WriteRow, lights
<1>. QED
  BY <1>1, <1>2, <1>3, <1>4

\* The port shows the row of the word, but for the lights toggled.
LEMMA PortStep ==
  ledPort = Flip(stopWatchLed \cap Row, toggled) /\ [Next]_vars
    => ledPort' = Flip(stopWatchLed' \cap Row, toggled')
<1> SUFFICES ASSUME ledPort = Flip(stopWatchLed \cap Row, toggled), [Next]_vars
             PROVE  ledPort' = Flip(stopWatchLed' \cap Row, toggled')
  OBVIOUS
<1>1. ASSUME NEW pin, LED_Toggle(pin), stopWatchLed' = stopWatchLed
      PROVE  ledPort' = Flip(stopWatchLed' \cap Row, toggled')
  BY <1>1 DEF LED_Toggle, Flip
<1>2. CASE Receive
  BY <1>1, <1>2 DEF Receive
<1>3. ASSUME NEW led, WriteRow(led)
      PROVE  ledPort' = Flip(stopWatchLed' \cap Row, toggled')
  BY <1>3 DEF WriteRow, Flip
<1>4. CASE Display
  BY <1>3, <1>4 DEF Display, lights
<1>5. CASE UNCHANGED lights
  BY <1>5 DEF lights
<1>. QED
  BY <1>2, <1>4, <1>5, LightsKept

LEMMA LedStep == StopWatchInv /\ LedInv /\ [Next]_vars => LedInv'
  BY WordStep, PortStep DEF LedInv, WordInv

\* Once the watch has been cleared exactly one light of the row is on, but for
\* those UART_ISR has toggled since the main loop last wrote the port.
THEOREM LightsRunInRow == Spec => []OneLedRuns
<1>1. Init => LedInv
  BY DEF Init, LedInv, Flip
<1>2. StopWatchInv /\ LedInv => OneLedRuns
  <2> SUFFICES ASSUME StopWatchInv, LedInv PROVE OneLedRuns
    OBVIOUS
  <2>1. Flip(ledPort, toggled) = stopWatchLed \cap Row
    BY DEF LedInv, Flip
  <2>2. CASE stopWatchLed = {}
    BY <2>1, <2>2 DEF OneLedRuns
  <2>3. CASE stopWatchLed # {}
    <3>1. PICK b \in stopWatchLed : \A c \in stopWatchLed : c < LedBits <=> c = b
      BY <2>3 DEF LedInv
    <3>2. \A c \in stopWatchLed : c \in Row <=> c < LedBits
      BY StopWatchAssumption DEF StopWatchInv, TypeOK, Row
    <3>3. b \in Row /\ stopWatchLed \cap Row = {b}
      BY <3>1, <3>2
    <3>. QED
      BY <2>1, <2>3, <3>3 DEF OneLedRuns
  <2>. QED
    BY <2>2, <2>3
<1>. QED
  BY <1>1, <1>2, LedStep, StopWatchSafe, PTL DEF Spec

-----------------------------------------------------------------------------
\* The four fields are one number.

LEMMA NextReading ==
  ASSUME NEW D \in Nat \ {0}, NEW r \in 0 .. D - 1
  PROVE  (r + 1) % D = IF r = D - 1 THEN 0 ELSE r + 1
<1>1. CASE r = D - 1
  <2>1. (r + 1) % D = D % D /\ D % D = 0
    BY <1>1
  <2>. QED
    BY <1>1, <2>1
<1>2. CASE r # D - 1
  BY <1>2
<1>. QED
  BY <1>1, <1>2

\* The places, from the hours down.
LEMMA Places ==
  ASSUME NEW h \in 0 .. HOUR - 1, NEW m \in 0 .. MIN - 1, NEW s \in 0 .. SEC - 1, NEW c \in 0 .. CS - 1
  PROVE  /\ h * MIN + m \in 0 .. HOUR * MIN - 1
         /\ (h * MIN + m) * SEC + s \in 0 .. (HOUR * MIN) * SEC - 1
         /\ ((h * MIN + m) * SEC + s) * CS + c \in 0 .. DayLength - 1
         /\ HOUR * MIN \in Nat /\ (HOUR * MIN) * SEC \in Nat /\ DayLength \in Nat \ {0}
<1>1. HOUR * MIN \in Nat /\ h * MIN + m \in 0 .. HOUR * MIN - 1
  BY TwoPlaces, StopWatchAssumption
<1>2. ASSUME NEW X \in Nat, NEW x \in 0 .. X - 1
      PROVE  X * SEC \in Nat /\ x * SEC + s \in 0 .. X * SEC - 1
  BY TwoPlaces, StopWatchAssumption
<1>3. ASSUME NEW Y \in Nat, NEW y \in 0 .. Y - 1
      PROVE  Y * CS \in Nat /\ y * CS + c \in 0 .. Y * CS - 1
  BY TwoPlaces, StopWatchAssumption
<1>4. (HOUR * MIN) * SEC \in Nat /\ (h * MIN + m) * SEC + s \in 0 .. (HOUR * MIN) * SEC - 1
  BY <1>1, <1>2
<1>5. /\ ((HOUR * MIN) * SEC) * CS \in Nat
      /\ ((h * MIN + m) * SEC + s) * CS + c \in 0 .. ((HOUR * MIN) * SEC) * CS - 1
  BY <1>3, <1>4
<1>6. \A d \in Nat : \A r \in 0 .. d - 1 : d \in Nat \ {0}
  OBVIOUS
<1>. QED
  BY <1>1, <1>4, <1>5, <1>6 DEF DayLength

LEMMA ReadingOfNext ==
  ASSUME NEW t \in [ms : 0 .. CS - 1, sec : 0 .. SEC - 1, min : 0 .. MIN - 1, hour : 0 .. HOUR - 1]
  PROVE  Reading(IncTime(t)) = (Reading(t) + 1) % DayLength
<1> DEFINE h == t.hour
           m == t.min
           s == t.sec
           c == t.ms
           A == HOUR * MIN
           a == h * MIN + m
           B == A * SEC
           b == a * SEC + s
           r == b * CS + c
<1>1. /\ h \in 0 .. HOUR - 1 /\ m \in 0 .. MIN - 1 /\ s \in 0 .. SEC - 1 /\ c \in 0 .. CS - 1
      /\ HOUR \in Nat /\ MIN \in Nat \ {0} /\ SEC \in Nat \ {0} /\ CS \in Nat \ {0}
  BY StopWatchAssumption
<1>2. /\ a \in 0 .. A - 1 /\ b \in 0 .. B - 1 /\ r \in 0 .. DayLength - 1
      /\ A \in Nat /\ B \in Nat /\ DayLength \in Nat \ {0} /\ DayLength = B * CS
  BY <1>1, Places DEF DayLength
<1>3. Reading(t) = r
  BY DEF Reading
<1>4. (r + 1) % DayLength = IF r = DayLength - 1 THEN 0 ELSE r + 1
  <2> HIDE DEF r
  <2>. QED
    BY <1>2, NextReading
<1>5. /\ c = CS - 1 => r + 1 = (b + 1) * CS
      /\ b = B - 1 /\ c = CS - 1 => r = DayLength - 1
      /\ b # B - 1 \/ c # CS - 1 => r # DayLength - 1
  <2> HIDE DEF b, B, c
  <2>1. B \in Nat /\ CS \in Nat \ {0} /\ b \in 0 .. B - 1 /\ c \in 0 .. CS - 1
    BY <1>1, <1>2
  <2>2. /\ c = CS - 1 => b * CS + c + 1 = (b + 1) * CS
        /\ b = B - 1 /\ c = CS - 1 => b * CS + c = B * CS - 1
        /\ b # B - 1 \/ c # CS - 1 => b * CS + c # B * CS - 1
    BY <2>1, TwoPlaces
  <2>. QED
    BY <1>2, <2>2
<1>6. /\ s = SEC - 1 => b + 1 = (a + 1) * SEC
      /\ a = A - 1 /\ s = SEC - 1 => b = B - 1
      /\ a # A - 1 \/ s # SEC - 1 => b # B - 1
  <2> HIDE DEF a, A, s
  <2>1. A \in Nat /\ SEC \in Nat \ {0} /\ a \in 0 .. A - 1 /\ s \in 0 .. SEC - 1
    BY <1>1, <1>2
  <2>. QED
    BY <2>1, TwoPlaces
<1>7. /\ m = MIN - 1 => a + 1 = (h + 1) * MIN
      /\ h = HOUR - 1 /\ m = MIN - 1 => a = A - 1
      /\ h # HOUR - 1 \/ m # MIN - 1 => a # A - 1
  <2> HIDE DEF h, m
  <2>1. HOUR \in Nat /\ MIN \in Nat \ {0} /\ h \in 0 .. HOUR - 1 /\ m \in 0 .. MIN - 1
    BY <1>1
  <2>. QED
    BY <2>1, TwoPlaces
<1>8. CASE c # CS - 1
  <2>1. Reading(IncTime(t)) = b * CS + (c + 1)
    BY <1>8 DEF IncTime, Reading
  <2>. HIDE DEF b
  <2>. QED
    BY <1>1, <1>2, <1>3, <1>4, <1>5, <1>8, <2>1
<1>9. CASE c = CS - 1 /\ s # SEC - 1
  <2>1. Reading(IncTime(t)) = (a * SEC + (s + 1)) * CS + 0
    BY <1>9 DEF IncTime, Reading
  <2>2. a * SEC + (s + 1) = b + 1
    <3> HIDE DEF a
    <3>. QED
      BY <1>1, <1>2
  <2>3. (b + 1) * CS + 0 = (b + 1) * CS
    <3> HIDE DEF b
    <3>. QED
      BY <1>1, <1>2
  <2>. HIDE DEF a, b, r
  <2>. QED
    BY <1>3, <1>4, <1>5, <1>6, <1>9, <2>1, <2>2, <2>3
<1>10. CASE c = CS - 1 /\ s = SEC - 1 /\ m # MIN - 1
  <2>1. Reading(IncTime(t)) = ((h * MIN + (m + 1)) * SEC + 0) * CS + 0
    BY <1>10 DEF IncTime, Reading
  <2>2. h * MIN + (m + 1) = a + 1
    <3> HIDE DEF h, m
    <3>. QED
      BY <1>1, <1>2
  <2>3. (a + 1) * SEC + 0 = (a + 1) * SEC
    <3> HIDE DEF a
    <3>. QED
      BY <1>1, <1>2
  <2>4. (b + 1) * CS + 0 = (b + 1) * CS
    <3> HIDE DEF b
    <3>. QED
      BY <1>1, <1>2
  <2>. HIDE DEF a, b, r
  <2>. QED
    BY <1>3, <1>4, <1>5, <1>6, <1>7, <1>10, <2>1, <2>2, <2>3, <2>4
<1>11. CASE c = CS - 1 /\ s = SEC - 1 /\ m = MIN - 1 /\ h # HOUR - 1
  <2>1. Reading(IncTime(t)) = (((h + 1) * MIN + 0) * SEC + 0) * CS + 0
    BY <1>11 DEF IncTime, Reading
  <2>2. (h + 1) * MIN + 0 = (h + 1) * MIN
    <3> HIDE DEF h
    <3>. QED
      BY <1>1
  <2>3. (a + 1) * SEC + 0 = (a + 1) * SEC
    <3> HIDE DEF a
    <3>. QED
      BY <1>1, <1>2
  <2>4. (b + 1) * CS + 0 = (b + 1) * CS
    <3> HIDE DEF b
    <3>. QED
      BY <1>1, <1>2
  <2>. HIDE DEF a, b, r, h
  <2>. QED
    BY <1>3, <1>4, <1>5, <1>6, <1>7, <1>11, <2>1, <2>2, <2>3, <2>4
<1>12. CASE c = CS - 1 /\ s = SEC - 1 /\ m = MIN - 1 /\ h = HOUR - 1
  <2>1. IncTime(t) = Zero
    BY <1>12 DEF IncTime
  <2>2. Reading(Zero) = 0
    BY StopWatchAssumption DEF Zero, Reading
  <2>3. r = DayLength - 1
    BY <1>5, <1>6, <1>7, <1>12
  <2>. HIDE DEF r
  <2>. QED
    BY <1>3, <1>4, <2>1, <2>2, <2>3
<1>. QED
  BY <1>8, <1>9, <1>10, <1>11, <1>12

\* No step but these five touches what the reader of the watch sees.
LEMMA WatchKept ==
  [Next]_vars /\ ~RunTime /\ ~ClearTime /\ ~RunStopPolled /\ ~ClearPolled /\ ~Act
    => time' = time /\ stopWatchState' = stopWatchState
<1> SUFFICES ASSUME [Next]_vars, ~RunTime, ~ClearTime, ~RunStopPolled, ~ClearPolled, ~Act
             PROVE  time' = time /\ stopWatchState' = stopWatchState
  OBVIOUS
<1>1. CASE Tick \/ Receive \/ Contacts \/ UNCHANGED vars
  BY <1>1 DEF Tick, Receive, Contacts, vars, swVars, clocks, lights
<1>2. CASE PollRunStop \/ PollClear \/ TestR \/ TestC \/ Display
  BY <1>2 DEF PollRunStop, PollClear, Poll, TestR, TestC, Display
<1>. QED
  BY <1>1, <1>2 DEF Next, Main

\* Whatever the program does is a step of the abstract watch, or none.
THEOREM WatchIsClock == Spec => ImplementsStopClock
<1>1. Init => Clock!ClockInit
  <2>1. Reading(Zero) = 0
    BY StopWatchAssumption DEF Zero, Reading
  <2>. QED
    BY <2>1 DEF Init, Clock!ClockInit
<1>2. ASSUME StopWatchInv, [Next]_vars
      PROVE  [Clock!ClockNext]_<< Reading(time), stopWatchState = "RUN" >>
  <2>0. /\ time \in [ms : 0 .. CS - 1, sec : 0 .. SEC - 1, min : 0 .. MIN - 1, hour : 0 .. HOUR - 1]
        /\ stopWatchState \in {"STOP", "RUN", "CLEAR"}
    BY <1>2 DEF StopWatchInv, TypeOK
  <2>1. CASE RunTime
    <3>1. CASE Elapsed /\ stopWatchState = "RUN"
      <4>1. time' = IncTime(time) /\ stopWatchState' = stopWatchState
        BY <2>1, <3>1 DEF RunTime
      <4>2. Reading(time)' = (Reading(time) + 1) % DayLength
        BY <2>0, <4>1, ReadingOfNext
      <4>. QED
        BY <3>1, <4>1, <4>2 DEF Clock!ClockNext, Clock!Advance
    <3>2. CASE ~(Elapsed /\ stopWatchState = "RUN")
      <4>1. time' = time /\ stopWatchState' = stopWatchState
        BY <2>1, <3>2 DEF RunTime
      <4>. QED
        BY <4>1
    <3>. QED
      BY <3>1, <3>2
  <2>2. CASE ClearTime
    <3>1. time' = Zero /\ stopWatchState = "CLEAR" /\ stopWatchState' = "STOP"
      BY <2>2 DEF ClearTime
    <3>2. Reading(time)' = 0
      BY <3>1, StopWatchAssumption DEF Reading, Zero
    <3>. QED
      BY <3>1, <3>2 DEF Clock!ClockNext, Clock!SetToZero
  <2>3. CASE RunStopPolled \/ ClearPolled \/ Act
    <3>1. time' = time
      BY <2>3 DEF RunStopPolled, ClearPolled, Polled, Act
    <3>2. Reading(time)' = Reading(time)
      BY <3>1 DEF Reading
    <3>3. (stopWatchState = "RUN")' \in BOOLEAN /\ (stopWatchState = "RUN") \in BOOLEAN
      OBVIOUS
    <3>. QED
      BY <3>2, <3>3, Zenon DEF Clock!ClockNext, Clock!StartStop
  <2>4. CASE ~RunTime /\ ~ClearTime /\ ~RunStopPolled /\ ~ClearPolled /\ ~Act
    <3>1. time' = time /\ stopWatchState' = stopWatchState
      BY <1>2, <2>4, WatchKept
    <3>. QED
      BY <3>1
  <2>. QED
    BY <2>1, <2>2, <2>3, <2>4
<1>. QED
  BY <1>1, <1>2, StopWatchSafe, PTL DEF Spec, ImplementsStopClock, Clock!ClockSpec

=============================================================================
