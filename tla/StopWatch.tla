----------------------------- MODULE StopWatch -----------------------------
(***************************************************************************)
(* The stopwatch of ap/StopWatch.c: StopWatch_Excute called for ever by    *)
(* the main loop, interrupted anywhere by TMR_ISR, which counts            *)
(* milliseconds, and by UART_ISR, which puts a received character into     *)
(* rx_data and toggles a light.  The handlers share m_tick, rx_data and    *)
(* the port of the lights with it; each access of the main loop to one of  *)
(* them is a step, the code between two accesses belongs to the first.     *)
(***************************************************************************)
EXTENDS Button

CONSTANTS
  CS, SEC, MIN, HOUR,   \* centiseconds of a second, .. hours of a day (100, 60, 60, 24)
  Period,               \* milliseconds of a centisecond (10)
  TickMod,              \* m_tick wraps (2^32)
  PassTicks,            \* bound on the ticks of one pass of the main loop
  MaxRan,               \* bound on the ticks from a start to the next stop
  LedBits, WordBits     \* lights in the row (8), bits of stopWatchLed (32)

ASSUME StopWatchAssumption ==
  /\ CS \in Nat \ {0} /\ SEC \in Nat \ {0} /\ MIN \in Nat \ {0} /\ HOUR \in Nat \ {0}
  /\ Period \in Nat \ {0} /\ PassTicks \in Nat /\ MaxRan \in Nat
  /\ TickMod \in Nat /\ Period + PassTicks <= TickMod
  /\ LedBits \in Nat \ {0} /\ WordBits \in Nat /\ LedBits <= WordBits

VARIABLES
  m_tick, rx_data,
  prevTime,       \* of StopWatch_RunTime
  stopWatchState,
  time,           \* stopWatchTimeData
  stopWatchLed,   \* the bits that are 1
  ledPort,        \* ODR of LED_LOW_GPIO: the lights of the row that are on
  pc,             \* what the main loop does next
  event,          \* what Button_GetState returns when its delay is over
  seen,           \* rx_data as the test for 'r' loaded it
  pass, age,      \* history: ticks since RunTime was entered, and since it set prevTime
  ran, counted,   \* history: ticks since the watch was started, and centiseconds counted
  toggled         \* history: lights a handler has inverted since main last wrote them

clocks  == << m_tick, prevTime, pass, age, ran, counted >>
lights  == << stopWatchLed, ledPort, toggled >>
swVars  == << clocks, lights, rx_data, stopWatchState, time, pc, event, seen >>
vars == << swVars, buttonVars >>

RunStop == "hbtnRunStop"
Clear   == "hbtnClear"

ASSUME ButtonsAssumption == Buttons = {RunStop, Clear}

Row == 0 .. LedBits - 1

Zero == [ms |-> 0, sec |-> 0, min |-> 0, hour |-> 0]

TypeOK ==
  /\ m_tick \in 0 .. TickMod - 1 /\ prevTime \in 0 .. TickMod - 1
  /\ rx_data \in {"none", "r", "c"} /\ seen \in {"none", "r", "c"}
  /\ stopWatchState \in {"STOP", "RUN", "CLEAR"}
  /\ time \in [ms : 0 .. CS - 1, sec : 0 .. SEC - 1, min : 0 .. MIN - 1, hour : 0 .. HOUR - 1]
  /\ stopWatchLed \in SUBSET (0 .. WordBits - 1)
  /\ ledPort \in SUBSET Row /\ toggled \in SUBSET Row
  /\ pc \in {"run", "rs", "rs_wait", "clr", "clr_wait", "load", "load2", "act", "disp"}
  /\ pass \in 0 .. PassTicks /\ age \in Nat
  /\ ran \in 0 .. MaxRan /\ counted \in Nat

\* StopWatch_Init.
Init ==
  /\ ButtonInit
  /\ m_tick = 0 /\ prevTime = 0 /\ rx_data = "none" /\ seen = "none"
  /\ stopWatchState = "STOP" /\ time = Zero
  /\ stopWatchLed = {} /\ ledPort = {} /\ toggled = {}
  /\ pc = "run" /\ event = "NO_ACT" /\ pass = 0 /\ age = 0
  /\ ran = 0 /\ counted = 0

-----------------------------------------------------------------------------
\* The interrupt handlers.

\* TMR_ISR: incTick.
Tick ==
  /\ pass < PassTicks
  /\ stopWatchState = "RUN" => ran < MaxRan
  /\ m_tick' = (m_tick + 1) % TickMod
  /\ pass' = pass + 1 /\ age' = age + 1
  /\ ran' = IF stopWatchState = "RUN" THEN ran + 1 ELSE ran
  /\ UNCHANGED << prevTime, counted, lights, rx_data, stopWatchState, time, pc, event, seen, buttonVars >>

\* Exclusive or.
Flip(s, t) == (s \ t) \cup (t \ s)

\* LED_Toggle, as far as it is the port of the row.
LED_Toggle(pin) ==
  /\ ledPort' = Flip(ledPort, {pin} \cap Row)
  /\ toggled' = Flip(toggled, {pin} \cap Row)

\* UART_ISR.  Any other character does what "none" does.
Receive ==
  /\ \/ rx_data' = "r"    /\ LED_Toggle(0)
     \/ rx_data' = "c"    /\ LED_Toggle(1)
     \/ rx_data' = "none" /\ UNCHANGED << ledPort, toggled >>
  /\ UNCHANGED << clocks, stopWatchLed, stopWatchState, time, pc, event, seen, buttonVars >>

-----------------------------------------------------------------------------
\* StopWatch_RunTime.

\* Fault: the seconds are not cleared when they carry.
IncTimeNoReset(t) ==
  IF t.ms # CS - 1 THEN [t EXCEPT !.ms = @ + 1]
  ELSE IF t.sec # SEC - 1 THEN [t EXCEPT !.ms = 0, !.sec = @ + 1]
  ELSE IF t.min # MIN - 1 THEN [t EXCEPT !.ms = 0, !.min = @ + 1]
  ELSE IF t.hour # HOUR - 1 THEN [t EXCEPT !.ms = 0, !.sec = 0, !.min = 0, !.hour = @ + 1]
  ELSE Zero

IncTime(t) ==
  IF t.ms # CS - 1 THEN [t EXCEPT !.ms = @ + 1]
  ELSE IF t.sec # SEC - 1 THEN [t EXCEPT !.ms = 0, !.sec = @ + 1]
  ELSE IF t.min # MIN - 1 THEN [t EXCEPT !.ms = 0, !.sec = 0, !.min = @ + 1]
  ELSE IF t.hour # HOUR - 1 THEN [t EXCEPT !.ms = 0, !.sec = 0, !.min = 0, !.hour = @ + 1]
  ELSE Zero

\* Faults: a comparison that does not survive the wrap of m_tick; one that
\* takes the last millisecond for over.
ElapsedNoWrap == m_tick >= prevTime + Period

ElapsedEarly == (m_tick - prevTime) % TickMod >= Period - 1

\* curTime - prevTime in unsigned arithmetic.
Elapsed == (m_tick - prevTime) % TickMod >= Period

RunTime ==
  /\ pc = "run" /\ pc' = "rs"
  /\ pass' = 0
  /\ IF Elapsed
     THEN /\ prevTime' = m_tick /\ age' = 0
          /\ IF stopWatchState = "RUN" THEN time' = IncTime(time) /\ counted' = counted + 1
                                      ELSE UNCHANGED << time, counted >>
     ELSE UNCHANGED << prevTime, age, time, counted >>
  /\ UNCHANGED << m_tick, ran, lights, rx_data, stopWatchState, event, seen, buttonVars >>

-----------------------------------------------------------------------------
\* StopWatch_controlState.

\* The watch is started, stopped or told to clear.
Enter(state) == stopWatchState' = state /\ ran' = 0 /\ counted' = 0

ClearTime ==
  /\ pc = "rs" /\ stopWatchState = "CLEAR"
  /\ stopWatchState' = "STOP" /\ time' = Zero
  /\ pc' = "disp"
  /\ UNCHANGED << clocks, lights, rx_data, event, seen, buttonVars >>

\* The call of Button_GetState up to its delay.
Poll(b, at, wait, next) ==
  /\ pc = at /\ stopWatchState # "CLEAR"
  /\ event' \in {"NO_ACT", "ACT_PUSHED", "ACT_RELEASED"}
  /\ GetState(b, event')
  /\ pc' = IF event' = "NO_ACT" THEN next ELSE wait
  /\ UNCHANGED << clocks, lights, rx_data, stopWatchState, time, seen >>

\* Its delay is over: a push is acted upon, a release is not.
Polled(wait, next, pushed) ==
  /\ pc = wait /\ DelayMayEnd
  /\ IF event = "ACT_PUSHED" THEN Enter(pushed) /\ pc' = "disp"
     ELSE pc' = next /\ UNCHANGED << stopWatchState, ran, counted >>
  /\ event' = "NO_ACT"
  /\ UNCHANGED << m_tick, prevTime, pass, age, lights, rx_data, time, seen, buttonVars >>

Toggled == IF stopWatchState = "RUN" THEN "STOP" ELSE "RUN"
AfterRunStop == IF stopWatchState = "RUN" THEN "load" ELSE "clr"

PollRunStop == Poll(RunStop, "rs", "rs_wait", AfterRunStop)
RunStopPolled == Polled("rs_wait", AfterRunStop, Toggled)
PollClear   == Poll(Clear, "clr", "clr_wait", "load")
ClearPolled == Polled("clr_wait", "load", "CLEAR")

\* rx_data == 'r'
TestR ==
  /\ pc = "load"
  /\ seen' = rx_data
  /\ pc' = IF rx_data = "r" THEN "act" ELSE IF stopWatchState = "STOP" THEN "load2" ELSE "disp"
  /\ UNCHANGED << clocks, lights, rx_data, stopWatchState, time, event, buttonVars >>

\* rx_data == 'c': rx_data is not volatile, the compiler may use it as it was
\* loaded for the first test or load it again.
TestC ==
  /\ pc = "load2"
  /\ seen' \in {seen, rx_data}
  /\ pc' = IF seen' = "c" THEN "act" ELSE "disp"
  /\ UNCHANGED << clocks, lights, rx_data, stopWatchState, time, event, buttonVars >>

\* rx_data = 0, which also erases what was received since the test.
Act ==
  /\ pc = "act" /\ pc' = "disp"
  /\ rx_data' = "none" /\ seen' = "none"
  /\ Enter(IF seen = "c" THEN "CLEAR" ELSE Toggled)
  /\ UNCHANGED << m_tick, prevTime, pass, age, lights, time, event, buttonVars >>

-----------------------------------------------------------------------------
\* StopWatch_DispWatch and StopWatch_ControlLed.

\* Fault: the light that leaves the row comes back one place late.
RotateLate(led) ==
  { b + 1 : b \in { x \in led : x + 1 < WordBits } } \cup
  { b - LedBits : b \in { x \in led : x >= LedBits } }

\* (led << 1) | (led >> 7) in a word of WordBits bits.
Rotate(led) ==
  { b + 1 : b \in { x \in led : x + 1 < WordBits } } \cup
  { b - (LedBits - 1) : b \in { x \in led : x >= LedBits - 1 } }

\* LED_WritePort8(LED_LOW_GPIO, stopWatchLed), which takes the low byte.
WriteRow(led) == stopWatchLed' = led /\ ledPort' = led \cap Row /\ toggled' = {}

\* Whether 100 ms have passed since the lights last moved is left open.
Display ==
  /\ pc = "disp" /\ pc' = "run"
  /\ seen' = "none"
  /\ \/ stopWatchState = "RUN"   /\ WriteRow(Rotate(stopWatchLed))
     \/ stopWatchState = "CLEAR" /\ WriteRow({0})
     \/ stopWatchState # "CLEAR" /\ UNCHANGED lights
  /\ UNCHANGED << clocks, rx_data, stopWatchState, time, event, buttonVars >>

-----------------------------------------------------------------------------

Main == RunTime \/ ClearTime \/ PollRunStop \/ RunStopPolled \/ PollClear \/ ClearPolled
        \/ TestR \/ TestC \/ Act \/ Display

Contacts == /\ \E b \in Buttons : Move(b) \/ Settle(b)
            /\ UNCHANGED swVars

Next == Main \/ Tick \/ Receive \/ Contacts

\* The main loop goes on, and contacts come to rest.
Spec ==
  /\ Init /\ [][Next]_vars
  /\ WF_vars(Main)
  /\ WF_vars(UNCHANGED swVars /\ \E b \in Buttons : Settle(b))

-----------------------------------------------------------------------------
\* The watch as its reader sees it.
DayLength == ((HOUR * MIN) * SEC) * CS
Reading(t) == ((t.hour * MIN + t.min) * SEC + t.sec) * CS + t.ms

Clock == INSTANCE StopClock
           WITH Day <- DayLength, reading <- Reading(time), running <- stopWatchState = "RUN"

\* The four fields are one number of centiseconds: it goes up by one and only
\* while the watch runs, carries through every field and wraps at midnight,
\* and is cleared only while the watch is stopped, whatever the order in which
\* buttons, received characters and the timer act on the main loop.
ImplementsStopClock == Clock!ClockSpec

\* Of the lights of the row exactly one is on once the watch has been cleared,
\* none before, but for those that UART_ISR has toggled an odd number of times
\* since the main loop last wrote the port: stopWatchLed is rotated in a word
\* longer than the row, and two programs write the port.
OneLedRuns ==
  LET row == Flip(ledPort, toggled)
  IN  IF stopWatchLed = {} THEN row = {} ELSE \E b \in Row : row = {b}

\* One bit of stopWatchLed is in the row, and beyond the row its content is
\* repeated.
LedInv ==
  /\ stopWatchLed # {} => \E b \in stopWatchLed : \A c \in stopWatchLed : c < LedBits <=> c = b
  /\ \A c \in stopWatchLed : c >= LedBits => c - LedBits \in stopWatchLed
  /\ ledPort = Flip(stopWatchLed \cap Row, toggled)

\* m_tick is ahead of prevTime by the ticks since, wraps of m_tick included,
\* and these are fewer than a centisecond when RunTime has been passed.
StopWatchInv ==
  /\ TypeOK
  /\ m_tick = (prevTime + age) % TickMod
  /\ age <= pass + (Period - 1)

\* A chattering contact is not polled again before it rests.
ButtonInv ==
  \A b \in Buttons :
    /\ contact[b] = prevState[b] <=> owed[b] % 2 = 0
    /\ owed[b] >= IF chatter[b] = "new" THEN 1 ELSE 0
    /\ chatter[b] = "old" => pc \in {"rs_wait", "clr_wait"}

\* Measured from its start, a running watch is never more than one centisecond
\* ahead of the ticks: RunTime marks the time while the watch is stopped as
\* well, so the first centisecond may come at once, but no later one does.  And
\* each centisecond is less than a pass of the main loop late.  Both hold at
\* every value at which m_tick wraps.
Pace ==
  stopWatchState = "RUN" =>
    /\ counted * Period <= ran + Period
    /\ ran <= (counted + 1) * (Period + PassTicks - 1)

\* What the mark and the ticks since add to that.
PaceInv ==
  /\ stopWatchState # "RUN" => ran = 0 /\ counted = 0
  /\ counted > 0 => (counted - 1) * Period + age <= ran
  /\ ran <= age + counted * (Period + PassTicks - 1)

\* No command stays in rx_data for ever, however the buttons are used meanwhile:
\* an 'r' never, a 'c' only while the watch keeps running.  It has been acted
\* upon then, or another character has taken its place, or Act has erased it
\* unseen.
CommandsTaken ==
  /\ []<>(rx_data # "r")
  /\ []<>(rx_data # "c" \/ stopWatchState = "RUN")

\* A button held down or let go is noticed, the clear button when the watch is
\* not running.
MovesAreSeen ==
  \A b \in Buttons :
    []<>(contact[b] = prevState[b] \/ (b = Clear /\ stopWatchState = "RUN"))

=============================================================================
