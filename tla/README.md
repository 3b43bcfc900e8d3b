# A verification development of AXI_Peripheral

AXI_Peripheral is a MicroBlaze system at 100 MHz with five AXI4-Lite
peripherals written in Verilog and SystemVerilog (GPIO, timer, SPI, UART, IIC)
and the C firmware that drives them (a stopwatch with a multiplexed display,
LEDs, buttons, commands over UART, a RAM behind SPI). This directory holds TLA+
models of it, what TLC checks about them and what TLAPS proves about them. Paths
below are relative to the repository.

## Inventory

| Part | State it keeps | Operations | Talks to |
|---|---|---|---|
| AXI4-Lite subordinate handshake, copied into the five `ip/*/hdl/*_v1_0_S00_AXI.v` | READY, VALID, latched addresses, `aw_en`, `axi_rdata` | one clock edge: accept AW+W, write a register, respond; accept AR, show a register | manager (interconnect, MicroBlaze); the register block behind it |
| GPIO (`ip/gpio_1.0`) | CR, ODR, two more registers | register write and read, tri-state pins, reset | pins shared with FND, LEDs, buttons, switches |
| Timer (`ip/timer_1.0`) | CR, PSC, ARR, CNT load; prescaler, counter, pulses | register write, count, load, interrupt pulse, reset | INTC input 0 |
| UART (`ip/uart_1.0`) | TX and RX state machines, synchroniser, TDR, RDR, `rx_flag`, `rx_ie` | register write and read, a clock edge of TX and RX, interrupt pulse, reset | serial line, INTC input 1 |
| SPI (`ip/spi_1.0`) | CTRL, TX DATA, RX DATA, master state machine, divider, pins | register write and read, start pulse, a clock edge of the master, reset | up to four targets, INTC input 2 |
| IIC (`ip/iic_1.0`) | CTRL, CONFIG, STATUS with sticky DONE, DATA; controller state machine | the same, over an open-drain bus | a target, INTC input 3 |
| HAL (`firmware/.../HAL`) | none | read-modify-write of registers, polling, `IIC_WaitDone` with timeout | the peripherals |
| Drivers (`firmware/.../driver`) | FND number and mode, LED shadow, button states | display refresh, toggles, debounce with a blocking delay, SPI RAM commands | HAL |
| Interrupt handlers (`common/interrupt`), `delay` | `rx_data`, `spi_rx_data`, tick count | TMR_ISR, UART_ISR, SPI_ISR | main loop through globals |
| Application (`ap/StopWatch.c`, `main.c`) | stopwatch state and time | time keeping, state machine, display, LEDs | drivers, globals written by the handlers |

The interrupt controller and the MicroBlaze are Xilinx parts the block design (`scripts/create_bd.tcl`)
instantiates; their sources are not in the repository.

What is hard here is not in any single block: it is the clock edge at which two of
them meet. A response is pending while the next request arrives; software polls a
status bit that a state machine raises a few clocks later; CTRL is rewritten during
a transfer; a prescaler tick falls into the clock in which the timer is stopped; two
bit clocks drift against each other; a one-clock pulse meets a level-sensitive
interrupt input; a handler runs between the read and the write of `|=`.
`PROJECT.json` lists these hazards line by line.

What makes each part correct:

- handshake: every request answered once, with its own address and data; no answer
  lost or changed before it is taken; nothing blocks for ever;
- GPIO: to software it is four atomic registers;
- timer: periods of exactly `(PSC+1)*(ARR+1)` clocks, never shorter whatever software
  does to the run bit, no setting that stops interrupts for ever;
- SPI: both bytes cross in all four modes, whatever is written meanwhile; busy means
  what the polling driver takes it to mean; SCLK timing;
- UART: bytes arrive in order, once, unaltered, for every tolerable bit time;
- IIC: the byte crosses to or from the target addressed, or the acknowledge says it did not; DONE
  tells of the call that waits for it; only START and STOP move SDA under a high SCL;
- buttons: an event for every move of the contact, none for its chatter;
- display: no digit shows another's figure or stays dark, and what is asked for is shown in the end;
- stopwatch: one number that counts at the pace of the tick while it runs and is cleared while it does not,
  and commands that are taken in the end, wherever the handlers interrupt;
- handlers: SPI_ISR and the polling command each read the byte of their own transfer.

## Modules

| Module | Models | State and actions |
|---|---|---|
| `AxiWord` | the data of a 32-bit register | words of byte lanes, strobes, `Merge` under WSTRB |
| `RegisterBank` | the abstract register file promised to software | channels as sets, `ApplyWrite`, `OfferWrite`, `AnswerRead`, `OfferRead`, `Reset` |
| `AxiLite` | the handshake, with its manager | one `Clock` action = one clock edge: `ManagerEdge` (external) and one operator per always block (`AwEdge`, `WEdge`, `BEdge`, `ArEdge`, `REdge`); `AxiReset` |
| `Gpio` | GPIO wrapper and pins, composed with `AxiLite` | `RegEdge`, `reg_data_out` with the undefined IDR bits, `GpioReset` |
| `TimerCounter` | timer core and registers | `PrescalerEdge`, `CounterEdge`, one action per register written, `Reset` |
| `SpiController` | SPI registers, master, testbench target | one action per state of the master (`IdleEdge` .. `StopEdge`), `DivEdge`, `RxRegEdge`, `TargetEdge`, register writes at any clock, `Reset` |
| `SpiRamDriver` | `main.c`'s set-up, `SPI.c`, `SPI_RAM.c` and `SPI_ISR` driving `SpiController` over `AxiLite` | one bus access per program point (`Access`, `Then`), any delay between two, the handler between any two (`IssueIsr`, `IrqEdge`) |
| `Uart` | UART transmitter, receiver, registers | one action per state of each machine, `WriteTDR`, `RdrEdge` |
| `UartReceive` | `Uart` with a serial peer and an interrupt handler | `PeerEdge`, `HandlerEdge` |
| `UartLoopback` | `Uart` over `AxiLite`, TX wired to RX, with the software of `tb_uart.sv` or `UART_Transmit` | one bus access per program point, `Reset` |
| `IicController` | IIC controller, open-drain bus, target of `tb/iic_uvm` | one action per state of the controller (`Idle` .. `Done`), `TargetSamples`, `TargetDrives`, `StatusEdge` |
| `IicDriver` | `IIC.c` driving `IicController` over `AxiLite` | one bus access per program point; `IIC_WaitDone` may give up at any poll; `Reset` |
| `Button` | `Button.c` and the contacts it polls | `Move`, `Settle` (the contact), `GetState` up to its delay, `DelayMayEnd` |
| `StopClock` | the abstract stopwatch: a reading and whether it runs | `Advance`, `StartStop`, `SetToZero` |
| `StopWatch` | `StopWatch.c` over `Button`, with `TMR_ISR` (`Tick`) and `UART_ISR` (`Receive`, with its `LED_Toggle`) between any two of its steps, and the port of the lights both write | one action per stretch of the main loop between two accesses to `m_tick`, `rx_data`, the port or a button: `RunTime`, `ClearTime`, `PollRunStop` .. `Display` |
| `Fnd` | `FND.c`: refresh by `TMR_ISR`, calls by the main loop | `AllOff`, `DispDigit`, `SelDigit` (one port write each), `Call` and `Assign`, `FND_SetDP` |
| `*Proofs` | theorems about `AxiLite`, `Gpio`, `TimerCounter`, `SpiController`, `SpiRamDriver`, `UartLoopback`, `UartReceive`, `IicController`, `IicDriver`, `StopWatch`, `Fnd` | |
| `MC*` | instances for TLC | |

The firmware modules `Button`, `StopWatch` and `Fnd` are interleavings: of the main loop, handlers
that run between two of its steps, and hands on the buttons. What main does between two accesses
to something shared is one step, since no handler can tell. `TMR_ISR` is in both: `StopWatch` sees
its tick, `Fnd` its refresh, which it cuts at each port write because the eye sees them; there the
main loop stands still while the handler runs.

The hardware is a synchronous system, so a step of its models is a clock edge of all of
its parts: the primed variables are the registers after the edge, the unprimed ones
before it, as with non-blocking assignment. The wires of the code (`subordinate_reg_wren`, `intr`,
`is_leading`, `reg_data_out`) are operators of the same name or nearly so.
`AxiLite` is written from `uart_v1_0_S00_AXI.v`; the always blocks in the other four
wrappers are the same. `SpiController`, `TimerCounter` and `UartReceive` take a
register write or read as one strobe at an arbitrary clock edge, which
over-approximates the handshake; the `SpiRamDriver` and `UartLoopback` modules put the
handshake back, because what software may conclude from a status bit depends on how
many clocks an access takes.

History variables (`elapsed`, `armed`, `paused` of the timer; `sent`, `answer`,
`completed`, `sclk_age` of SPI; `unread`, `owed` of UART; `asked`, `sent`, `behind` of IIC; `owed` of `Button`;
`pass`, `age`, `ran`, `counted`, `toggled` of `StopWatch`; `image`, `since`, `dark` of `Fnd`) record what properties
speak about; no hardware and no program reads them (`owed` of `Button`, `pass` and `ran` also bound what hands and the timer do). (`answer` and `ack_data` of IIC are
the inputs of the target, chosen when a transfer begins.)

Operators named as faults ("Fault: ...") are variants of the definition that follows
them with a plausible mistake in it; `PROJECT.json` names, for every property, one
that it detects. No specification uses them.

## Runs

| Run | Instance and bounds | What it shows |
|---|---|---|
| `axi_handshake` | one lane of two values, two registers, both strobes | against every manager that obeys AXI: one write at a time at the address it was sent to, no read dropped, every answer held and paired with its request, every write and read offered accepted and answered |
| `gpio_port` | one pin, one lane, registers 0 to 2 | the wrapper implements `RegisterBank` |
| `timer` | `Mod = 4`: every PSC, ARR and CNT of 0..3, wrap included | period, never early, no overrun by itself, always interrupts again |
| `spi_modes` | bytes of 2 bits, all four modes, dividers 0 and 1, a transfer to another chip select between | exchange of the two bytes, busy, SCLK phases, termination, with CTRL and TX DATA rewritten at any clock |
| `spi_ram_commands` | bytes of 2 bits, the divider main sets (8), main up to `MaxSlip = 2` accesses ahead of a pending interrupt | the polled commands never lose a start nor take an old status for a new one; the command and `SPI_ISR` each read the byte of their own transfer |
| `spi_ram_select` | same | finding: the chip select, lowered with the first byte of a command, rises at the end of that byte |
| `uart_receive` | bytes of 2 bits, 10 clocks a bit, peer at 9 to 12 clocks a bit, spikes up to half a bit, handler up to 35 clocks late | every byte read once and in order |
| `uart_loopback` | bytes of 3 bits, 10 clocks a bit; the testbench's sequence, or its sending half alone, bytes back to back | for any CPU timing and resets at any time: no byte dropped, each received as sent and read back, the receiver done before the transmitter is ready, the sequence never hangs |
| `iic_calls` | bytes of 2 bits (so 2 addresses, one of them absent), 2 clocks per quarter bit, timeouts and resets at any time | bytes cross, DONE is the call's own unless an earlier call gave up, polling always ends, only START and STOP move SDA under a high SCL |
| `uart_transmit` | same as `uart_loopback` | finding: `UART_Transmit` drops bytes |
| `stopwatch` | a day of 1 hour of 2 minutes of 2 seconds of 1 centisecond of 1 millisecond; `m_tick` wraps at 2, one tick a pass, 2 ticks (`MaxRan`) from a start to the next stop; a row of 2 lights in a word of 3 bits; one unreported move a button | the abstract clock, its pace since the start across wraps of `m_tick`, one light and those `UART_ISR` toggles, no event invented, no command left lying, buttons noticed |
| `display` | 3 digits, radices 2 and 3, the numbers 0, 5 and 7 | no ghosts, settling after a round, no digit left dark |

Why the bounds are enough. The handshake and the register blocks never look at data or at
addresses beyond selecting a lane or a register, so two of each show every confusion.
SPI and UART treat all bits of a byte alike but the first and the last: two bits have
both, a third one a middle; for SPI, IIC, their drivers and the UART the theorems hold for every length. The counters of the timer are compared for equality and wrap, for
which `Mod = 4` has all cases (below, at, above, at the end); the theorems hold for every `Mod`.
`spi_ram_commands` needs the real divider: with a faster clock the transfer is over before
the next start whatever the driver does, and losing a start could not be seen. `MaxSlip = 2` lets main finish its poll and
make one more access while the interrupt is on its way, a handful of instructions. It is the exact limit: the third access can be the
next start, and with `MaxSlip = 3` TLC finds `IsrReadsItsByte` violated (`IsrReadsItsTransfer` is proved for `MaxSlip <= 2` and every divider). In
`uart_receive` the bounds are the exact limits: TLC finds a counterexample for a bit time
of 8 or 13 clocks, a spike of 6, or a handler 36 clocks late. `uart_loopback` needs half a bit time above
the receiver's delay (synchroniser and start detection, 4 clocks) for `ReadyAfterFrame`; the hardware has 868 clocks a bit. `iic_calls` is at an exact limit as well: with one clock per
quarter bit the target, three clocks behind SCL, moves SDA after SCL has risen again and
`OnlyStartAndStop` fails (from two clocks on it is proved). The byte written, the byte read, the byte after reset and what an
absent target reads as are four different bytes.
In `stopwatch` seconds and minutes have a value that carries and one that does not, the fields around them always carry, and the day wraps; `m_tick` wraps as early as
`Period + PassTicks <= TickMod` allows, so at every value of `prevTime` and in the middle of every period. That a pass takes fewer
ticks than `TickMod` leaves is 49 days on the device. With `MaxRan = 2` up to three centiseconds are counted from one start, the first of them at once or not; that the
distance between ticks and centiseconds does not grow with the length of a run is what the proof shows. The word of the lights is longer than the row and no multiple of it. The theorems hold
for every value of these constants. In `display` three digits tell the neighbour from the rest, and each number has figures that differ between digits and bases.

`CHECK_DEADLOCK` is on in every run: a clock always has a next edge.

### Properties worth knowing

- `ImplementsRegisterBank` (`Gpio`): refinement; a channel of the bank is what is on the
  wires, the write takes effect at the edge of `subordinate_reg_wren`, the read at that of `subordinate_reg_rden`.
- `PeriodExact`, `NeverEarly` (`TimerCounter`): the tick pipeline (prescaler, tick, counter, pulse) keeps
  the period exact, and stopping can lose a tick but never gain one.
- `KeepsInterrupting`: because compares are equalities, a PSC or ARR written below the running
  counter is passed; the counter then has to wrap, and does.
- `ByteExchanged`, `BusyCoversTransfer`, `PollMeansDone`, `NoStartLost`: together what `while(SPI_IsBusy(SPI0));` relies on.
- `IsrReadsItsByte` (`SpiRamDriver`): RX DATA is latched a clock after the interrupt pulse and overwritten by the next transfer; the handler,
  which may come late or not at all, still finds the byte whose end raised the interrupt. Nothing is said of interrupts the controller misses.
- `BytesInOrder`, `NothingLost` (`UartReceive`), `NoByteDropped`, `LoopbackReturns`, `ReadyAfterFrame` (`UartLoopback`).
- `ImplementsStopClock` (`StopWatch`): refinement; the four fields are one number to the reader, whatever carries and whoever started, stopped or cleared the watch.
- `Pace`: measured from its start, a running watch is at most one centisecond ahead of the ticks. It can be ahead because `prevTime` moves on while the watch is stopped
  (`StopWatch.c:169-172`), so the first centisecond after a start may come at once; no later one adds to that. Since late ticks are dropped (`prevTime = curTime`) it may also
  fall behind, by less than a pass for each centisecond.
- `EventsAreMoves` and `MovesAreSeen`: the delay in `Button_GetState` is long enough for chatter to end; without it (`DelayBeginsNot`) one press is many events. The clear
  button is not polled while the watch runs, so a press of it waits, and is never seen if it is released before the watch stops.
- `CommandsTaken`: says only that no character stays in `rx_data` for ever. One that arrives between the test and `rx_data = 0` is erased with the old one, and
  one that arrives before the last was looked at replaces it; the code promises neither, and sends nothing back.
- `OneLedRuns`: `(stopWatchLed << 1) | (stopWatchLed >> 7)` works in 32 bits although it never masks the row of 8, because the bits above repeat it. It is about the port: `UART_ISR` inverts
  lights 0 and 1 of the same row, and the property counts those apart (`toggled`) until the main loop next writes the row.
- `Settles`, `NeverDarkLong` (`Fnd`): `FND_SetHex` and the like are torn by `TMR_ISR`, and each base has a scan position of its own. What is torn is gone after one round,
  (a call that repeats what is there already, as the stopwatch makes in every pass, does not start the round anew), and a digit waits at most two rounds less two refreshes, the bound reached by changing the base at every turn.
- `DoneIsOwn` (`IicDriver`): a call that gives up leaves its transfer running, and the DONE of that transfer
  is what later calls see; `behind` says for how long. Without `~behind` the property fails,
  so the condition is the exact statement of what a timeout costs. `CallsReturn`: polling ends all the same,
  even if the call's own start was dropped, and giving up is not assumed to happen.
- `ByteTransferred`, `OnlyStartAndStop` (`IicController`, `IicDriver`): hold whatever the firmware does, timeouts included.

### Fairness

Only what the hardware gives: the clock runs (weak fairness of the clock edge; in `TimerCounter` and
`SpiController`, where a register write may fall on any edge, of the edges without one, since the handshake leaves such edges
between any two writes); in
`AxiLite` the manager does not withhold BREADY and RREADY for ever; in the composed
modules the CPU does not wait for ever between two accesses. No fairness is assumed of any peripheral's
own steps: they happen at every edge. In `StopWatch` the main loop goes on (weak fairness of `Main`; the handlers return) and a chattering contact comes to rest
(of `Settle`); nothing is assumed of ticks, characters or hands. `KeepsInterrupting` speaks of behaviours in which software leaves the
registers alone from some point on; `BytesComeBack` allows resets.

## Findings

1. `UART_Transmit` (`HAL/UART/UART.c:23`) has an empty `if` where it needs a `while`;
   the transmitter ignores TDR writes while it sends (`uart_transmit`).
2. `SPI_RAM.c:15,29` take the select and deselect calls to lower and raise the chip select around a command;
   the controller raises it after every byte (`spi_ram_select`).

Seen while modelling, without a run of their own: `spi_controller_top.v:25` documents a done flag latched until RX
DATA is read, but STATUS[1] is the one-clock pulse, which polling `SPI_IsDone` would miss (nothing does); in CPHA=0 the last SCLK
phase is one clock long whatever `clk_div` (`SclkPhases` leaves it out); `main.c:73` says `clk_div=4` and passes 8; `SPI_RAM_Init` is never
called, its set-up is done by main; an 'r' or a 'c' inverts a light of the row in which the stopwatch shows its running light (`interrupt.c:27-32`), so that two can be on or none,
and while the watch is stopped nothing writes the row again; the first centisecond after a start may be counted at once (`Pace`); `main.c:87` has the call of the stopwatch commented out in favour of the RAM demonstration.

## Proofs

TLAPS proves, for every value of the constants:

| Theorem | Statement |
|---|---|
| `HandshakeSafe` | `Spec => []HandshakeInv` (types, `OneWriteAtATime`, `NoLostRead`, `OneReadAtATime`) |
| `ResponsesAreHeld`, `ResponsesArePaired` | the action properties `ResponsesHeld`, `OneResponsePerRequest` |
| `GpioSafe`, `GpioImplementsBank` | `GpioSpec => []GpioInv`, `GpioSpec => ImplementsRegisterBank` |
| `TimerSafe` | `Spec => []TimerInv` (types and `PhaseInv`) |
| `PeriodIsExact`, `InterruptsAreNeverEarly`, `CounterStopsAtArr` | `PeriodExact`, `NeverEarly`, `NoOverrunByItself` |
| `BytesAreExchanged`, `BusyIsTransfer`, `SclkPhasesHold` | `ByteExchanged`, `BusyCoversTransfer`, `SclkPhases` |
| `EveryStartIsTaken`, `PollsAreTrue`, `ReadsReturnAnswer` | `DriverSpec` implies `[]NoStartLost`, `[]PollMeansDone`, `[]ReadReturnsAnswer` |
| `IsrReadsItsTransfer` | `MaxSlip <= 2` and `DriverSpec` imply `[]IsrReadsItsByte` |
| `NoByteIsDropped`, `ReceiverIsReady`, `BytesReturn` | `TestbenchSpec` implies `[]NoByteDropped`, `[]ReadyAfterFrame`, `[]LoopbackReturns` |
| `ReceiveInvariant`, `NoByteIsLost`, `BytesAreInOrder` | `Spec` of `UartReceive` implies `[]ReceiveInv`, `[]NothingLost`, `BytesInOrder` |
| `DriverInvariant` | `Spec => []DriverInv` of `IicDriver` (types, lines, target, outcome, bus, call) |
| `ByteIsTransferred`, `StatusIsOwn`, `SdaIsSettled` | `Spec` implies `[]ByteTransferred`, `[]DoneIsOwn`, `OnlyStartAndStop` |
| `StopWatchSafe`, `PaceIsKept` | `StopWatchInv` (types, and `m_tick` against `prevTime`), `Pace` |
| `NoEventInvented`, `LightsRunInRow` | `EventsAreMoves`, `OneLedRuns` |
| `WatchIsClock` | `Spec => ImplementsStopClock` |
| `FndSafe`, `NoDigitGhosts`, `DisplaySettles`, `DigitsAreRefreshed` | `FndInv`, `NoGhost`, `Settles`, `NeverDarkLong` |

Assumptions: `WordAssumption` (the reset byte is a byte), `ManagerAssumption` (what the manager sends has
the right types), `GpioAssumption` (bytes are sets of pins), `ModAssumption` (counters hold at least one value), `SpiAssumption` (a byte has at
least one bit, CTRL settings have their types, no chip select is `None`), `DriverAssumption` of SPI (the settings the firmware makes are settings of the controller,
the RAM is at chip select 0), `IicAssumption` (a byte has at least two bits, the target's address is one), `DriverAssumption` of IIC (bytes are bytes, and a quarter bit lasts at least two
clocks, since with one the target drives SDA too late; the program uses 250 throughout), `LoopbackAssumption` (half a bit time exceeds the receiver's delay, `HALF_BIT + 4 <= CLKS_PER_BIT`; the hardware has 868 clocks a bit), `PeerAssumption` (of each frame the bit time is
`Tolerated`: every bit is sampled inside itself, and the receiver is back within the stop bit; spikes last half a bit at most, and the handler reads RDR before the next byte can be there), `StopWatchAssumption` (fields and periods are not empty, a period and a pass fit
into `m_tick`, the row into its word), `ButtonsAssumption` (the two buttons of the stopwatch) and `FndAssumption`.

Handshake. `OneWriteAtATime` is inductive as the code is written because AWREADY and WREADY are set by the same condition
although in separate blocks; what makes it work is the relation of `aw_en` to the other two registers, which no block states. `NoLostRead` alone is not
inductive: it needs `OneReadAtATime`, the manager's side of the bargain, and the two are proved together. Each of the two phases has a lemma for a clock edge
(`WritePhaseClock`, `ReadPhaseClock`).

One access at a time. The firmware's access is either on the bus (`Carries(access)`) or the bus is free (`Free`). `FreeWaits`, `FreeTakes` and `CarriesOn` of `AxiLiteProofs`
say what a clock edge makes of the two: the wait goes on, the access begins, it is under way, its register is written or read, or it is answered. The proofs of the three modules
that put software on the bus start from them and never look at a handshake again.

Refinement. Each clock edge of the port is either `ApplyWrite` or `OfferWrite` in the write direction and `AnswerRead` or `OfferRead` in the read
direction; the handshake invariant says that the latched address is that of the request still on the wires, which is what the abstract action needs.

Timer. `PeriodExact` needs to know how far the timer is: `Phase` is the number of clocks the pair of counters stands for, with the
tick in flight between them counted. `PhaseInv` says it never runs ahead of the enabled time `elapsed` and equals it for an unpaused timer. It is
inductive with `TypeOK`; at the interrupt edge it gives `elapsed + 1 = Period`. The non-linear part,
`counter * (psc + 1)`, is isolated in lemmas.

SPI. `OnTheWire` says which bits of the two bytes are in which of the four shift registers. It takes one number, `ShiftedOut`: the bits sampled, and one more when the next
edge samples, because its bit is already on the line. Both ends look at the same edge, so one argument covers the four modes. `BusyCoversTransfer` follows from `Transfer`, the
state machine with its outputs. `SclkPhases` needs `Timing`, the divider against the age of the level of SCLK: the first level begins in START, one state before the divider runs, the
later ones with the divider already at one.

SPI firmware. `PhaseInv` says where the transfer is for each access of the program: outside start and poll the master rests (`Resting`), so the start that follows finds it idle;
from the write of the start bit to the poll that reads idle it is started, busy or done. What makes the first poll true is that `start_r` is set with the response of the write, and
the earliest read is two clocks later. What a read returned stays true until its response is taken (`Got`): a STATUS that says idle, because only the program starts a transfer, a CTRL
to be modified (`CtrlInv`), because only the program writes it. Both need that `SPI_ISR`, which runs between any two accesses, only reads. `IsrInv` counts: `Begun` is the least number of accesses main has begun
since the byte ended to be where it is, and `slipped` is not below it; two accesses do not get it to the next start, a third one does, so the hypothesis is needed.

UART. In loopback the receiver is the transmitter, `Lag = HALF_BIT + 4` clocks late: `Following` gives its state, index and count for each of the transmitter's, through the
three flip-flops between them (`Line`), and `Received` the bits it has by then. None of this is inductive without `SendInv`, which says that nothing but the sender's own write raises `tx_valid`, and that it finds the
transmitter ready. `NoByteDropped` rests on the order of one edge: `tx_ready` falls before a poll begun after the TDR write can sample it. `ByteInv` follows the byte from TDR
to the reader: in flight, arriving (one clock in `rx_valid`), arrived in RDR with its flag, taken. The invariant was checked by TLC on the run's instance before it was proved.

The receiver with a peer sees a stream: `Ahead(k)` is the level `k - 1` clocks before it, in the two flip-flops, then in what the peer is committed to; a clock moves every place up by one (`StreamStep`).
`Progress` is the receiver's count since the first low level, and `Within` says that the rest of the wave it is in lies ahead from that count on. So a sample is a level of the frame at a known place,
and `FrameFacts` says which: `HALF_BIT + CLKS_PER_BIT * i` is in the peer's bit `i` because both bounds of `Tolerated` hold there (`Quotient`). `Coming` is what follows: an idle line, then at most one wave that begins
not before the receiver is back (`RxClocks` fits the frame; a spike is over, with the receiver in IDLE, before the next wave). The bytes not read are then, in order, `Pending`, the byte of the frame and that of the wave to come. `HandlerInv` has the handler late by no
less than the receiver's `Progress`, hence done with RDR when the next byte arrives. `OwnBitTimeIsTolerated` shows that the assumption on the peer is not empty for any bit time. The invariant was checked by TLC on the run's instance before it was proved.

IIC. The target sees SCL and SDA through two flip-flops and acts on an edge of SCL in the third clock after it. `HalfAge` counts the clocks since that edge from the divider and the quarter, and
`SclLag` and `SdaLag` give the flip-flops in terms of it; since half a period of SCL is at least four clocks, each edge has been acted on before the next (`Events`). The state of the target is
therefore a function of the controller's state, of `bit_cnt` and of whether the present half is three clocks old (`FallSeen`, `RiseSeen`): that is `TargetInv`, one conjunct per state of the
controller. Its proof has a lemma for each kind of clock: SCL falls (`FallShape`), SCL rises (`RiseShape`), a bit ends (`BitEndsShape`), nothing happens (`NoEventShape`). `ReadInv` and the
shapes `Receives` and `Sends` say which bits of the byte have crossed, `AckInv` whose acknowledge `ack_seen` is. `OnlyStartAndStop` then follows clock by clock: under a high SCL neither driver of SDA
changes, except for the START and the STOP.

IIC firmware. `Own` says where the call's transfer is for each access of the program: there is none before the write of CTRL (`Quiet`); while the program polls it is on the bus (`Running`), has just ended
(`Ended`) or is in STATUS with its outcome (`Reported`). `CallInv` says that the registers hold the call's arguments when the controller reads them, which for the data byte is a whole
address later than the start (`SentOnce`). None of it holds after a call gave up: `OwnInv` is `~behind => Own`, and `OwnBegins` shows that a start from rest with DONE clear is enough to have it again. The whole
invariant was checked by TLC on small instances, for bytes of two, three and four bits as to the target, before it was proved.

Stopwatch. `m_tick` and `prevTime` are known modulo `TickMod` only; `StopWatchInv` says that the first is ahead of the second by `age`, and `WrappedDifference` that the
unsigned subtraction of the code then gives `age` back, because `age` stays below `TickMod`. `EventsAreMoves` needs the parity of `owed`: a contact rests where `prevState` is
exactly if it owes an even number of moves, and one that chatters anew owes at least one (`ButtonInv`). `Pace` needs the mark: `PaceInv` has `age` on the other side, the ticks of the
centisecond not yet counted, and gains `Period` or more for every centisecond counted after the first. `OneLedRuns` needs that the bits above the row repeat it (`WordStep`; rotating
then moves the one light, also from the last place to the first, `RotateKeeps`) and that the port differs from the row of the word by the lights toggled (`PortStep`). The refinement rests on `ReadingOfNext`: incrementing the fields adds one to the number they stand for, modulo the day,
by three uses of `TwoPlaces`, which isolates the products.

Display. `FndInv` says which digits have been refreshed since main last changed anything (those the scan of this base has passed since) and bounds the darkness of each by
how long ago both scans were there.

Only model-checked: all liveness (out of the prover's reach). Every invariant and every action property of the passing runs is a theorem.

## Not modelled

- The interrupt controller, the processor and the drivers Xilinx delivers: not in the repository. The one-clock pulses of the peripherals meet inputs declared
  level-sensitive there; `SpiRamDriver` lets any pulse be missed, `UartReceive` assumes the handler runs within a bound, `StopWatch` leaves open when ticks come.
- Of the LED driver: the port of the upper lights (the two that show the stopwatch's state; `LED_Toggle(0)` and `LED_Toggle(1)` store it back as it was), and the calls the program does not make. `SPI_ISR` toggles
  lights 2 and 3, but the stopwatch starts no SPI transfer; the lights the RAM demonstration of `main.c` writes are in no module.
- A second read outstanding at the same peripheral: the managers have one at most.
- Of the stopwatch: `counter`, which nothing reads; contacts that chatter for longer than the delay of a millisecond; the formatting of the number displayed; when the lights move (every 100 ms, left open). The compiler may use `rx_data`, which is not volatile,
  as loaded for the first test, and the model allows both. `stopWatchLed` starts as 0: no light until the first clear.
- Of the display: from reset to the first refresh the ports hold 0, which lights every segment of every digit; `Fnd` starts in that refresh, after its first port write.
- GPIO and timer HAL functions are single register accesses and appear as register writes.
- The scripts under `tb/iic_uvm/results/*/cov_report/js`: table sorting and tree folding of HTML coverage reports, generated by the simulator and checked in with its results. They are
  third-party output with no part in the system, although they are all the JavaScript there is.
- BRESP and RRESP (constant OKAY), AWPROT and ARPROT (ignored by the code).
- Metastability; the synchronisers are modelled as the delays they are, SPI's unused one is left out.
- Asynchronous assertion of reset in the SPI and UART cores: a reset is seen at a clock edge. In `UartReceive` there
  is no reset: a peer does not stop for one, and the frame it interrupts is lost.
- IIC: reset resets the target with the controller, as in the testbenches; there is no clock
  stretching, the controller drives SCL without looking at it; the target always acknowledges its own
  address (`ack_addr_en`); STATUS[3], a copy of `intr`, and interrupts enabled by CTRL[3], which `IIC.c` never sets in
  `IIC_WriteByte` and `IIC_ReadByte`, are left out; the three shift registers of the target, used one after the other, are one.
- Framing errors and breaks on the UART line.
- Vendor-generated drivers, UVM infrastructure, build scripts.

## Plan

1. Done: all modules of the table above, with proofs about the handshake, GPIO, the timer, SPI and its firmware, the UART in loopback and with a peer, IIC and its firmware, the stopwatch and the display.
2. Left: the interrupt controller, if its documentation is taken as a source.
