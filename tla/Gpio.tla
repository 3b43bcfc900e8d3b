-------------------------------- MODULE Gpio --------------------------------
(***************************************************************************)
(* The GPIO peripheral: gpio_v1_0_S00_AXI.v (four registers behind the     *)
(* handshake of AxiLite) and the tri-state pins of gpio_v1_0.v.            *)
(*                                                                         *)
(* A byte is the set of the pins whose bit is 1.  Register 0 is CR (1 =    *)
(* output), 1 reads as IDR, 2 is ODR, 3 is unused storage; CR, IDR and ODR *)
(* live in the lowest lane.  The IDR bit of an output pin is driven to 'z' *)
(* inside the device: a read of it returns 0 or 1.                         *)
(***************************************************************************)
EXTENDS AxiLite

CONSTANTS
  Pins,       \* the pins of the port (eight in the hardware)
  LowLane     \* the lane of bits [7:0]

ASSUME GpioAssumption ==
  /\ LowLane \in Lanes
  /\ Bytes = SUBSET Pins
  /\ ZeroByte = {}

VARIABLES
  reg,        \* subordinate_reg0 .. subordinate_reg3
  ext         \* the pins driven high from outside the chip

gpioVars == << axiVars, reg, ext >>

CR  == 0
IDR == 1
ODR == 2

cr  == reg[CR][LowLane]
odr == reg[ODR][LowLane]

\* The level of the port: outputs follow ODR, the others the outside world.
io_port == { p \in Pins : IF p \in cr THEN p \in odr ELSE p \in ext }

\* Input pins read the port; the bits of output pins are undefined.
IdrValues == { i \in SUBSET Pins : i \ cr = io_port \ cr }

\* {24'b0, idr} for register 1, the stored word for the others.
reg_data_out ==
  IF axi_araddr = IDR
  THEN { [l \in Lanes |-> IF l = LowLane THEN i ELSE {}] : i \in IdrValues }
  ELSE { reg[axi_araddr] }

GpioTypeOK ==
  /\ TypeOK
  /\ reg \in [Regs -> Word]
  /\ ext \in SUBSET Pins

GpioInit ==
  /\ AxiInit
  /\ reg = [a \in Regs |-> Zero]
  /\ ext \in SUBSET Pins

\* Fault: the strobes are ignored.
RegEdgeWholeWord ==
  reg' = IF WrEn THEN [reg EXCEPT ![axi_awaddr] = wdata] ELSE reg

RegEdge ==
  reg' = IF WrEn
         THEN [reg EXCEPT ![axi_awaddr] = Merge(@, wdata, wstrb)]
         ELSE reg

GpioClock ==
  /\ ManagerEdge
  /\ SubordinateEdge(reg_data_out)
  /\ RegEdge
  /\ ext' \in SUBSET Pins

GpioReset ==
  /\ AxiReset
  /\ reg' = [a \in Regs |-> Zero]
  /\ UNCHANGED ext

GpioNext == GpioClock \/ GpioReset

GpioSpec == GpioInit /\ [][GpioNext]_gpioVars

-----------------------------------------------------------------------------
\* The port, seen through AXI, is an atomic register bank: writes and reads
\* of CR, ODR and register 3 take effect at one instant each.

BankChannel(valid, item) == IF valid THEN {item} ELSE {}
PlainRegs == { CR, ODR, 3 }

Bank == INSTANCE RegisterBank WITH
  Plain <- PlainRegs,
  aw  <- BankChannel(awvalid, awaddr),
  w   <- BankChannel(wvalid, << wdata, wstrb >>),
  b   <- axi_bvalid,
  ar  <- BankChannel(arvalid, araddr),
  r   <- BankChannel(axi_rvalid, axi_rdata),
  reg <- [a \in PlainRegs |-> reg[a]]

ImplementsRegisterBank == Bank!Spec

=============================================================================
