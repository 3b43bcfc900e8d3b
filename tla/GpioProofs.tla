----------------------------- MODULE GpioProofs -----------------------------
(***************************************************************************)
(* The GPIO peripheral implements the atomic register bank, for every      *)
(* number of pins and lanes and every manager that obeys AXI.              *)
(*                                                                         *)
(* The invariant the refinement needs is that of the handshake: the        *)
(* latched addresses are those of the pending requests, and each direction *)
(* handles one request at a time.                                          *)
(***************************************************************************)
EXTENDS Gpio, AxiLiteProofs

GpioInv == HandshakeInv /\ GpioTypeOK

\* What the read multiplexer shows is a word.
LEMMA ReadMuxIsWord ==
  GpioTypeOK => reg_data_out \subseteq Word
<1> SUFFICES ASSUME GpioTypeOK, NEW v \in reg_data_out PROVE v \in Word
  OBVIOUS
<1>1. CASE axi_araddr = IDR
  <2>1. PICK i \in IdrValues : v = [l \in Lanes |-> IF l = LowLane THEN i ELSE {}]
    BY <1>1 DEF reg_data_out
  <2>2. i \in Bytes /\ {} \in Bytes
    BY GpioAssumption DEF IdrValues
  <2>. QED
    BY <2>1, <2>2 DEF Word
<1>2. CASE axi_araddr # IDR
  BY <1>2 DEF reg_data_out, GpioTypeOK, TypeOK
<1>. QED
  BY <1>1, <1>2

\* A clock edge of the port is a clock edge of the handshake.
LEMMA GpioClockIsClock ==
  GpioTypeOK /\ GpioClock => ManagerEdge /\ SubordinateEdge(Word)
  BY ReadMuxIsWord DEF GpioClock, SubordinateEdge, REdge

\* Merging lanes of a word into a word gives a word.
LEMMA MergeIsWord ==
  ASSUME NEW old \in Word, NEW data \in Word, NEW strb
  PROVE  Merge(old, data, strb) \in Word
  BY DEF Merge, Word

\* Types and handshake hold in every state of the port.
THEOREM GpioSafe == GpioSpec => []GpioInv
<1>1. GpioInit => GpioInv
  <2> SUFFICES ASSUME GpioInit PROVE GpioInv
    OBVIOUS
  <2>1. HandshakeInv
    BY HandshakeInit DEF GpioInit
  <2>2. reg \in [Regs -> Word] /\ ext \in SUBSET Pins
    BY ZeroIsWord DEF GpioInit
  <2>. QED
    BY <2>1, <2>2 DEF GpioInv, GpioTypeOK, HandshakeInv
<1>2. GpioInv /\ [GpioNext]_gpioVars => GpioInv'
  <2> SUFFICES ASSUME GpioInv, [GpioNext]_gpioVars PROVE GpioInv'
    OBVIOUS
  <2>1. CASE GpioClock
    <3>1. HandshakeInv'
      BY <2>1, GpioClockIsClock, HandshakeClock DEF GpioInv
    <3>2. reg' \in [Regs -> Word]
      <4>1. Merge(reg[axi_awaddr], wdata, wstrb) \in Word
        BY MergeIsWord DEF GpioInv, GpioTypeOK, TypeOK
      <4>. QED
        BY <2>1, <4>1 DEF GpioClock, RegEdge, GpioInv, GpioTypeOK
    <3>3. ext' \in SUBSET Pins
      BY <2>1 DEF GpioClock
    <3>. QED
      BY <3>1, <3>2, <3>3 DEF GpioInv, GpioTypeOK, HandshakeInv, Regs, Word
  <2>2. CASE GpioReset
    <3>1. HandshakeInv'
      BY <2>2, HandshakeReset DEF GpioReset
    <3>2. reg' \in [Regs -> Word] /\ ext' \in SUBSET Pins
      BY <2>2, ZeroIsWord DEF GpioReset, GpioInv, GpioTypeOK
    <3>. QED
      BY <3>1, <3>2 DEF GpioInv, GpioTypeOK, HandshakeInv, Regs, Word
  <2>3. CASE UNCHANGED gpioVars
    BY <2>3 DEF gpioVars, axiVars, manager, subordinate, writeManager,
       readManager, writeSubordinate, readSubordinate, GpioInv, GpioTypeOK,
       HandshakeInv, TypeOK, OneWriteAtATime, NoLostRead, OneReadAtATime
  <2>. QED
    BY <2>1, <2>2, <2>3 DEF GpioNext
<1>. QED
  BY <1>1, <1>2, PTL DEF GpioSpec

-----------------------------------------------------------------------------

\* The bank's words, registers and merging are the port's.
LEMMA BankData ==
  /\ Bank!Word = Word /\ Bank!Regs = Regs /\ Bank!Zero = Zero
  /\ Bank!Payload = Word \X Strobe
  /\ \A o, d, s : Bank!Merge(o, d, s) = Merge(o, d, s)
  BY DEF Bank!Word, Word, Bank!Regs, Regs, Bank!Zero, Zero, Bank!Payload,
     Bank!Strobe, Strobe, Bank!Merge, Merge

\* The write half of a clock edge is a write applied, or requests offered.
LEMMA WriteHalf ==
  ASSUME GpioInv, ManagerEdge, WriteEdge, RegEdge
  PROVE  Bank!ApplyWrite \/ Bank!OfferWrite
<1> USE DEF GpioInv, HandshakeInv, GpioTypeOK
<1> USE DEF BankChannel
<1>a. awvalid' => awaddr' \in Regs
  BY ManagerAssumption DEF ManagerEdge, DriveAw, TypeOK
<1>w. wvalid' => << wdata', wstrb' >> \in Bank!Payload
  BY ManagerAssumption, BankData DEF ManagerEdge, DriveW, TypeOK
<1>1. CASE WrEn
  <2>1. awvalid /\ wvalid /\ axi_awready /\ axi_wready /\ axi_awaddr = awaddr
        /\ ~axi_bvalid
    BY <1>1 DEF WrEn, OneWriteAtATime
  <2>2. axi_bvalid' = TRUE
    BY <1>1, <2>1 DEF WriteEdge, BEdge
  <2>3. [a \in PlainRegs |-> reg'[a]]
        = [x \in PlainRegs |->
             IF x = awaddr
             THEN Merge([a \in PlainRegs |-> reg[a]][x],
                        << wdata, wstrb >>[1], << wdata, wstrb >>[2])
             ELSE [a \in PlainRegs |-> reg[a]][x]]
    BY <1>1, <2>1 DEF RegEdge, PlainRegs, CR, ODR, Regs
  <2>4. Bank!Refill(BankChannel(awvalid', awaddr'), Regs)
    BY <1>a DEF Bank!Refill
  <2>5. Bank!Refill(BankChannel(wvalid', << wdata', wstrb' >>), Bank!Payload)
    BY <1>w DEF Bank!Refill
  <2>6. Bank!ApplyWrite
    BY <2>1, <2>2, <2>3, <2>4, <2>5, BankData DEF Bank!ApplyWrite
  <2>. QED
    BY <2>6
<1>2. CASE ~WrEn
  <2>1. ~axi_awready /\ ~axi_wready
    BY <1>2 DEF WrEn, OneWriteAtATime, TypeOK
  <2>2. Bank!Offer(BankChannel(awvalid, awaddr), BankChannel(awvalid', awaddr'), Regs)
    BY <2>1, <1>a DEF Bank!Offer, ManagerEdge, DriveAw
  <2>3. Bank!Offer(BankChannel(wvalid, << wdata, wstrb >>),
                   BankChannel(wvalid', << wdata', wstrb' >>), Bank!Payload)
    BY <2>1, <1>w DEF Bank!Offer, ManagerEdge, DriveW
  <2>4. axi_bvalid' \in {axi_bvalid, FALSE}
    BY <1>2 DEF WriteEdge, BEdge, TypeOK
  <2>5. [a \in PlainRegs |-> reg'[a]] = [a \in PlainRegs |-> reg[a]]
    BY <1>2 DEF RegEdge
  <2>6. Bank!OfferWrite
    BY <2>2, <2>3, <2>4, <2>5, BankData DEF Bank!OfferWrite
  <2>. QED
    BY <2>6
<1>. QED
  BY <1>1, <1>2

\* The read half of a clock edge is a read answered with what its register
\* holds, or a request offered.
LEMMA ReadHalf ==
  ASSUME GpioInv, ManagerEdge, ArEdge, REdge(reg_data_out)
  PROVE  Bank!AnswerRead \/ Bank!OfferRead
<1> USE DEF GpioInv, HandshakeInv, GpioTypeOK
<1> USE DEF BankChannel
<1>1. CASE RdEn
  <2>1. arvalid /\ axi_arready /\ ~axi_rvalid /\ axi_araddr = araddr
    BY <1>1 DEF RdEn, NoLostRead
  <2>2. axi_rvalid' /\ axi_rdata' \in reg_data_out
    BY <1>1 DEF REdge
  <2>3. ~arvalid'
    BY <2>1 DEF ManagerEdge, DriveAr
  <2>4. axi_rdata' \in Bank!Readable(araddr)
    <3>1. CASE araddr \in PlainRegs
      BY <2>1, <2>2, <3>1, BankData DEF Bank!Readable, reg_data_out, PlainRegs, CR, ODR, IDR
    <3>2. CASE araddr \notin PlainRegs
      BY <2>2, <3>2, ReadMuxIsWord, BankData DEF Bank!Readable
    <3>. QED
      BY <3>1, <3>2
  <2>5. Bank!AnswerRead
    BY <2>1, <2>2, <2>3, <2>4 DEF Bank!AnswerRead
  <2>. QED
    BY <2>5
<1>2. CASE ~RdEn
  <2>1. ~axi_arready
    BY <1>2 DEF RdEn, NoLostRead, TypeOK
  <2>2. arvalid' => araddr' \in Regs
    BY ManagerAssumption DEF ManagerEdge, DriveAr, TypeOK
  <2>3. Bank!Offer(BankChannel(arvalid, araddr), BankChannel(arvalid', araddr'), Regs)
    BY <2>1, <2>2 DEF Bank!Offer, ManagerEdge, DriveAr
  <2>4. BankChannel(axi_rvalid', axi_rdata') \in {BankChannel(axi_rvalid, axi_rdata), {}}
    BY <1>2 DEF REdge
  <2>5. Bank!OfferRead
    BY <2>3, <2>4, BankData DEF Bank!OfferRead
  <2>. QED
    BY <2>5
<1>. QED
  BY <1>1, <1>2

\* A reset of the port is a reset of the bank.
LEMMA ResetHalf == GpioReset => Bank!Reset
<1> SUFFICES ASSUME GpioReset PROVE Bank!Reset
  OBVIOUS
<1>1. [a \in PlainRegs |-> reg'[a]] = [a \in PlainRegs |-> Zero]
  BY DEF GpioReset, PlainRegs, CR, ODR, Regs
<1>. QED
  BY <1>1, BankData DEF GpioReset, AxiReset, ManagerReset, SubordinateReset,
     Bank!Reset, BankChannel

\* The GPIO peripheral implements the atomic register bank.
THEOREM GpioImplementsBank == GpioSpec => ImplementsRegisterBank
<1>1. GpioInit => Bank!Init
  <2> SUFFICES ASSUME GpioInit PROVE Bank!Init
    OBVIOUS
  <2>1. [a \in PlainRegs |-> reg[a]] = [a \in PlainRegs |-> Zero]
    BY DEF GpioInit, PlainRegs, CR, ODR, Regs
  <2>. QED
    BY <2>1, BankData DEF GpioInit, AxiInit, ManagerReset, SubordinateReset, Bank!Init,
       BankChannel
<1>2. GpioInv /\ [GpioNext]_gpioVars => [Bank!Next]_(Bank!vars)
  <2> SUFFICES ASSUME GpioInv, [GpioNext]_gpioVars
               PROVE  [Bank!Next]_(Bank!vars)
    OBVIOUS
  <2>1. CASE GpioClock
    BY <2>1, WriteHalf, ReadHalf
    DEF GpioClock, SubordinateEdge, Bank!Next, Bank!Access
  <2>2. CASE GpioReset
    BY <2>2, ResetHalf DEF Bank!Next
  <2>3. CASE UNCHANGED gpioVars
    BY <2>3 DEF gpioVars, axiVars, manager, subordinate, writeManager,
       readManager, writeSubordinate, readSubordinate, Bank!vars, BankChannel
  <2>. QED
    BY <2>1, <2>2, <2>3 DEF GpioNext
<1>. QED
  BY <1>1, <1>2, GpioSafe, PTL DEF GpioSpec, ImplementsRegisterBank, Bank!Spec

=============================================================================
