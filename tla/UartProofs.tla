----------------------------- MODULE UartProofs -----------------------------
(***************************************************************************)
(* Proofs about the UART, for every length of a byte and every number of   *)
(* clocks a bit: first with TX wired to RX, whatever the timing of the     *)
(* CPU, then the receiver with a peer that has a bit time of its own.      *)
(***************************************************************************)
EXTENDS UartLoopback, UartReceive, SequenceTheorems, TLAPS

Bus == INSTANCE AxiLiteProofs WITH
  Lanes <- {"word"}, Bytes <- {ZeroByte}, ZeroByte <- ZeroByte,
  Accessed <- {}, WriteData <- {}, WriteStrobes <- {}

-----------------------------------------------------------------------------
\* The bus accesses of the software.

Sending == pc \in {"tdr", "put"}

SoftwareTypes ==
  /\ pc \in {"cr", "ready", "tdr", "flag", "intr", "rdr", "poll", "put"}
  /\ issued \in BOOLEAN
  /\ TDR \in Byte

BusInv == IF issued THEN Bus!Carries(Access) ELSE Bus!Free

LEMMA SameBus ==
  /\ Axi!WrEn <=> Bus!WrEn
  /\ Axi!RdEn <=> Bus!RdEn
  /\ Axi!Responded <=> Bus!Responded
  /\ Axi!HoldOnBus <=> Bus!HoldOnBus
  /\ Axi!AxiInit <=> Bus!AxiInit
  /\ Axi!AxiReset <=> Bus!AxiReset
  /\ \A shown : Axi!SubordinateEdge(shown) <=> Bus!SubordinateEdge(shown)
  /\ \A access : Axi!PutOnBus(access) <=> Bus!PutOnBus(access)
<1>1. (Axi!WrEn <=> Bus!WrEn) /\ (Axi!RdEn <=> Bus!RdEn) /\ (Axi!Responded <=> Bus!Responded)
  BY DEF Axi!WrEn, Bus!WrEn, Axi!RdEn, Bus!RdEn, Axi!Responded, Bus!Responded
<1>2. Axi!HoldOnBus <=> Bus!HoldOnBus
  BY DEF Axi!HoldOnBus, Bus!HoldOnBus
<1>3. (Axi!AxiInit <=> Bus!AxiInit) /\ (Axi!AxiReset <=> Bus!AxiReset)
  BY DEF Axi!AxiInit, Bus!AxiInit, Axi!AxiReset, Bus!AxiReset, Axi!ManagerReset, Bus!ManagerReset,
         Axi!SubordinateReset, Bus!SubordinateReset, Axi!Zero, Bus!Zero
<1>4. ASSUME NEW shown PROVE Axi!SubordinateEdge(shown) <=> Bus!SubordinateEdge(shown)
  BY DEF Axi!SubordinateEdge, Bus!SubordinateEdge, Axi!WriteEdge, Bus!WriteEdge,
         Axi!AwEdge, Bus!AwEdge, Axi!WEdge, Bus!WEdge, Axi!BEdge, Bus!BEdge,
         Axi!ArEdge, Bus!ArEdge, Axi!REdge, Bus!REdge, Axi!WrEn, Bus!WrEn, Axi!RdEn, Bus!RdEn
<1>5. ASSUME NEW access PROVE Axi!PutOnBus(access) <=> Bus!PutOnBus(access)
  BY DEF Axi!PutOnBus, Bus!PutOnBus
<1>. QED
  BY <1>1, <1>2, <1>3, <1>4, <1>5

LEMMA Accesses ==
  /\ pc = "cr" => Access = [write |-> TRUE, addr |-> 3, word |-> [word |-> TRUE]]
  /\ Sending => Access = [write |-> TRUE, addr |-> 1, word |-> [word |-> TDR]]
  /\ pc \in {"rdr", "intr"} => Access = [write |-> FALSE, addr |-> 2]
  /\ pc \in {"ready", "flag", "poll"} => Access = [write |-> FALSE, addr |-> 0]
  BY DEF Access, Sending, Axi!WriteOf, Axi!ReadOf, CR_ADDR, TDR_ADDR, RDR_ADDR, SR_ADDR,
         ControlWord, ByteWord

\* What a clock edge does to the bus and the software.
LEMMA BusStep ==
  ASSUME SoftwareTypes, BusInv, TestbenchEdge
  PROVE  /\ SoftwareTypes' /\ BusInv'
         /\ axi_bvalid' <=> Axi!WrEn
         /\ axi_rvalid' <=> Axi!RdEn
         /\ Axi!WrEn => /\ issued /\ axi_awaddr = Access.addr /\ wdata = Access.word
                        /\ pc \in {"cr", "tdr", "put"}
         /\ Axi!RdEn => /\ issued /\ axi_araddr = Access.addr /\ axi_rdata' = reg_data_out
                        /\ pc \notin {"cr", "tdr", "put"}
         /\ ~Axi!RdEn => axi_rdata' = axi_rdata
         /\ IF issued /\ Axi!Responded
            THEN /\ ~issued' /\ pc' \in Testbench(axi_rdata) /\ ~Axi!WrEn /\ ~Axi!RdEn
                 /\ pc' \notin {"tdr", "put"} => TDR' = TDR
            ELSE pc' = pc /\ TDR' = TDR /\ (issued => issued')
         /\ ~issued /\ issued' /\ pc = "intr" => intr \/ rx_flag
         /\ Axi!Responded => issued
         /\ axi_bvalid => pc \in {"cr", "tdr", "put"}
         /\ axi_rvalid => pc \notin {"cr", "tdr", "put"}
<1>0. /\ Bus!SubordinateEdge({reg_data_out})
      /\ (Axi!WrEn <=> Bus!WrEn) /\ (Axi!RdEn <=> Bus!RdEn) /\ (Axi!Responded <=> Bus!Responded)
  BY SameBus DEF TestbenchEdge, Hardware
<1>1. Access.write <=> pc \in {"cr", "tdr", "put"}
  BY Accesses DEF SoftwareTypes, Sending
<1>2. CASE Wait
  <2>1. Bus!Free /\ UNCHANGED Bus!manager /\ ~issued
    BY <1>2 DEF Wait, BusInv, manager, Bus!manager, Bus!writeManager, Bus!readManager
  <2>2. Bus!Free' /\ ~Bus!WrEn /\ ~Bus!RdEn /\ axi_rdata' = axi_rdata
    BY <1>0, <2>1, Bus!FreeWaits
  <2>3. ~axi_bvalid /\ ~axi_rvalid /\ ~axi_bvalid' /\ ~axi_rvalid'
    BY <2>1, <2>2 DEF Bus!Free, Bus!WriteFree, Bus!ReadFree
  <2>4. UNCHANGED << pc, issued, TDR >>
    BY <1>2 DEF Wait, software
  <2>. QED
    BY <1>0, <2>1, <2>2, <2>3, <2>4 DEF BusInv, SoftwareTypes, Bus!Responded
<1>3. CASE Issue
  <2>1. Bus!Free /\ Bus!PutOnBus(Access) /\ ~issued /\ issued' = TRUE /\ UNCHANGED << pc, TDR >>
        /\ (pc = "intr" => intr \/ rx_flag)
    BY <1>3, SameBus DEF Issue, BusInv
  <2>2. Access' = Access
    BY <2>1 DEF Access, Axi!WriteOf, Axi!ReadOf, ByteWord, ControlWord
  <2>3. /\ Bus!Carries(Access)' /\ ~Bus!WrEn /\ ~Bus!RdEn /\ axi_rdata' = axi_rdata
        /\ ~axi_bvalid' /\ ~axi_rvalid'
    BY <1>0, <2>1, <2>2, Bus!FreeTakes DEF Bus!Carries
  <2>4. ~axi_bvalid /\ ~axi_rvalid
    BY <2>1 DEF Bus!Free, Bus!WriteFree, Bus!ReadFree
  <2>. QED
    BY <1>0, <2>1, <2>3, <2>4 DEF BusInv, SoftwareTypes, Bus!Responded
<1>4. CASE OnBus(Testbench(axi_rdata))
  <2>1. issued /\ Bus!Carries(Access) /\ Bus!HoldOnBus
    BY <1>4, SameBus DEF OnBus, BusInv
  <2>2. /\ Bus!WrEn => Access.write /\ axi_awaddr = Access.addr /\ wdata = Access.word
        /\ Bus!RdEn => ~Access.write /\ axi_araddr = Access.addr
        /\ axi_bvalid' <=> Bus!WrEn
        /\ axi_rvalid' <=> Bus!RdEn
        /\ IF Bus!RdEn THEN axi_rdata' \in {reg_data_out} ELSE axi_rdata' = axi_rdata
        /\ axi_bvalid => Access.write
        /\ axi_rvalid => ~Access.write
        /\ Bus!Responded => Bus!Free' /\ ~Bus!WrEn /\ ~Bus!RdEn
    BY <1>0, <2>1, Bus!CarriesOn
  <2>3. CASE Bus!Responded
    <3>1. /\ issued' = FALSE /\ pc' \in Testbench(axi_rdata)
          /\ IF pc' \in {"tdr", "put"} THEN TDR' \in Byte ELSE UNCHANGED TDR
      BY <1>0, <1>4, <2>3 DEF OnBus
    <3>2. Testbench(axi_rdata) \subseteq
            {"cr", "ready", "tdr", "flag", "intr", "rdr", "poll", "put"}
      BY DEF Testbench
    <3>3. SoftwareTypes'
      BY <3>1, <3>2 DEF SoftwareTypes
    <3>. QED
      BY <1>0, <1>1, <2>1, <2>2, <2>3, <3>1, <3>3 DEF BusInv
  <2>4. CASE ~Bus!Responded
    <3>1. UNCHANGED << pc, issued, TDR >>
      BY <1>0, <1>4, <2>4 DEF OnBus, software
    <3>2. Access' = Access
      BY <3>1 DEF Access, Axi!WriteOf, Axi!ReadOf, ByteWord, ControlWord
    <3>3. Bus!Carries(Access)'
      BY <1>0, <2>1, <2>4, <3>2, Bus!CarriesOn DEF Bus!Carries
    <3>. QED
      BY <1>0, <1>1, <2>1, <2>2, <2>4, <3>1, <3>3 DEF BusInv, SoftwareTypes
  <2>. QED
    BY <2>3, <2>4
<1>. QED
  BY <1>2, <1>3, <1>4 DEF TestbenchEdge

-----------------------------------------------------------------------------
\* Types of the transmitter.  The receiver's counters follow from Following.

SenderTypes ==
  /\ tx_state \in {"IDLE", "START", "DATA", "STOP"}
  /\ tx_cnt \in 0 .. CLKS_PER_BIT - 1 /\ tx_idx \in 0 .. NBits - 1
  /\ tx_ready \in BOOLEAN /\ tx_valid \in BOOLEAN
  /\ tx_shift \in Byte /\ uart_tdr \in Byte /\ rx_shift \in Byte

-----------------------------------------------------------------------------
\* What the software knows of the transmitter.

SendInv ==
  /\ tx_valid <=> issued /\ Sending /\ axi_bvalid
  /\ tx_valid => tx_state = "IDLE" /\ uart_tdr = TDR
  /\ tx_ready => tx_state = "IDLE"
  /\ Sending /\ ~(issued /\ axi_bvalid) => tx_state = "IDLE" /\ tx_ready
  /\ pc \in {"ready", "poll"} /\ issued /\ axi_rvalid /\ axi_rdata.word.tx_ready => tx_ready

-----------------------------------------------------------------------------
\* The receiver follows the transmitter: it is Lag clocks later in its bit.

Lag == HALF_BIT + 4

\* The level of the current bit and that of the one before.
Level  == CASE tx_state = "START" -> 0
            [] tx_state = "DATA"  -> tx_shift[tx_idx]
            [] OTHER              -> 1
Before == CASE tx_state = "DATA"  -> IF tx_idx = 0 THEN 0 ELSE tx_shift[tx_idx - 1]
            [] tx_state = "STOP"  -> tx_shift[NBits - 1]
            [] OTHER              -> 1

\* The line and the synchroniser show the current bit one after the other.
Shows(pin, n) == pin = IF tx_cnt < n THEN Before ELSE Level
Line == Shows(tx, 1) /\ Shows(rx_sync0, 2) /\ Shows(rx_sync, 3)

RxAt(st, idx, cnt) == rx_state = st /\ rx_idx = idx /\ rx_cnt = cnt

Following ==
  /\ tx_state = "IDLE" => rx_state = "IDLE"
  /\ tx_state = "START" =>
       IF tx_cnt < 4 THEN rx_state = "IDLE"
       ELSE IF tx_cnt < Lag THEN RxAt("START", 0, tx_cnt - 4)
       ELSE RxAt("DATA", 0, tx_cnt - Lag)
  /\ tx_state = "DATA" =>
       IF tx_cnt < Lag THEN RxAt("DATA", tx_idx, tx_cnt + CLKS_PER_BIT - Lag)
       ELSE IF tx_idx < NBits - 1 THEN RxAt("DATA", tx_idx + 1, tx_cnt - Lag)
       ELSE RxAt("STOP", tx_idx, tx_cnt - Lag)
  /\ tx_state = "STOP" =>
       IF tx_cnt < Lag THEN RxAt("STOP", NBits - 1, tx_cnt + CLKS_PER_BIT - Lag)
       ELSE rx_state = "IDLE"

\* The bits received are those of the byte in TDR; owed counts it.
Received ==
  /\ tx_state # "IDLE" => uart_tdr = tx_shift
  /\ rx_state = "DATA" => \A i \in 0 .. rx_idx - 1 : rx_shift[i] = tx_shift[i]
  /\ rx_state = "STOP" => rx_shift = tx_shift
  /\ rx_valid => rx_data = uart_tdr /\ owed = 0
  /\ owed = IF \/ tx_valid
               \/ tx_state \in {"START", "DATA"}
               \/ tx_state = "STOP" /\ tx_cnt < Lag
            THEN 1 ELSE 0

-----------------------------------------------------------------------------
\* Where the byte sent last is: on the line, at the receiver's output, in
\* RDR, or read.

Flying   == owed = 1 /\ ~rx_valid /\ ~rx_flag
Arriving == owed = 0 /\ rx_valid /\ ~rx_flag
Arrived  == owed = 0 /\ ~rx_valid /\ rx_flag /\ uart_rdr = TDR
Taken    == /\ owed = 0 /\ ~rx_valid /\ ~rx_flag
            /\ issued /\ axi_rvalid /\ axi_rdata.word = TDR

ByteInv ==
  /\ pc \in {"cr", "ready", "tdr"} => ~rx_flag /\ ~rx_valid /\ (tx_valid \/ owed = 0)
  /\ pc \in {"flag", "intr", "rdr"} => uart_tdr = TDR
  /\ pc = "flag" => Flying \/ Arriving \/ Arrived
  /\ pc = "flag" /\ issued /\ axi_rvalid /\ axi_rdata.word.rx_flag => Arrived
  /\ pc = "intr" /\ ~issued => Flying \/ Arriving \/ Arrived
  /\ pc = "rdr" /\ ~issued => Arrived
  /\ pc \in {"intr", "rdr"} /\ issued => IF axi_rvalid THEN Taken ELSE Arrived


-----------------------------------------------------------------------------
\* One lemma for each part of the invariant and a clock edge.

LEMMA Clocks ==
  /\ CLKS_PER_BIT \in Nat /\ HALF_BIT \in Nat /\ NBits \in Nat /\ NBits >= 1
  /\ HALF_BIT >= 3 /\ Lag <= CLKS_PER_BIT /\ Lag = HALF_BIT + 4
<1>1. CLKS_PER_BIT \in Nat /\ CLKS_PER_BIT > 1 /\ NBits \in Nat /\ NBits >= 1
  BY UartAssumption
<1>2. HALF_BIT \in Nat /\ 2 * HALF_BIT <= CLKS_PER_BIT /\ CLKS_PER_BIT <= 2 * HALF_BIT + 1
  BY <1>1 DEF HALF_BIT
<1>. QED
  BY <1>1, <1>2, LoopbackAssumption DEF Lag

LEMMA WritesTDR ==
  ASSUME SoftwareTypes, BusInv, TestbenchEdge
  PROVE  /\ tx_valid' <=> Axi!WrEn /\ Sending
         /\ uart_tdr' = IF tx_valid' THEN TDR ELSE uart_tdr
<1>1. CASE Axi!WrEn
  <2>1. axi_awaddr = Access.addr /\ wdata = Access.word /\ pc \in {"cr", "tdr", "put"}
    BY <1>1, BusStep
  <2>2. CASE Sending
    <3>1. axi_awaddr = TDR_ADDR /\ wdata.word = TDR
      BY <2>1, <2>2, Accesses DEF TDR_ADDR
    <3>. QED
      BY <1>1, <2>2, <3>1 DEF TestbenchEdge, Hardware, RegisterEdge, WriteTDR
  <2>3. CASE ~Sending
    <3>1. axi_awaddr # TDR_ADDR
      BY <2>1, <2>3, Accesses DEF TDR_ADDR, Sending
    <3>. QED
      BY <2>3, <3>1 DEF TestbenchEdge, Hardware, RegisterEdge, KeepTDR
  <2>. QED
    BY <2>2, <2>3
<1>2. CASE ~Axi!WrEn
  BY <1>2 DEF TestbenchEdge, Hardware, RegisterEdge, KeepTDR
<1>. QED
  BY <1>1, <1>2

LEMMA Levels == SenderTypes => Level \in Bit /\ Before \in Bit
<1> SUFFICES ASSUME SenderTypes PROVE Level \in Bit /\ Before \in Bit
  OBVIOUS
<1>1. /\ tx_shift[tx_idx] \in Bit /\ tx_shift[NBits - 1] \in Bit
      /\ tx_idx # 0 => tx_shift[tx_idx - 1] \in Bit
  BY Clocks DEF SenderTypes, Byte
<1>. QED
  BY <1>1 DEF Level, Before, Bit

LEMMA SenderTypesStep ==
  ASSUME SoftwareTypes, BusInv, SenderTypes, Line, TestbenchEdge
  PROVE  SenderTypes'
<1>0. TxEdge /\ RxEdge(tx)
  BY DEF TestbenchEdge, Hardware
<1>1. tx_valid' \in BOOLEAN /\ uart_tdr' \in Byte
  <2>1. tx_valid' \in BOOLEAN
    BY DEF TestbenchEdge, Hardware, RegisterEdge, WriteTDR, KeepTDR
  <2>2. uart_tdr' = TDR \/ uart_tdr' = uart_tdr
    BY WritesTDR
  <2>. QED
    BY <2>1, <2>2 DEF SenderTypes, SoftwareTypes
<1>2. /\ tx_state' \in {"IDLE", "START", "DATA", "STOP"}
      /\ tx_cnt' \in 0 .. CLKS_PER_BIT - 1 /\ tx_idx' \in 0 .. NBits - 1
      /\ tx_ready' \in BOOLEAN /\ tx_shift' \in Byte
  <2>1. CASE TxIdle
    BY <2>1, Clocks DEF TxIdle, SenderTypes
  <2>2. CASE TxStart
    BY <2>2, Clocks DEF TxStart, TxCount, TxBitEnds, SenderTypes
  <2>3. CASE TxData
    BY <2>3, Clocks DEF TxData, TxCount, TxBitEnds, SenderTypes
  <2>4. CASE TxStop
    BY <2>4, Clocks DEF TxStop, TxCount, TxBitEnds, SenderTypes
  <2>. QED
    BY <1>0, <2>1, <2>2, <2>3, <2>4 DEF TxEdge
<1>3. rx_shift' \in Byte
  <2>1. [rx_shift EXCEPT ![rx_idx] = rx_sync] \in Byte
    <3>1. rx_sync \in Bit
      BY Levels DEF Line, Shows
    <3>. QED
      BY <3>1 DEF SenderTypes, Byte
  <2>. QED
    BY <1>0, <2>1 DEF RxEdge, RxIdle, RxStart, RxData, RxStop, SenderTypes
<1>. QED
  BY <1>1, <1>2, <1>3 DEF SenderTypes

\* A byte is written to TDR only while the transmitter rests.
LEMMA WritesAtRest ==
  ASSUME SoftwareTypes, BusInv, SendInv, TestbenchEdge, tx_valid'
  PROVE  tx_state = "IDLE" /\ tx_ready /\ ~tx_valid
<1>1. Axi!WrEn /\ Sending
  BY WritesTDR
<1>2. issued /\ ~Axi!Responded
  BY <1>1, BusStep
<1>3. ~axi_bvalid
  BY <1>2 DEF Axi!Responded
<1>. QED
  BY <1>1, <1>3 DEF SendInv

LEMMA SendStep ==
  ASSUME SoftwareTypes, BusInv, SenderTypes, SendInv, TestbenchEdge
  PROVE  SendInv'
<1>0. TxEdge
  BY DEF TestbenchEdge, Hardware
<1>1. IF issued /\ Axi!Responded
      THEN ~issued' /\ pc' \in Testbench(axi_rdata) /\ ~Axi!WrEn /\ ~Axi!RdEn
      ELSE pc' = pc /\ TDR' = TDR /\ (issued => issued')
  BY BusStep
<1>2. (tx_valid' <=> Axi!WrEn /\ Sending) /\ uart_tdr' = IF tx_valid' THEN TDR ELSE uart_tdr
  BY WritesTDR
<1>3. /\ (axi_bvalid' <=> Axi!WrEn) /\ (axi_rvalid' <=> Axi!RdEn)
      /\ Axi!WrEn => issued
      /\ Axi!RdEn => issued /\ axi_araddr = Access.addr /\ axi_rdata' = reg_data_out
      /\ (axi_bvalid => pc \in {"cr", "tdr", "put"})
      /\ (axi_rvalid => pc \notin {"cr", "tdr", "put"})
      /\ (Axi!Responded => axi_bvalid \/ axi_rvalid)
  BY BusStep DEF Axi!Responded
<1>4. tx_valid' <=> issued' /\ Sending' /\ axi_bvalid'
  <2>1. CASE Axi!WrEn
    <3>1. issued' /\ pc' = pc
      BY <1>1, <1>3, <2>1
    <3>. QED
      BY <1>2, <1>3, <2>1, <3>1 DEF Sending
  <2>2. CASE ~Axi!WrEn
    BY <1>2, <1>3, <2>2
  <2>. QED
    BY <2>1, <2>2
<1>5. Axi!WrEn /\ Sending => tx_state = "IDLE" /\ tx_ready /\ ~tx_valid
  BY <1>2, WritesAtRest
<1>6. tx_state = "IDLE" /\ tx_ready /\ ~tx_valid => tx_state' = "IDLE" /\ tx_ready'
  BY <1>0 DEF TxEdge, TxIdle, TxStart, TxData, TxStop
<1>7. tx_valid' => tx_state' = "IDLE" /\ uart_tdr' = TDR'
  <2> SUFFICES ASSUME tx_valid' PROVE tx_state' = "IDLE" /\ uart_tdr' = TDR'
    OBVIOUS
  <2>1. Axi!WrEn /\ Sending
    BY <1>2
  <2>2. TDR' = TDR
    BY <1>1, <2>1
  <2>. QED
    BY <1>2, <1>5, <1>6, <2>1, <2>2
<1>8. tx_ready' => tx_state' = "IDLE"
  BY <1>0 DEF TxEdge, TxIdle, TxStart, TxData, TxStop, SendInv
<1>9. Sending' /\ ~(issued' /\ axi_bvalid') => tx_state' = "IDLE" /\ tx_ready'
  <2> SUFFICES ASSUME Sending', ~(issued' /\ axi_bvalid') PROVE tx_state' = "IDLE" /\ tx_ready'
    OBVIOUS
  <2>1. CASE issued /\ Axi!Responded
    <3>1. pc' \in Testbench(axi_rdata) /\ pc' \in {"tdr", "put"}
      BY <1>1, <2>1 DEF Sending
    <3>2. pc \in {"ready", "poll"} /\ axi_rdata.word.tx_ready
      BY <3>1 DEF Testbench, SoftwareTypes
    <3>3. axi_rvalid
      BY <1>3, <2>1, <3>2
    <3>4. tx_ready /\ ~tx_valid
      BY <2>1, <3>2, <3>3 DEF SendInv, Sending
    <3>. QED
      BY <1>6, <3>4 DEF SendInv
  <2>2. CASE ~(issued /\ Axi!Responded)
    <3>1. Sending
      BY <1>1, <2>2 DEF Sending
    <3>2. ~(issued /\ axi_bvalid)
      BY <2>2 DEF Axi!Responded
    <3>. QED
      BY <1>6, <3>1, <3>2 DEF SendInv
  <2>. QED
    BY <2>1, <2>2
<1>10. pc' \in {"ready", "poll"} /\ issued' /\ axi_rvalid' /\ (axi_rdata').word.tx_ready => tx_ready'
  <2> SUFFICES ASSUME pc' \in {"ready", "poll"}, issued', axi_rvalid', (axi_rdata').word.tx_ready
               PROVE  tx_ready'
    OBVIOUS
  <2>1. Axi!RdEn /\ pc' = pc
    BY <1>1, <1>3
  <2>2. axi_araddr = SR_ADDR
    BY <1>3, <2>1, Accesses DEF SR_ADDR
  <2>3. axi_rdata' = StatusWord(rx_flag, tx_ready)
    BY <1>3, <2>1, <2>2 DEF reg_data_out, SR_ADDR, TDR_ADDR, RDR_ADDR, CR_ADDR
  <2>4. tx_ready /\ ~tx_valid
    BY <2>1, <2>3 DEF StatusWord, SendInv, Sending
  <2>. QED
    BY <1>6, <2>4 DEF SendInv
<1>. QED
  BY <1>4, <1>7, <1>8, <1>9, <1>10 DEF SendInv

LEMMA LineStep ==
  ASSUME SenderTypes, Line, TxEdge, RxEdge(tx)
  PROVE  Line'
<1> USE Clocks
<1>0. rx_sync0' = tx /\ rx_sync' = rx_sync0
  BY DEF RxEdge
<1>1. ASSUME tx_state # "IDLE", tx' = Level,
             IF TxBitEnds THEN tx_cnt' = 0 /\ Before' = Level
             ELSE tx_cnt' = tx_cnt + 1 /\ Before' = Before /\ Level' = Level
      PROVE  Line'
  <2>1. CASE TxBitEnds
    <3>1. tx = Level /\ rx_sync0 = Level
      BY <2>1 DEF TxBitEnds, Line, Shows
    <3>. QED
      BY <1>0, <1>1, <2>1, <3>1 DEF Line, Shows
  <2>2. CASE ~TxBitEnds
    BY <1>0, <1>1, <2>2 DEF Line, Shows, SenderTypes
  <2>. QED
    BY <2>1, <2>2
<1>2. CASE TxIdle
  <2>1. Level = 1 /\ Before = 1 /\ tx' = 1 /\ tx_state' \in {"IDLE", "START"}
        /\ (tx_state' = "START" => tx_cnt' = 0)
    BY <1>2 DEF TxIdle, Level, Before
  <2>2. Before' = 1 /\ (tx_state' = "IDLE" => Level' = 1)
    BY <2>1 DEF Level, Before
  <2>. QED
    BY <1>0, <2>1, <2>2 DEF Line, Shows
<1>3. CASE TxStart
  <2>1. /\ tx_state = "START" /\ tx' = Level /\ Level = 0
        /\ IF TxBitEnds THEN tx_state' = "DATA" /\ tx_idx' = 0 /\ tx_cnt' = 0
           ELSE tx_state' = "START" /\ tx_cnt' = tx_cnt + 1
    BY <1>3 DEF TxStart, TxCount, Level
  <2>2. IF TxBitEnds THEN Before' = Level ELSE Before' = Before /\ Level' = Level
    BY <2>1 DEF Level, Before
  <2>. QED
    BY <1>1, <2>1, <2>2
<1>4. CASE TxData
  <2>1. /\ tx_state = "DATA" /\ tx' = Level /\ Level = tx_shift[tx_idx] /\ tx_shift' = tx_shift
        /\ tx_cnt' = IF TxBitEnds THEN 0 ELSE tx_cnt + 1
        /\ tx_state' = IF TxBitEnds /\ tx_idx = NBits - 1 THEN "STOP" ELSE "DATA"
        /\ tx_idx' = IF TxBitEnds /\ tx_idx < NBits - 1 THEN tx_idx + 1 ELSE tx_idx
    BY <1>4 DEF TxData, TxCount, Level
  <2>2. IF TxBitEnds THEN Before' = Level ELSE Before' = Before /\ Level' = Level
    BY <2>1 DEF Level, Before, SenderTypes
  <2>. QED
    BY <1>1, <2>1, <2>2
<1>5. CASE TxStop
  <2>1. /\ tx_state = "STOP" /\ tx' = Level /\ Level = 1 /\ tx_shift' = tx_shift
        /\ tx_cnt' = IF TxBitEnds THEN 0 ELSE tx_cnt + 1
        /\ tx_state' = IF TxBitEnds THEN "IDLE" ELSE "STOP"
    BY <1>5 DEF TxStop, TxCount, Level
  <2>2. IF TxBitEnds THEN Before' = Level ELSE Before' = Before /\ Level' = Level
    BY <2>1 DEF Level, Before
  <2>. QED
    BY <1>1, <2>1, <2>2
<1>. QED
  BY <1>2, <1>3, <1>4, <1>5 DEF TxEdge

\* The receiver makes the step that keeps it Lag clocks behind.
LEMMA FollowStep ==
  ASSUME SenderTypes, Line, Following, TxEdge, RxEdge(tx)
  PROVE  /\ Following'
         /\ rx_valid' <=> tx_state = "STOP" /\ tx_cnt = Lag - 1
<1> USE Clocks
<1> DEFINE Next(st, idx, cnt) == rx_state' = st /\ rx_idx' = idx /\ rx_cnt' = cnt
<1>1. /\ tx_cnt \in 0 .. CLKS_PER_BIT - 1 /\ tx_idx \in 0 .. NBits - 1
      /\ rx_sync = IF tx_cnt < 3 THEN Before ELSE Level
      /\ RxIdle \/ RxStart \/ RxData \/ RxStop
  BY DEF SenderTypes, Line, Shows, RxEdge
<1>2. CASE TxIdle
  <2>1. tx_state = "IDLE" /\ rx_state = "IDLE" /\ rx_sync = 1
    BY <1>1, <1>2 DEF TxIdle, Following, Level, Before
  <2>2. rx_state' = "IDLE" /\ rx_valid' = FALSE
    BY <1>1, <2>1 DEF RxIdle, RxStart, RxData, RxStop
  <2>3. tx_state' = "IDLE" \/ (tx_state' = "START" /\ tx_cnt' = 0)
    BY <1>2 DEF TxIdle
  <2>. QED
    BY <2>1, <2>2, <2>3 DEF Following
<1>3. CASE TxStart
  <2>1. /\ tx_state = "START"
        /\ rx_sync = IF tx_cnt < 3 THEN 1 ELSE 0
        /\ IF TxBitEnds THEN tx_state' = "DATA" /\ tx_idx' = 0 /\ tx_cnt' = 0
           ELSE tx_state' = "START" /\ tx_cnt' = tx_cnt + 1
    BY <1>1, <1>3 DEF TxStart, TxCount, Level, Before
  <2>2. CASE tx_cnt < 4
    <3>1. rx_state = "IDLE"
      BY <2>1, <2>2 DEF Following
    <3>2. /\ rx_valid' = FALSE /\ ~TxBitEnds
          /\ IF tx_cnt < 3 THEN rx_state' = "IDLE" ELSE Next("START", 0, 0)
      BY <1>1, <2>1, <2>2, <3>1 DEF RxIdle, RxStart, RxData, RxStop, RxAt, TxBitEnds
    <3>. QED
      BY <1>1, <2>1, <2>2, <3>2 DEF Following, RxAt
  <2>3. CASE tx_cnt >= 4 /\ tx_cnt < Lag
    <3>1. RxAt("START", 0, tx_cnt - 4)
      BY <1>1, <2>1, <2>3 DEF Following
    <3>2. /\ rx_valid' = FALSE
          /\ IF tx_cnt = Lag - 1 THEN Next("DATA", 0, 0) ELSE Next("START", 0, tx_cnt + 1 - 4)
      BY <1>1, <2>1, <2>3, <3>1 DEF RxIdle, RxStart, RxData, RxStop, RxAt
    <3>. QED
      BY <1>1, <2>1, <2>3, <3>2 DEF Following, RxAt, TxBitEnds
  <2>4. CASE tx_cnt >= Lag
    <3>1. RxAt("DATA", 0, tx_cnt - Lag)
      BY <1>1, <2>1, <2>4 DEF Following
    <3>2. rx_valid' = FALSE /\ Next("DATA", 0, tx_cnt + 1 - Lag)
      BY <1>1, <2>1, <2>4, <3>1 DEF RxIdle, RxStart, RxData, RxStop, RxAt, RxBitEnds
    <3>. QED
      BY <1>1, <2>1, <2>4, <3>2 DEF Following, RxAt, TxBitEnds
  <2>. QED
    BY <1>1, <2>2, <2>3, <2>4
<1>4. CASE TxData
  <2>1. /\ tx_state = "DATA"
        /\ tx_cnt' = IF TxBitEnds THEN 0 ELSE tx_cnt + 1
        /\ tx_state' = IF TxBitEnds /\ tx_idx = NBits - 1 THEN "STOP" ELSE "DATA"
        /\ tx_idx' = IF TxBitEnds /\ tx_idx < NBits - 1 THEN tx_idx + 1 ELSE tx_idx
    BY <1>4 DEF TxData, TxCount
  <2>2. CASE tx_cnt < Lag
    <3>1. RxAt("DATA", tx_idx, tx_cnt + CLKS_PER_BIT - Lag)
      BY <1>1, <2>1, <2>2 DEF Following
    <3>2. /\ rx_valid' = FALSE
          /\ IF tx_cnt # Lag - 1 THEN Next("DATA", tx_idx, tx_cnt + 1 + CLKS_PER_BIT - Lag)
             ELSE IF tx_idx < NBits - 1 THEN Next("DATA", tx_idx + 1, 0)
             ELSE Next("STOP", tx_idx, 0)
      BY <1>1, <2>1, <2>2, <3>1 DEF RxIdle, RxStart, RxData, RxStop, RxAt, RxBitEnds
    <3>. QED
      BY <1>1, <2>1, <2>2, <3>2 DEF Following, RxAt, TxBitEnds
  <2>3. CASE tx_cnt >= Lag /\ tx_idx < NBits - 1
    <3>1. RxAt("DATA", tx_idx + 1, tx_cnt - Lag)
      BY <1>1, <2>1, <2>3 DEF Following
    <3>2. rx_valid' = FALSE /\ Next("DATA", tx_idx + 1, tx_cnt + 1 - Lag)
      BY <1>1, <2>1, <2>3, <3>1 DEF RxIdle, RxStart, RxData, RxStop, RxAt, RxBitEnds
    <3>. QED
      BY <1>1, <2>1, <2>3, <3>2 DEF Following, RxAt, TxBitEnds
  <2>4. CASE tx_cnt >= Lag /\ tx_idx = NBits - 1
    <3>1. RxAt("STOP", NBits - 1, tx_cnt - Lag)
      BY <1>1, <2>1, <2>4 DEF Following
    <3>2. RxStop /\ ~RxBitEnds
      BY <1>1, <2>4, <3>1 DEF RxIdle, RxStart, RxData, RxAt, RxBitEnds
    <3>3. Next("STOP", NBits - 1, tx_cnt + 1 - Lag)
      BY <1>1, <2>4, <3>1, <3>2 DEF RxStop, RxAt
    <3>4. ~rx_valid'
      BY <3>2 DEF RxStop
    <3>. QED
      BY <1>1, <2>1, <2>4, <3>3, <3>4 DEF Following, RxAt, TxBitEnds
  <2>. QED
    BY <1>1, <2>2, <2>3, <2>4
<1>5. CASE TxStop
  <2>1. /\ tx_state = "STOP"
        /\ tx_cnt' = IF TxBitEnds THEN 0 ELSE tx_cnt + 1
        /\ tx_state' = IF TxBitEnds THEN "IDLE" ELSE "STOP"
        /\ tx_cnt >= 3 => rx_sync = 1
    BY <1>1, <1>5 DEF TxStop, TxCount, Level
  <2>2. CASE tx_cnt < Lag
    <3>1. RxAt("STOP", NBits - 1, tx_cnt + CLKS_PER_BIT - Lag)
      BY <1>1, <2>1, <2>2 DEF Following
    <3>2. RxStop /\ (RxBitEnds <=> tx_cnt = Lag - 1)
      BY <1>1, <2>2, <3>1 DEF RxIdle, RxStart, RxData, RxAt, RxBitEnds
    <3>3. IF tx_cnt # Lag - 1 THEN Next("STOP", NBits - 1, tx_cnt + 1 + CLKS_PER_BIT - Lag)
          ELSE rx_state' = "IDLE"
      BY <1>1, <2>2, <3>1, <3>2 DEF RxStop, RxAt
    <3>4. rx_valid' <=> tx_cnt = Lag - 1
      BY <3>2 DEF RxStop
    <3>5. Following'
      BY <1>1, <2>1, <2>2, <3>3 DEF Following, RxAt, TxBitEnds
    <3>. QED
      BY <2>1, <3>4, <3>5
  <2>3. CASE tx_cnt >= Lag
    <3>1. rx_state = "IDLE"
      BY <1>1, <2>1, <2>3 DEF Following
    <3>2. rx_valid' = FALSE /\ rx_state' = "IDLE"
      BY <1>1, <2>1, <2>3, <3>1 DEF RxIdle, RxStart, RxData, RxStop
    <3>. QED
      BY <1>1, <2>1, <2>3, <3>2 DEF Following, TxBitEnds
  <2>. QED
    BY <1>1, <2>2, <2>3
<1>. QED
  BY <1>2, <1>3, <1>4, <1>5 DEF TxEdge

\* At the end of its bit the receiver takes the bit of the same number.
LEMMA Sample ==
  ASSUME SenderTypes, Line, Following
  PROVE  /\ rx_state = "DATA" => tx_state \in {"START", "DATA"} /\ rx_idx \in 0 .. NBits - 1
         /\ rx_state = "STOP" => tx_state \in {"DATA", "STOP"}
         /\ rx_state = "DATA" /\ RxBitEnds => rx_idx = tx_idx /\ rx_sync = tx_shift[tx_idx]
<1> USE Clocks
<1>1. /\ tx_state \in {"IDLE", "START", "DATA", "STOP"}
      /\ tx_cnt \in 0 .. CLKS_PER_BIT - 1 /\ tx_idx \in 0 .. NBits - 1
  BY DEF SenderTypes
<1>2. ASSUME rx_state = "DATA", RxBitEnds PROVE rx_idx = tx_idx /\ rx_sync = tx_shift[tx_idx]
  <2>1. tx_state = "DATA" /\ tx_cnt = Lag - 1 /\ rx_idx = tx_idx
    BY <1>1, <1>2 DEF Following, RxAt, RxBitEnds
  <2>. QED
    BY <1>1, <2>1 DEF Line, Shows, Level
<1>3. rx_state = "DATA" => tx_state \in {"START", "DATA"} /\ rx_idx \in 0 .. NBits - 1
  BY <1>1 DEF Following, RxAt
<1>4. rx_state = "STOP" => tx_state \in {"DATA", "STOP"}
  BY <1>1 DEF Following, RxAt
<1>. QED
  BY <1>2, <1>3, <1>4

LEMMA ReceivedStep ==
  ASSUME SoftwareTypes, BusInv, SenderTypes, SendInv, Line, Following, Received, TestbenchEdge
  PROVE  Received'
<1> USE Clocks
<1>1. /\ TxEdge /\ RxEdge(tx)
      /\ owed' = (IF tx_valid' THEN 1 ELSE 0) + (IF rx_valid' THEN 0 ELSE owed)
  BY DEF TestbenchEdge, Hardware
<1>2. /\ tx_valid' => tx_state = "IDLE" /\ ~tx_valid
      /\ ~tx_valid' => uart_tdr' = uart_tdr
  BY WritesTDR, WritesAtRest
<1>3. rx_valid' <=> tx_state = "STOP" /\ tx_cnt = Lag - 1
  BY <1>1, FollowStep
<1>4. /\ tx_cnt \in 0 .. CLKS_PER_BIT - 1 /\ NBits - 1 \in 0 .. NBits - 1
      /\ rx_shift \in Byte /\ tx_shift \in Byte
  BY DEF SenderTypes
<1>5. tx_state # "IDLE" => tx_shift' = tx_shift
  BY <1>1 DEF TxEdge, TxIdle, TxStart, TxData, TxStop
<1>6. ASSUME tx_state' # "IDLE" PROVE uart_tdr' = tx_shift'
  <2>1. CASE tx_state = "IDLE"
    BY <1>1, <1>2, <1>6, <2>1 DEF TxEdge, TxIdle, TxStart, TxData, TxStop
  <2>2. CASE tx_state # "IDLE"
    BY <1>2, <1>5, <2>2 DEF Received
  <2>. QED
    BY <2>1, <2>2
<1>7. ASSUME RxData
      PROVE  /\ tx_shift' = tx_shift
             /\ ~RxBitEnds => UNCHANGED << rx_shift, rx_idx, rx_state >>
             /\ RxBitEnds => /\ rx_shift' = [rx_shift EXCEPT ![rx_idx] = tx_shift[rx_idx]]
                             /\ rx_idx \in 0 .. NBits - 1
                             /\ IF rx_idx = NBits - 1 THEN rx_state' = "STOP"
                                ELSE rx_state' = "DATA" /\ rx_idx' = rx_idx + 1
  <2>1. rx_state = "DATA"
    BY <1>7 DEF RxData
  <2>2. /\ tx_shift' = tx_shift /\ rx_idx \in 0 .. NBits - 1
        /\ RxBitEnds => rx_idx = tx_idx /\ rx_sync = tx_shift[tx_idx]
    BY <1>5, <2>1, Sample
  <2>3. ~RxBitEnds => UNCHANGED << rx_shift, rx_idx, rx_state >>
    BY <1>7 DEF RxData
  <2>4. RxBitEnds => /\ rx_shift' = [rx_shift EXCEPT ![rx_idx] = rx_sync]
                     /\ IF rx_idx = NBits - 1 THEN rx_state' = "STOP"
                        ELSE rx_state' = "DATA" /\ (rx_idx < NBits - 1 => rx_idx' = rx_idx + 1)
    BY <1>7 DEF RxData
  <2>5. rx_idx # NBits - 1 => rx_idx < NBits - 1
    BY <2>2
  <2>. QED
    BY <2>2, <2>3, <2>4, <2>5
<1>8. ASSUME rx_state' = "DATA" PROVE (\A i \in 0 .. rx_idx - 1 : rx_shift[i] = tx_shift[i])'
  <2>1. CASE RxStart
    <3>1. rx_state = "START" /\ rx_idx' = rx_idx
      BY <2>1 DEF RxStart
    <3>2. rx_idx = 0
      BY <1>4, <3>1 DEF Following, RxAt, SenderTypes
    <3>. QED
      BY <3>1, <3>2
  <2>2. CASE RxData /\ ~RxBitEnds
    <3>1. rx_state = "DATA"
      BY <2>2 DEF RxData
    <3>. QED
      BY <1>7, <2>2, <3>1 DEF Received
  <2>3. CASE RxData /\ RxBitEnds
    <3>1. rx_state = "DATA"
      BY <2>3 DEF RxData
    <3>2. /\ tx_shift' = tx_shift /\ rx_idx \in 0 .. NBits - 1 /\ rx_idx' = rx_idx + 1
          /\ rx_shift' = [rx_shift EXCEPT ![rx_idx] = tx_shift[rx_idx]]
      BY <1>7, <1>8, <2>3
    <3>. QED
      BY <1>4, <3>1, <3>2 DEF Received, Byte
  <2>. QED
    BY <1>1, <1>8, <2>1, <2>2, <2>3 DEF RxEdge, RxIdle, RxStop
<1>9. ASSUME rx_state' = "STOP" PROVE rx_shift' = tx_shift'
  <2>1. CASE RxData /\ ~RxBitEnds
    BY <1>7, <1>9, <2>1 DEF RxData
  <2>2. CASE RxData /\ RxBitEnds
    <3>1. rx_state = "DATA"
      BY <2>2 DEF RxData
    <3>2. /\ tx_shift' = tx_shift /\ rx_idx = NBits - 1
          /\ rx_shift' = [rx_shift EXCEPT ![rx_idx] = tx_shift[rx_idx]]
      BY <1>7, <1>9, <2>2
    <3>3. \A i \in 0 .. NBits - 1 : rx_shift'[i] = tx_shift[i]
      BY <1>4, <3>1, <3>2 DEF Received, Byte
    <3>4. rx_shift' \in Byte
      BY <1>4, <3>2 DEF Byte
    <3>. QED
      BY <1>4, <3>2, <3>3, <3>4 DEF Byte
  <2>3. CASE RxStop
    <3>1. rx_state = "STOP" /\ rx_shift' = rx_shift
      BY <2>3 DEF RxStop
    <3>. QED
      BY <1>5, <3>1, Sample DEF Received
  <2>. QED
    BY <1>1, <1>9, <2>1, <2>2, <2>3 DEF RxEdge, RxIdle, RxStart
<1>10. owed' = IF \/ tx_valid'
                  \/ tx_state' \in {"START", "DATA"}
                  \/ tx_state' = "STOP" /\ tx_cnt' < Lag
               THEN 1 ELSE 0
  <2>1. CASE TxIdle
    BY <1>1, <1>2, <1>3, <2>1 DEF TxIdle, Received
  <2>2. CASE TxStart \/ TxData
    <3>1. tx_state \in {"START", "DATA"} /\ tx_state' \in {"START", "DATA", "STOP"}
      BY <2>2 DEF TxStart, TxData
    <3>2. tx_state' = "STOP" => tx_cnt' = 0
      BY <2>2 DEF TxStart, TxData, TxCount
    <3>3. owed = 1 /\ ~tx_valid' /\ ~rx_valid'
      BY <1>2, <1>3, <3>1 DEF Received
    <3>. QED
      BY <1>1, <3>1, <3>2, <3>3
  <2>3. CASE TxStop
    <3>1. /\ tx_state = "STOP" /\ ~tx_valid'
          /\ IF tx_cnt = CLKS_PER_BIT - 1 THEN tx_state' = "IDLE"
             ELSE tx_state' = "STOP" /\ tx_cnt' = tx_cnt + 1
      BY <1>2, <2>3 DEF TxStop, TxCount, TxBitEnds
    <3>2. owed = (IF tx_cnt < Lag THEN 1 ELSE 0)
      BY <3>1, <1>2 DEF Received, SendInv
    <3>3. rx_valid' <=> tx_cnt = Lag - 1
      BY <1>3, <3>1
    <3>4. owed' = IF tx_cnt + 1 < Lag THEN 1 ELSE 0
      BY <1>1, <1>4, <3>1, <3>2, <3>3
    <3>. QED
      BY <1>4, <3>1, <3>4
  <2>. QED
    BY <1>1, <2>1, <2>2, <2>3 DEF TxEdge
<1>11. ASSUME rx_valid' PROVE rx_data' = uart_tdr' /\ owed' = 0
  <2>1. tx_state = "STOP" /\ tx_cnt = Lag - 1 /\ ~tx_valid' /\ uart_tdr' = uart_tdr
    BY <1>2, <1>3, <1>11
  <2>2. RxStop
    BY <1>1, <1>11 DEF RxEdge, RxIdle, RxStart, RxData
  <2>3. rx_state = "STOP" /\ rx_data' = rx_shift
    BY <1>11, <2>2 DEF RxStop
  <2>4. rx_data' = uart_tdr'
    BY <2>1, <2>3 DEF Received
  <2>. QED
    BY <1>1, <1>11, <2>1, <2>4
<1>. QED
  BY <1>6, <1>8, <1>9, <1>10, <1>11 DEF Received

\* A byte on its way to the software, at an edge at which none is written.
LEMMA ByteMoves ==
  ASSUME SoftwareTypes, BusInv, SenderTypes, Line, Following, Received, TestbenchEdge,
         ~tx_valid', NEW reads \in BOOLEAN, RdrEdge(reads), uart_tdr = TDR, TDR' = TDR
  PROVE  /\ Flying => Flying' \/ Arriving'
         /\ Arriving /\ ~reads => Arrived'
         /\ Arrived /\ ~reads => Arrived'
<1>1. /\ owed' = IF rx_valid' THEN 0 ELSE owed
      /\ rx_valid' => owed = 1
      /\ rx_valid' \in BOOLEAN
  <2>1. rx_valid' <=> tx_state = "STOP" /\ tx_cnt = Lag - 1
    BY FollowStep DEF TestbenchEdge, Hardware
  <2>2. rx_valid' => owed = 1
    BY <2>1, Clocks DEF Received
  <2>3. owed \in {0, 1}
    BY DEF Received
  <2>4. rx_valid' \in BOOLEAN
    BY DEF TestbenchEdge, Hardware, RxEdge, RxIdle, RxStart, RxData, RxStop, RxBitEnds
  <2>5. owed' = (IF tx_valid' THEN 1 ELSE 0) + (IF rx_valid' THEN 0 ELSE owed)
    BY DEF TestbenchEdge, Hardware
  <2>. QED
    BY <2>2, <2>3, <2>4, <2>5
<1>2. /\ uart_rdr' = IF rx_valid THEN rx_data ELSE uart_rdr
      /\ rx_flag' <=> ~reads /\ (rx_valid \/ rx_flag)
  BY DEF RdrEdge
<1>3. Flying => Flying' \/ Arriving'
  BY <1>1, <1>2 DEF Flying, Arriving
<1>4. Arriving /\ ~reads => Arrived'
  BY <1>1, <1>2 DEF Arriving, Arrived, Received
<1>5. Arrived /\ ~reads => Arrived'
  BY <1>1, <1>2 DEF Arrived
<1>. QED
  BY <1>3, <1>4, <1>5

LEMMA ByteStep ==
  ASSUME SoftwareTypes, BusInv, SenderTypes, SendInv, Line, Following, Received, ByteInv,
         TestbenchEdge
  PROVE  ByteInv'
<1> DEFINE reads == Axi!RdEn /\ axi_araddr = RDR_ADDR
<1>1. /\ IF issued /\ Axi!Responded
         THEN /\ ~issued' /\ pc' \in Testbench(axi_rdata) /\ ~Axi!WrEn /\ ~Axi!RdEn
              /\ pc' \notin {"tdr", "put"} => TDR' = TDR
         ELSE pc' = pc /\ TDR' = TDR /\ (issued => issued')
      /\ (axi_bvalid' <=> Axi!WrEn) /\ (axi_rvalid' <=> Axi!RdEn)
      /\ Axi!RdEn => issued /\ axi_araddr = Access.addr /\ axi_rdata' = reg_data_out
                     /\ pc \notin {"cr", "tdr", "put"}
      /\ Axi!WrEn => pc \in {"cr", "tdr", "put"}
      /\ ~issued /\ issued' /\ pc = "intr" => intr \/ rx_flag
      /\ axi_bvalid => pc \in {"cr", "tdr", "put"}
      /\ axi_rvalid => pc \notin {"cr", "tdr", "put"}
  BY BusStep
<1>2. (tx_valid' <=> Axi!WrEn /\ Sending) /\ uart_tdr' = IF tx_valid' THEN TDR ELSE uart_tdr
  BY WritesTDR
<1>3. (tx_valid <=> issued /\ Sending /\ axi_bvalid) /\ (tx_valid => uart_tdr = TDR)
  BY DEF SendInv
<1>4. RdrEdge(reads) /\ reads \in BOOLEAN
  BY DEF TestbenchEdge, Hardware, RegisterEdge
<1>5. reads <=> Axi!RdEn /\ pc \in {"intr", "rdr"}
  <2>1. Axi!RdEn => (axi_araddr = RDR_ADDR <=> pc \in {"intr", "rdr"})
    BY <1>1, Accesses DEF RDR_ADDR, SoftwareTypes
  <2>. QED
    BY <2>1
<1>6. /\ owed' = (IF tx_valid' THEN 1 ELSE 0) + (IF rx_valid' THEN 0 ELSE owed)
      /\ rx_valid' => owed = 1
      /\ tx_valid => owed = 1
  <2>1. rx_valid' <=> tx_state = "STOP" /\ tx_cnt = Lag - 1
    BY FollowStep DEF TestbenchEdge, Hardware
  <2>2. (rx_valid' => owed = 1) /\ (tx_valid => owed = 1)
    BY <2>1, Clocks DEF Received
  <2>. QED
    BY <2>2 DEF TestbenchEdge, Hardware
\* With no byte under way there is none at the next edge, but for the one written.
<1>7. ASSUME ~rx_flag, ~rx_valid, owed = 0
      PROVE  ~rx_flag' /\ ~rx_valid' /\ (tx_valid' \/ owed' = 0)
  <2>1. ~rx_flag'
    BY <1>4, <1>7 DEF RdrEdge
  <2>2. ~rx_valid'
    BY <1>6, <1>7
  <2>3. ~tx_valid' => owed' = 0
    BY <1>6, <1>7, <2>2
  <2>. QED
    BY <2>1, <2>2, <2>3
<1>8. ASSUME ~tx_valid', uart_tdr = TDR, TDR' = TDR
      PROVE  /\ Flying => Flying' \/ Arriving'
             /\ Arriving /\ ~reads => Arrived'
             /\ Arrived /\ ~reads => Arrived'
  BY <1>4, <1>8, ByteMoves
\* The byte written to TDR is on its way once the write completes.
<1>9. ASSUME pc = "tdr", issued, Axi!Responded
      PROVE  /\ ~tx_valid' /\ uart_tdr = TDR /\ TDR' = TDR /\ ~reads /\ Flying
             /\ pc' \in {"flag", "intr"} /\ ~issued'
  <2>1. axi_bvalid /\ tx_valid
    BY <1>1, <1>3, <1>9 DEF Axi!Responded, Sending
  <2>2. pc' \in {"flag", "intr"} /\ ~issued' /\ TDR' = TDR
    BY <1>1, <1>9 DEF Testbench
  <2>3. Flying
    BY <1>6, <1>9, <2>1 DEF Flying, ByteInv
  <2>. QED
    BY <1>1, <1>2, <1>3, <1>9, <2>1, <2>2, <2>3
<1>10. ASSUME pc \in {"flag", "intr", "rdr"}
       PROVE  /\ ~tx_valid' /\ uart_tdr = TDR
              /\ pc' # "ready" => TDR' = TDR
  BY <1>1, <1>2, <1>10 DEF Sending, ByteInv, Testbench
<1>11. ASSUME pc' \in {"cr", "ready", "tdr"}
       PROVE  ~rx_flag' /\ ~rx_valid' /\ (tx_valid' \/ owed' = 0)
  <2> SUFFICES ~rx_flag /\ ~rx_valid /\ owed = 0
    BY <1>7
  <2>1. CASE issued /\ Axi!Responded
    <3>1. pc \in {"cr", "ready", "intr", "rdr"}
      BY <1>1, <1>11, <2>1 DEF Testbench, SoftwareTypes
    <3>2. pc \in {"intr", "rdr"} => axi_rvalid
      BY <1>1, <2>1 DEF Axi!Responded
    <3>. QED
      BY <1>3, <2>1, <3>1, <3>2 DEF ByteInv, Taken, Sending
  <2>2. CASE ~(issued /\ Axi!Responded)
    <3>1. pc \in {"cr", "ready", "tdr"} /\ ~tx_valid
      BY <1>1, <1>3, <1>11, <2>2 DEF Axi!Responded
    <3>. QED
      BY <3>1 DEF ByteInv
  <2>. QED
    BY <2>1, <2>2
<1>12. ASSUME pc' \in {"flag", "intr", "rdr"} PROVE uart_tdr' = TDR'
  <2>1. CASE pc \in {"flag", "intr", "rdr"}
    BY <1>2, <1>10, <1>12, <2>1
  <2>2. CASE pc \notin {"flag", "intr", "rdr"}
    <3>1. pc = "tdr" /\ issued /\ Axi!Responded
      BY <1>1, <1>12, <2>2 DEF Testbench, SoftwareTypes
    <3>. QED
      BY <1>2, <1>9, <3>1
  <2>. QED
    BY <2>1, <2>2
<1>13. ASSUME pc' = "flag" PROVE Flying' \/ Arriving' \/ Arrived'
  <2>1. CASE pc = "flag"
    BY <1>5, <1>8, <1>10, <1>13, <2>1 DEF ByteInv
  <2>2. CASE pc # "flag"
    <3>1. pc = "tdr" /\ issued /\ Axi!Responded
      BY <1>1, <1>13, <2>2 DEF Testbench, SoftwareTypes
    <3>. QED
      BY <1>8, <1>9, <3>1
  <2>. QED
    BY <2>1, <2>2
<1>14. ASSUME pc' = "flag", issued', axi_rvalid', (axi_rdata').word.rx_flag PROVE Arrived'
  <2>1. Axi!RdEn /\ pc = "flag"
    BY <1>1, <1>14
  <2>2. axi_araddr = SR_ADDR
    BY <1>1, <2>1, Accesses DEF SR_ADDR
  <2>3. axi_rdata' = StatusWord(rx_flag, tx_ready)
    BY <1>1, <2>1, <2>2 DEF reg_data_out, SR_ADDR, TDR_ADDR, RDR_ADDR, CR_ADDR
  <2>4. rx_flag
    BY <1>14, <2>3 DEF StatusWord
  <2>5. Arrived
    BY <2>1, <2>4 DEF ByteInv, Flying, Arriving
  <2>. QED
    BY <1>5, <1>8, <1>10, <1>14, <2>1, <2>5
<1>15. ASSUME pc' = "intr", ~issued' PROVE Flying' \/ Arriving' \/ Arrived'
  <2>1. CASE pc = "intr" /\ ~issued
    BY <1>1, <1>5, <1>8, <1>10, <1>15, <2>1 DEF ByteInv
  <2>2. CASE ~(pc = "intr" /\ ~issued)
    <3>1. pc = "tdr" /\ issued /\ Axi!Responded
      BY <1>1, <1>15, <2>2 DEF Testbench, SoftwareTypes
    <3>. QED
      BY <1>8, <1>9, <3>1
  <2>. QED
    BY <2>1, <2>2
<1>16. ASSUME pc' = "rdr", ~issued' PROVE Arrived'
  <2>1. CASE pc = "rdr" /\ ~issued
    BY <1>1, <1>5, <1>8, <1>10, <1>16, <2>1 DEF ByteInv
  <2>2. CASE ~(pc = "rdr" /\ ~issued)
    <3>1. pc = "flag" /\ issued /\ Axi!Responded /\ axi_rdata.word.rx_flag
      BY <1>1, <1>16, <2>2 DEF Testbench, SoftwareTypes
    <3>2. axi_rvalid
      BY <1>1, <3>1 DEF Axi!Responded
    <3>3. Arrived
      BY <3>1, <3>2 DEF ByteInv
    <3>. QED
      BY <1>5, <1>8, <1>10, <1>16, <3>1, <3>3
  <2>. QED
    BY <2>1, <2>2
<1>17. ASSUME pc' \in {"intr", "rdr"}, issued' PROVE IF axi_rvalid' THEN Taken' ELSE Arrived'
  <2>1. pc' = pc /\ TDR' = TDR /\ ~(issued /\ Axi!Responded)
    BY <1>1, <1>17
  <2>2. CASE ~issued
    <3>1. ~axi_rvalid' /\ ~reads
      BY <1>1, <2>2
    <3>2. pc = "intr" => rx_valid \/ rx_flag
      BY <1>1, <1>17, <2>1, <2>2 DEF intr
    <3>3. Arriving \/ Arrived
      BY <1>17, <2>1, <2>2, <3>2 DEF ByteInv, Flying
    <3>. QED
      BY <1>8, <1>10, <1>17, <2>1, <3>1, <3>3
  <2>3. CASE issued
    <3>1. ~axi_rvalid /\ Arrived
      BY <1>17, <2>1, <2>3 DEF Axi!Responded, ByteInv
    <3>2. CASE ~Axi!RdEn
      BY <1>1, <1>8, <1>10, <1>17, <2>1, <3>1, <3>2
    <3>3. CASE Axi!RdEn
      <4>1. axi_araddr = RDR_ADDR
        BY <1>1, <1>17, <2>1, <3>3, Accesses DEF RDR_ADDR
      <4>2. axi_rdata' = ByteWord(uart_rdr)
        BY <1>1, <3>3, <4>1 DEF reg_data_out, SR_ADDR, TDR_ADDR, RDR_ADDR, CR_ADDR
      <4>3. (axi_rdata').word = TDR'
        BY <2>1, <3>1, <4>2 DEF Arrived, ByteWord
      <4>4. ~rx_flag'
        BY <1>4, <1>5, <1>17, <2>1, <3>3 DEF RdrEdge
      <4>5. ~rx_valid' /\ owed' = 0
        BY <1>6, <1>10, <1>17, <2>1, <3>1 DEF Arrived
      <4>. QED
        BY <1>1, <1>17, <3>3, <4>3, <4>4, <4>5 DEF Taken
    <3>. QED
      BY <3>2, <3>3
  <2>. QED
    BY <2>2, <2>3
<1>. QED
  BY <1>11, <1>12, <1>13, <1>14, <1>15, <1>16, <1>17 DEF ByteInv

-----------------------------------------------------------------------------
\* The whole invariant.

LoopInv ==
  /\ SoftwareTypes /\ BusInv
  /\ SenderTypes /\ SendInv
  /\ Line /\ Following /\ Received
  /\ ByteInv

LEMMA ResetByte == ZeroByte \in Byte
  BY Clocks DEF ZeroByte, Byte, Bit

LEMMA InitInv == Init => LoopInv
<1> SUFFICES ASSUME Init PROVE LoopInv
  OBVIOUS
<1> USE Clocks, ResetByte
<1>1. /\ tx_state = "IDLE" /\ tx_cnt = 0 /\ tx_idx = 0 /\ tx_shift = ZeroByte /\ tx = 1
      /\ rx_sync0 = 1 /\ rx_sync = 1 /\ rx_state = "IDLE" /\ rx_shift = ZeroByte
      /\ ~rx_valid /\ uart_tdr = ZeroByte /\ tx_valid = FALSE /\ tx_ready = TRUE /\ ~rx_flag
      /\ pc = "cr" /\ issued = FALSE /\ TDR = ZeroByte /\ owed = 0
  BY DEF Init, UartInit, SenderAtReset, ReceiverAtReset, RegistersAtReset
<1>2. BusInv
  <2>1. Bus!AxiInit
    BY SameBus DEF Init
  <2>. QED
    BY <1>1, <2>1, Bus!ResetFree DEF BusInv
<1>3. SoftwareTypes /\ SenderTypes
  <2>1. 0 \in 0 .. CLKS_PER_BIT - 1 /\ 0 \in 0 .. NBits - 1
    OBVIOUS
  <2>. QED
    BY <1>1, <2>1, Zenon DEF SoftwareTypes, SenderTypes
<1>4. SendInv
  BY <1>1 DEF SendInv, Sending
<1>5. Line /\ Following /\ Received
  BY <1>1 DEF Line, Shows, Level, Before, Following, Received
<1>6. ByteInv
  BY <1>1 DEF ByteInv
<1>. QED
  BY <1>2, <1>3, <1>4, <1>5, <1>6 DEF LoopInv

LEMMA ResetInv == Reset => LoopInv'
<1> SUFFICES ASSUME Reset PROVE LoopInv'
  OBVIOUS
<1> USE Clocks, ResetByte
<1>1. /\ tx_state' = "IDLE" /\ tx_cnt' = 0 /\ tx_idx' = 0 /\ tx_shift' = ZeroByte /\ tx' = 1
      /\ rx_sync0' = 1 /\ rx_sync' = 1 /\ rx_state' = "IDLE" /\ rx_shift' = ZeroByte
      /\ ~rx_valid' /\ uart_tdr' = ZeroByte /\ tx_valid' = FALSE /\ tx_ready' = TRUE /\ ~rx_flag'
      /\ pc' = "cr" /\ issued' = FALSE /\ TDR' = ZeroByte /\ owed' = 0
  BY DEF Reset, UartReset, SenderAtReset, ReceiverAtReset, RegistersAtReset
<1>2. BusInv'
  <2>1. Bus!AxiReset
    BY SameBus DEF Reset
  <2>. QED
    BY <1>1, <2>1, Bus!ResetFree DEF BusInv
<1>3. SoftwareTypes' /\ SenderTypes'
  <2>1. 0 \in 0 .. CLKS_PER_BIT - 1 /\ 0 \in 0 .. NBits - 1
    OBVIOUS
  <2>. QED
    BY <1>1, <2>1, Zenon DEF SoftwareTypes, SenderTypes
<1>4. SendInv'
  BY <1>1 DEF SendInv, Sending
<1>5. Line' /\ Following' /\ Received'
  BY <1>1 DEF Line, Shows, Level, Before, Following, Received
<1>6. ByteInv'
  BY <1>1 DEF ByteInv
<1>. QED
  BY <1>2, <1>3, <1>4, <1>5, <1>6 DEF LoopInv

LEMMA EdgeInv == LoopInv /\ TestbenchEdge => LoopInv'
<1> SUFFICES ASSUME LoopInv, TestbenchEdge PROVE LoopInv'
  OBVIOUS
<1>1. TxEdge /\ RxEdge(tx)
  BY DEF TestbenchEdge, Hardware
<1>. QED
  BY <1>1, BusStep, SenderTypesStep, SendStep, LineStep, FollowStep, ReceivedStep, ByteStep
  DEF LoopInv

LEMMA StutterInv == LoopInv /\ UNCHANGED loopVars => LoopInv'
<1> SUFFICES ASSUME LoopInv, UNCHANGED loopVars PROVE LoopInv'
  OBVIOUS
<1> USE DEF LoopInv, loopVars, uartVars, sender, receiver, registers, manager, subordinate, software
<1>1. SoftwareTypes' /\ SenderTypes' /\ SendInv'
  BY DEF SoftwareTypes, SenderTypes, SendInv, Sending
<1>2. BusInv'
  <2>1. Access' = Access
    BY DEF Access, Axi!WriteOf, Axi!ReadOf, ByteWord, ControlWord
  <2>2. Bus!Free => Bus!Free'
    BY DEF Bus!Free, Bus!WriteFree, Bus!ReadFree
  <2>3. Bus!Carries(Access) => Bus!Carries(Access)'
    BY <2>1 DEF Bus!Carries, Bus!WriteFree, Bus!ReadFree, Bus!WriteOffered, Bus!WriteAccepted,
                Bus!WriteAnswered, Bus!ReadOffered, Bus!ReadAccepted, Bus!ReadAnswered
  <2>. QED
    BY <2>2, <2>3 DEF BusInv
<1>3. Line'
  BY DEF Line, Shows, Level, Before
<1>4. Following' /\ Received'
  BY DEF Following, Received, RxAt
<1>5. ByteInv'
  BY DEF ByteInv, Flying, Arriving, Arrived, Taken
<1>. QED
  BY <1>1, <1>2, <1>3, <1>4, <1>5

THEOREM LoopInvariant == TestbenchSpec => []LoopInv
<1>1. Init => LoopInv
  BY InitInv
<1>2. LoopInv /\ [TestbenchNext]_loopVars => LoopInv'
  BY EdgeInv, ResetInv, StutterInv DEF TestbenchNext
<1>. QED
  BY <1>1, <1>2, PTL DEF TestbenchSpec

\* A TDR write strobe meets an idle transmitter, which takes the byte: no byte
\* written after a read of SR showed tx_ready is dropped.
THEOREM NoByteIsDropped == TestbenchSpec => []NoByteDropped
<1>1. LoopInv => NoByteDropped
  BY DEF LoopInv, SendInv, NoByteDropped
<1>. QED
  BY <1>1, LoopInvariant, PTL

\* When the transmitter is ready for a byte the receiver waits for a start bit
\* and has handed on every byte before.
THEOREM ReceiverIsReady == TestbenchSpec => []ReadyAfterFrame
<1>1. LoopInv => ReadyAfterFrame
  BY DEF LoopInv, Following, Received, ReadyAfterFrame
<1>. QED
  BY <1>1, LoopInvariant, PTL

\* The receiver hands on the byte in TDR, and the read of RDR that follows SR's
\* rx_flag or the interrupt returns the byte sent last.
THEOREM BytesReturn == TestbenchSpec => []LoopbackReturns
<1>1. LoopInv => LoopbackReturns
  <2> SUFFICES ASSUME LoopInv PROVE LoopbackReturns
    OBVIOUS
  <2>1. rx_valid => rx_data = uart_tdr
    BY DEF LoopInv, Received
  <2>2. Finishes("rdr") \/ Finishes("intr") => axi_rdata.word = TDR
    <3>1. pc \in {"rdr", "intr"} /\ issued => ~axi_bvalid
      BY Accesses DEF LoopInv, BusInv, Bus!Carries, Bus!WriteFree
    <3>. QED
      BY <3>1 DEF LoopInv, Finishes, Axi!Responded, ByteInv, Taken
  <2>. QED
    BY <2>1, <2>2 DEF LoopbackReturns
<1>. QED
  BY <1>1, LoopInvariant, PTL

-----------------------------------------------------------------------------
\* The receiver with a peer.

LEMMA TimesNext ==
  ASSUME NEW c \in Nat, NEW i \in Nat
  PROVE  c * i \in Nat /\ c * (i + 1) = c * i + c /\ c * (i + 2) = c * i + c + c
  OBVIOUS

LEMMA TimesGrows ==
  ASSUME NEW c \in Nat, NEW i \in Nat, NEW j \in Nat, i <= j
  PROVE  c * i <= c * j
<1>1. PICK d \in Nat : j = i + d
  BY i + (j - i) = j, j - i \in Nat
<1>2. c * j = c * i + c * d /\ c * d \in Nat /\ c * i \in Nat
  BY <1>1
<1>. QED
  BY <1>2

\* The quotient is known from its bounds.
LEMMA Quotient ==
  ASSUME NEW p \in Nat \ {0}, NEW a \in Nat, NEW i \in Nat, p * i <= a, a < p * (i + 1)
  PROVE  a \div p = i
<1>. DEFINE q == a \div p
<1>1. q \in Nat /\ p * q <= a /\ a < p * q + p
  OBVIOUS
<1>. HIDE DEF q
<1>2. CASE q < i
  <2>1. p * (q + 1) <= p * i
    BY <1>1, <1>2, TimesGrows
  <2>2. p * (q + 1) = p * q + p /\ p * q \in Nat /\ p * i \in Nat
    BY <1>1, TimesNext
  <2>. QED
    BY <1>1, <2>1, <2>2
<1>3. CASE i < q
  <2>1. p * (i + 1) <= p * q
    BY <1>1, <1>3, TimesGrows
  <2>2. p * q \in Nat /\ p * (i + 1) \in Nat
    BY <1>1, TimesNext
  <2>. QED
    BY <1>1, <2>1, <2>2
<1>4. q = i
  BY <1>1, <1>2, <1>3
<1>. QED
  BY <1>4 DEF q

LEMMA Bounds ==
  /\ CLKS_PER_BIT \in Nat /\ HALF_BIT \in Nat /\ NBits \in Nat /\ NBits >= 1
  /\ HALF_BIT >= 1 /\ 2 * HALF_BIT <= CLKS_PER_BIT
  /\ RxClocks = HALF_BIT + CLKS_PER_BIT * (NBits + 1) + 1
  /\ CLKS_PER_BIT * (NBits + 1) \in Nat /\ RxClocks \in Nat
<1>1. CLKS_PER_BIT \in Nat /\ CLKS_PER_BIT > 1 /\ NBits \in Nat /\ NBits >= 1
  BY UartAssumption
<1>2. HALF_BIT \in Nat /\ 2 * HALF_BIT <= CLKS_PER_BIT /\ CLKS_PER_BIT <= 2 * HALF_BIT + 1
  BY <1>1 DEF HALF_BIT
<1>3. CLKS_PER_BIT * (NBits + 1) \in Nat
  BY <1>1
<1>. QED
  BY <1>1, <1>2, <1>3 DEF RxClocks

-----------------------------------------------------------------------------
\* Frames and spikes.

\* Where the receiver looks at a frame: the middle of its bits.
LEMMA FrameFacts ==
  ASSUME NEW b \in Byte, NEW p \in PeerBits
  PROVE  /\ Frame(b, p) \in Seq(Bit) /\ Len(Frame(b, p)) \in Nat /\ RxClocks <= Len(Frame(b, p))
         /\ Len(Frame(b, p)) >= 3
         /\ Frame(b, p)[1] = 0 /\ Frame(b, p)[HALF_BIT + 1] = 0
         /\ \A i \in 0 .. NBits - 1 : Frame(b, p)[HALF_BIT + CLKS_PER_BIT * (i + 1) + 1] = b[i]
         /\ \A k \in RxClocks + 1 .. Len(Frame(b, p)) : Frame(b, p)[k] = 1
<1>. DEFINE len == p * (NBits + 2)
            place(k) == (k - 1) \div p
            level(k) == IF place(k) = 0 THEN 0 ELSE IF place(k) <= NBits THEN b[place(k) - 1] ELSE 1
<1>1. p \in Nat /\ Tolerated(p)
  BY PeerAssumption
<1>2. /\ \A i \in 1 .. NBits : p * i <= HALF_BIT + CLKS_PER_BIT * i /\ HALF_BIT + CLKS_PER_BIT * i < p * (i + 1)
      /\ p * (NBits + 1) <= RxClocks /\ RxClocks <= p * (NBits + 2)
  BY <1>1 DEF Tolerated
<1>3. p # 0 /\ HALF_BIT < p
  <2>1. HALF_BIT + CLKS_PER_BIT * 1 < p * (1 + 1)
    BY <1>2, Bounds
  <2>2. HALF_BIT + CLKS_PER_BIT < p + p
    BY <1>1, <2>1, Bounds
  <2>. QED
    BY <1>1, <2>2, Bounds
<1>4. len \in Nat /\ RxClocks <= len /\ len >= 3
  <2>1. CLKS_PER_BIT * (NBits + 1) = CLKS_PER_BIT * NBits + CLKS_PER_BIT /\ CLKS_PER_BIT * NBits \in Nat
    BY Bounds, TimesNext
  <2>2. len \in Nat
    BY <1>1, Bounds
  <2>. QED
    BY <1>2, <2>1, <2>2, Bounds
<1>5. ASSUME NEW k \in 1 .. len PROVE place(k) \in Nat /\ level(k) \in Bit
  <2>1. place(k) \in Nat
    BY <1>1, <1>3, <1>4
  <2>. HIDE DEF place
  <2>2. place(k) # 0 /\ place(k) <= NBits => b[place(k) - 1] \in Bit
    BY <2>1, Bounds DEF Byte
  <2>. QED
    BY <2>1, <2>2 DEF Bit
<1>6. Frame(b, p) = [k \in 1 .. len |-> level(k)]
  BY DEF Frame
<1>. HIDE DEF len, place, level
<1>7. Frame(b, p) \in Seq(Bit) /\ Len(Frame(b, p)) = len /\ \A k \in 1 .. len : Frame(b, p)[k] = level(k)
  BY <1>4, <1>5, <1>6
<1>8. Frame(b, p)[1] = 0 /\ Frame(b, p)[HALF_BIT + 1] = 0
  <2>1. 0 \div p = 0 /\ HALF_BIT \div p = 0
    BY <1>1, <1>3, Quotient, Bounds
  <2>2. place(1) = 0 /\ place(HALF_BIT + 1) = 0
    BY <2>1, Bounds DEF place
  <2>3. 1 \in 1 .. len /\ HALF_BIT + 1 \in 1 .. len
    BY <1>4, Bounds
  <2>. QED
    BY <1>7, <2>2, <2>3 DEF level
<1>9. ASSUME NEW i \in 0 .. NBits - 1
      PROVE  Frame(b, p)[HALF_BIT + CLKS_PER_BIT * (i + 1) + 1] = b[i]
  <2>. DEFINE a == HALF_BIT + CLKS_PER_BIT * (i + 1)
  <2>1. i + 1 \in 1 .. NBits /\ i + 1 \in Nat
    BY Bounds
  <2>2. p * (i + 1) <= a /\ a < p * ((i + 1) + 1)
    BY <1>2, <2>1
  <2>3. a \in Nat /\ a <= HALF_BIT + CLKS_PER_BIT * (NBits + 1)
    <3>1. CLKS_PER_BIT * (i + 1) \in Nat
      BY <2>1, Bounds
    <3>2. CLKS_PER_BIT * (i + 1) <= CLKS_PER_BIT * (NBits + 1)
      BY <2>1, Bounds, TimesGrows
    <3>. QED
      BY <3>1, <3>2, Bounds
  <2>. HIDE DEF a
  <2>4. a \div p = i + 1
    BY <1>1, <1>3, <2>1, <2>2, <2>3, Quotient
  <2>5. a + 1 \in 1 .. len /\ place(a + 1) = i + 1
    BY <1>4, <2>3, <2>4, Bounds DEF place
  <2>6. level(a + 1) = b[i]
    BY <2>1, <2>5, Bounds DEF level
  <2>. QED
    BY <1>7, <2>5, <2>6 DEF a
<1>10. ASSUME NEW k \in RxClocks + 1 .. len PROVE Frame(b, p)[k] = 1
  <2>0. NBits + 1 \in Nat /\ (NBits + 1) + 1 = NBits + 2 /\ p * (NBits + 1) \in Nat
    BY <1>1, Bounds
  <2>1. k - 1 \in Nat /\ RxClocks <= k - 1 /\ k - 1 < len /\ k \in 1 .. len
    BY <1>4, Bounds
  <2>2. (k - 1) \div p = NBits + 1
    <3>1. p * (NBits + 1) <= k - 1
      BY <1>2, <2>0, <2>1, Bounds
    <3>2. k - 1 < p * ((NBits + 1) + 1)
      BY <2>0, <2>1 DEF len
    <3>. QED
      BY <1>1, <1>3, <2>0, <2>1, <3>1, <3>2, Quotient
  <2>3. place(k) = NBits + 1
    BY <2>2 DEF place
  <2>. QED
    BY <1>7, <2>1, <2>3, Bounds DEF level
<1>. QED
  BY <1>4, <1>7, <1>8, <1>9, <1>10

\* A peer at the receiver's own bit time is tolerated, whatever that is.
LEMMA OwnBitTimeIsTolerated == Tolerated(CLKS_PER_BIT)
<1>. DEFINE byte == CLKS_PER_BIT * (NBits + 1)
<1>1. /\ byte \in Nat /\ RxClocks = HALF_BIT + byte + 1
      /\ CLKS_PER_BIT * (NBits + 2) = byte + CLKS_PER_BIT
      /\ HALF_BIT < CLKS_PER_BIT
  <2>1. NBits + 1 \in Nat /\ NBits + 2 = (NBits + 1) + 1
    BY Bounds
  <2>. QED
    BY <2>1, Bounds, TimesNext
<1>2. ASSUME NEW i \in 1 .. NBits
      PROVE  /\ CLKS_PER_BIT * i <= HALF_BIT + CLKS_PER_BIT * i
             /\ HALF_BIT + CLKS_PER_BIT * i < CLKS_PER_BIT * (i + 1)
  <2>1. i \in Nat /\ CLKS_PER_BIT * i \in Nat /\ CLKS_PER_BIT * (i + 1) = CLKS_PER_BIT * i + CLKS_PER_BIT
    BY Bounds, TimesNext
  <2>. DEFINE done == CLKS_PER_BIT * i
              next == CLKS_PER_BIT * (i + 1)
  <2>2. done \in Nat /\ next = done + CLKS_PER_BIT
    BY <2>1
  <2>. HIDE DEF done, next
  <2>3. done <= HALF_BIT + done /\ HALF_BIT + done < next
    BY <1>1, <2>2, Bounds
  <2>. QED
    BY <2>3 DEF done, next
<1>3. byte <= RxClocks /\ RxClocks <= CLKS_PER_BIT * (NBits + 2)
  <2>. DEFINE more == CLKS_PER_BIT * (NBits + 2)
  <2>1. more = byte + CLKS_PER_BIT
    BY <1>1
  <2>. HIDE DEF byte, more
  <2>2. byte <= RxClocks /\ RxClocks <= more
    BY <1>1, <2>1, Bounds
  <2>. QED
    BY <2>2 DEF more
<1>. QED
  BY <1>2, <1>3 DEF Tolerated

LEMMA SpikeFacts ==
  ASSUME NEW n \in Spikes
  PROVE  /\ n \in Nat /\ n >= 1 /\ n <= HALF_BIT
         /\ Spike(n) \in Seq(Bit) /\ Len(Spike(n)) = n + HALF_BIT + 1
         /\ Spike(n)[1] = 0 /\ \A k \in HALF_BIT + 1 .. n + HALF_BIT + 1 : Spike(n)[k] = 1
<1>1. n \in Nat /\ n >= 1 /\ n <= HALF_BIT
  BY PeerAssumption, Bounds
<1>2. /\ Spike(n) \in Seq(Bit) /\ Len(Spike(n)) = n + HALF_BIT + 1
      /\ \A k \in 1 .. n + HALF_BIT + 1 : Spike(n)[k] = IF k <= n THEN 0 ELSE 1
  BY <1>1, Bounds DEF Spike, Bit
<1>. QED
  BY <1>1, <1>2, Bounds

-----------------------------------------------------------------------------
\* The receiver.

AtMostOne == { << >> } \cup { << b >> : b \in Byte }

\* A clock edge at which the handler reads RDR or not, and sent is begun.
Edge(readsRDR, sent) ==
  /\ PeerEdge(sent) /\ HandlerEdge(readsRDR) /\ RxEdge(line) /\ RdrEdge(readsRDR)
  /\ UNCHANGED rx_ie
  /\ unread' = (IF readsRDR THEN SubSeq(unread, 2, Len(unread)) ELSE unread) \o sent

ReceiveTypes ==
  /\ rx_state \in {"IDLE", "START", "DATA", "STOP"} /\ rx_cnt \in Nat /\ rx_idx \in 0 .. NBits - 1
  /\ rx_state = "START" => rx_cnt < HALF_BIT /\ rx_idx = 0
  /\ rx_state \in {"DATA", "STOP"} => rx_cnt < CLKS_PER_BIT
  /\ rx_shift \in Byte /\ rx_data \in Byte /\ uart_rdr \in Byte
  /\ rx_sync \in Bit /\ rx_sync0 \in Bit /\ wave \in Seq(Bit)

ReceiveFlags == rx_valid \in BOOLEAN /\ rx_flag \in BOOLEAN /\ rx_ie = TRUE

LEMMA LineLevels == ReceiveTypes => line \in Bit
<1>. SUFFICES ASSUME ReceiveTypes PROVE line \in Bit
  OBVIOUS
<1>1. CASE wave = << >>
  BY <1>1 DEF line, Bit
<1>2. CASE wave # << >>
  BY <1>2 DEF line, ReceiveTypes
<1>. QED
  BY <1>1, <1>2

LEMMA WaveStep ==
  ASSUME ReceiveTypes, NEW sent \in AtMostOne, PeerEdge(sent)
  PROVE  wave' \in Seq(Bit)
<1>1. CASE Len(wave) > 1
  BY <1>1 DEF PeerEdge, ReceiveTypes
<1>2. CASE ~(Len(wave) > 1) /\ sent = << >>
  <2>1. wave' = << >> \/ \E n \in Spikes : wave' = Spike(n)
    BY <1>2 DEF PeerEdge
  <2>2. << >> \in Seq(Bit)
    OBVIOUS
  <2>3. ASSUME NEW n \in Spikes PROVE Spike(n) \in Seq(Bit)
    BY SpikeFacts
  <2>. QED
    BY <2>1, <2>2, <2>3
<1>3. CASE ~(Len(wave) > 1) /\ sent # << >>
  <2>1. PICK b \in Byte : sent = << b >>
    BY <1>3 DEF AtMostOne
  <2>2. PICK p \in PeerBits : wave' = Frame(b, p)
    BY <1>3, <2>1 DEF PeerEdge
  <2>. QED
    BY <2>2, FrameFacts
<1>. QED
  BY <1>1, <1>2, <1>3

LEMMA TypesStep ==
  ASSUME ReceiveTypes, ReceiveFlags, NEW readsRDR \in BOOLEAN, NEW sent \in AtMostOne, Edge(readsRDR, sent)
  PROVE  ReceiveTypes' /\ ReceiveFlags'
<1>1. wave' \in Seq(Bit) /\ rx_sync' \in Bit /\ rx_sync0' \in Bit
  BY WaveStep, LineLevels DEF Edge, RxEdge, ReceiveTypes
<1>2. uart_rdr' \in Byte
  BY DEF Edge, RdrEdge, ReceiveTypes
<1>3. rx_flag' \in BOOLEAN /\ rx_valid' \in BOOLEAN
  <2>1. rx_flag' \in BOOLEAN
    BY Zenon DEF Edge, RdrEdge
  <2>2. rx_valid' = FALSE \/ rx_valid' = RxBitEnds
    BY Zenon DEF Edge, RxEdge, RxIdle, RxStart, RxData, RxStop
  <2>3. RxBitEnds \in BOOLEAN
    BY Zenon DEF RxBitEnds
  <2>. QED
    BY <2>1, <2>2, <2>3, Zenon
<1>4. rx_ie' = TRUE
  BY DEF Edge, ReceiveFlags
<1>. USE DEF ReceiveTypes
<1>5. RxIdle \/ RxStart \/ RxData \/ RxStop
  BY DEF Edge, RxEdge
<1>6. CASE RxIdle
  BY <1>1, <1>2, <1>3, <1>4, <1>6, Bounds DEF RxIdle, ReceiveFlags
<1>7. CASE RxStart
  BY <1>1, <1>2, <1>3, <1>4, <1>7, Bounds DEF RxStart, ReceiveFlags
<1>8. CASE RxData
  <2>1. rx_shift' \in Byte
    BY <1>8 DEF RxData, Byte
  <2>. QED
    BY <1>1, <1>2, <1>3, <1>4, <1>8, <2>1, Bounds DEF RxData, RxBitEnds, ReceiveFlags
<1>9. CASE RxStop
  BY <1>1, <1>2, <1>3, <1>4, <1>9, Bounds DEF RxStop, RxBitEnds, ReceiveFlags
<1>. QED
  BY <1>5, <1>6, <1>7, <1>8, <1>9

\* Clocks since the first low level of a wave was seen.
Progress ==
  CASE rx_state = "IDLE"  -> 0
    [] rx_state = "START" -> 1 + rx_cnt
    [] rx_state = "DATA"  -> 1 + HALF_BIT + CLKS_PER_BIT * rx_idx + rx_cnt
    [] rx_state = "STOP"  -> 1 + HALF_BIT + CLKS_PER_BIT * NBits + rx_cnt

LEMMA ReceiveClocks ==
  ASSUME ReceiveTypes
  PROVE  /\ Progress \in Nat /\ Progress < RxClocks
         /\ rx_state = "IDLE" => Progress = 0
         /\ rx_state = "START" => Progress = 1 + rx_cnt
         /\ rx_state = "DATA" => Progress = 1 + HALF_BIT + CLKS_PER_BIT * rx_idx + rx_cnt
         /\ rx_state = "DATA" /\ RxBitEnds => Progress = HALF_BIT + CLKS_PER_BIT * (rx_idx + 1)
         /\ rx_state = "STOP" => Progress = 1 + HALF_BIT + CLKS_PER_BIT * NBits + rx_cnt
         /\ rx_state = "STOP" => (RxBitEnds <=> Progress + 1 = RxClocks)
<1>. DEFINE begun == CLKS_PER_BIT * rx_idx
            next  == CLKS_PER_BIT * (rx_idx + 1)
            byte  == CLKS_PER_BIT * NBits
            whole == CLKS_PER_BIT * (NBits + 1)
<1>0. /\ begun \in Nat /\ byte \in Nat /\ next = begun + CLKS_PER_BIT /\ next <= byte
      /\ whole = byte + CLKS_PER_BIT /\ RxClocks = HALF_BIT + whole + 1
  <2>1. rx_idx \in Nat /\ rx_idx + 1 \in Nat /\ rx_idx + 1 <= NBits
    BY Bounds DEF ReceiveTypes
  <2>. QED
    BY <2>1, Bounds, TimesNext, TimesGrows
<1>1. /\ rx_state = "IDLE" => Progress = 0
      /\ rx_state = "START" => Progress = 1 + rx_cnt
      /\ rx_state = "DATA" => Progress = 1 + HALF_BIT + begun + rx_cnt
      /\ rx_state = "STOP" => Progress = 1 + HALF_BIT + byte + rx_cnt
  BY DEF Progress
<1>. HIDE DEF begun, next, byte, whole
<1>2. /\ Progress \in Nat /\ Progress < RxClocks
      /\ rx_state = "DATA" /\ RxBitEnds => Progress = HALF_BIT + next
      /\ rx_state = "STOP" => (RxBitEnds <=> Progress + 1 = RxClocks)
  BY <1>0, <1>1, Bounds DEF ReceiveTypes, RxBitEnds
<1>. QED
  BY <1>1, <1>2 DEF begun, next, byte

\* How the receiver goes on from its first low level.
LEMMA ProgressStep ==
  ASSUME ReceiveTypes, NEW readsRDR \in BOOLEAN, NEW sent, Edge(readsRDR, sent), ReceiveTypes'
  PROVE  /\ rx_state = "IDLE" => /\ rx_state' = IF rx_sync = 0 THEN "START" ELSE "IDLE"
                                 /\ rx_sync = 0 => Progress' = 1
         /\ rx_state = "START" /\ Progress < HALF_BIT => rx_state' = "START" /\ Progress' = Progress + 1
         /\ rx_state = "START" => Progress <= HALF_BIT
         /\ rx_state = "START" /\ Progress = HALF_BIT =>
              IF rx_sync = 0 THEN rx_state' = "DATA" /\ Progress' = Progress + 1 /\ rx_idx' = 0
              ELSE rx_state' = "IDLE"
         /\ rx_state = "DATA" => Progress' = Progress + 1
         /\ rx_state = "DATA" => \/ ~RxBitEnds /\ rx_state' = "DATA" /\ rx_idx' = rx_idx
                                 \/ RxBitEnds /\ rx_state' = "DATA" /\ rx_idx' = rx_idx + 1
                                 \/ RxBitEnds /\ rx_state' = "STOP" /\ rx_idx = NBits - 1
         /\ rx_state = "STOP" => IF RxBitEnds THEN rx_state' = "IDLE"
                                 ELSE rx_state' = "STOP" /\ Progress' = Progress + 1
         /\ rx_valid' <=> rx_state = "STOP" /\ RxBitEnds
         /\ rx_data' = IF rx_state = "STOP" /\ RxBitEnds THEN rx_shift ELSE rx_data
         /\ rx_shift' = IF rx_state = "DATA" /\ RxBitEnds THEN [rx_shift EXCEPT ![rx_idx] = rx_sync]
                        ELSE rx_shift
<1>. USE DEF ReceiveTypes
<1>1. RxIdle \/ RxStart \/ RxData \/ RxStop
  BY DEF Edge, RxEdge
<1>2. CASE RxIdle
  <2>1. rx_sync = 0 => Progress' = 1
    BY <1>2, ReceiveClocks, Bounds DEF RxIdle, Progress
  <2>. QED
    BY <1>2, <2>1 DEF RxIdle
<1>3. CASE RxStart
  <2>1. rx_state' = "DATA" => Progress' = 1 + HALF_BIT
    BY <1>3, Bounds DEF RxStart, Progress
  <2>2. Progress = 1 + rx_cnt /\ (rx_state' = "START" => Progress' = 1 + rx_cnt')
    BY <1>3 DEF RxStart, Progress
  <2>3. rx_state = "START" /\ rx_cnt < HALF_BIT
    BY <1>3 DEF RxStart
  <2>. QED
    BY <1>3, <2>1, <2>2, <2>3, Bounds DEF RxStart
<1>4. CASE RxData
  <2>1. Progress' = Progress + 1
    <3>. DEFINE begun == CLKS_PER_BIT * rx_idx
                next  == CLKS_PER_BIT * (rx_idx + 1)
                byte  == CLKS_PER_BIT * NBits
    <3>1. begun \in Nat /\ next = begun + CLKS_PER_BIT
      BY Bounds, TimesNext
    <3>2. CASE ~RxBitEnds
      <4>1. rx_state' = "DATA" /\ rx_idx' = rx_idx /\ rx_cnt' = rx_cnt + 1 /\ rx_state = "DATA"
        BY <1>4, <3>2 DEF RxData
      <4>2. Progress = 1 + HALF_BIT + begun + rx_cnt /\ Progress' = 1 + HALF_BIT + begun + rx_cnt'
        BY <4>1 DEF Progress
      <4>. HIDE DEF begun
      <4>. QED
        BY <3>1, <4>1, <4>2, Bounds
    <3>3. CASE RxBitEnds /\ rx_idx < NBits - 1
      <4>1. rx_state' = "DATA" /\ rx_idx' = rx_idx + 1 /\ rx_cnt' = 0 /\ rx_state = "DATA"
        BY <1>4, <3>3, Bounds DEF RxData
      <4>2. Progress = 1 + HALF_BIT + begun + rx_cnt /\ Progress' = 1 + HALF_BIT + next + rx_cnt'
        BY <4>1 DEF Progress
      <4>. HIDE DEF begun, next
      <4>. QED
        BY <3>1, <3>3, <4>1, <4>2, Bounds DEF RxBitEnds
    <3>4. CASE RxBitEnds /\ ~(rx_idx < NBits - 1)
      <4>1. rx_state' = "STOP" /\ rx_idx + 1 = NBits /\ rx_cnt' = 0 /\ rx_state = "DATA"
        BY <1>4, <3>4, Bounds DEF RxData
      <4>2. Progress = 1 + HALF_BIT + begun + rx_cnt /\ Progress' = 1 + HALF_BIT + byte + rx_cnt'
        BY <4>1 DEF Progress
      <4>3. byte = next
        BY <4>1
      <4>. HIDE DEF begun, next, byte
      <4>. QED
        BY <3>1, <3>4, <4>1, <4>2, <4>3, Bounds DEF RxBitEnds
    <3>. QED
      BY <3>2, <3>3, <3>4
  <2>. QED
    BY <1>4, <2>1, Bounds DEF RxData
<1>5. CASE RxStop
  <2>1. ~RxBitEnds => Progress' = Progress + 1
    <3>. DEFINE byte == CLKS_PER_BIT * NBits
    <3>. SUFFICES ASSUME ~RxBitEnds PROVE Progress' = Progress + 1
      OBVIOUS
    <3>1. byte \in Nat /\ rx_state = "STOP" /\ rx_state' = "STOP" /\ rx_cnt' = rx_cnt + 1
      BY <1>5, Bounds, TimesNext DEF RxStop
    <3>2. Progress = 1 + HALF_BIT + byte + rx_cnt /\ Progress' = 1 + HALF_BIT + byte + rx_cnt'
      BY <3>1 DEF Progress
    <3>. HIDE DEF byte
    <3>. QED
      BY <3>1, <3>2, Bounds
  <2>2. rx_valid' <=> RxBitEnds
    BY <1>5, Zenon DEF RxStop
  <2>. QED
    BY <1>5, <2>1, <2>2 DEF RxStop
<1>. QED
  BY <1>1, <1>2, <1>3, <1>4, <1>5

-----------------------------------------------------------------------------
\* What the receiver is still to see of the line.

\* The level at place k: the flip-flops of the synchroniser, then what is left
\* of the wave, then an idle line.  Committed places are known.
Ahead(k) == IF k = 1 THEN rx_sync ELSE IF k = 2 THEN rx_sync0
            ELSE IF wave = << >> THEN 1 ELSE wave[k - 2]
Committed == IF wave = << >> THEN 3 ELSE 2 + Len(wave)

\* The waves that carry these bytes.
Waves(bytes) == IF bytes = << >> THEN { Spike(n) : n \in Spikes }
                ELSE { Frame(Head(bytes), p) : p \in PeerBits }

\* The wave w is still to come in full, from place m + 1 on.
Comes(w, m) ==
  /\ m + Len(w) = Committed
  /\ \A k \in 1 .. Len(w) : Ahead(m + k) = w[k]

\* After the first r places the line is idle until the next wave, and bytes
\* are those of that wave, if one is on its way.
Coming(r, bytes) ==
  \E m \in 0 .. Committed :
    /\ r <= m /\ \A k \in 1 .. m : r < k => Ahead(k) = 1
    /\ (m = Committed /\ bytes = << >>) \/ \E w \in Waves(bytes) : Comes(w, m)

LEMMA AtMostOneSeq == AtMostOne \subseteq Seq(Byte)
<1>1. ASSUME NEW b \in Byte PROVE << b >> \in Seq(Byte)
  OBVIOUS
<1>2. << >> \in Seq(Byte)
  OBVIOUS
<1>. QED
  BY <1>1, <1>2, Zenon DEF AtMostOne

LEMMA WaveFacts ==
  ASSUME NEW bytes \in AtMostOne, NEW w \in Waves(bytes)
  PROVE  /\ w \in Seq(Bit) /\ Len(w) \in Nat /\ Len(w) >= 3 /\ w[1] = 0
         /\ bytes = << >> => \E n \in Spikes : w = Spike(n)
         /\ bytes # << >> => \E b \in Byte, p \in PeerBits : bytes = << b >> /\ w = Frame(b, p)
<1>1. CASE bytes = << >>
  <2>1. PICK n \in Spikes : w = Spike(n)
    BY <1>1 DEF Waves
  <2>. QED
    BY <1>1, <2>1, SpikeFacts, Bounds
<1>2. CASE bytes # << >>
  <2>1. PICK b \in Byte : bytes = << b >>
    BY <1>2 DEF AtMostOne
  <2>2. PICK p \in PeerBits : w = Frame(b, p)
    BY <1>2, <2>1 DEF Waves
  <2>. QED
    BY <1>2, <2>1, <2>2, FrameFacts
<1>. QED
  BY <1>1, <1>2

LEMMA CommittedPlaces ==
  ASSUME ReceiveTypes
  PROVE  Committed \in Nat /\ Committed >= 3 /\ \A k \in 1 .. Committed : Ahead(k) \in Bit
<1>1. CASE wave = << >>
  BY <1>1 DEF Committed, Ahead, ReceiveTypes, Bit
<1>2. CASE wave # << >>
  <2>1. Len(wave) \in Nat /\ Len(wave) >= 1 /\ \A k \in 1 .. Len(wave) : wave[k] \in Bit
    BY <1>2 DEF ReceiveTypes
  <2>2. Committed = 2 + Len(wave)
    BY <1>2 DEF Committed
  <2>3. ASSUME NEW k \in 1 .. Committed PROVE Ahead(k) \in Bit
    BY <1>2, <2>1, <2>2 DEF Ahead, ReceiveTypes
  <2>. QED
    BY <2>1, <2>2, <2>3
<1>. QED
  BY <1>1, <1>2

\* At a clock edge every place moves up by one; a new wave begins when the
\* last known place is that of the pin.
LEMMA StreamStep ==
  ASSUME ReceiveTypes, NEW readsRDR \in BOOLEAN, NEW sent \in AtMostOne, Edge(readsRDR, sent)
  PROVE  /\ \A k \in 1 .. Committed - 1 : Ahead(k)' = Ahead(k + 1)
         /\ Committed > 3 => Committed' = Committed - 1 /\ sent = << >>
         /\ Committed = 3 =>
              \/ Committed' = 3 /\ Ahead(3)' = 1 /\ sent = << >>
              \/ \E w \in Waves(sent) : /\ Committed' = 2 + Len(w)
                                        /\ \A k \in 1 .. Len(w) : Ahead(2 + k)' = w[k]
<1>1. rx_sync0' = line /\ rx_sync' = rx_sync0 /\ PeerEdge(sent)
  BY DEF Edge, RxEdge
<1>2. wave \in Seq(Bit) /\ Len(wave) \in Nat
  BY DEF ReceiveTypes
<1>3. CASE Len(wave) > 1
  <2>1. wave' = Tail(wave) /\ sent = << >>
    BY <1>1, <1>3 DEF PeerEdge
  <2>2. /\ wave # << >> /\ Len(wave') = Len(wave) - 1 /\ wave' # << >>
        /\ \A k \in 1 .. Len(wave) - 1 : wave'[k] = wave[k + 1]
    BY <1>2, <1>3, <2>1
  <2>3. Committed = 2 + Len(wave) /\ Committed' = 2 + Len(wave')
    BY <2>2 DEF Committed
  <2>4. line = wave[1]
    BY <1>2, <2>2 DEF line
  <2>5. ASSUME NEW k \in 1 .. Committed - 1 PROVE Ahead(k)' = Ahead(k + 1)
    <3>1. CASE k = 1
      BY <1>1, <3>1 DEF Ahead
    <3>2. CASE k = 2
      BY <1>1, <2>2, <2>4, <3>2 DEF Ahead
    <3>3. CASE k > 2
      <4>1. k - 2 \in 1 .. Len(wave) - 1 /\ (k - 2) + 1 = (k + 1) - 2 /\ k + 1 # 1 /\ k + 1 # 2
        BY <1>2, <2>3, <3>3
      <4>2. wave'[k - 2] = wave[(k + 1) - 2]
        BY <2>2, <4>1
      <4>. QED
        BY <2>2, <3>3, <4>1, <4>2 DEF Ahead
    <3>. QED
      BY <1>2, <2>3, <3>1, <3>2, <3>3
  <2>. QED
    BY <1>2, <1>3, <2>1, <2>2, <2>3, <2>5
<1>4. CASE ~(Len(wave) > 1)
  <2>1. Committed = 3 /\ line = Ahead(3)
    <3>1. CASE wave = << >>
      BY <3>1 DEF Committed, line, Ahead
    <3>2. CASE wave # << >>
      <4>0. Len(wave) >= 1
        BY <3>2 DEF ReceiveTypes
      <4>1. Len(wave) = 1
        BY <1>2, <1>4, <4>0
      <4>2. Head(wave) = wave[1]
        BY <1>2, <3>2
      <4>. QED
        BY <3>2, <4>1, <4>2 DEF Committed, line, Ahead
    <3>. QED
      BY <3>1, <3>2
  <2>2. ASSUME NEW k \in 1 .. Committed - 1 PROVE Ahead(k)' = Ahead(k + 1)
    <3>1. k = 1 \/ k = 2
      BY <2>1
    <3>2. Ahead(1)' = Ahead(2)
      BY <1>1 DEF Ahead
    <3>3. Ahead(2)' = Ahead(3)
      BY <1>1, <2>1 DEF Ahead
    <3>. QED
      BY <3>1, <3>2, <3>3
  <2>3. (wave' = << >> /\ sent = << >>) \/ wave' \in Waves(sent)
    <3>1. CASE sent = << >>
      BY <1>1, <1>4, <3>1 DEF PeerEdge, Waves
    <3>2. CASE sent # << >>
      BY <1>1, <1>4, <3>2 DEF PeerEdge, Waves
    <3>. QED
      BY <3>1, <3>2
  <2>4. CASE wave' = << >> /\ sent = << >>
    <3>1. Committed' = 3 /\ Ahead(3)' = 1
      BY <2>4 DEF Committed, Ahead
    <3>. QED
      BY <2>1, <2>2, <2>4, <3>1
  <2>5. CASE wave' \in Waves(sent)
    <3>1. wave' \in Seq(Bit) /\ Len(wave') \in Nat /\ Len(wave') >= 3
      BY <2>5, WaveFacts
    <3>2. wave' # << >>
      BY <3>1
    <3>3. Committed' = 2 + Len(wave')
      BY <3>2 DEF Committed
    <3>4. ASSUME NEW k \in 1 .. Len(wave') PROVE Ahead(2 + k)' = wave'[k]
      BY <3>1, <3>2 DEF Ahead
    <3>5. \A k \in 1 .. Len(wave') : Ahead(2 + k)' = wave'[k]
      BY <3>4
    <3>6. \E w \in Waves(sent) : Committed' = 2 + Len(w) /\ \A k \in 1 .. Len(w) : Ahead(2 + k)' = w[k]
      BY <2>5, <3>3, <3>5
    <3>. QED
      BY <2>1, <2>2, <3>6
  <2>. QED
    BY <2>3, <2>4, <2>5
<1>. QED
  BY <1>3, <1>4

\* Where a new wave has reached the receiver all of it is known.
LEMMA ComingBegins ==
  ASSUME ReceiveTypes, NEW bytes \in AtMostOne, Coming(0, bytes), Ahead(1) = 0
  PROVE  \E w \in Waves(bytes) : Comes(w, 0)
<1>1. PICK m \in 0 .. Committed :
        /\ \A k \in 1 .. m : 0 < k => Ahead(k) = 1
        /\ (m = Committed /\ bytes = << >>) \/ \E w \in Waves(bytes) : Comes(w, m)
  BY DEF Coming
<1>2. m = 0
  BY <1>1, CommittedPlaces
<1>. QED
  BY <1>1, <1>2, CommittedPlaces

\* Places that show an idle line need not be waited for.
LEMMA ComingLess ==
  ASSUME ReceiveTypes, NEW bytes, NEW r \in Nat, NEW q \in Nat, Coming(r, bytes), q <= r,
         \A k \in q + 1 .. r : Ahead(k) = 1
  PROVE  Coming(q, bytes)
<1>1. PICK m \in 0 .. Committed :
        /\ r <= m /\ \A k \in 1 .. m : r < k => Ahead(k) = 1
        /\ (m = Committed /\ bytes = << >>) \/ \E w \in Waves(bytes) : Comes(w, m)
  BY DEF Coming
<1>2. q <= m /\ \A k \in 1 .. m : q < k => Ahead(k) = 1
  <2>1. q <= m
    BY <1>1, CommittedPlaces
  <2>2. ASSUME NEW k \in 1 .. m, q < k PROVE Ahead(k) = 1
    <3>1. k \in q + 1 .. r \/ r < k
      BY <2>2, CommittedPlaces
    <3>. QED
      BY <1>1, <3>1
  <2>. QED
    BY <2>1, <2>2
<1>. QED
  BY <1>1, <1>2 DEF Coming

\* No frame is on its way when no more than three places are known and the
\* first is idle.
LEMMA NoneComing ==
  ASSUME ReceiveTypes, NEW bytes \in AtMostOne, NEW r, Coming(r, bytes), Committed = 3, Ahead(1) = 1
  PROVE  bytes = << >>
<1>1. PICK m \in 0 .. Committed :
        (m = Committed /\ bytes = << >>) \/ \E w \in Waves(bytes) : Comes(w, m)
  BY DEF Coming
<1>2. ASSUME NEW w \in Waves(bytes), Comes(w, m) PROVE FALSE
  <2>1. Len(w) \in Nat /\ Len(w) >= 3 /\ w[1] = 0
    BY WaveFacts
  <2>2. m = 0 /\ Len(w) = 3
    BY <1>2, <2>1 DEF Comes
  <2>3. 1 \in 1 .. Len(w)
    BY <2>2
  <2>4. Ahead(0 + 1) = w[1]
    BY <1>2, <2>2, <2>3 DEF Comes
  <2>. QED
    BY <2>1, <2>4
<1>. QED
  BY <1>1, <1>2

\* A clock edge brings what is coming nearer by one place.
LEMMA ComingStep ==
  ASSUME ReceiveTypes, NEW readsRDR \in BOOLEAN, NEW sent \in AtMostOne, Edge(readsRDR, sent),
         NEW bytes \in AtMostOne, NEW r \in Nat, NEW q \in Nat, Coming(r, bytes),
         r = q + 1 \/ (r = 0 /\ q = 0 /\ Ahead(1) = 1)
  PROVE  Coming(q, bytes \o sent)' /\ bytes \o sent \in AtMostOne
<1>1. PICK m \in 0 .. Committed :
        /\ r <= m /\ \A k \in 1 .. m : r < k => Ahead(k) = 1
        /\ (m = Committed /\ bytes = << >>) \/ \E w \in Waves(bytes) : Comes(w, m)
  BY DEF Coming
<1>2. m >= 1
  <2>1. CASE r = q + 1
    BY <1>1, <2>1, CommittedPlaces
  <2>2. CASE r = 0 /\ Ahead(1) = 1
    <3>. SUFFICES ASSUME m = 0 PROVE FALSE
      BY CommittedPlaces
    <3>1. PICK w \in Waves(bytes) : Comes(w, 0)
      BY <1>1, CommittedPlaces
    <3>2. Len(w) \in Nat /\ Len(w) >= 3 /\ w[1] = 0
      BY WaveFacts
    <3>3. 1 \in 1 .. Len(w)
      BY <3>2
    <3>4. Ahead(0 + 1) = w[1]
      BY <3>1, <3>3 DEF Comes
    <3>. QED
      BY <2>2, <3>2, <3>4
  <2>. QED
    BY <2>1, <2>2
<1>3. q <= m - 1
  BY <1>1, <1>2, CommittedPlaces
<1>4. \A k \in 1 .. Committed - 1 : Ahead(k)' = Ahead(k + 1)
  BY StreamStep
<1>5. ASSUME NEW k \in 1 .. m - 1, q < k PROVE Ahead(k)' = 1
  <2>1. k \in 1 .. Committed - 1 /\ k + 1 \in 1 .. m /\ r < k + 1
    BY <1>1, <1>2, <1>5, CommittedPlaces
  <2>. QED
    BY <1>1, <1>4, <2>1
<1>6. bytes \in Seq(Byte) /\ sent \in Seq(Byte)
  BY AtMostOneSeq
<1>7. CASE m = Committed /\ bytes = << >> /\ Committed > 3
  <2>1. Committed' = m - 1 /\ sent = << >> /\ m - 1 \in 0 .. m - 1
    BY <1>2, <1>7, StreamStep, CommittedPlaces
  <2>2. bytes \o sent = << >>
    BY <1>7, <2>1
  <2>3. Coming(q, << >>)'
    BY <1>3, <1>5, <2>1 DEF Coming
  <2>. QED
    BY <2>2, <2>3 DEF AtMostOne
<1>8. CASE m = Committed /\ bytes = << >> /\ Committed = 3
  <2>0. \A k \in 1 .. 2 : q < k => Ahead(k)' = 1
    BY <1>5, <1>8
  <2>1. CASE Committed' = 3 /\ Ahead(3)' = 1 /\ sent = << >>
    <3>1. \A k \in 1 .. 3 : q < k => Ahead(k)' = 1
      <4>1. ASSUME NEW k \in 1 .. 3, q < k PROVE Ahead(k)' = 1
        <5>1. k \in 1 .. 2 \/ k = 3
          OBVIOUS
        <5>. QED
          BY <2>0, <2>1, <4>1, <5>1
      <4>. QED
        BY <4>1
    <3>2. q <= 3 /\ 3 \in 0 .. 3
      BY <1>3, <1>8
    <3>3. Coming(q, << >>)'
      BY <2>1, <3>1, <3>2 DEF Coming
    <3>4. bytes \o sent = << >>
      BY <1>8, <2>1
    <3>. QED
      BY <3>3, <3>4 DEF AtMostOne
  <2>2. ASSUME NEW w \in Waves(sent), Committed' = 2 + Len(w), \A k \in 1 .. Len(w) : Ahead(2 + k)' = w[k]
        PROVE  Coming(q, bytes \o sent)' /\ bytes \o sent \in AtMostOne
    <3>1. Comes(w, 2)'
      BY <2>2 DEF Comes
    <3>2. q <= 2 /\ 2 \in 0 .. Committed'
      BY <1>3, <1>8, <2>2, WaveFacts
    <3>3. Waves(sent)' = Waves(sent)
      BY DEF Waves, Spike, Frame, HALF_BIT
    <3>4. Coming(q, sent)'
      BY <2>0, <3>1, <3>2, <3>3 DEF Coming
    <3>5. bytes \o sent = sent
      BY <1>6, <1>8, ConcatEmptySeq
    <3>. QED
      BY <3>4, <3>5
  <2>. QED
    BY <1>8, <2>1, <2>2, StreamStep
<1>9. ASSUME NEW w \in Waves(bytes), Comes(w, m)
      PROVE  Coming(q, bytes \o sent)' /\ bytes \o sent \in AtMostOne
  <2>1. Len(w) \in Nat /\ Len(w) >= 3
    BY WaveFacts
  <2>2. m + Len(w) = Committed /\ Committed > 3 /\ Committed \in Nat
    BY <1>2, <1>9, <2>1, CommittedPlaces DEF Comes
  <2>3. Committed' = Committed - 1 /\ sent = << >>
    BY <2>2, StreamStep
  <2>4. ASSUME NEW k \in 1 .. Len(w) PROVE Ahead(m - 1 + k)' = w[k]
    <3>1. m - 1 + k \in 1 .. Committed - 1 /\ (m - 1 + k) + 1 = m + k
      BY <1>2, <2>1, <2>2
    <3>2. Ahead(m - 1 + k)' = Ahead(m + k)
      BY <1>4, <3>1
    <3>. QED
      BY <1>9, <3>2 DEF Comes
  <2>5. Comes(w, m - 1)'
    BY <1>2, <2>1, <2>2, <2>3, <2>4 DEF Comes
  <2>6. m - 1 \in 0 .. Committed'
    BY <1>2, <2>1, <2>2, <2>3
  <2>7. Coming(q, bytes)'
    BY <1>3, <1>5, <2>5, <2>6 DEF Coming
  <2>8. bytes \o sent = bytes
    BY <1>6, <2>3, ConcatEmptySeq
  <2>. QED
    BY <2>7, <2>8
<1>. QED
  BY <1>1, <1>7, <1>8, <1>9, CommittedPlaces

-----------------------------------------------------------------------------
\* The handler keeps up, and what it has not read is told by the state.

HandlerInv ==
  /\ late \in 0 .. Latency
  /\ late > 0 => Progress <= late
  /\ rx_valid => late = 0 /\ rx_state = "IDLE"
  /\ rx_flag <=> late > 0

\* The byte the receiver has delivered and the handler has not read.
Pending == IF rx_valid THEN << rx_data >> ELSE IF rx_flag THEN << uart_rdr >> ELSE << >>

\* At the end of a stop bit a late handler is at its limit: it reads now.
LEMMA HandlerAtEnd ==
  ASSUME ReceiveTypes, ReceiveFlags, HandlerInv, NEW readsRDR \in BOOLEAN, HandlerEdge(readsRDR),
         rx_state = "STOP", RxBitEnds
  PROVE  ~rx_valid /\ (late = 0 \/ readsRDR)
<1>1. ~rx_valid
  BY DEF HandlerInv
<1>2. Progress + 1 = RxClocks /\ Progress \in Nat
  BY ReceiveClocks
<1>3. late > 0 => Progress <= late
  BY DEF HandlerInv
<1>4. late \in 0 .. Latency /\ Latency \in Nat /\ Latency < RxClocks
  BY PeerAssumption DEF HandlerInv
<1>5. late > 0 => late = Latency
  BY <1>2, <1>3, <1>4, Bounds
<1>6. late = Latency => readsRDR
  BY DEF HandlerEdge
<1>. QED
  BY <1>1, <1>4, <1>5, <1>6

LEMMA HandlerStep ==
  ASSUME ReceiveTypes, ReceiveFlags, HandlerInv, NEW readsRDR \in BOOLEAN, NEW sent \in AtMostOne,
         Edge(readsRDR, sent)
  PROVE  HandlerInv'
<1>0. ReceiveTypes' /\ ReceiveFlags' /\ HandlerEdge(readsRDR)
  BY TypesStep DEF Edge
<1>1. /\ readsRDR => late > 0
      /\ late = Latency => readsRDR
      /\ late' = IF rx_valid THEN 1 ELSE IF readsRDR \/ late = 0 THEN 0 ELSE late + 1
  BY <1>0 DEF HandlerEdge, intr, ReceiveFlags
<1>2. late \in 0 .. Latency /\ Latency \in Nat \ {0} /\ (rx_valid => late = 0 /\ rx_state = "IDLE")
  BY PeerAssumption DEF HandlerInv
<1>3. late' \in 0 .. Latency
  BY <1>1, <1>2
<1>4. Progress' \in Nat /\ Progress \in Nat /\ Progress' <= Progress + 1
  <2>1. rx_state' = "IDLE" => Progress' = 0
    BY <1>0 DEF Progress
  <2>2. Progress \in Nat /\ (rx_state = "IDLE" => Progress = 0)
    BY ReceiveClocks
  <2>3. CASE rx_state = "IDLE"
    BY <1>0, <2>1, <2>2, <2>3, ProgressStep
  <2>4. CASE rx_state = "START"
    <3>1. Progress < HALF_BIT \/ Progress = HALF_BIT
      BY <1>0, <2>2, <2>4, ProgressStep, Bounds
    <3>. QED
      BY <1>0, <2>1, <2>2, <2>4, <3>1, ProgressStep
  <2>5. CASE rx_state = "DATA"
    BY <1>0, <2>2, <2>5, ProgressStep
  <2>6. CASE rx_state = "STOP"
    BY <1>0, <2>1, <2>2, <2>6, ProgressStep
  <2>. QED
    BY <2>3, <2>4, <2>5, <2>6 DEF ReceiveTypes
<1>5. late' > 0 => Progress' <= late'
  <2>1. rx_valid => Progress = 0
    BY <1>2, ReceiveClocks
  <2>2. late > 0 => Progress <= late
    BY DEF HandlerInv
  <2>. QED
    BY <1>1, <1>2, <1>4, <2>1, <2>2
<1>6. rx_valid' => late' = 0 /\ rx_state' = "IDLE"
  <2>. SUFFICES ASSUME rx_valid' PROVE late' = 0 /\ rx_state' = "IDLE"
    OBVIOUS
  <2>1. rx_state = "STOP" /\ RxBitEnds /\ rx_state' = "IDLE"
    BY <1>0, ProgressStep
  <2>2. ~rx_valid /\ (late = 0 \/ readsRDR)
    BY <1>0, <2>1, HandlerAtEnd
  <2>. QED
    BY <1>1, <2>1, <2>2
<1>7. rx_flag' <=> late' > 0
  <2>1. rx_flag' <=> ~readsRDR /\ (rx_valid \/ rx_flag)
    BY Zenon DEF Edge, RdrEdge
  <2>2. rx_flag <=> late > 0
    BY DEF HandlerInv
  <2>. QED
    BY <1>1, <1>2, <2>1, <2>2
<1>. QED
  BY <1>3, <1>5, <1>6, <1>7 DEF HandlerInv

\* The bytes read are the first ones: those behind Pending stay, and those
\* sent are added.
Kept(readsRDR) == IF readsRDR THEN << >> ELSE Pending

LEMMA UnreadStep ==
  ASSUME ReceiveTypes, ReceiveFlags, HandlerInv, NEW readsRDR \in BOOLEAN, NEW sent \in AtMostOne,
         Edge(readsRDR, sent), NEW rest \in Seq(Byte), unread = Pending \o rest
  PROVE  /\ unread' = Kept(readsRDR) \o (rest \o sent)
         /\ ~rx_valid' => Pending' = Kept(readsRDR)
         /\ rx_valid' => Kept(readsRDR) = << >> /\ Pending' = << rx_shift >>
<1>0. /\ ReceiveTypes' /\ HandlerEdge(readsRDR) /\ sent \in Seq(Byte)
      /\ unread' = (IF readsRDR THEN SubSeq(unread, 2, Len(unread)) ELSE unread) \o sent
  BY TypesStep, AtMostOneSeq DEF Edge
<1>1. Pending \in Seq(Byte) /\ << >> \in Seq(Byte)
  <2>1. << rx_data >> \in Seq(Byte) /\ << uart_rdr >> \in Seq(Byte) /\ << >> \in Seq(Byte)
    BY DEF ReceiveTypes
  <2>. QED
    BY <2>1, Zenon DEF Pending
<1>2. readsRDR => rx_flag /\ ~rx_valid /\ Pending = << uart_rdr >>
  <2>1. readsRDR => late > 0
    BY <1>0 DEF HandlerEdge
  <2>2. late > 0 => rx_flag /\ ~rx_valid
    BY DEF HandlerInv
  <2>. QED
    BY <2>1, <2>2 DEF Pending
<1>3. unread' = Kept(readsRDR) \o (rest \o sent)
  <2>1. CASE readsRDR
    <3>1. unread = << uart_rdr >> \o rest /\ uart_rdr \in Byte
      BY <1>2, <2>1 DEF ReceiveTypes
    <3>2. SubSeq(unread, 2, Len(unread)) = rest
      BY <3>1
    <3>3. << >> \o (rest \o sent) = rest \o sent
      BY <1>0, ConcatEmptySeq, ConcatProperties
    <3>. QED
      BY <1>0, <2>1, <3>2, <3>3 DEF Kept
  <2>2. CASE ~readsRDR
    <3>1. (Pending \o rest) \o sent = Pending \o (rest \o sent)
      BY <1>0, <1>1, ConcatAssociative
    <3>. QED
      BY <1>0, <2>2, <3>1 DEF Kept
  <2>. QED
    BY <2>1, <2>2
<1>4. /\ uart_rdr' = IF rx_valid THEN rx_data ELSE uart_rdr
      /\ rx_flag' <=> ~readsRDR /\ (rx_valid \/ rx_flag)
  BY Zenon DEF Edge, RdrEdge
<1>5. ~rx_valid' => Pending' = Kept(readsRDR)
  BY <1>4 DEF Pending, Kept
<1>6. ASSUME rx_valid' PROVE Kept(readsRDR) = << >> /\ Pending' = << rx_shift >>
  <2>1. rx_state = "STOP" /\ RxBitEnds /\ rx_data' = rx_shift
    BY <1>0, <1>6, ProgressStep
  <2>2. ~rx_valid /\ (late = 0 \/ readsRDR)
    BY <1>0, <2>1, HandlerAtEnd
  <2>3. late = 0 => ~rx_flag
    BY DEF HandlerInv
  <2>4. Kept(readsRDR) = << >>
    BY <2>2, <2>3 DEF Kept, Pending
  <2>5. Pending' = << rx_data' >>
    BY <1>6 DEF Pending
  <2>. QED
    BY <2>1, <2>4, <2>5
<1>. QED
  BY <1>3, <1>5, <1>6

-----------------------------------------------------------------------------
\* The wave the receiver is in.

\* What it has not seen of the wave w is still ahead.
Within(w) == \A k \in 1 .. Len(w) - Progress : Ahead(k) = w[Progress + k]

LEMMA WaveBegins ==
  ASSUME ReceiveTypes, NEW readsRDR \in BOOLEAN, NEW sent \in AtMostOne, Edge(readsRDR, sent),
         NEW bytes \in AtMostOne, Coming(0, bytes), Ahead(1) = 0, Progress' = 1
  PROVE  \E w \in Waves(bytes) : Within(w)' /\ Coming(Len(w) - Progress, sent)'
<1>1. PICK w \in Waves(bytes) : Comes(w, 0)
  BY ComingBegins
<1>2. Len(w) \in Nat /\ Len(w) >= 3
  BY WaveFacts
<1>3. Len(w) = Committed /\ \A k \in 1 .. Len(w) : Ahead(k) = w[k]
  <2>1. Len(w) = Committed
    BY <1>1, <1>2 DEF Comes
  <2>2. ASSUME NEW k \in 1 .. Len(w) PROVE Ahead(k) = w[k]
    <3>1. Ahead(0 + k) = w[k] /\ 0 + k = k
      BY <1>1, <1>2 DEF Comes
    <3>. QED
      BY <3>1
  <2>. QED
    BY <2>1, <2>2
<1>4. PICK r \in Nat : r = Len(w)
  BY <1>2
<1>5. PICK q \in Nat : r = q + 1
  BY <1>2, <1>4
<1>6. Coming(r, << >>)
  <2>1. r \in 0 .. Committed /\ \A k \in 1 .. r : r < k => Ahead(k) = 1
    BY <1>3, <1>4
  <2>. QED
    BY <1>3, <1>4, <2>1 DEF Coming
<1>7. Coming(q, sent)'
  <2>1. << >> \in AtMostOne
    BY DEF AtMostOne
  <2>2. Coming(q, << >> \o sent)'
    BY <1>5, <1>6, <2>1, ComingStep
  <2>3. << >> \o sent = sent
    BY AtMostOneSeq, ConcatEmptySeq
  <2>. QED
    BY <2>2, <2>3
<1>8. q = Len(w) - Progress'
  BY <1>2, <1>4, <1>5
<1>9. Coming(Len(w) - Progress, sent)'
  BY <1>7, <1>8
<1>10. ASSUME NEW k \in 1 .. q PROVE Ahead(k)' = w[Progress' + k]
  <2>1. k \in 1 .. Committed - 1 /\ k + 1 \in 1 .. Len(w) /\ Progress' + k = k + 1
    BY <1>2, <1>3, <1>4, <1>5
  <2>2. Ahead(k)' = Ahead(k + 1)
    BY <2>1, StreamStep
  <2>. QED
    BY <1>3, <2>1, <2>2
<1>11. Within(w)'
  BY <1>8, <1>10 DEF Within
<1>. QED
  BY <1>9, <1>11

LEMMA WaveGoesOn ==
  ASSUME ReceiveTypes, NEW readsRDR \in BOOLEAN, NEW sent \in AtMostOne, Edge(readsRDR, sent),
         NEW bytes \in AtMostOne, NEW w \in Seq(Bit), Within(w), Coming(Len(w) - Progress, bytes),
         Progress < Len(w), Progress' = Progress + 1
  PROVE  /\ Within(w)' /\ Coming(Len(w) - Progress, bytes \o sent)'
         /\ bytes \o sent \in AtMostOne
<1>1. Progress \in Nat /\ Len(w) \in Nat
  BY ReceiveClocks
<1>2. PICK r \in Nat : r = Len(w) - Progress
  BY <1>1
<1>3. PICK q \in Nat : r = q + 1
  BY <1>1, <1>2
<1>4. Coming(r, bytes)
  BY <1>2
<1>5. Coming(q, bytes \o sent)' /\ bytes \o sent \in AtMostOne
  BY <1>3, <1>4, ComingStep
<1>6. q = Len(w) - Progress'
  BY <1>1, <1>2, <1>3
<1>7. Coming(Len(w) - Progress, bytes \o sent)'
  BY <1>5, <1>6
<1>8. r <= Committed /\ Committed \in Nat
  <2>1. PICK m \in 0 .. Committed : r <= m
    BY <1>4 DEF Coming
  <2>. QED
    BY <2>1, CommittedPlaces
<1>9. ASSUME NEW k \in 1 .. q PROVE Ahead(k)' = w[Progress' + k]
  <2>1. /\ k \in 1 .. Committed - 1 /\ k + 1 \in 1 .. Len(w) - Progress
        /\ Progress' + k = Progress + (k + 1)
    BY <1>1, <1>2, <1>3, <1>8
  <2>2. Ahead(k)' = Ahead(k + 1)
    BY <2>1, StreamStep
  <2>3. Ahead(k + 1) = w[Progress + (k + 1)]
    BY <2>1 DEF Within
  <2>. QED
    BY <2>1, <2>2, <2>3
<1>10. Within(w)'
  BY <1>6, <1>9 DEF Within
<1>. QED
  BY <1>5, <1>7, <1>10

\* The receiver has left the wave w but for idle levels.
LEMMA WaveEnds ==
  ASSUME ReceiveTypes, NEW readsRDR \in BOOLEAN, NEW sent \in AtMostOne, Edge(readsRDR, sent),
         NEW bytes \in AtMostOne, NEW w \in Seq(Bit), Within(w), Coming(Len(w) - Progress, bytes),
         Progress < Len(w), NEW q \in {0, 1}, \A k \in Progress + 1 + q .. Len(w) : w[k] = 1,
         q = 0 => Ahead(1) = 1
  PROVE  Coming(0, bytes \o sent)' /\ bytes \o sent \in AtMostOne
<1>1. Progress \in Nat /\ Len(w) \in Nat
  BY ReceiveClocks
<1>2. PICK r \in Nat : r = Len(w) - Progress
  BY <1>1
<1>3. Coming(r, bytes) /\ q <= r
  BY <1>1, <1>2
<1>4. ASSUME NEW k \in q + 1 .. r PROVE Ahead(k) = 1
  <2>1. k \in 1 .. Len(w) - Progress /\ Progress + k \in Progress + 1 + q .. Len(w)
    BY <1>1, <1>2
  <2>2. Ahead(k) = w[Progress + k]
    BY <2>1 DEF Within
  <2>. QED
    BY <2>1, <2>2
<1>5. Coming(q, bytes)
  BY <1>3, <1>4, ComingLess
<1>. QED
  BY <1>5, ComingStep

\* The bits of a frame the receiver has sampled.
Known(b) ==
  /\ rx_state = "DATA" => \A i \in 0 .. rx_idx - 1 : rx_shift[i] = b[i]
  /\ rx_state = "STOP" => rx_shift = b

\* What is sent and not read: what is delivered, then the frame the receiver
\* is in, then the frame on its way.
AtRest ==
  \E bytes \in AtMostOne : Coming(0, bytes) /\ unread = Pending \o bytes

InSpike ==
  \E n \in Spikes, bytes \in AtMostOne :
    /\ rx_state = "START"
    /\ Within(Spike(n)) /\ Coming(Len(Spike(n)) - Progress, bytes)
    /\ unread = Pending \o bytes

InFrame ==
  \E p \in PeerBits, b \in Byte, bytes \in AtMostOne :
    /\ Within(Frame(b, p)) /\ Coming(Len(Frame(b, p)) - Progress, bytes)
    /\ Known(b) /\ unread = Pending \o (<< b >> \o bytes)

WaveInv ==
  /\ rx_state = "IDLE" => AtRest
  /\ rx_state # "IDLE" => InSpike \/ InFrame

\* A sample in the middle of a bit is that bit.
LEMMA KnownStep ==
  ASSUME ReceiveTypes, ReceiveTypes', NEW readsRDR \in BOOLEAN, NEW sent \in AtMostOne,
         Edge(readsRDR, sent), NEW b \in Byte, NEW p \in PeerBits, Within(Frame(b, p)), Known(b),
         rx_state = "DATA"
  PROVE  Known(b)'
<1>1. CASE ~RxBitEnds
  <2>1. rx_state' = "DATA" /\ rx_idx' = rx_idx /\ rx_shift' = rx_shift
    BY <1>1, ProgressStep
  <2>. QED
    BY <2>1 DEF Known
<1>2. CASE RxBitEnds
  <2>. DEFINE w == Frame(b, p)
              at == CLKS_PER_BIT * (rx_idx + 1)
  <2>1. rx_idx \in 0 .. NBits - 1 /\ Progress = HALF_BIT + at /\ Progress < RxClocks /\ Progress \in Nat
    BY <1>2, ReceiveClocks DEF ReceiveTypes
  <2>2. w[HALF_BIT + at + 1] = b[rx_idx] /\ Len(w) \in Nat /\ RxClocks <= Len(w)
    BY <2>1, FrameFacts
  <2>3. Within(w)
    OBVIOUS
  <2>. HIDE DEF w, at
  <2>4. 1 \in 1 .. Len(w) - Progress /\ Progress + 1 = HALF_BIT + at + 1
    BY <2>1, <2>2, Bounds
  <2>5. Ahead(1) = b[rx_idx]
    BY <2>2, <2>3, <2>4 DEF Within
  <2>6. rx_shift' = [rx_shift EXCEPT ![rx_idx] = b[rx_idx]]
    BY <1>2, <2>5, ProgressStep DEF Ahead
  <2>7. /\ rx_shift \in [0 .. NBits - 1 -> Bit] /\ b \in [0 .. NBits - 1 -> Bit]
        /\ rx_shift' \in [0 .. NBits - 1 -> Bit]
        /\ \A i \in 0 .. rx_idx - 1 : rx_shift[i] = b[i]
    BY DEF ReceiveTypes, Byte, Known
  <2>8. ASSUME NEW i \in 0 .. rx_idx PROVE rx_shift'[i] = b[i]
    <3>1. i \in 0 .. NBits - 1 /\ (i = rx_idx \/ i \in 0 .. rx_idx - 1)
      BY <2>1, Bounds
    <3>. QED
      BY <2>6, <2>7, <3>1
  <2>9. CASE rx_state' = "DATA" /\ rx_idx' = rx_idx + 1
    BY <2>1, <2>8, <2>9 DEF Known
  <2>10. CASE rx_state' = "STOP" /\ rx_idx = NBits - 1
    <3>1. rx_shift' = b
      BY <2>7, <2>8, <2>10
    <3>. QED
      BY <2>10, <3>1 DEF Known
  <2>. QED
    BY <1>2, <2>9, <2>10, ProgressStep
<1>. QED
  BY <1>1, <1>2

LEMMA AtRestStep ==
  ASSUME ReceiveTypes, ReceiveFlags, HandlerInv, NEW readsRDR \in BOOLEAN, NEW sent \in AtMostOne,
         Edge(readsRDR, sent), rx_state = "IDLE", AtRest
  PROVE  WaveInv'
<1>0. ReceiveTypes' /\ ~rx_valid' /\ Ahead(1) = rx_sync /\ rx_sync \in Bit
  <2>1. ReceiveTypes'
    BY TypesStep
  <2>. QED
    BY <2>1, ProgressStep DEF Ahead, ReceiveTypes
<1>1. PICK bytes \in AtMostOne : Coming(0, bytes) /\ unread = Pending \o bytes
  BY DEF AtRest
<1>2. /\ unread' = Kept(readsRDR) \o (bytes \o sent)
      /\ Pending' = Kept(readsRDR)
  BY <1>0, <1>1, AtMostOneSeq, UnreadStep
<1>3. CASE rx_sync # 0
  <2>1. rx_state' = "IDLE" /\ Ahead(1) = 1
    BY <1>0, <1>3, ProgressStep DEF Bit
  <2>2. Coming(0, bytes \o sent)' /\ bytes \o sent \in AtMostOne
    BY <1>1, <2>1, ComingStep
  <2>3. AtRest'
    BY <1>2, <2>2 DEF AtRest
  <2>. QED
    BY <2>1, <2>3 DEF WaveInv
<1>4. CASE rx_sync = 0
  <2>1. rx_state' = "START" /\ Progress' = 1
    BY <1>0, <1>4, ProgressStep
  <2>2. PICK w \in Waves(bytes) : Within(w)' /\ Coming(Len(w) - Progress, sent)'
    BY <1>0, <1>1, <1>4, <2>1, WaveBegins
  <2>3. CASE bytes = << >>
    <3>1. PICK n \in Spikes : w = Spike(n)
      BY <2>3, WaveFacts
    <3>2. << >> \o sent = sent
      BY AtMostOneSeq, ConcatEmptySeq
    <3>3. Within(Spike(n))' /\ Coming(Len(Spike(n)) - Progress, sent)'
      <4>1. Spike(n)' = Spike(n)
        BY DEF Spike, HALF_BIT
      <4>. QED
        BY <2>2, <3>1, <4>1
    <3>4. InSpike'
      BY <1>2, <2>1, <2>3, <3>2, <3>3 DEF InSpike
    <3>. QED
      BY <2>1, <3>4 DEF WaveInv
  <2>4. CASE bytes # << >>
    <3>1. PICK b \in Byte, p \in PeerBits : bytes = << b >> /\ w = Frame(b, p)
      BY <2>4, WaveFacts
    <3>2. Within(Frame(b, p))' /\ Coming(Len(Frame(b, p)) - Progress, sent)'
      BY <2>2, <3>1
    <3>3. Known(b)'
      BY <2>1 DEF Known
    <3>4. InFrame'
      BY <1>2, <3>1, <3>2, <3>3 DEF InFrame
    <3>. QED
      BY <2>1, <3>4 DEF WaveInv
  <2>. QED
    BY <2>3, <2>4
<1>. QED
  BY <1>3, <1>4

LEMMA InSpikeStep ==
  ASSUME ReceiveTypes, ReceiveFlags, HandlerInv, NEW readsRDR \in BOOLEAN, NEW sent \in AtMostOne,
         Edge(readsRDR, sent), InSpike
  PROVE  WaveInv'
<1>1. PICK n \in Spikes, bytes \in AtMostOne :
        /\ rx_state = "START"
        /\ Within(Spike(n)) /\ Coming(Len(Spike(n)) - Progress, bytes)
        /\ unread = Pending \o bytes
  BY DEF InSpike
<1>0. ReceiveTypes' /\ ~rx_valid'
  <2>1. ReceiveTypes'
    BY TypesStep
  <2>. QED
    BY <1>1, <2>1, ProgressStep
<1>2. /\ unread' = Kept(readsRDR) \o (bytes \o sent)
      /\ Pending' = Kept(readsRDR)
  BY <1>0, <1>1, AtMostOneSeq, UnreadStep
<1>3. /\ n \in Nat /\ n >= 1 /\ Spike(n) \in Seq(Bit) /\ Len(Spike(n)) = n + HALF_BIT + 1
      /\ \A k \in HALF_BIT + 1 .. n + HALF_BIT + 1 : Spike(n)[k] = 1
  BY SpikeFacts
<1>4. Progress \in Nat /\ Progress <= HALF_BIT /\ Progress < Len(Spike(n))
  BY <1>0, <1>1, <1>3, ReceiveClocks, ProgressStep, Bounds
<1>5. CASE Progress < HALF_BIT
  <2>1. rx_state' = "START" /\ Progress' = Progress + 1
    BY <1>0, <1>1, <1>5, ProgressStep
  <2>2. Within(Spike(n))' /\ Coming(Len(Spike(n)) - Progress, bytes \o sent)' /\ bytes \o sent \in AtMostOne
    BY <1>1, <1>3, <1>4, <2>1, WaveGoesOn
  <2>3. InSpike'
    BY <1>2, <2>1, <2>2 DEF InSpike
  <2>. QED
    BY <2>1, <2>3 DEF WaveInv
<1>6. CASE Progress = HALF_BIT
  <2>1. Ahead(1) = 1
    <3>1. 1 \in 1 .. Len(Spike(n)) - Progress /\ Progress + 1 \in HALF_BIT + 1 .. n + HALF_BIT + 1
      BY <1>3, <1>4, <1>6, Bounds
    <3>2. Ahead(1) = Spike(n)[Progress + 1]
      BY <1>1, <3>1 DEF Within
    <3>. QED
      BY <1>3, <3>1, <3>2
  <2>2. rx_state' = "IDLE"
    BY <1>0, <1>1, <1>6, <2>1, ProgressStep DEF Ahead
  <2>3. \A k \in Progress + 1 + 0 .. Len(Spike(n)) : Spike(n)[k] = 1
    BY <1>3, <1>4, <1>6, Bounds
  <2>4. Coming(0, bytes \o sent)' /\ bytes \o sent \in AtMostOne
    BY <1>1, <1>3, <1>4, <2>1, <2>3, WaveEnds
  <2>5. AtRest'
    BY <1>2, <2>4 DEF AtRest
  <2>. QED
    BY <2>2, <2>5 DEF WaveInv
<1>. QED
  BY <1>4, <1>5, <1>6, Bounds

LEMMA InFrameStep ==
  ASSUME ReceiveTypes, ReceiveFlags, HandlerInv, NEW readsRDR \in BOOLEAN, NEW sent \in AtMostOne,
         Edge(readsRDR, sent), rx_state # "IDLE", InFrame
  PROVE  WaveInv'
<1>1. PICK p \in PeerBits, b \in Byte, bytes \in AtMostOne :
        /\ Within(Frame(b, p)) /\ Coming(Len(Frame(b, p)) - Progress, bytes)
        /\ Known(b) /\ unread = Pending \o (<< b >> \o bytes)
  BY DEF InFrame
<1>2. PICK w \in Seq(Bit) : w = Frame(b, p)
  BY FrameFacts
<1>3. /\ Len(w) \in Nat /\ RxClocks <= Len(w) /\ w[HALF_BIT + 1] = 0
      /\ \A k \in RxClocks + 1 .. Len(w) : w[k] = 1
  BY <1>2, FrameFacts
<1>4. Within(w) /\ Coming(Len(w) - Progress, bytes)
  BY <1>1, <1>2
<1>5. Progress \in Nat /\ Progress < RxClocks /\ Progress < Len(w)
  BY <1>3, ReceiveClocks, Bounds
<1>6. ReceiveTypes'
  BY TypesStep
<1>7. /\ << b >> \o bytes \in Seq(Byte) /\ bytes \in Seq(Byte) /\ sent \in Seq(Byte)
      /\ (<< b >> \o bytes) \o sent = << b >> \o (bytes \o sent)
  <2>1. bytes \in Seq(Byte) /\ sent \in Seq(Byte) /\ << b >> \in Seq(Byte)
    BY AtMostOneSeq
  <2>. QED
    BY <2>1, ConcatProperties, ConcatAssociative
<1>8. /\ unread' = Kept(readsRDR) \o (<< b >> \o (bytes \o sent))
      /\ ~rx_valid' => Pending' = Kept(readsRDR)
      /\ rx_valid' => Kept(readsRDR) = << >> /\ Pending' = << rx_shift >>
  BY <1>1, <1>7, UnreadStep
<1>9. ASSUME Progress' = Progress + 1, rx_state' # "IDLE", ~rx_valid', Known(b)'
      PROVE  WaveInv'
  <2>1. Within(w)' /\ Coming(Len(w) - Progress, bytes \o sent)' /\ bytes \o sent \in AtMostOne
    BY <1>4, <1>5, <1>9, WaveGoesOn
  <2>2. InFrame'
    BY <1>2, <1>8, <1>9, <2>1 DEF InFrame
  <2>. QED
    BY <1>9, <2>2 DEF WaveInv
<1>10. CASE rx_state = "START"
  <2>1. Progress <= HALF_BIT /\ ~rx_valid'
    BY <1>6, <1>10, ProgressStep
  <2>2. Progress = HALF_BIT => rx_sync = 0
    <3>. SUFFICES ASSUME Progress = HALF_BIT PROVE Ahead(1) = 0
      BY DEF Ahead
    <3>1. 1 \in 1 .. Len(w) - Progress /\ Progress + 1 = HALF_BIT + 1
      BY <1>3, <1>5, Bounds
    <3>. QED
      BY <1>3, <1>4, <3>1 DEF Within
  <2>3. \/ rx_state' = "START" /\ Progress' = Progress + 1
        \/ rx_state' = "DATA" /\ Progress' = Progress + 1 /\ rx_idx' = 0
    <3>1. Progress < HALF_BIT \/ Progress = HALF_BIT
      BY <1>5, <2>1, Bounds
    <3>. QED
      BY <1>6, <1>10, <2>2, <3>1, ProgressStep
  <2>4. Known(b)'
    BY <2>3 DEF Known
  <2>. QED
    BY <1>9, <2>1, <2>3, <2>4
<1>11. CASE rx_state = "DATA"
  <2>1. Progress' = Progress + 1 /\ rx_state' # "IDLE" /\ ~rx_valid'
    BY <1>6, <1>11, ProgressStep
  <2>2. Known(b)'
    BY <1>1, <1>6, <1>11, KnownStep
  <2>. QED
    BY <1>9, <2>1, <2>2
<1>12. CASE rx_state = "STOP" /\ ~RxBitEnds
  <2>1. rx_state' = "STOP" /\ Progress' = Progress + 1 /\ ~rx_valid' /\ rx_shift' = rx_shift
    BY <1>6, <1>12, ProgressStep
  <2>2. Known(b)'
    BY <1>1, <1>12, <2>1 DEF Known
  <2>. QED
    BY <1>9, <2>1, <2>2
<1>13. CASE rx_state = "STOP" /\ RxBitEnds
  <2>1. rx_state' = "IDLE" /\ rx_valid' /\ rx_shift = b /\ Progress + 1 = RxClocks
    BY <1>1, <1>6, <1>13, ProgressStep, ReceiveClocks DEF Known
  <2>2. \A k \in Progress + 1 + 1 .. Len(w) : w[k] = 1
    BY <1>3, <1>5, <2>1
  <2>3. Coming(0, bytes \o sent)' /\ bytes \o sent \in AtMostOne
    BY <1>4, <1>5, <2>2, WaveEnds
  <2>4. unread' = Pending' \o (bytes \o sent)
    <3>1. << b >> \o (bytes \o sent) \in Seq(Byte)
      BY <1>7, ConcatProperties
    <3>2. << >> \o (<< b >> \o (bytes \o sent)) = << b >> \o (bytes \o sent)
      BY <3>1, ConcatEmptySeq
    <3>. QED
      BY <1>8, <2>1, <3>2
  <2>5. AtRest'
    BY <2>3, <2>4 DEF AtRest
  <2>. QED
    BY <2>1, <2>5 DEF WaveInv
<1>. QED
  BY <1>10, <1>11, <1>12, <1>13 DEF ReceiveTypes

-----------------------------------------------------------------------------
ReceiveInv == ReceiveTypes /\ ReceiveFlags /\ HandlerInv /\ WaveInv

LEMMA WaveInvStep ==
  ASSUME ReceiveInv, NEW readsRDR \in BOOLEAN, NEW sent \in AtMostOne, Edge(readsRDR, sent)
  PROVE  ReceiveInv'
<1>1. ReceiveTypes' /\ ReceiveFlags'
  BY TypesStep DEF ReceiveInv
<1>2. HandlerInv'
  BY HandlerStep DEF ReceiveInv
<1>3. WaveInv'
  BY AtRestStep, InSpikeStep, InFrameStep DEF ReceiveInv, WaveInv
<1>. QED
  BY <1>1, <1>2, <1>3 DEF ReceiveInv

LEMMA ReceiveInitInv == ReceiveInit => ReceiveInv
<1>. SUFFICES ASSUME ReceiveInit PROVE ReceiveInv
  OBVIOUS
<1>1. /\ rx_sync0 = 1 /\ rx_sync = 1 /\ rx_state = "IDLE" /\ rx_cnt = 0 /\ rx_idx = 0
      /\ rx_shift = ZeroByte /\ rx_data = ZeroByte /\ rx_valid = FALSE
      /\ uart_rdr = ZeroByte /\ rx_flag = FALSE /\ rx_ie = TRUE
      /\ wave = << >> /\ late = 0 /\ unread = << >>
  BY DEF ReceiveInit, UartInit, ReceiverAtReset, RegistersAtReset
<1>2. ReceiveTypes
  <2>1. ZeroByte \in Byte
    BY DEF ZeroByte, Byte, Bit
  <2>2. << >> \in Seq(Bit)
    OBVIOUS
  <2>. QED
    BY <1>1, <2>1, <2>2, Bounds DEF ReceiveTypes, Bit
<1>3. ReceiveFlags
  BY <1>1 DEF ReceiveFlags
<1>4. HandlerInv
  BY <1>1, PeerAssumption DEF HandlerInv
<1>5. WaveInv
  <2>1. Committed = 3 /\ \A k \in 1 .. 3 : Ahead(k) = 1
    BY <1>1 DEF Committed, Ahead
  <2>2. Coming(0, << >>)
    BY <2>1 DEF Coming
  <2>3. unread = Pending \o << >>
    BY <1>1 DEF Pending
  <2>4. << >> \in AtMostOne
    BY DEF AtMostOne
  <2>5. AtRest
    BY <2>2, <2>3, <2>4 DEF AtRest
  <2>. QED
    BY <1>1, <2>5 DEF WaveInv
<1>. QED
  BY <1>2, <1>3, <1>4, <1>5 DEF ReceiveInv

LEMMA ReceiveStutterInv == ReceiveInv /\ UNCHANGED receiveVars => ReceiveInv'
<1>. SUFFICES ASSUME ReceiveInv, UNCHANGED receiveVars PROVE ReceiveInv'
  OBVIOUS
<1>1. /\ UNCHANGED << rx_sync0, rx_sync, rx_state, rx_cnt, rx_idx, rx_shift, rx_data, rx_valid >>
      /\ UNCHANGED << uart_rdr, rx_flag, rx_ie, wave, late, unread >>
  BY DEF receiveVars, uartVars, receiver, registers
<1>2. ReceiveTypes'
  BY <1>1 DEF ReceiveInv, ReceiveTypes
<1>3. ReceiveFlags'
  BY <1>1 DEF ReceiveInv, ReceiveFlags
<1>4. Progress' = Progress /\ Pending' = Pending /\ Committed' = Committed
  BY <1>1 DEF Progress, Pending, Committed
<1>5. HandlerInv'
  BY <1>1, <1>4 DEF ReceiveInv, HandlerInv
<1>6. ASSUME NEW k PROVE Ahead(k)' = Ahead(k)
  BY <1>1 DEF Ahead
<1>7. ASSUME NEW r, NEW bytes, Coming(r, bytes) PROVE Coming(r, bytes)'
  <2>1. Waves(bytes)' = Waves(bytes)
    BY DEF Waves, Spike, Frame, HALF_BIT
  <2>2. ASSUME NEW w, NEW m, Comes(w, m) PROVE Comes(w, m)'
    BY <1>4, <1>6, <2>2 DEF Comes
  <2>. QED
    BY <1>4, <1>6, <1>7, <2>1, <2>2 DEF Coming
<1>8. ASSUME NEW w, Within(w) PROVE Within(w)'
  BY <1>4, <1>6, <1>8 DEF Within
<1>9. ASSUME NEW b, Known(b) PROVE Known(b)'
  BY <1>1, <1>9 DEF Known
<1>10. AtRest => AtRest'
  BY <1>1, <1>4, <1>7 DEF AtRest
<1>11. InSpike => InSpike'
  <2>. SUFFICES ASSUME InSpike PROVE InSpike'
    OBVIOUS
  <2>1. PICK n \in Spikes, bytes \in AtMostOne :
        /\ rx_state = "START"
        /\ Within(Spike(n)) /\ Coming(Len(Spike(n)) - Progress, bytes)
        /\ unread = Pending \o bytes
    BY DEF InSpike
  <2>2. PICK w, r : w = Spike(n) /\ r = Len(Spike(n)) - Progress
    OBVIOUS
  <2>3. Within(w)' /\ Coming(r, bytes)'
    BY <1>7, <1>8, <2>1, <2>2
  <2>. QED
    BY <1>1, <1>4, <2>1, <2>2, <2>3 DEF InSpike
<1>12. InFrame => InFrame'
  <2>. SUFFICES ASSUME InFrame PROVE InFrame'
    OBVIOUS
  <2>1. PICK p \in PeerBits, b \in Byte, bytes \in AtMostOne :
        /\ Within(Frame(b, p)) /\ Coming(Len(Frame(b, p)) - Progress, bytes)
        /\ Known(b) /\ unread = Pending \o (<< b >> \o bytes)
    BY DEF InFrame
  <2>2. PICK w, r : w = Frame(b, p) /\ r = Len(Frame(b, p)) - Progress
    OBVIOUS
  <2>3. Within(w)' /\ Coming(r, bytes)' /\ Known(b)'
    BY <1>7, <1>8, <1>9, <2>1, <2>2
  <2>. QED
    BY <1>1, <1>4, <2>1, <2>2, <2>3 DEF InFrame
<1>13. WaveInv'
  BY <1>1, <1>10, <1>11, <1>12 DEF ReceiveInv, WaveInv
<1>. QED
  BY <1>2, <1>3, <1>5, <1>13 DEF ReceiveInv

\* In every reachable state what is sent and not read is told by the receiver,
\* its registers and the line: the byte delivered, the frame the receiver is
\* in, the frame on its way, in this order.
THEOREM ReceiveInvariant == Spec => []ReceiveInv
<1>1. ReceiveInv /\ Clock => ReceiveInv'
  <2>. SUFFICES ASSUME ReceiveInv, Clock PROVE ReceiveInv'
    OBVIOUS
  <2>1. PICK readsRDR \in BOOLEAN, sent \in AtMostOne : Edge(readsRDR, sent)
    BY DEF Clock, Edge, AtMostOne
  <2>. QED
    BY <2>1, WaveInvStep
<1>2. ReceiveInv /\ [Clock]_receiveVars => ReceiveInv'
  BY <1>1, ReceiveStutterInv
<1>. QED
  BY <1>2, ReceiveInitInv, PTL DEF Spec

\* What is pending is first in unread, and nothing else is there at rest.
LEMMA UnreadFacts ==
  ASSUME ReceiveInv
  PROVE  /\ rx_flag => unread # << >> /\ uart_rdr = Head(unread)
         /\ NothingLost
<1>. USE DEF ReceiveInv
<1>1. ASSUME rx_flag, NEW rest \in Seq(Byte), unread = Pending \o rest
      PROVE  unread # << >> /\ uart_rdr = Head(unread)
  <2>1. late > 0 /\ ~rx_valid
    BY <1>1, PeerAssumption DEF HandlerInv
  <2>2. unread = << uart_rdr >> \o rest /\ uart_rdr \in Byte
    BY <1>1, <2>1 DEF Pending, ReceiveTypes
  <2>. QED
    BY <2>2
<1>2. \E rest \in Seq(Byte) : unread = Pending \o rest
  <2>1. CASE AtRest
    BY <2>1, AtMostOneSeq DEF AtRest
  <2>2. CASE InSpike
    BY <2>2, AtMostOneSeq DEF InSpike
  <2>3. CASE InFrame
    <3>1. PICK b \in Byte, bytes \in AtMostOne : unread = Pending \o (<< b >> \o bytes)
      BY <2>3 DEF InFrame
    <3>2. << b >> \o bytes \in Seq(Byte)
      BY AtMostOneSeq, ConcatProperties
    <3>. QED
      BY <3>1, <3>2
  <2>. QED
    BY <2>1, <2>2, <2>3 DEF WaveInv
<1>3. ASSUME wave = << >>, rx_sync0 = 1, rx_sync = 1, rx_state = "IDLE", ~rx_valid, ~rx_flag
      PROVE  unread = << >>
  <2>1. PICK bytes \in AtMostOne : Coming(0, bytes) /\ unread = Pending \o bytes
    BY <1>3 DEF WaveInv, AtRest
  <2>2. Committed = 3 /\ Ahead(1) = 1
    BY <1>3 DEF Committed, Ahead
  <2>3. bytes = << >>
    BY <2>1, <2>2, NoneComing
  <2>. QED
    BY <1>3, <2>1, <2>3 DEF Pending
<1>. QED
  BY <1>1, <1>2, <1>3 DEF NothingLost

\* A byte is lost in no way, whatever tolerated bit time each frame has and
\* however the spikes fall: at rest everything sent has been read.
THEOREM NoByteIsLost == Spec => []NothingLost
<1>1. ReceiveInv => NothingLost
  BY UnreadFacts
<1>. QED
  BY <1>1, ReceiveInvariant, PTL

\* The handler reads the bytes of the peer in order, none twice and none made
\* up from a spike.
THEOREM BytesAreInOrder == Spec => BytesInOrder
<1>1. ReceiveInv => (rx_flag /\ ~rx_flag' => unread # << >> /\ uart_rdr = Head(unread))
  BY UnreadFacts
<1>. QED
  BY <1>1, ReceiveInvariant, PTL DEF BytesInOrder

=============================================================================
