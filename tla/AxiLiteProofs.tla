--------------------------- MODULE AxiLiteProofs ---------------------------
(***************************************************************************)
(* Proofs about the AXI4-Lite handshake for every number of lanes, every   *)
(* set of byte values and every manager that obeys AXI.                    *)
(*                                                                         *)
(* HandshakeInv is inductive: the phases of the write side                 *)
(* (OneWriteAtATime) and the freedom of the read channel when an address   *)
(* is accepted (NoLostRead) each follow from themselves and the types.     *)
(***************************************************************************)
EXTENDS AxiLite, TLAPS

\* The reset word is a word.
LEMMA ZeroIsWord == Zero \in Word
  BY WordAssumption DEF Zero, Word

\* Reset values satisfy the handshake invariant, in the initial state and
\* after a reset at any time.
LEMMA HandshakeInit == AxiInit => HandshakeInv
<1> SUFFICES ASSUME AxiInit PROVE HandshakeInv
  OBVIOUS
<1> USE DEF AxiInit, ManagerReset, SubordinateReset
<1>1. wdata \in Word /\ axi_rdata \in Word /\ wstrb \in Strobe
  BY ZeroIsWord DEF Strobe
<1>2. /\ awaddr \in Regs /\ araddr \in Regs
      /\ axi_awaddr \in Regs /\ axi_araddr \in Regs
  BY DEF Regs
<1>4. TypeOK
  BY <1>1, <1>2, Zenon DEF TypeOK
<1>3. OneWriteAtATime /\ NoLostRead /\ OneReadAtATime
  BY DEF OneWriteAtATime, NoLostRead, OneReadAtATime
<1>. QED
  BY <1>4, <1>3 DEF HandshakeInv

LEMMA HandshakeReset == AxiReset => HandshakeInv'
<1> SUFFICES ASSUME AxiReset PROVE HandshakeInv'
  OBVIOUS
<1> USE DEF AxiReset, ManagerReset, SubordinateReset
<1>1. wdata' \in Word /\ axi_rdata' \in Word /\ wstrb' \in Strobe
  BY ZeroIsWord DEF Strobe
<1>2. /\ awaddr' \in Regs /\ araddr' \in Regs
      /\ axi_awaddr' \in Regs /\ axi_araddr' \in Regs
  BY DEF Regs
<1>4. TypeOK'
  BY <1>1, <1>2, Zenon DEF TypeOK, Regs, Word, Strobe
<1>3. OneWriteAtATime' /\ NoLostRead' /\ OneReadAtATime'
  BY DEF OneWriteAtATime, NoLostRead, OneReadAtATime
<1>. QED
  BY <1>4, <1>3 DEF HandshakeInv

\* A clock edge keeps every register and every manager output in its type.
LEMMA TypeClock ==
  TypeOK /\ ManagerEdge /\ SubordinateEdge(Word) => TypeOK'
<1> SUFFICES ASSUME TypeOK, ManagerEdge, SubordinateEdge(Word)
             PROVE  TypeOK'
  OBVIOUS
<1>1. awvalid' \in BOOLEAN /\ awaddr' \in Regs
  BY ManagerAssumption DEF ManagerEdge, DriveAw, TypeOK
<1>2. wvalid' \in BOOLEAN /\ wdata' \in Word /\ wstrb' \in Strobe
  BY ManagerAssumption DEF ManagerEdge, DriveW, TypeOK
<1>3. arvalid' \in BOOLEAN /\ araddr' \in Regs
  BY ManagerAssumption DEF ManagerEdge, DriveAr, TypeOK
<1>4. bready' \in BOOLEAN /\ rready' \in BOOLEAN
  BY DEF ManagerEdge
<1>5. /\ axi_awready' \in BOOLEAN /\ aw_en' \in BOOLEAN /\ axi_awaddr' \in Regs
      /\ axi_wready' \in BOOLEAN /\ axi_bvalid' \in BOOLEAN
  BY DEF SubordinateEdge, WriteEdge, AwEdge, WEdge, BEdge, TypeOK
<1>6. axi_arready' \in BOOLEAN /\ axi_araddr' \in Regs
  BY DEF SubordinateEdge, ArEdge, TypeOK
<1>7. axi_rvalid' \in BOOLEAN /\ axi_rdata' \in Word
  BY DEF SubordinateEdge, REdge, TypeOK
<1>. QED
  BY <1>1, <1>2, <1>3, <1>4, <1>5, <1>6, <1>7 DEF TypeOK, Regs, Word, Strobe

\* A clock edge moves the write side from one of its phases to another.
LEMMA WritePhaseClock ==
  TypeOK /\ OneWriteAtATime /\ ManagerEdge /\ WriteEdge => OneWriteAtATime'
<1> SUFFICES ASSUME TypeOK, OneWriteAtATime, ManagerEdge, WriteEdge
             PROVE  OneWriteAtATime'
  OBVIOUS
<1> USE DEF TypeOK, OneWriteAtATime, ManagerEdge, WriteEdge, AwEdge, WEdge,
            BEdge, WrEn, DriveAw, DriveW
<1>1. axi_awready' = axi_wready'
  OBVIOUS
<1>2. aw_en' = (~axi_awready' /\ ~axi_bvalid')
  OBVIOUS
<1>3. ~(axi_awready' /\ axi_bvalid')
  OBVIOUS
<1>4. axi_awready' => awvalid' /\ wvalid' /\ axi_awaddr' = awaddr'
  OBVIOUS
<1>. QED
  BY <1>1, <1>2, <1>3, <1>4

\* A read address is accepted only when the read channel is free.  The free
\* channel is what makes NoLostRead inductive: the manager raises ARVALID no
\* earlier than the edge at which the previous answer leaves.
LEMMA ReadPhaseClock ==
  /\ TypeOK /\ NoLostRead /\ OneReadAtATime
  /\ ManagerEdge /\ SubordinateEdge(Word)
  => NoLostRead' /\ OneReadAtATime'
<1> SUFFICES ASSUME TypeOK, NoLostRead, OneReadAtATime,
                    ManagerEdge, SubordinateEdge(Word)
             PROVE  NoLostRead' /\ OneReadAtATime'
  OBVIOUS
<1>1. OneReadAtATime'
  BY DEF TypeOK, OneReadAtATime, ManagerEdge, SubordinateEdge, ArEdge, REdge,
         RdEn, DriveAr
<1>2. ASSUME axi_arready'
      PROVE  arvalid' /\ ~axi_rvalid' /\ axi_araddr' = araddr'
  <2>1. ~axi_arready /\ arvalid /\ axi_araddr' = araddr
    BY <1>2 DEF SubordinateEdge, ArEdge
  <2>2. arvalid' /\ araddr' = araddr
    BY <2>1 DEF ManagerEdge, DriveAr
  <2>. QED
    BY <2>1, <2>2, <1>1 DEF OneReadAtATime
<1>. QED
  BY <1>1, <1>2 DEF NoLostRead

\* HandshakeInv is inductive over a clock edge.
LEMMA HandshakeClock ==
  HandshakeInv /\ ManagerEdge /\ SubordinateEdge(Word) => HandshakeInv'
  BY TypeClock, WritePhaseClock, ReadPhaseClock
  DEF HandshakeInv, SubordinateEdge

\* Whatever register block is behind it, the handshake keeps its types,
\* applies one write at a time and accepts no read it cannot answer.
THEOREM HandshakeSafe == Spec => []HandshakeInv
<1>1. AxiInit => HandshakeInv
  BY HandshakeInit
<1>2. HandshakeInv /\ [Next]_axiVars => HandshakeInv'
  <2> SUFFICES ASSUME HandshakeInv, [Next]_axiVars
               PROVE  HandshakeInv'
    OBVIOUS
  <2>1. CASE Clock
    BY <2>1, HandshakeClock DEF Clock
  <2>2. CASE AxiReset
    BY <2>2, HandshakeReset
  <2>3. CASE UNCHANGED axiVars
    BY <2>3 DEF axiVars, manager, subordinate, writeManager, readManager,
       writeSubordinate, readSubordinate, HandshakeInv, TypeOK,
       OneWriteAtATime, NoLostRead, OneReadAtATime
  <2>. QED
    BY <2>1, <2>2, <2>3 DEF Next
<1>. QED
  BY <1>1, <1>2, PTL DEF Spec

\* A response is held, with its data, until the manager takes it.
THEOREM ResponsesAreHeld == Spec => ResponsesHeld
<1>1. ASSUME Next, ~AxiReset
      PROVE  /\ axi_rvalid /\ ~rready => axi_rvalid' /\ axi_rdata' = axi_rdata
             /\ axi_bvalid /\ ~bready => axi_bvalid'
  <2>1. SubordinateEdge(Word)
    BY <1>1 DEF Next, Clock
  <2>2. axi_rvalid /\ ~rready => axi_rvalid' /\ axi_rdata' = axi_rdata
    BY <2>1 DEF SubordinateEdge, REdge, RdEn
  <2>3. axi_bvalid /\ ~bready => axi_bvalid'
    BY <2>1 DEF SubordinateEdge, WriteEdge, BEdge
  <2>. QED
    BY <2>2, <2>3
<1>. QED
  BY <1>1, PTL DEF Spec, ResponsesHeld

\* Requests and responses are paired one to one, on both directions.
THEOREM ResponsesArePaired == Spec => OneResponsePerRequest
<1> DEFINE Paired ==
      /\ (awvalid /\ axi_awready) = (wvalid /\ axi_wready)
      /\ (awvalid /\ axi_awready) = (~axi_bvalid /\ axi_bvalid')
      /\ (arvalid /\ axi_arready) = (~axi_rvalid /\ axi_rvalid')
<1>1. ASSUME HandshakeInv, Next, ~AxiReset
      PROVE  Paired
  <2>1. SubordinateEdge(Word)
    BY <1>1 DEF Next, Clock
  <2>2. (awvalid /\ axi_awready) = (wvalid /\ axi_wready)
    BY <1>1 DEF HandshakeInv, TypeOK, OneWriteAtATime
  <2>3. (awvalid /\ axi_awready) = (~axi_bvalid /\ axi_bvalid')
    BY <1>1, <2>1 DEF HandshakeInv, TypeOK, OneWriteAtATime, SubordinateEdge,
       WriteEdge, BEdge, WrEn
  <2>4. (arvalid /\ axi_arready) = (~axi_rvalid /\ axi_rvalid')
    BY <1>1, <2>1 DEF HandshakeInv, TypeOK, NoLostRead, SubordinateEdge,
       REdge, RdEn
  <2>. QED
    BY <2>2, <2>3, <2>4
<1>. QED
  BY <1>1, HandshakeSafe, PTL DEF Spec, OneResponsePerRequest

-----------------------------------------------------------------------------
\* A manager that makes one access at a time.

WriteFree == /\ ~awvalid /\ ~wvalid /\ ~axi_awready /\ ~axi_wready
             /\ aw_en /\ ~axi_bvalid
ReadFree  == ~arvalid /\ ~axi_arready /\ ~axi_rvalid
Free      == WriteFree /\ ReadFree

\* The three clocks of an access: offered, accepted, answered.
WriteOffered  == /\ awvalid /\ wvalid /\ ~axi_awready /\ ~axi_wready
                 /\ aw_en /\ ~axi_bvalid
WriteAccepted == /\ awvalid /\ wvalid /\ axi_awready /\ axi_wready
                 /\ ~aw_en /\ ~axi_bvalid /\ axi_awaddr = awaddr
WriteAnswered == /\ ~awvalid /\ ~wvalid /\ ~axi_awready /\ ~axi_wready
                 /\ ~aw_en /\ axi_bvalid
ReadOffered   == arvalid /\ ~axi_arready /\ ~axi_rvalid
ReadAccepted  == arvalid /\ axi_arready /\ ~axi_rvalid /\ axi_araddr = araddr
ReadAnswered  == ~arvalid /\ ~axi_arready /\ axi_rvalid

Carries(access) ==
  /\ bready /\ rready
  /\ IF access.write
     THEN /\ WriteOffered \/ WriteAccepted \/ WriteAnswered
          /\ ReadFree
          /\ awaddr = access.addr /\ wdata = access.word
     ELSE /\ ReadOffered \/ ReadAccepted \/ ReadAnswered
          /\ WriteFree
          /\ araddr = access.addr

\* At reset nothing is on the bus.
LEMMA ResetFree == (AxiInit => Free) /\ (AxiReset => Free')
  BY DEF AxiInit, AxiReset, ManagerReset, SubordinateReset, Free, WriteFree, ReadFree

\* A free bus stays free until an access is put on it.
LEMMA FreeWaits ==
  ASSUME NEW shown, Free, UNCHANGED manager, SubordinateEdge(shown)
  PROVE  Free' /\ ~WrEn /\ ~RdEn /\ axi_rdata' = axi_rdata
<1> USE DEF Free, WriteFree, ReadFree, WrEn, RdEn
<1>1. UNCHANGED << awvalid, wvalid, bready, arvalid, rready >>
  BY DEF manager, writeManager, readManager
<1>2. ~axi_awready' /\ aw_en' /\ ~axi_wready' /\ ~axi_bvalid'
  BY DEF SubordinateEdge, WriteEdge, AwEdge, WEdge, BEdge
<1>3. ~axi_arready' /\ ~axi_rvalid' /\ axi_rdata' = axi_rdata
  BY DEF SubordinateEdge, ArEdge, REdge
<1>. QED
  BY <1>1, <1>2, <1>3

LEMMA FreeTakes ==
  ASSUME NEW shown, NEW access, Free, PutOnBus(access), SubordinateEdge(shown)
  PROVE  /\ Carries(access)' /\ ~WrEn /\ ~RdEn /\ axi_rdata' = axi_rdata
         /\ ~axi_bvalid' /\ ~axi_rvalid'
<1> USE DEF Free, WriteFree, ReadFree, WrEn, RdEn
<1>1. ~axi_awready' /\ aw_en' /\ ~axi_wready' /\ ~axi_bvalid'
  BY DEF SubordinateEdge, WriteEdge, AwEdge, WEdge, BEdge
<1>2. ~axi_arready' /\ ~axi_rvalid' /\ axi_rdata' = axi_rdata
  BY DEF SubordinateEdge, ArEdge, REdge
<1>3. CASE access.write
  BY <1>1, <1>2, <1>3 DEF PutOnBus, Carries, WriteOffered
<1>4. CASE ~access.write
  BY <1>1, <1>2, <1>4 DEF PutOnBus, Carries, ReadOffered
<1>. QED
  BY <1>1, <1>2, <1>3, <1>4

\* An access takes effect in its second clock, with the address and the data
\* of the access, and is answered in the next.
LEMMA CarriesOn ==
  ASSUME NEW shown, NEW access, Carries(access), HoldOnBus, SubordinateEdge(shown)
  PROVE  /\ Responded => Free'
         /\ ~Responded => Carries(access)'
         /\ WrEn => access.write /\ axi_awaddr = access.addr /\ wdata = access.word
         /\ RdEn => ~access.write /\ axi_araddr = access.addr
         /\ axi_bvalid' <=> WrEn
         /\ axi_rvalid' <=> RdEn
         /\ IF RdEn THEN axi_rdata' \in shown ELSE axi_rdata' = axi_rdata
         /\ axi_bvalid => access.write
         /\ axi_rvalid => ~access.write
         /\ Responded => ~WrEn /\ ~RdEn
<1>0. IF RdEn THEN axi_rdata' \in shown ELSE axi_rdata' = axi_rdata
  BY DEF SubordinateEdge, REdge
<1>a. /\ awaddr' = awaddr /\ wdata' = wdata /\ araddr' = araddr
      /\ bready' = bready /\ rready' = rready
  BY DEF HoldOnBus
<1>1. CASE access.write
  <2>1. /\ ~arvalid' /\ ~axi_arready' /\ ~axi_rvalid' /\ ~RdEn /\ ~axi_rvalid
        /\ bready /\ rready
    BY <1>1 DEF Carries, ReadFree, HoldOnBus, SubordinateEdge, ArEdge, REdge, RdEn
  <2>2. CASE WriteOffered
    <3>1. WriteAccepted' /\ ~WrEn /\ ~axi_bvalid /\ ~axi_bvalid'
      BY <2>2 DEF WriteOffered, WriteAccepted, WrEn, HoldOnBus, SubordinateEdge, WriteEdge,
                  AwEdge, WEdge, BEdge
    <3>. QED
      BY <1>0, <1>a, <1>1, <2>1, <3>1 DEF Carries, Responded, ReadFree
  <2>3. CASE WriteAccepted
    <3>1. WriteAnswered' /\ WrEn /\ ~axi_bvalid /\ axi_bvalid'
      BY <2>3 DEF WriteAccepted, WriteAnswered, WrEn, HoldOnBus, SubordinateEdge, WriteEdge,
                  AwEdge, WEdge, BEdge
    <3>. QED
      BY <1>0, <1>a, <1>1, <2>1, <2>3, <3>1 DEF Carries, Responded, ReadFree, WriteAccepted
  <2>4. CASE WriteAnswered
    <3>1. WriteFree' /\ ~WrEn /\ axi_bvalid /\ ~axi_bvalid'
      BY <2>1, <2>4 DEF WriteFree, WriteAnswered, WrEn, HoldOnBus, SubordinateEdge, WriteEdge,
                        AwEdge, WEdge, BEdge
    <3>. QED
      BY <1>0, <1>1, <2>1, <3>1 DEF Responded, Free, ReadFree
  <2>. QED
    BY <1>1, <2>2, <2>3, <2>4 DEF Carries
<1>2. CASE ~access.write
  <2>1. /\ WriteFree' /\ ~WrEn /\ ~axi_bvalid /\ ~axi_bvalid' /\ bready /\ rready
    BY <1>2 DEF Carries, WriteFree, HoldOnBus, SubordinateEdge, WriteEdge, AwEdge, WEdge,
                BEdge, WrEn
  <2>2. CASE ReadOffered
    <3>1. ReadAccepted' /\ ~RdEn /\ ~axi_rvalid /\ ~axi_rvalid'
      BY <2>2 DEF ReadOffered, ReadAccepted, RdEn, HoldOnBus, SubordinateEdge, ArEdge, REdge
    <3>. QED
      BY <1>0, <1>a, <1>2, <2>1, <3>1 DEF Carries, Responded
  <2>3. CASE ReadAccepted
    <3>1. ReadAnswered' /\ RdEn /\ ~axi_rvalid /\ axi_rvalid'
      BY <2>3 DEF ReadAccepted, ReadAnswered, RdEn, HoldOnBus, SubordinateEdge, ArEdge, REdge
    <3>2. araddr = access.addr /\ axi_araddr = araddr
      BY <1>2, <2>3 DEF Carries, ReadAccepted
    <3>. QED
      BY <1>0, <1>a, <1>2, <2>1, <3>1, <3>2 DEF Carries, Responded
  <2>4. CASE ReadAnswered
    <3>1. ReadFree' /\ ~RdEn /\ axi_rvalid /\ ~axi_rvalid'
      BY <2>1, <2>4 DEF ReadFree, ReadAnswered, RdEn, HoldOnBus, SubordinateEdge, ArEdge, REdge
    <3>. QED
      BY <1>0, <1>2, <2>1, <3>1 DEF Responded, Free
  <2>. QED
    BY <1>2, <2>2, <2>3, <2>4 DEF Carries
<1>. QED
  BY <1>1, <1>2

=============================================================================
