------------------------------ MODULE AxiLite ------------------------------
(***************************************************************************)
(* The AXI4-Lite subordinate handshake shared by the five *_v1_0_S00_AXI   *)
(* wrappers, clock edge by clock edge, with the manager that drives it.    *)
(* Lines in PROJECT.json refer to uart_v1_0_S00_AXI.v; the other four      *)
(* wrappers hold the same always blocks.                                   *)
(*                                                                         *)
(* The register block behind the handshake is a parameter: a peripheral    *)
(* uses WrEn, RdEn, axi_awaddr, axi_araddr and the manager's data, and     *)
(* gives SubordinateEdge the values its read multiplexer may show.  Spec   *)
(* composes the handshake with a register block that may show anything.    *)
(*                                                                         *)
(* The manager (interconnect and MicroBlaze, external) obeys AXI: VALID    *)
(* and its payload are held until READY, VALID is low during reset.  It    *)
(* may present the next write while a response is pending but keeps one    *)
(* read outstanding: the wrappers state "This design expects no            *)
(* outstanding transactions" and drop a second read address.               *)
(***************************************************************************)
EXTENDS AxiWord

CONSTANTS
  Accessed,       \* the registers the manager addresses
  WriteData,      \* the words it writes
  WriteStrobes    \* the strobes it writes with

ASSUME ManagerAssumption ==
  /\ Accessed \subseteq Regs
  /\ WriteData \subseteq Word
  /\ WriteStrobes \subseteq Strobe

VARIABLES
  \* driven by the manager
  awvalid, awaddr, wvalid, wdata, wstrb, bready, arvalid, araddr, rready,
  \* registers of the subordinate
  axi_awready, axi_wready, aw_en, axi_awaddr, axi_bvalid,
  axi_arready, axi_araddr, axi_rvalid, axi_rdata

writeManager     == << awvalid, awaddr, wvalid, wdata, wstrb, bready >>
readManager      == << arvalid, araddr, rready >>
manager          == << writeManager, readManager >>
writeSubordinate == << axi_awready, axi_wready, aw_en, axi_awaddr, axi_bvalid >>
readSubordinate  == << axi_arready, axi_araddr, axi_rvalid, axi_rdata >>
subordinate      == << writeSubordinate, readSubordinate >>
axiVars          == << manager, subordinate >>

TypeOK ==
  /\ awvalid \in BOOLEAN /\ wvalid \in BOOLEAN /\ arvalid \in BOOLEAN
  /\ bready \in BOOLEAN /\ rready \in BOOLEAN
  /\ axi_awready \in BOOLEAN /\ axi_wready \in BOOLEAN /\ aw_en \in BOOLEAN
  /\ axi_bvalid \in BOOLEAN
  /\ axi_arready \in BOOLEAN /\ axi_rvalid \in BOOLEAN
  /\ awaddr \in Regs /\ araddr \in Regs
  /\ axi_awaddr \in Regs /\ axi_araddr \in Regs
  /\ wdata \in Word /\ wstrb \in Strobe /\ axi_rdata \in Word

-----------------------------------------------------------------------------
\* Reset values of the manager's outputs and of the subordinate's registers.

ManagerReset(awv, awa, wv, wd, ws, br, arv, ara, rr) ==
  /\ awv = FALSE /\ wv = FALSE /\ br = FALSE /\ arv = FALSE /\ rr = FALSE
  /\ awa = 0 /\ wd = Zero /\ ws = {} /\ ara = 0

SubordinateReset(awr, wr, en, awa, bv, arr, ara, rv, rd) ==
  /\ awr = FALSE /\ wr = FALSE /\ en = TRUE /\ awa = 0 /\ bv = FALSE
  /\ arr = FALSE /\ ara = 0 /\ rv = FALSE /\ rd = Zero

AxiInit ==
  /\ ManagerReset(awvalid, awaddr, wvalid, wdata, wstrb, bready,
                  arvalid, araddr, rready)
  /\ SubordinateReset(axi_awready, axi_wready, aw_en, axi_awaddr, axi_bvalid,
                      axi_arready, axi_araddr, axi_rvalid, axi_rdata)

AxiReset ==
  /\ ManagerReset(awvalid', awaddr', wvalid', wdata', wstrb', bready',
                  arvalid', araddr', rready')
  /\ SubordinateReset(axi_awready', axi_wready', aw_en', axi_awaddr', axi_bvalid',
                      axi_arready', axi_araddr', axi_rvalid', axi_rdata')

-----------------------------------------------------------------------------
\* The manager at a clock edge.

DriveAw ==
  IF awvalid /\ ~axi_awready
  THEN UNCHANGED << awvalid, awaddr >>
  ELSE \/ awvalid' = FALSE /\ UNCHANGED awaddr
       \/ awvalid' = TRUE /\ awaddr' \in Accessed

DriveW ==
  IF wvalid /\ ~axi_wready
  THEN UNCHANGED << wvalid, wdata, wstrb >>
  ELSE \/ wvalid' = FALSE /\ UNCHANGED << wdata, wstrb >>
       \/ wvalid' = TRUE /\ wdata' \in WriteData /\ wstrb' \in WriteStrobes

\* A new read address only when no read is outstanding after this edge.
DriveAr ==
  IF arvalid /\ ~axi_arready
  THEN UNCHANGED << arvalid, araddr >>
  ELSE \/ arvalid' = FALSE /\ UNCHANGED araddr
       \/ /\ ~arvalid
          /\ axi_rvalid => rready
          /\ arvalid' = TRUE
          /\ araddr' \in Accessed

ManagerEdge ==
  /\ DriveAw /\ DriveW /\ DriveAr
  /\ bready' \in BOOLEAN /\ rready' \in BOOLEAN

-----------------------------------------------------------------------------
\* The subordinate at a clock edge.

WrEn == axi_wready /\ wvalid /\ axi_awready /\ awvalid
RdEn == axi_arready /\ arvalid /\ ~axi_rvalid

\* Faults a run must detect: aw_en not cleared by an accepted address, aw_en
\* not set again by the response.
AwEdgeAlwaysEnabled ==
  LET accept == ~axi_awready /\ awvalid /\ wvalid /\ aw_en
  IN  /\ axi_awready' = accept
      /\ aw_en' = TRUE
      /\ axi_awaddr' = IF accept THEN awaddr ELSE axi_awaddr

AwEdgeNotReenabled ==
  LET accept == ~axi_awready /\ awvalid /\ wvalid /\ aw_en
  IN  /\ axi_awready' = accept
      /\ aw_en' = (~accept /\ aw_en)
      /\ axi_awaddr' = IF accept THEN awaddr ELSE axi_awaddr

AwEdge ==
  LET accept == ~axi_awready /\ awvalid /\ wvalid /\ aw_en
  IN  /\ axi_awready' = accept
      /\ aw_en' = (~accept /\ (aw_en \/ (bready /\ axi_bvalid)))
      /\ axi_awaddr' = IF accept THEN awaddr ELSE axi_awaddr

WEdge == axi_wready' = (~axi_wready /\ wvalid /\ awvalid /\ aw_en)

\* Fault: the response is not dropped when it is taken.
BEdgeSticky == axi_bvalid' = (WrEn \/ axi_bvalid)

BEdge ==
  axi_bvalid' = ((WrEn /\ ~axi_bvalid) \/ (axi_bvalid /\ ~bready))

\* Faults: ARREADY a level instead of a pulse; reads wait for writes.
ArEdgeLevel ==
  /\ axi_arready' = arvalid
  /\ axi_araddr' = IF arvalid THEN araddr ELSE axi_araddr

ArEdgeWritesFirst ==
  LET accept == ~axi_arready /\ arvalid /\ ~awvalid
  IN  /\ axi_arready' = accept
      /\ axi_araddr' = IF accept THEN araddr ELSE axi_araddr

ArEdge ==
  LET accept == ~axi_arready /\ arvalid
  IN  /\ axi_arready' = accept
      /\ axi_araddr' = IF accept THEN araddr ELSE axi_araddr

\* Fault: the answer is shown for one clock only.
REdgePulse(shown) ==
  /\ axi_rvalid' = RdEn
  /\ IF RdEn THEN axi_rdata' \in shown ELSE UNCHANGED axi_rdata

\* shown: the values the read multiplexer may put on reg_data_out.
REdge(shown) ==
  /\ axi_rvalid' = (RdEn \/ (axi_rvalid /\ ~rready))
  /\ IF RdEn THEN axi_rdata' \in shown ELSE UNCHANGED axi_rdata

WriteEdge == AwEdge /\ WEdge /\ BEdge

SubordinateEdge(shown) == WriteEdge /\ ArEdge /\ REdge(shown)

-----------------------------------------------------------------------------
\* The handshake in front of an arbitrary register block.

Clock == ManagerEdge /\ SubordinateEdge(Word)

Next == Clock \/ AxiReset

\* A clock that keeps running, and a manager that keeps offering to take
\* responses (BREADY and RREADY are not withheld for ever).
Fairness ==
  /\ WF_axiVars(Clock)
  /\ WF_axiVars(Clock /\ bready')
  /\ WF_axiVars(Clock /\ rready')

Spec == AxiInit /\ [][Next]_axiVars /\ Fairness

-----------------------------------------------------------------------------
\* A manager that makes one access at a time and keeps BREADY and RREADY high
\* meanwhile: the CPU of the composed modules.

ReadOf(a)     == [write |-> FALSE, addr |-> a]
WriteOf(a, w) == [write |-> TRUE, addr |-> a, word |-> w]

\* The access is put on the bus, AW together with W.
PutOnBus(access) ==
  /\ bready' = TRUE /\ rready' = TRUE
  /\ IF access.write
     THEN /\ awvalid' = TRUE /\ awaddr' = access.addr
          /\ wvalid' = TRUE /\ wdata' = access.word /\ wstrb' = Lanes
          /\ UNCHANGED << arvalid, araddr >>
     ELSE /\ arvalid' = TRUE /\ araddr' = access.addr
          /\ UNCHANGED << awvalid, awaddr, wvalid, wdata, wstrb >>

\* While it is on the bus each VALID falls after its READY.
HoldOnBus ==
  /\ awvalid' = (awvalid /\ ~axi_awready)
  /\ wvalid' = (wvalid /\ ~axi_wready)
  /\ arvalid' = (arvalid /\ ~axi_arready)
  /\ UNCHANGED << awaddr, wdata, wstrb, araddr, bready, rready >>

\* Its response ends it.
Responded == axi_bvalid \/ axi_rvalid

-----------------------------------------------------------------------------
\* Invariants.

\* The write side is in one of three phases: idle (aw_en), accepting (both
\* READY for exactly one cycle, with the address of the pending request
\* latched) and responding (BVALID); the next address and data are refused
\* until the response has been taken.
OneWriteAtATime ==
  /\ axi_awready = axi_wready
  /\ aw_en = (~axi_awready /\ ~axi_bvalid)
  /\ ~(axi_awready /\ axi_bvalid)
  /\ axi_awready => awvalid /\ wvalid /\ axi_awaddr = awaddr

\* A read address is accepted only while the read-data channel is free: no
\* accepted read is left without an answer, and the register selected is
\* the one requested.
NoLostRead ==
  axi_arready => /\ arvalid /\ ~axi_rvalid
                 /\ axi_araddr = araddr

\* The single outstanding read is either a request or an answer.
OneReadAtATime == ~(arvalid /\ axi_rvalid)

HandshakeInv == TypeOK /\ OneWriteAtATime /\ NoLostRead /\ OneReadAtATime

\* Action properties.

\* An answer on the read channel is held, unchanged, until it is taken; a
\* write response is held until it is taken.
ResponsesHeld ==
  [][~AxiReset =>
       /\ axi_rvalid /\ ~rready => axi_rvalid' /\ axi_rdata' = axi_rdata
       /\ axi_bvalid /\ ~bready => axi_bvalid']_axiVars

\* A READY pulse takes a request exactly when a response is produced for it:
\* a write response appears only from a transfer on both AW and W, a read
\* answer only from a transfer on AR, and each such transfer produces one.
OneResponsePerRequest ==
  [][~AxiReset =>
       /\ (awvalid /\ axi_awready) = (wvalid /\ axi_wready)
       /\ (awvalid /\ axi_awready) = (~axi_bvalid /\ axi_bvalid')
       /\ (arvalid /\ axi_arready) = (~axi_rvalid /\ axi_rvalid')]_axiVars

\* Liveness: a write whose address and data are both offered is accepted, and
\* a read offered is answered (or dropped by a reset), however many requests
\* of the other kind pass meanwhile.
RequestsServed ==
  /\ (awvalid /\ wvalid) ~> (WrEn \/ ~awvalid)
  /\ arvalid ~> (axi_rvalid \/ ~arvalid)

=============================================================================
