---------------------------- MODULE RegisterBank ----------------------------
(***************************************************************************)
(* What a peripheral's register file promises the software behind an       *)
(* AXI4-Lite manager: every write is applied once, atomically, with its    *)
(* own address, data and strobes, and gets one response; every read is     *)
(* answered once with the value its register has at one instant between    *)
(* the request and the answer.                                             *)
(*                                                                         *)
(* A channel is the set of the items waiting on it: empty or a singleton.  *)
(***************************************************************************)
EXTENDS AxiWord

CONSTANT Plain    \* the registers, among Regs, that read back what was written

VARIABLES
  aw, w,      \* write address, write data and strobes
  b,          \* a write response is waiting
  ar, r,      \* read address, read data
  reg         \* contents of the plain registers

vars == << aw, w, b, ar, r, reg >>

Payload == Word \X Strobe

Init ==
  /\ aw = {} /\ w = {} /\ b = FALSE /\ ar = {} /\ r = {}
  /\ reg = [a \in Plain |-> Zero]

\* A request stays on its channel until it is taken.
Offer(chan, chanNext, Items) ==
  IF chan = {} THEN chanNext = {} \/ \E i \in Items : chanNext = {i}
               ELSE chanNext = chan

\* A channel whose item is taken may carry the next one at once.
Refill(chanNext, Items) == chanNext = {} \/ \E i \in Items : chanNext = {i}

\* What a read of register a may return: non-plain registers show hardware
\* state, which the peripheral's own module describes.
Readable(a) == IF a \in Plain THEN {reg[a]} ELSE Word

ApplyWrite ==
  \E a \in aw, p \in w :
    /\ ~b /\ b' = TRUE
    /\ reg' = [x \in Plain |-> IF x = a THEN Merge(reg[x], p[1], p[2]) ELSE reg[x]]
    /\ Refill(aw', Regs) /\ Refill(w', Payload)

OfferWrite ==
  /\ Offer(aw, aw', Regs) /\ Offer(w, w', Payload)
  /\ b' \in {b, FALSE}
  /\ UNCHANGED reg

AnswerRead ==
  \E a \in ar :
    /\ r = {} /\ ar' = {}
    /\ \E v \in Readable(a) : r' = {v}

OfferRead ==
  /\ Offer(ar, ar', Regs)
  /\ r' \in {r, {}}

\* The two directions proceed independently on the same clock.
Access == (ApplyWrite \/ OfferWrite) /\ (AnswerRead \/ OfferRead)

Reset ==
  /\ aw' = {} /\ w' = {} /\ b' = FALSE /\ ar' = {} /\ r' = {}
  /\ reg' = [a \in Plain |-> Zero]

Next == Access \/ Reset

Spec == Init /\ [][Next]_vars

=============================================================================
