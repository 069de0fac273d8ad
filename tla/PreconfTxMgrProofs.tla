------------------------- MODULE PreconfTxMgrProofs -------------------------
(***************************************************************************)
(* Proofs about PreconfTxMgr for any number of Sends, any candidates and   *)
(* quotes, and any number of failing calls and late requests.              *)
(***************************************************************************)
EXTENDS PreconfTxMgr, CommonLemmas, FiniteSetTheorems

-----------------------------------------------------------------------------
(* The inductive invariant.                                                *)

\* The calls Send makes once it has picked a slot...
Submitted == {"firstHead", "wait", "receipt"}
Picked == {"getFee", "reserve", "submit"} \cup Submitted

\* ...and those of a turn of its loop before a reservation.
Looking == {"prepare", "getSlots", "getHead", "getFee", "reserve"}

\* The gateway numbers its slots, and a listing in use is an earlier offer.
OfferInv == \A n \in Offered : offer[n].slot = n

\* Nothing fits in o that does not fit in p.
Within(o, p) == o.slot = p.slot /\ o.gas <= p.gas /\ o.blobs <= p.blobs

ListingInv ==
    \A s \in Senders : pc[s] = "getHead" =>
        /\ DOMAIN listing[s] = Offered
        /\ \A n \in Offered : Within(offer[n], listing[s][n])

\* The fee at hand is that of the slot at hand.
PickInv ==
    \A s \in Senders :
        /\ pc[s] \in Picked => slot[s] \in Offered
        /\ pc[s] = "reserve" => fee[s] = Quote[slot[s]]

\* A reservation is made for the transaction its Send has signed, and nothing
\* else is ever submitted for it.
RightFor(s, r) ==
    /\ r.slot \in Offered
    /\ r.gas = tx[s].gas
    /\ r.blobs = tx[s].blobs
    /\ r.deposit = Deposit(r.gas, r.blobs, Quote[r.slot])
    /\ r.sent \in {NoTx, tx[s]}
    /\ r.tx \in {NoTx, tx[s]}
    /\ r.sent # NoTx \/ r.tx # NoTx => r.granted

TxInv ==
    \A s \in Senders :
        /\ pc[s] = "prepare" => reserved[s] = << >> /\ executions[s] = 0
        /\ pc[s] \notin {"prepare", "returned"} =>
              tx[s].gas = TxGas(s) /\ tx[s].blobs = Candidate[s].blobs
        /\ \A i \in DOMAIN reserved[s] : RightFor(s, reserved[s][i])

\* The reservation Send holds is its last one, for the slot it picked, and no
\* transaction is on its way to it.
HoldInv ==
    \A s \in Senders :
        /\ pc[s] \in {"submit"} \cup Submitted =>
              /\ id[s] = Len(reserved[s])
              /\ id[s] # 0
              /\ Held(s).slot = slot[s]
              /\ Held(s).granted
              /\ Held(s).sent = NoTx
              /\ Held(s).tx = IF pc[s] = "submit" THEN NoTx ELSE tx[s]
        /\ pc[s] = "receipt" => slot[s] < head

\* Without faults nothing arrives late, and the reservations before the one held
\* were refused their transaction because it came too late.
PunctualInv ==
    \A s \in Senders :
        (faults = 0 /\ s \notin cancelled) =>
            \A i \in DOMAIN reserved[s] :
                /\ reserved[s][i].granted
                /\ reserved[s][i].sent = NoTx
                /\ (i < Len(reserved[s]) \/ pc[s] \in Looking) =>
                      reserved[s][i].tx = NoTx /\ reserved[s][i].slot <= Inc(head)

\* What the filter of Send lets through.
Fits(s, o) == ~TooLate(o, head) /\ HasRoom(o, Candidate[s].blobs, Candidate[s].gasLimit)

\* Send is back at the start of its loop because its slot was refused.
Refused(s) ==
    /\ faults = 0
    /\ Candidate[s].gasLimit # 0
    /\ \/ pc[s] = "getHead"
       \/ pc[s] = "getSlots" /\ s \notin cancelled

\* The slots Send has passed over do not fit any more, nor do they in a listing
\* it is about to pick from.
TurnInv ==
    \A s \in Senders :
        /\ pc[s] = "prepare" => slot[s] = NoSlot
        /\ \A n \in Offered :
              (n < slot[s] \/ (n = slot[s] /\ Refused(s))) =>
                  ~Fits(s, IF pc[s] = "getHead" THEN listing[s][n] ELSE offer[n])

\* A payload that ran has used its nonce up.
ExecutedInv ==
    \A s \in Senders :
        \/ executions[s] = 0
        \/ executions[s] = 1 /\ tx[s].nonce < account

\* Send runs until it returns, and prepare while it has attempts left.
ReturnInv ==
    \A s \in Senders :
        /\ ret[s] = "running" <=> pc[s] # "returned"
        /\ pc[s] = "prepare" => attempts[s] < MaxAttempts

IInv ==
    /\ TypeOK
    /\ OfferInv
    /\ ListingInv
    /\ PickInv
    /\ TxInv
    /\ HoldInv
    /\ PunctualInv
    /\ TurnInv
    /\ ExecutedInv
    /\ ReturnInv

-----------------------------------------------------------------------------
(* Facts about the operators and the constants.                            *)

\* The slots on offer are uint64s, and none up to LastSlot is the last uint64.
LEMMA ConstantTypes ==
    /\ Len(Quote) \in Nat
    /\ Offered = 1 .. Len(Quote)
    /\ Offered \subseteq Uint64s
    /\ Uint64s \subseteq Nat
    /\ \A n \in Offered : Quote[n] \in Fee
    /\ \A h \in 0 .. LastSlot : h \in Uint64s /\ Inc(h) = h + 1
  BY QuoteAssumption, LastSlotAssumption, OfferedAssumption, MaxUint64Assumption
  DEF Offered, Uint64s, Inc

\* A deposit is a number.
LEMMA DepositType ==
    ASSUME NEW g \in Nat, NEW b \in Nat, NEW f \in Fee
    PROVE  Deposit(g, b, f) \in Nat
<1>1. f.gas \in Nat /\ f.blob \in Nat
  BY DEF Fee
<1>2. \A x, y \in Nat : x * y \in Nat
  OBVIOUS
<1>3. g * f.gas \in Nat /\ b * f.blob \in Nat
  BY <1>1, <1>2
<1>4. \A x \in Nat : x \div 2 \in Nat
  OBVIOUS
<1> QED
  BY <1>3, <1>4 DEF Deposit

\* The nonce taken and the one given back are uint64s.
LEMMA NonceType ==
    ASSUME TypeOK
    PROVE  NextNonce \in Uint64s /\ NonceAfterFailedSign \in Uint64s
  BY MaxUint64Assumption
  DEF TypeOK, EnvironmentTypeOK, NextNonce, NonceAfterFailedSign, Inc, Dec, Uint64s

\* What a candidate asks for are uint64s.
LEMMA TxGasType == \A s \in Senders : TxGas(s) \in Uint64s /\ Candidate[s].blobs \in Uint64s
  BY CandidateAssumption DEF TxGas

\* Less room than less room is less room.
LEMMA WithinOrder ==
    /\ \A o \in SlotInfo : Within(o, o)
    /\ \A o, p, q \in SlotInfo : Within(o, p) /\ Within(p, q) => Within(o, q)
<1>1. \A o \in SlotInfo : o.gas \in Nat /\ o.blobs \in Nat
  BY ConstantTypes DEF SlotInfo
<1> QED
  BY <1>1 DEF Within

\* A candidate that does not fit in a slot fits no better when less room is
\* left in it, or later.
LEMMA FitsMonotone ==
    ASSUME NEW s \in Senders, head \in 0 .. LastSlot, head' \in 0 .. LastSlot, head <= head',
           NEW o \in SlotInfo, NEW p \in SlotInfo, Within(o, p), ~Fits(s, p)
    PROVE  ~Fits(s, o)'
<1>1. Inc(head) <= Inc(head') /\ Inc(head) \in Nat /\ Inc(head') \in Nat
  BY ConstantTypes
<1>2. /\ o.slot = p.slot /\ o.slot \in Nat
      /\ o.gas <= p.gas /\ o.gas \in Nat /\ p.gas \in Nat
      /\ o.blobs <= p.blobs /\ o.blobs \in Nat /\ p.blobs \in Nat
  BY ConstantTypes DEF Within, SlotInfo
<1>3. Candidate[s].gasLimit \in Nat /\ Candidate[s].blobs \in Nat
  BY CandidateAssumption, ConstantTypes
<1> QED
  BY <1>1, <1>2, <1>3 DEF Fits, TooLate, HasRoom

-----------------------------------------------------------------------------
\* The invariant holds before any Send has made a call.
LEMMA InvInit == Init => IInv
<1> SUFFICES ASSUME Init
             PROVE  IInv
  OBVIOUS
<1> USE ConstantTypes, MaxUint64Assumption, LastSlotAssumption, BoundsAssumption,
        MaxOthersAssumption, CapacityAssumption DEF Init, EnvironmentInit
<1>1. TypeOK
  <2>1. offer \in [Offered -> SlotInfo]
    BY DEF SlotInfo
  <2>2. /\ pc \in [Senders -> PcValues]
        /\ tx \in [Senders -> Tx]
        /\ ret \in [Senders -> Outcomes]
        /\ fee \in [Senders -> Fee]
    BY DEF PcValues, Tx, Outcomes, Fee, NoFee, Uint64s
  <2>3. /\ listing \in [Senders -> Seq(SlotInfo)]
        /\ reserved \in [Senders -> Seq(Reservation)]
    OBVIOUS
  <2>4. /\ nonce \in Uint64s \cup {NoNonce}
        /\ attempts \in [Senders -> 0 .. MaxAttempts]
        /\ slot \in [Senders -> Uint64s]
        /\ id \in [Senders -> Nat]
        /\ cancelled \subseteq Senders
        /\ head \in 0 .. LastSlot
        /\ account \in Uint64s
        /\ executions \in [Senders -> Nat]
        /\ faults \in 0 .. MaxFaults
        /\ others \in 0 .. MaxOthers
    BY DEF NoSlot, Uint64s
  <2> QED
    BY <2>1, <2>2, <2>3, <2>4 DEF TypeOK, EnvironmentTypeOK
<1>2. OfferInv /\ ListingInv /\ PickInv /\ ReturnInv
  BY DEF OfferInv, ListingInv, PickInv, ReturnInv, Picked, Submitted
<1>3. TxInv /\ HoldInv /\ PunctualInv /\ ExecutedInv
  BY DEF TxInv, HoldInv, PunctualInv, ExecutedInv, Submitted
<1>4. TurnInv
  BY DEF TurnInv, Refused, NoSlot
<1> QED
  BY <1>1, <1>2, <1>3, <1>4 DEF IInv

-----------------------------------------------------------------------------
(* Steps of Send that leave the gateway and the chain alone.               *)

\* Faults never become fewer.
FaultsGrow == faults' \in 0 .. MaxFaults /\ (faults' = 0 => faults = 0)

\* Faults are counted up, and only a done ctx fails a call without one.
LEMMA FaultTypes ==
    ASSUME TypeOK, NEW s \in Senders
    PROVE  /\ Fault => FaultsGrow /\ faults' # 0
           /\ CtxOk(s) => FaultsGrow
           /\ CtxFault(s) => FaultsGrow /\ (faults' # 0 \/ s \in cancelled)
           /\ UNCHANGED faults => FaultsGrow
  BY BoundsAssumption DEF TypeOK, Fault, CtxOk, CtxFault, FaultsGrow

\* A Send returns.
LEMMA ReturnStep ==
    ASSUME IInv, NEW s \in Senders, pc[s] # "returned",
           NEW r \in Outcomes \ {"running"}, Return(s, r), UNCHANGED <<tx, local, environment>>,
           nonce' \in Uint64s \cup {NoNonce},
           attempts' \in [Senders -> 0 .. MaxAttempts], FaultsGrow,
           \A t \in Senders : t # s => attempts'[t] = attempts[t]
    PROVE  IInv'
<1> USE DEF IInv, Return, local, environment, gateway, chain
<1>1. TypeOK'
  BY DEF TypeOK, EnvironmentTypeOK, PcValues, Outcomes, FaultsGrow
<1>2. OfferInv'
  BY DEF OfferInv
<1>3. pc' = [pc EXCEPT ![s] = "returned"] /\ pc \in [Senders -> PcValues]
  BY DEF TypeOK
<1>4. PickInv' /\ ListingInv'
  BY <1>3 DEF ListingInv, PickInv, Picked, Submitted
<1>5. TxInv'
  BY <1>3 DEF TxInv, RightFor
<1>6. HoldInv'
  BY <1>3 DEF HoldInv, Held, Submitted
<1>7. PunctualInv'
  BY <1>3 DEF PunctualInv, Looking, FaultsGrow
<1>8. ExecutedInv' /\ ReturnInv'
  BY <1>3 DEF ExecutedInv, ReturnInv, TypeOK
<1>9. TurnInv'
  <2>1. \A t \in Senders : Refused(t)' => Refused(t) /\ t # s
    BY <1>3 DEF Refused, FaultsGrow
  <2>2. ASSUME NEW n \in Offered, pc[s] = "getHead", ~Fits(s, listing[s][n])
        PROVE  ~Fits(s, offer[n])'
    BY <1>3, <2>2, FitsMonotone DEF TypeOK, EnvironmentTypeOK, ListingInv
  <2> QED
    BY <1>3, <2>1, <2>2 DEF TurnInv, Fits
<1> QED
  BY <1>1, <1>2, <1>4, <1>5, <1>6, <1>7, <1>8, <1>9

\* The gateway refused the reservation or the transaction of s for its slot: the
\* loop takes another turn.
LEMMA LoopStep ==
    ASSUME IInv, NEW s \in Senders, ReserveRejected(s) \/ SubmitRejected(s)
    PROVE  IInv'
<1> USE DEF IInv, ReserveRejected, SubmitRejected, Goto, RetryFrom, CtxOk,
            signing, local, environment, gateway, chain
<1>1. TypeOK'
  BY DEF TypeOK, EnvironmentTypeOK, PcValues
<1>2. OfferInv'
  BY DEF OfferInv
<1>3. pc' = [pc EXCEPT ![s] = "getSlots"] /\ pc \in [Senders -> PcValues]
  BY DEF TypeOK
<1>4. PickInv' /\ ListingInv'
  BY <1>3 DEF ListingInv, PickInv, Picked, Submitted
<1>5. TxInv'
  <2>1. UNCHANGED <<tx, reserved, executions>> /\ pc[s] \in {"reserve", "submit"}
    OBVIOUS
  <2>2. \A t \in Senders : \A i \in DOMAIN reserved[t] : RightFor(t, reserved[t][i])'
    BY <2>1 DEF TxInv, RightFor
  <2> QED
    BY <1>3, <2>1, <2>2 DEF TxInv
<1>6. HoldInv'
  BY <1>3 DEF HoldInv, Held, Submitted
<1>7. slot[s] \in Offered
  BY DEF PickInv, Picked
<1>8. pc[s] = "submit" => TooLate(offer[slot[s]], head)
  BY <1>7 DEF OfferInv, HoldInv, TooLate
<1>9. PunctualInv'
  <2> UNCHANGED <<reserved, faults, cancelled, head>>
    OBVIOUS
  <2> SUFFICES ASSUME NEW t \in Senders, faults = 0, t \notin cancelled,
                      NEW i \in DOMAIN reserved[t],
                      i < Len(reserved[t]) \/ pc'[t] \in Looking
               PROVE  reserved[t][i].tx = NoTx /\ reserved[t][i].slot <= Inc(head)
    <3> HIDE DEF IInv, ReserveRejected, SubmitRejected, Goto
    <3>1. PunctualInv
      BY DEF IInv
    <3> QED
      BY <3>1 DEF PunctualInv
  <2>1. CASE i < Len(reserved[t]) \/ pc[t] \in Looking
    BY <2>1 DEF PunctualInv
  <2>2. CASE t = s /\ pc[s] = "submit" /\ ~(i < Len(reserved[t]))
    <3>1. i = Len(reserved[s]) /\ i = id[s]
      BY <2>2 DEF HoldInv, TypeOK, EnvironmentTypeOK, Submitted
    <3> QED
      BY <2>2, <3>1 DEF HoldInv, Held, TooLate
  <2> QED
    BY <1>3, <2>1, <2>2 DEF Looking
<1>10. ExecutedInv' /\ ReturnInv'
  BY <1>3 DEF ExecutedInv, ReturnInv, TypeOK
<1>11. TurnInv'
  <2>1. Candidate[s].gasLimit # 0 => ~Fits(s, offer[slot[s]])
    <3>1. CASE pc[s] = "submit"
      BY <1>8, <3>1 DEF Fits
    <3>2. CASE pc[s] = "reserve" /\ Candidate[s].gasLimit # 0
      <4>1. tx[s].gas = Candidate[s].gasLimit
        BY <3>2 DEF TxInv, TxGas
      <4>2. Refusable(Request(s, FALSE))
        BY <3>2
      <4> QED
        BY <1>7, <4>1, <4>2 DEF Refusable, Request, ReservedGas, Fits, TooLate, OfferInv
    <3> QED
      BY <3>1, <3>2
  <2>2. \A t \in Senders : t # s /\ Refused(t)' => Refused(t)
    BY <1>3 DEF Refused
  <2> QED
    BY <1>3, <2>1, <2>2 DEF TurnInv, Fits, Refused
<1> QED
  BY <1>1, <1>2, <1>4, <1>5, <1>6, <1>9, <1>10, <1>11

\* Craft keeps the invariant.
LEMMA CraftStep == ASSUME IInv, NEW s \in Senders, Craft(s) PROVE IInv'
<1> USE DEF IInv, Craft, Goto, CtxOk, local, environment, gateway, chain
<1>1. TypeOK'
  BY NonceType, TxGasType DEF TypeOK, EnvironmentTypeOK, PcValues, Tx
<1>2. OfferInv'
  BY DEF OfferInv
<1>3. /\ pc' = [pc EXCEPT ![s] = "getSlots"] /\ pc \in [Senders -> PcValues]
      /\ \A t \in Senders : t # s => tx'[t] = tx[t]
      /\ tx'[s].gas = TxGas(s) /\ tx'[s].blobs = Candidate[s].blobs
      /\ reserved[s] = << >> /\ executions[s] = 0 /\ slot[s] = NoSlot
  BY DEF TypeOK, TxInv, TurnInv
<1>4. PickInv' /\ ListingInv'
  BY <1>3 DEF ListingInv, PickInv, Picked, Submitted
<1>5. TxInv'
  BY <1>3 DEF TxInv, RightFor
<1>6. HoldInv'
  BY <1>3 DEF HoldInv, Held, Submitted
<1>7. PunctualInv'
  BY <1>3 DEF PunctualInv, Looking
<1>8. ExecutedInv' /\ ReturnInv'
  BY <1>3 DEF ExecutedInv, ReturnInv
<1>9. TurnInv'
  <2>1. \A t \in Senders : t # s => (Refused(t)' => Refused(t))
    BY <1>3 DEF Refused
  <2>2. \A n \in Offered : ~(n < NoSlot) /\ n # NoSlot
    BY ConstantTypes DEF NoSlot
  <2> QED
    BY <1>3, <2>1, <2>2 DEF TurnInv, Fits
<1> QED
  BY <1>1, <1>2, <1>4, <1>5, <1>6, <1>7, <1>8, <1>9

\* A failed attempt of prepare keeps the invariant.
LEMMA RetryStep == ASSUME IInv, NEW s \in Senders, CraftFails(s) PROVE IInv'
<1> USE DEF IInv, CraftFails
<1>1. nonce' \in Uint64s \cup {NoNonce} /\ FaultsGrow
  BY NonceType, FaultTypes DEF TypeOK
<1>2. CASE s \in cancelled
  <2>1. Return(s, "error") /\ UNCHANGED attempts
    BY <1>2
  <2>2. attempts \in [Senders -> 0 .. MaxAttempts]
    BY DEF TypeOK
  <2> QED
    BY <1>1, <2>1, <2>2, ReturnStep DEF Outcomes
<1>3. CASE s \notin cancelled
  <2>1. Retry(s)
    BY <1>3
  <2>2. attempts[s] + 1 \in 0 .. MaxAttempts
    <3>1. attempts[s] \in 0 .. MaxAttempts /\ attempts[s] < MaxAttempts
      BY DEF TypeOK, ReturnInv
    <3> QED
      BY <3>1, BoundsAssumption
  <2>3. /\ attempts' \in [Senders -> 0 .. MaxAttempts]
        /\ attempts'[s] = attempts[s] + 1
        /\ \A t \in Senders : t # s => attempts'[t] = attempts[t]
    BY <2>1, <2>2 DEF TypeOK, Retry
  <2>4. CASE attempts[s] + 1 < MaxAttempts
    <3> USE DEF local, environment, gateway, chain
    <3>1. UNCHANGED <<pc, ret, cancelled, tx, local, environment>>
      BY <2>1, <2>4 DEF Retry, Goto, TypeOK
    <3>2. TypeOK'
      BY <1>1, <2>3, <3>1 DEF TypeOK, EnvironmentTypeOK, FaultsGrow
    <3>3. OfferInv' /\ ListingInv' /\ PickInv' /\ TxInv' /\ HoldInv'
      BY <3>1 DEF OfferInv, ListingInv, PickInv, TxInv, RightFor, HoldInv, Held
    <3>4. PunctualInv' /\ ExecutedInv' /\ TurnInv'
      BY <1>1, <3>1 DEF PunctualInv, ExecutedInv, TurnInv, Refused, Fits, FaultsGrow
    <3>5. ReturnInv'
      BY <2>3, <2>4, <3>1 DEF ReturnInv
    <3> QED
      BY <3>2, <3>3, <3>4, <3>5
  <2>5. CASE ~(attempts[s] + 1 < MaxAttempts)
    <3>1. Return(s, "error")
      BY <2>1, <2>5 DEF Retry
    <3> QED
      BY <1>1, <2>3, <3>1, ReturnStep DEF Outcomes
  <2> QED
    BY <2>4, <2>5
<1> QED
  BY <1>2, <1>3

\* The listing is what the gateway has now.
LEMMA GetSlotsStep == ASSUME IInv, NEW s \in Senders, GetSlots(s) PROVE IInv'
<1> USE DEF IInv, GetSlots, Goto, CtxOk, signing, environment, gateway, chain
<1>1. offer \in Seq(SlotInfo) /\ DOMAIN offer = Offered
  <2>1. offer \in [1 .. Len(Quote) -> SlotInfo] /\ Len(Quote) \in Nat
    BY ConstantTypes DEF TypeOK, EnvironmentTypeOK
  <2> HIDE DEF IInv
  <2> QED
    BY <2>1, ConstantTypes
<1>2. TypeOK'
  <2>1. listing' \in [Senders -> Seq(SlotInfo)]
    BY <1>1 DEF TypeOK
  <2>2. pc' \in [Senders -> PcValues]
    BY DEF TypeOK, PcValues
  <2> QED
    BY <2>1, <2>2 DEF TypeOK, EnvironmentTypeOK
<1>3. /\ pc' = [pc EXCEPT ![s] = "getHead"] /\ pc \in [Senders -> PcValues]
      /\ listing'[s] = offer
      /\ \A t \in Senders : t # s => listing'[t] = listing[t]
  BY DEF TypeOK
<1>4. OfferInv' /\ ListingInv'
  <2>1. \A n \in Offered : Within(offer[n], offer[n])
    BY WithinOrder DEF TypeOK, EnvironmentTypeOK
  <2> QED
    BY <1>1, <1>3, <2>1 DEF OfferInv, ListingInv
<1>5. PickInv' /\ TxInv' /\ HoldInv'
  BY <1>3 DEF PickInv, Picked, Submitted, TxInv, RightFor, HoldInv, Held
<1>6. PunctualInv'
  BY <1>3 DEF PunctualInv, Looking
<1>7. ExecutedInv' /\ ReturnInv'
  BY <1>3 DEF ExecutedInv, ReturnInv
<1>8. TurnInv'
  <2>1. \A t \in Senders : Refused(t)' => Refused(t)
    BY <1>3 DEF Refused
  <2> QED
    BY <1>3, <2>1 DEF TurnInv, Fits
<1> QED
  BY <1>2, <1>4, <1>5, <1>6, <1>7, <1>8

\* The slot picked is the first of the listing that fits.
LEMMA SelectedFacts ==
    ASSUME IInv, NEW s \in Senders, pc[s] = "getHead", Selected(s) # NoSlot
    PROVE  /\ Selected(s) \in Offered
           /\ Fits(s, listing[s][Selected(s)])
           /\ \A n \in Offered : Fits(s, listing[s][n]) => Selected(s) <= n
<1> DEFINE q == listing[s]
<1>1. DOMAIN q = Offered /\ \A n \in Offered : q[n].slot = n
  BY DEF IInv, ListingInv, OfferInv, Within
<1>2. Selected(s) = SelectSlot(q, head, Candidate[s].blobs, Candidate[s].gasLimit)
  BY DEF Selected
<1> HIDE DEF q
<1>3. PICK k \in Offered :
         /\ Selected(s) = q[k].slot
         /\ Fits(s, q[k])
         /\ \A n \in Offered : Fits(s, q[n]) => k <= n
  BY <1>1, <1>2 DEF SelectSlot, Fits
<1> QED
  BY <1>1, <1>3 DEF q

\* The slot picked comes after those that do not fit.
LEMMA PickSlotStep == ASSUME IInv, NEW s \in Senders, PickSlot(s) PROVE IInv'
<1> USE DEF IInv, PickSlot, Goto, signing, environment, gateway, chain
<1>1. Selected(s) \in Offered
  BY SelectedFacts
<1>2. TypeOK'
  BY <1>1, ConstantTypes DEF TypeOK, EnvironmentTypeOK, PcValues
<1>3. OfferInv'
  BY DEF OfferInv
<1>4. /\ pc' = [pc EXCEPT ![s] = "getFee"] /\ pc \in [Senders -> PcValues]
      /\ slot'[s] = Selected(s)
      /\ \A t \in Senders : t # s => slot'[t] = slot[t]
  BY DEF TypeOK
<1>5. PickInv' /\ ListingInv'
  BY <1>1, <1>4 DEF ListingInv, PickInv, Picked, Submitted
<1>6. TxInv' /\ HoldInv'
  BY <1>4 DEF TxInv, RightFor, HoldInv, Held, Submitted
<1>7. PunctualInv'
  BY <1>4 DEF PunctualInv, Looking
<1>8. ExecutedInv' /\ ReturnInv'
  BY <1>4 DEF ExecutedInv, ReturnInv
<1>9. TurnInv'
  <2>1. \A t \in Senders : Refused(t)' => Refused(t) /\ t # s
    BY <1>4 DEF Refused
  <2>2. ASSUME NEW n \in Offered, n < Selected(s)
        PROVE  ~Fits(s, offer[n])'
    <3>1. ~Fits(s, listing[s][n])
      <4>1. Selected(s) \in Nat /\ n \in Nat
        BY <1>1, ConstantTypes
      <4> QED
        BY <2>2, <4>1, SelectedFacts
    <3>2. Within(offer[n], listing[s][n]) /\ offer[n] \in SlotInfo /\ listing[s][n] \in SlotInfo
      BY DEF ListingInv, TypeOK, EnvironmentTypeOK
    <3>3. head \in 0 .. LastSlot /\ head' = head /\ head <= head
      BY ConstantTypes DEF TypeOK, EnvironmentTypeOK
    <3>4. ~Fits(s, offer[n])
      BY <3>1, <3>2, <3>3, FitsMonotone DEF Fits
    <3> QED
      BY <3>4 DEF Fits
  <2>3. ASSUME NEW t \in Senders, NEW n \in Offered,
               n < slot'[t] \/ (n = slot'[t] /\ Refused(t)')
        PROVE  ~Fits(t, IF pc[t] = "getHead" /\ t # s THEN listing[t][n] ELSE offer[n])'
    <3>1. CASE t = s
      BY <1>4, <2>1, <2>2, <2>3, <3>1
    <3>2. CASE t # s
      BY <1>4, <2>1, <2>3, <3>2 DEF TurnInv, Fits
    <3> QED
      BY <3>1, <3>2
  <2> QED
    BY <1>4, <2>3 DEF TurnInv, Fits
<1> QED
  BY <1>2, <1>3, <1>5, <1>6, <1>7, <1>8, <1>9

\* The fee is the slot's.
LEMMA GetFeeStep == ASSUME IInv, NEW s \in Senders, GetFee(s) PROVE IInv'
<1> USE DEF IInv, GetFee, QuotedFee, Goto, CtxOk, signing, environment, gateway, chain
<1>1. slot[s] \in Offered
  BY DEF PickInv, Picked
<1>2. TypeOK'
  BY <1>1, ConstantTypes DEF TypeOK, EnvironmentTypeOK, PcValues
<1>3. OfferInv'
  BY DEF OfferInv
<1>4. /\ pc' = [pc EXCEPT ![s] = "reserve"] /\ pc \in [Senders -> PcValues]
      /\ fee'[s] = Quote[slot[s]]
      /\ \A t \in Senders : t # s => fee'[t] = fee[t]
  BY DEF TypeOK
<1>5. PickInv' /\ ListingInv'
  BY <1>1, <1>4 DEF ListingInv, PickInv, Picked, Submitted
<1>6. TxInv' /\ HoldInv'
  BY <1>4 DEF TxInv, RightFor, HoldInv, Held, Submitted
<1>7. PunctualInv'
  BY <1>4 DEF PunctualInv, Looking
<1>8. ExecutedInv' /\ ReturnInv'
  BY <1>4 DEF ExecutedInv, ReturnInv
<1>9. TurnInv'
  BY <1>4 DEF TurnInv, Refused, Fits
<1> QED
  BY <1>2, <1>3, <1>5, <1>6, <1>7, <1>8, <1>9

\* The wait ends when the head is past the slot.
LEMMA PollStep == ASSUME IInv, NEW s \in Senders, PollHead(s) PROVE IInv'
<1> USE DEF IInv, PollHead, Goto, signing, local, environment, gateway, chain
<1>1. /\ pc \in [Senders -> PcValues]
      /\ pc[s] \in {"firstHead", "wait"}
      /\ pc' = [pc EXCEPT ![s] = IF SlotPassed(head, slot[s]) THEN "receipt" ELSE "wait"]
  BY DEF TypeOK
<1>2. slot[s] \in Offered /\ head \in 0 .. LastSlot
  BY <1>1 DEF PickInv, Picked, Submitted, TypeOK, EnvironmentTypeOK
<1>3. SlotPassed(head, slot[s]) => slot[s] < head
  <2>1. Inc(slot[s]) = slot[s] + 1 /\ slot[s] \in Nat /\ head \in Nat
    BY <1>2, ConstantTypes, OfferedAssumption, LastSlotAssumption, MaxUint64Assumption
    DEF Inc, Uint64s
  <2> QED
    BY <2>1 DEF SlotPassed
<1>4. TypeOK' /\ OfferInv' /\ ListingInv'
  BY <1>1 DEF TypeOK, EnvironmentTypeOK, PcValues, OfferInv, ListingInv
<1>5. PickInv' /\ TxInv'
  BY <1>1 DEF PickInv, Picked, Submitted, TxInv, RightFor
<1>6. HoldInv'
  BY <1>1, <1>3 DEF HoldInv, Held, Submitted
<1>7. PunctualInv'
  BY <1>1 DEF PunctualInv, Looking
<1>8. ExecutedInv' /\ ReturnInv' /\ TurnInv'
  BY <1>1 DEF ExecutedInv, ReturnInv, TurnInv, Refused, Fits
<1> QED
  BY <1>4, <1>5, <1>6, <1>7, <1>8

-----------------------------------------------------------------------------
(* Steps that change the reservations or the room left.                    *)

\* Room in the offered slots never becomes more.
OfferShrinks ==
    /\ offer' \in [Offered -> SlotInfo]
    /\ \A n \in Offered : Within(offer'[n], offer[n])

\* Taking room that is there leaves less of it.
LEMMA RoomFacts ==
    ASSUME TypeOK, NEW n \in Offered, NEW g \in Nat, NEW b \in Nat,
           HasRoom(offer[n], b, g), TakeRoom(n, g, b)
    PROVE  OfferShrinks
<1>1. offer \in [Offered -> SlotInfo] /\ offer[n] \in SlotInfo
  BY DEF TypeOK, EnvironmentTypeOK
<1>2. RoomLess(offer[n], g, b) \in SlotInfo /\ Within(RoomLess(offer[n], g, b), offer[n])
  BY <1>1, MaxUint64Assumption DEF SlotInfo, HasRoom, RoomLess, Within, Uint64s
<1>3. offer' = [offer EXCEPT ![n] = RoomLess(offer[n], g, b)]
  BY DEF TakeRoom
<1> QED
  BY <1>1, <1>2, <1>3, WithinOrder DEF OfferShrinks

\* An offer that stays has no more room than before.
LEMMA NoRoomFacts == TypeOK /\ UNCHANGED offer => OfferShrinks
  BY WithinOrder DEF TypeOK, EnvironmentTypeOK, OfferShrinks

\* Less room and a later head let no passed slot fit again.
LEMMA SlotsStep ==
    ASSUME IInv, OfferShrinks, UNCHANGED <<listing, slot>>,
           head' \in 0 .. LastSlot, head <= head',
           \A t \in Senders :
              /\ pc'[t] = "getHead" <=> pc[t] = "getHead"
              /\ pc'[t] = "prepare" => pc[t] = "prepare"
              /\ Refused(t)' => Refused(t)
    PROVE  OfferInv' /\ ListingInv' /\ TurnInv'
<1>1. /\ offer \in [Offered -> SlotInfo] /\ offer' \in [Offered -> SlotInfo]
      /\ head \in 0 .. LastSlot
      /\ \A n \in Offered : Within(offer'[n], offer[n])
  BY DEF IInv, TypeOK, EnvironmentTypeOK, OfferShrinks
<1>2. OfferInv'
  BY <1>1 DEF IInv, OfferInv, Within
<1>3. \A t \in Senders : \A n \in Offered : pc[t] = "getHead" => listing[t][n] \in SlotInfo
  BY DEF IInv, TypeOK, ListingInv
<1>4. ListingInv'
  BY <1>1, <1>3, WithinOrder DEF IInv, ListingInv
<1>5. ASSUME NEW t \in Senders, NEW n \in Offered, ~Fits(t, offer[n])
      PROVE  ~Fits(t, offer[n])'
  BY <1>1, <1>5, FitsMonotone
<1>6. ASSUME NEW t \in Senders, NEW n \in Offered, pc[t] = "getHead", ~Fits(t, listing[t][n])
      PROVE  ~Fits(t, listing[t][n])'
  <2>1. Within(listing[t][n], listing[t][n]) /\ listing[t][n] \in SlotInfo
    BY <1>3, <1>6, WithinOrder
  <2>2. ~Fits(t, listing[t][n]) /\ listing'[t][n] = listing[t][n]
    BY <1>6
  <2> QED
    BY <1>1, <2>1, <2>2, FitsMonotone DEF Fits
<1>7. TurnInv'
  BY <1>5, <1>6 DEF IInv, TurnInv
<1> QED
  BY <1>2, <1>4, <1>7

\* What Append does to length, domain and elements.
LEMMA AppendFacts ==
    ASSUME NEW S, NEW q \in Seq(S), NEW e \in S
    PROVE  /\ Len(q) \in Nat
           /\ DOMAIN q = 1 .. Len(q)
           /\ Len(Append(q, e)) = Len(q) + 1
           /\ DOMAIN Append(q, e) = 1 .. Len(q) + 1
           /\ Append(q, e)[Len(q) + 1] = e
           /\ \A i \in 1 .. Len(q) : Append(q, e)[i] = q[i]
  OBVIOUS

\* The reservation s asks for, and the reservations with it.
LEMMA RequestFacts ==
    ASSUME IInv, NEW s \in Senders, pc[s] = "reserve", NEW g \in BOOLEAN,
           reserved' = [reserved EXCEPT ![s] = Append(@, Request(s, g))]
    PROVE  /\ slot[s] \in Offered
           /\ Request(s, g) \in Reservation
           /\ RightFor(s, Request(s, g))
           /\ Request(s, g).slot = slot[s]
           /\ Request(s, g).granted = g
           /\ Request(s, g).sent = NoTx
           /\ Request(s, g).tx = NoTx
           /\ reserved' \in [Senders -> Seq(Reservation)]
           /\ \A t \in Senders : t # s => reserved'[t] = reserved[t]
           /\ Len(reserved[s]) \in Nat
           /\ Len(reserved'[s]) = Len(reserved[s]) + 1
           /\ reserved'[s][Len(reserved[s]) + 1] = Request(s, g)
           /\ \A i \in DOMAIN reserved'[s] :
                 \/ i \in DOMAIN reserved[s] /\ i < Len(reserved'[s])
                    /\ reserved'[s][i] = reserved[s][i]
                 \/ i = Len(reserved[s]) + 1
<1>1. /\ slot[s] \in Offered /\ fee[s] = Quote[slot[s]] /\ fee[s] \in Fee
      /\ reserved \in [Senders -> Seq(Reservation)]
  BY ConstantTypes DEF IInv, TypeOK, EnvironmentTypeOK, PickInv, Picked
<1>2. tx[s].blobs = Candidate[s].blobs /\ tx[s].gas \in Uint64s /\ tx[s].blobs \in Uint64s
  BY DEF IInv, TxInv, TypeOK, Tx
<1>3. Deposit(tx[s].gas, tx[s].blobs, fee[s]) \in Nat
  BY <1>1, <1>2, ConstantTypes, DepositType
<1> DEFINE q == reserved[s]
           e == Request(s, g)
<1>4. e \in Reservation
  BY <1>1, <1>2, <1>3, ConstantTypes DEF Request, ReservedGas, Reservation
<1>5. RightFor(s, e)
  BY <1>1, <1>2 DEF Request, ReservedGas, RightFor
<1>6. e.slot = slot[s] /\ e.granted = g /\ e.sent = NoTx /\ e.tx = NoTx
  BY DEF Request
<1>7. q \in Seq(Reservation) /\ reserved' = [reserved EXCEPT ![s] = Append(q, e)]
  BY <1>1
<1> HIDE DEF q, e
<1>8. /\ Len(q) \in Nat
      /\ DOMAIN q = 1 .. Len(q)
      /\ Len(Append(q, e)) = Len(q) + 1
      /\ DOMAIN Append(q, e) = 1 .. Len(q) + 1
      /\ Append(q, e)[Len(q) + 1] = e
      /\ \A i \in 1 .. Len(q) : Append(q, e)[i] = q[i]
  BY <1>4, <1>7, AppendFacts
<1>9. \A i \in DOMAIN Append(q, e) :
         \/ i \in DOMAIN q /\ i < Len(Append(q, e)) /\ Append(q, e)[i] = q[i]
         \/ i = Len(q) + 1
  BY <1>8
<1>10. /\ reserved' \in [Senders -> Seq(Reservation)]
       /\ reserved'[s] = Append(q, e)
       /\ \A t \in Senders : t # s => reserved'[t] = reserved[t]
  BY <1>1, <1>4, <1>7
<1> QED
  BY <1>1, <1>4, <1>5, <1>6, <1>8, <1>9, <1>10 DEF q, e

\* The invariants that asking for a reservation keeps, whatever the answer.
LEMMA RequestStep ==
    ASSUME IInv, NEW s \in Senders, pc[s] = "reserve", NEW g \in BOOLEAN,
           reserved' = [reserved EXCEPT ![s] = Append(@, Request(s, g))],
           UNCHANGED <<signing, listing, slot, fee, cancelled, chain, others, ret>>,
           NEW l \in {"submit", "getSlots"}, pc' = [pc EXCEPT ![s] = l],
           l = "getSlots" => faults' # 0 \/ s \in cancelled,
           id' \in [Senders -> Nat], OfferShrinks, FaultsGrow
    PROVE  /\ TypeOK' /\ OfferInv' /\ ListingInv' /\ PickInv' /\ TxInv' /\ TurnInv'
           /\ ExecutedInv' /\ ReturnInv'
<1> USE DEF chain, signing
<1>1. /\ pc \in [Senders -> PcValues]
      /\ head \in 0 .. LastSlot /\ head <= head
  BY ConstantTypes DEF IInv, TypeOK, EnvironmentTypeOK
<1>2. TypeOK'
  <2>1. reserved' \in [Senders -> Seq(Reservation)]
    BY RequestFacts
  <2> QED
    BY <1>1, <2>1 DEF IInv, TypeOK, EnvironmentTypeOK, PcValues, FaultsGrow, OfferShrinks
<1>3. OfferInv' /\ ListingInv' /\ TurnInv'
  <2>1. \A t \in Senders : Refused(t)' => Refused(t)
    BY <1>1 DEF Refused, FaultsGrow
  <2>2. \A t \in Senders :
           /\ pc'[t] = "getHead" <=> pc[t] = "getHead"
           /\ pc'[t] = "prepare" => pc[t] = "prepare"
    BY <1>1
  <2> QED
    BY <1>1, <2>1, <2>2, SlotsStep
<1>4. PickInv'
  BY <1>1, RequestFacts DEF IInv, PickInv, Picked, Submitted
<1>5. TxInv'
  <2>1. \A t \in Senders :
           /\ pc'[t] = "prepare" => pc[t] = "prepare" /\ t # s
           /\ pc'[t] \notin {"prepare", "returned"} => pc[t] \notin {"prepare", "returned"}
    BY <1>1
  <2>2. /\ \A t \in Senders : t # s => reserved'[t] = reserved[t]
        /\ RightFor(s, Request(s, g))
        /\ \A i \in DOMAIN reserved'[s] :
              \/ i \in DOMAIN reserved[s] /\ reserved'[s][i] = reserved[s][i]
              \/ reserved'[s][i] = Request(s, g)
    BY RequestFacts
  <2>3. \A t \in Senders : \A i \in DOMAIN reserved[t] : RightFor(t, reserved[t][i])
    BY DEF IInv, TxInv
  <2>4. \A t \in Senders : \A i \in DOMAIN reserved'[t] : RightFor(t, reserved'[t][i])
    BY <2>2, <2>3
  <2>5. \A t \in Senders : \A i \in DOMAIN reserved'[t] : RightFor(t, reserved[t][i])'
    BY <2>4 DEF RightFor
  <2>6. UNCHANGED <<tx, executions>>
    OBVIOUS
  <2> QED
    BY <2>1, <2>2, <2>5, <2>6 DEF IInv, TxInv
<1>6. ExecutedInv' /\ ReturnInv'
  BY <1>1 DEF IInv, ExecutedInv, ReturnInv
<1> QED
  BY <1>2, <1>3, <1>4, <1>5, <1>6

\* A granted reservation keeps the invariant.
LEMMA ReserveStep == ASSUME IInv, NEW s \in Senders, Reserve(s) PROVE IInv'
<1> USE DEF Reserve, Goto, CtxOk
<1> DEFINE r == Request(s, TRUE)
<1>1. /\ pc \in [Senders -> PcValues]
      /\ pc' = [pc EXCEPT ![s] = "submit"]
      /\ reserved' = [reserved EXCEPT ![s] = Append(@, r)]
      /\ UNCHANGED <<slot, tx, head, cancelled>>
  BY DEF IInv, TypeOK, signing, chain
<1>2. /\ id' \in [Senders -> Nat]
      /\ id'[s] = Len(reserved[s]) + 1
      /\ \A t \in Senders : t # s => id'[t] = id[t]
  BY <1>1, RequestFacts DEF IInv, TypeOK
<1>3. FaultsGrow /\ UNCHANGED faults
  BY FaultTypes DEF IInv
<1>4. OfferShrinks
  <2>1. r \in Reservation /\ r.slot = slot[s] /\ slot[s] \in Offered
    BY <1>1, RequestFacts
  <2>2. r.gas \in Nat /\ r.blobs \in Nat
    BY <2>1, ConstantTypes DEF Reservation
  <2>3. HasRoom(offer[r.slot], r.blobs, r.gas) /\ TakeRoom(r.slot, r.gas, r.blobs)
    BY DEF Grantable
  <2> HIDE DEF r
  <2> QED
    BY <2>1, <2>2, <2>3, RoomFacts DEF IInv
<1>5. /\ TypeOK' /\ OfferInv' /\ ListingInv' /\ PickInv' /\ TxInv' /\ TurnInv'
      /\ ExecutedInv' /\ ReturnInv'
  BY <1>1, <1>2, <1>3, <1>4, RequestStep
<1>6. \A t \in Senders : t # s => pc'[t] = pc[t] /\ reserved'[t] = reserved[t]
  BY <1>1, RequestFacts
<1>7. /\ r.slot = slot[s] /\ r.granted = TRUE /\ r.sent = NoTx /\ r.tx = NoTx
      /\ Len(reserved[s]) \in Nat
      /\ Len(reserved'[s]) = Len(reserved[s]) + 1
      /\ reserved'[s][Len(reserved[s]) + 1] = r
      /\ \A i \in DOMAIN reserved'[s] :
            \/ i \in DOMAIN reserved[s] /\ reserved'[s][i] = reserved[s][i]
            \/ i = Len(reserved'[s]) /\ reserved'[s][i] = r
  BY <1>1, RequestFacts
<1>a. /\ pc[s] = "reserve" /\ pc'[s] = "submit"
      /\ Len(reserved[s]) + 1 # 0
      /\ slot'[s] = slot[s] /\ head' = head
  BY <1>1, <1>7
<1> HIDE DEF r, Reserve, Goto, CtxOk
<1>9. HoldInv'
  <2> SUFFICES ASSUME NEW t \in Senders
               PROVE  HoldInv!(t)'
    BY DEF HoldInv
  <2>1. CASE t = s
    BY <1>2, <1>7, <1>a, <2>1 DEF Held, Submitted
  <2>2. CASE t # s
    BY <1>1, <1>2, <1>6, <2>2 DEF IInv, HoldInv, Held, Submitted
  <2> QED
    BY <2>1, <2>2
<1>10. PunctualInv'
  <2> SUFFICES ASSUME NEW t \in Senders, faults = 0, t \notin cancelled,
                      NEW i \in DOMAIN reserved'[t]
               PROVE  PunctualInv!(t)!2!(i)'
    BY <1>1, <1>3 DEF PunctualInv
  <2>1. CASE t = s
    <3>1. /\ pc[t] \in Looking /\ pc'[t] \notin Looking
          /\ Len(reserved'[s]) \in Nat
      BY <1>7, <1>a, <2>1 DEF Looking
    <3> QED
      BY <1>7, <1>a, <2>1, <3>1 DEF IInv, PunctualInv
  <2>2. CASE t # s
    BY <1>1, <1>6, <2>2 DEF IInv, PunctualInv
  <2> QED
    BY <2>1, <2>2
<1> QED
  BY <1>5, <1>9, <1>10 DEF IInv

\* A reservation that failed leaves a request nobody waits for.
LEMMA ReserveFailsStep == ASSUME IInv, NEW s \in Senders, ReserveFails(s) PROVE IInv'
<1> USE DEF ReserveFails, Goto, local, RetryFrom
<1>1. /\ pc \in [Senders -> PcValues]
      /\ pc' = [pc EXCEPT ![s] = "getSlots"]
      /\ id' \in [Senders -> Nat]
      /\ UNCHANGED <<id, slot, tx, head, cancelled>>
  BY DEF IInv, TypeOK, signing, chain
<1>2. FaultsGrow /\ (faults' # 0 \/ s \in cancelled)
  BY FaultTypes DEF IInv
<1>3. OfferShrinks
  BY NoRoomFacts DEF IInv
<1>4. /\ TypeOK' /\ OfferInv' /\ ListingInv' /\ PickInv' /\ TxInv' /\ TurnInv'
      /\ ExecutedInv' /\ ReturnInv'
  BY <1>1, <1>2, <1>3, RequestStep
<1>5. \A t \in Senders : t # s => pc'[t] = pc[t] /\ reserved'[t] = reserved[t]
  BY <1>1, RequestFacts
<1>6. HoldInv'
  BY <1>1, <1>5 DEF IInv, HoldInv, Held, Submitted
<1>7. PunctualInv'
  <2> SUFFICES ASSUME NEW t \in Senders, faults' = 0, t \notin cancelled,
                      NEW i \in DOMAIN reserved'[t]
               PROVE  PunctualInv!(t)!2!(i)'
    BY <1>1 DEF PunctualInv
  <2>1. t # s /\ faults = 0
    BY <1>2 DEF FaultsGrow
  <2> QED
    BY <1>1, <1>5, <2>1 DEF IInv, PunctualInv
<1> QED
  BY <1>4, <1>6, <1>7 DEF IInv

\* One reservation of s becomes another one of the same slot, room and deposit.
SameRoom(r, e) ==
    /\ e.slot = r.slot
    /\ e.gas = r.gas
    /\ e.blobs = r.blobs
    /\ e.deposit = r.deposit

\* What changing one reservation leaves as it was.
LEMMA UpdateFacts ==
    ASSUME TypeOK, NEW s \in Senders, NEW k \in DOMAIN reserved[s], NEW e \in Reservation,
           reserved' = [reserved EXCEPT ![s][k] = e]
    PROVE  /\ reserved' \in [Senders -> Seq(Reservation)]
           /\ \A t \in Senders : t # s => reserved'[t] = reserved[t]
           /\ \A t \in Senders : Len(reserved'[t]) = Len(reserved[t])
           /\ \A t \in Senders : DOMAIN reserved'[t] = DOMAIN reserved[t]
           /\ reserved'[s][k] = e
           /\ \A i \in DOMAIN reserved[s] : i # k => reserved'[s][i] = reserved[s][i]
<1> DEFINE q == reserved[s]
<1>1. reserved \in [Senders -> Seq(Reservation)] /\ q \in Seq(Reservation) /\ k \in DOMAIN q
  BY DEF TypeOK, EnvironmentTypeOK
<1>2. reserved' = [reserved EXCEPT ![s] = [q EXCEPT ![k] = e]]
  OBVIOUS
<1> HIDE DEF q
<1>3. /\ [q EXCEPT ![k] = e] \in Seq(Reservation)
      /\ Len([q EXCEPT ![k] = e]) = Len(q)
      /\ DOMAIN [q EXCEPT ![k] = e] = DOMAIN q
      /\ \A i \in DOMAIN q : [q EXCEPT ![k] = e][i] = IF i = k THEN e ELSE q[i]
  BY <1>1
<1>4. /\ reserved' \in [Senders -> Seq(Reservation)]
      /\ reserved'[s] = [q EXCEPT ![k] = e]
      /\ \A t \in Senders : t # s => reserved'[t] = reserved[t]
  BY <1>1, <1>2, <1>3
<1> QED
  BY <1>1, <1>3, <1>4 DEF q

\* The invariants that such an update keeps, whoever makes it.
LEMMA UpdateStep ==
    ASSUME IInv, NEW s \in Senders, NEW k \in DOMAIN reserved[s], NEW e \in Reservation,
           reserved' = [reserved EXCEPT ![s][k] = e],
           SameRoom(reserved[s][k], e),
           e.sent \in {NoTx, tx[s]}, e.tx \in {NoTx, tx[s]},
           e.sent # NoTx \/ e.tx # NoTx => e.granted,
           UNCHANGED <<signing, local, cancelled, chain, others, ret>>,
           pc' \in [Senders -> PcValues],
           \A t \in Senders :
              \/ pc'[t] = pc[t]
              \/ pc[t] = "submit" /\ pc'[t] = "firstHead"
              \/ /\ pc[t] = "submit" /\ pc'[t] = "getSlots"
                 /\ faults' # 0 \/ t \in cancelled,
           OfferShrinks, FaultsGrow
    PROVE  /\ TypeOK' /\ OfferInv' /\ ListingInv' /\ PickInv' /\ TxInv' /\ TurnInv'
           /\ ExecutedInv' /\ ReturnInv'
<1> USE DEF chain, signing, local
<1>1. TypeOK /\ head \in 0 .. LastSlot /\ head <= head
  <2>1. TypeOK
    BY DEF IInv
  <2>2. head \in 0 .. LastSlot
    BY <2>1 DEF TypeOK, EnvironmentTypeOK
  <2> QED
    BY <2>1, <2>2, ConstantTypes
<1>2. TypeOK'
  <2>1. reserved' \in [Senders -> Seq(Reservation)]
    BY <1>1, UpdateFacts
  <2> QED
    BY <2>1 DEF IInv, TypeOK, EnvironmentTypeOK, FaultsGrow, OfferShrinks
<1>3. OfferInv' /\ ListingInv' /\ TurnInv'
  <2>1. \A t \in Senders : Refused(t)' => Refused(t)
    BY DEF Refused, FaultsGrow
  <2> QED
    BY <1>1, <2>1, SlotsStep
<1>4. PickInv'
  BY DEF IInv, PickInv, Picked, Submitted
<1>5. TxInv'
  <2>1. \A t \in Senders :
           /\ \A i \in DOMAIN reserved[t] : RightFor(t, reserved[t][i])
           /\ pc[t] = "prepare" => reserved[t] = << >> /\ executions[t] = 0
           /\ pc[t] \notin {"prepare", "returned"} =>
                 tx[t].gas = TxGas(t) /\ tx[t].blobs = Candidate[t].blobs
    BY DEF IInv, TxInv
  <2>2. RightFor(s, e)
    BY <2>1 DEF RightFor, SameRoom
  <2>3. /\ \A t \in Senders : t # s => reserved'[t] = reserved[t]
        /\ \A t \in Senders : DOMAIN reserved'[t] = DOMAIN reserved[t]
        /\ reserved'[s][k] = e
        /\ \A i \in DOMAIN reserved[s] : i # k => reserved'[s][i] = reserved[s][i]
    BY <1>1, UpdateFacts
  <2>4. \A t \in Senders : \A i \in DOMAIN reserved'[t] : RightFor(t, reserved'[t][i])
    BY <2>1, <2>2, <2>3
  <2>5. \A t \in Senders : \A i \in DOMAIN reserved'[t] : RightFor(t, reserved[t][i])'
    BY <2>4 DEF RightFor
  <2>6. reserved[s] # << >>
    OBVIOUS
  <2> QED
    BY <2>1, <2>3, <2>5, <2>6 DEF TxInv
<1>6. ExecutedInv' /\ ReturnInv'
  BY DEF IInv, ExecutedInv, ReturnInv
<1> QED
  BY <1>2, <1>3, <1>4, <1>5, <1>6

\* The reservation Send submits its transaction for.
LEMMA HeldFacts ==
    ASSUME IInv, NEW s \in Senders, pc[s] = "submit"
    PROVE  /\ id[s] \in DOMAIN reserved[s]
           /\ id[s] = Len(reserved[s])
           /\ Held(s) \in Reservation
           /\ Held(s).slot = slot[s]
           /\ Held(s).granted
           /\ Held(s).sent = NoTx
           /\ Held(s).tx = NoTx
           /\ tx[s] \in Tx
<1>1. /\ reserved[s] \in Seq(Reservation)
      /\ id[s] = Len(reserved[s]) /\ id[s] # 0
      /\ tx[s] \in Tx
  BY DEF IInv, TypeOK, EnvironmentTypeOK, HoldInv
<1>2. id[s] \in DOMAIN reserved[s] /\ Held(s) \in Reservation
  BY <1>1 DEF Held
<1> QED
  BY <1>1, <1>2 DEF IInv, HoldInv

\* An accepted submission keeps the invariant.
LEMMA SubmitStep == ASSUME IInv, NEW s \in Senders, Submit(s) PROVE IInv'
<1> DEFINE k == id[s]
           e == [Held(s) EXCEPT !.tx = tx[s]]
<1>1. /\ pc[s] = "submit"
      /\ pc \in [Senders -> PcValues] /\ pc' = [pc EXCEPT ![s] = "firstHead"]
      /\ reserved' = [reserved EXCEPT ![s][k] = e]
      /\ UNCHANGED <<signing, local, cancelled, offer, chain, others, ret, faults>>
  BY DEF IInv, TypeOK, Submit, Goto, AfterSubmit, CtxOk, Held
<1>2. /\ e \in Reservation /\ SameRoom(Held(s), e)
      /\ e.sent = NoTx /\ e.tx = tx[s] /\ e.granted
      /\ k \in DOMAIN reserved[s] /\ k = Len(reserved[s])
      /\ Held(s).slot = slot[s]
  BY <1>1, HeldFacts DEF Reservation, SameRoom
<1>3. FaultsGrow /\ OfferShrinks /\ TypeOK
  BY <1>1, FaultTypes, NoRoomFacts DEF IInv
<1> HIDE DEF e
<1>4. /\ TypeOK' /\ OfferInv' /\ ListingInv' /\ PickInv' /\ TxInv' /\ TurnInv'
      /\ ExecutedInv' /\ ReturnInv'
  <2>1. pc' \in [Senders -> PcValues] /\ \A t \in Senders : t # s => pc'[t] = pc[t]
    BY <1>1 DEF PcValues
  <2> QED
    BY <1>1, <1>2, <1>3, <2>1, UpdateStep DEF Held
<1>5. /\ \A t \in Senders : t # s => reserved'[t] = reserved[t]
      /\ \A t \in Senders : Len(reserved'[t]) = Len(reserved[t])
      /\ \A t \in Senders : DOMAIN reserved'[t] = DOMAIN reserved[t]
      /\ reserved'[s][k] = e
      /\ \A i \in DOMAIN reserved[s] : i # k => reserved'[s][i] = reserved[s][i]
  BY <1>1, <1>2, <1>3, UpdateFacts
<1>6. /\ UNCHANGED <<id, slot, tx, head, cancelled, faults>>
      /\ pc'[s] = "firstHead" /\ \A t \in Senders : t # s => pc'[t] = pc[t]
      /\ e.slot = slot[s]
  BY <1>1, <1>2 DEF signing, local, chain, SameRoom
<1>7. HoldInv'
  BY <1>1, <1>2, <1>5, <1>6 DEF IInv, HoldInv, Held, Submitted
<1>8. PunctualInv'
  <2> SUFFICES ASSUME NEW t \in Senders, faults = 0, t \notin cancelled,
                      NEW i \in DOMAIN reserved[t]
               PROVE  PunctualInv!(t)!2!(i)'
    BY <1>5, <1>6 DEF PunctualInv
  <2>1. PunctualInv!(t)!2!(i)
    BY DEF IInv, PunctualInv
  <2>2. CASE t = s /\ i = k
    BY <1>2, <1>5, <1>6, <2>2 DEF Looking
  <2>3. CASE t # s \/ i # k
    <3>1. t = s => i < Len(reserved[s])
      <4>1. reserved[s] \in Seq(Reservation)
        BY <1>3 DEF TypeOK, EnvironmentTypeOK
      <4> QED
        BY <1>2, <2>3, <4>1
    <3> QED
      BY <1>5, <1>6, <2>1, <2>3, <3>1
  <2> QED
    BY <2>2, <2>3
<1> QED
  BY <1>4, <1>7, <1>8 DEF IInv

\* A submission that failed leaves a transaction on its way.
LEMMA SubmitFailsStep == ASSUME IInv, NEW s \in Senders, SubmitFails(s) PROVE IInv'
<1> DEFINE k == id[s]
           e == [Held(s) EXCEPT !.sent = tx[s]]
<1>1. /\ pc[s] = "submit" /\ CtxFault(s)
      /\ pc \in [Senders -> PcValues] /\ pc' = [pc EXCEPT ![s] = "getSlots"]
      /\ reserved' = [reserved EXCEPT ![s][k] = e]
      /\ UNCHANGED <<signing, local, cancelled, offer, chain, others, ret>>
  BY DEF IInv, TypeOK, SubmitFails, Goto, RetryFrom, Held
<1>2. /\ e \in Reservation /\ SameRoom(Held(s), e)
      /\ e.sent = tx[s] /\ e.tx = NoTx /\ e.granted
      /\ k \in DOMAIN reserved[s]
  BY <1>1, HeldFacts DEF Reservation, SameRoom
<1>3. /\ FaultsGrow /\ (faults' # 0 \/ s \in cancelled)
      /\ OfferShrinks /\ TypeOK
  BY <1>1, FaultTypes, NoRoomFacts DEF IInv
<1> HIDE DEF e
<1>4. /\ TypeOK' /\ OfferInv' /\ ListingInv' /\ PickInv' /\ TxInv' /\ TurnInv'
      /\ ExecutedInv' /\ ReturnInv'
  <2>1. pc' \in [Senders -> PcValues] /\ \A t \in Senders : t # s => pc'[t] = pc[t]
    BY <1>1 DEF PcValues
  <2> QED
    BY <1>1, <1>2, <1>3, <2>1, UpdateStep DEF Held
<1>5. /\ \A t \in Senders : t # s => reserved'[t] = reserved[t] /\ pc'[t] = pc[t]
      /\ UNCHANGED <<id, slot, tx, head, cancelled>>
      /\ pc'[s] = "getSlots"
  BY <1>1, <1>2, <1>3, UpdateFacts DEF signing, local, chain
<1>6. HoldInv'
  BY <1>5 DEF IInv, HoldInv, Held, Submitted
<1>7. PunctualInv'
  <2> SUFFICES ASSUME NEW t \in Senders, faults' = 0, t \notin cancelled,
                      NEW i \in DOMAIN reserved'[t]
               PROVE  PunctualInv!(t)!2!(i)'
    BY <1>5 DEF PunctualInv
  <2>1. t # s /\ faults = 0
    BY <1>3 DEF FaultsGrow
  <2> QED
    BY <1>5, <2>1 DEF IInv, PunctualInv
<1> QED
  BY <1>4, <1>6, <1>7 DEF IInv

-----------------------------------------------------------------------------
(* The steps of the caller and of the environment.                         *)

\* A done ctx keeps the invariant.
LEMMA CancelStep == ASSUME IInv, NEW s \in Senders, Cancel(s) PROVE IInv'
<1> USE DEF IInv, Cancel, signing, local, environment, gateway, chain
<1>1. TypeOK' /\ OfferInv' /\ ListingInv' /\ PickInv'
  BY DEF TypeOK, EnvironmentTypeOK, OfferInv, ListingInv, PickInv
<1>2. TxInv' /\ HoldInv'
  BY DEF TxInv, RightFor, HoldInv, Held
<1>3. PunctualInv' /\ ExecutedInv' /\ ReturnInv'
  BY DEF PunctualInv, ExecutedInv, ReturnInv
<1>4. TurnInv'
  BY DEF TurnInv, Refused, Fits
<1> QED
  BY <1>1, <1>2, <1>3, <1>4

\* The gateway receives a request that Send gave up on.
LEMMA LateStep ==
    ASSUME IInv, NEW s \in Senders, NEW k \in DOMAIN reserved[s],
           GrantLate(s, k) \/ AcceptLate(s, k), UNCHANGED sends
    PROVE  IInv'
<1> DEFINE r == reserved[s][k]
           e == IF GrantLate(s, k) THEN [r EXCEPT !.granted = TRUE]
                ELSE [r EXCEPT !.sent = NoTx, !.tx = r.sent]
<1>1. r \in Reservation /\ RightFor(s, r) /\ TypeOK
  BY DEF IInv, TypeOK, EnvironmentTypeOK, TxInv
<1>2. reserved' = [reserved EXCEPT ![s][k] = e]
  BY DEF GrantLate, AcceptLate
<1>3. UNCHANGED <<signing, local, pc, cancelled, chain, others, ret, faults, slot, id, tx, head>>
  BY DEF GrantLate, AcceptLate, sends, signing, local, chain
<1>4. /\ e \in Reservation /\ SameRoom(r, e)
      /\ e.sent \in {NoTx, tx[s]} /\ e.tx \in {NoTx, tx[s]}
      /\ e.sent # NoTx \/ e.tx # NoTx => e.granted
  BY <1>1 DEF GrantLate, AcceptLate, RightFor, SameRoom, Reservation
<1>5. OfferShrinks
  <2>1. CASE GrantLate(s, k)
    <3>1. r.slot \in Offered /\ r.gas \in Nat /\ r.blobs \in Nat
      BY <1>1, ConstantTypes DEF RightFor, Reservation
    <3>2. HasRoom(offer[r.slot], r.blobs, r.gas) /\ TakeRoom(r.slot, r.gas, r.blobs)
      BY <2>1 DEF GrantLate, Grantable
    <3> QED
      BY <1>1, <3>1, <3>2, RoomFacts
  <2>2. CASE AcceptLate(s, k)
    BY <1>1, <2>2, NoRoomFacts DEF AcceptLate
  <2> QED
    BY <2>1, <2>2
<1>6. ~r.granted \/ r.sent # NoTx
  BY DEF GrantLate, AcceptLate
<1> HIDE DEF e
<1>7. /\ TypeOK' /\ OfferInv' /\ ListingInv' /\ PickInv' /\ TxInv' /\ TurnInv'
      /\ ExecutedInv' /\ ReturnInv'
  <2>1. pc' \in [Senders -> PcValues] /\ \A t \in Senders : pc'[t] = pc[t]
    BY <1>1, <1>3 DEF TypeOK
  <2>2. FaultsGrow
    BY <1>1, <1>3, FaultTypes
  <2> QED
    BY <1>2, <1>3, <1>4, <1>5, <2>1, <2>2, UpdateStep
<1>8. /\ \A t \in Senders : t # s => reserved'[t] = reserved[t]
      /\ \A t \in Senders : Len(reserved'[t]) = Len(reserved[t])
      /\ \A t \in Senders : DOMAIN reserved'[t] = DOMAIN reserved[t]
      /\ \A i \in DOMAIN reserved[s] : i # k => reserved'[s][i] = reserved[s][i]
  BY <1>1, <1>2, <1>4, UpdateFacts
<1>9. HoldInv'
  <2>1. \A t \in Senders : pc[t] \in {"submit"} \cup Submitted => Held(t)' = Held(t)
    <3> SUFFICES ASSUME NEW t \in Senders, pc[t] \in {"submit"} \cup Submitted
                 PROVE  reserved'[t][id[t]] = reserved[t][id[t]]
      BY <1>3 DEF Held
    <3>1. /\ id[t] \in DOMAIN reserved[t]
          /\ reserved[t][id[t]].granted /\ reserved[t][id[t]].sent = NoTx
      <4>1. reserved[t] \in Seq(Reservation) /\ id[t] = Len(reserved[t]) /\ id[t] # 0
        BY DEF IInv, HoldInv, TypeOK, EnvironmentTypeOK
      <4> QED
        BY <4>1 DEF IInv, HoldInv, Held
    <3> QED
      BY <1>6, <1>8, <3>1
  <2> QED
    BY <1>3, <1>8, <2>1 DEF IInv, HoldInv
<1>10. PunctualInv'
  <2> SUFFICES ASSUME NEW t \in Senders, faults = 0, t \notin cancelled,
                      NEW i \in DOMAIN reserved[t]
               PROVE  PunctualInv!(t)!2!(i)'
    BY <1>3, <1>8 DEF PunctualInv
  <2>1. PunctualInv!(t)!2!(i)
    BY DEF IInv, PunctualInv
  <2>2. t # s \/ i # k
    BY <1>6, <2>1
  <2> QED
    BY <1>3, <1>8, <2>1, <2>2
<1> QED
  BY <1>7, <1>9, <1>10 DEF IInv

\* Other customers keep the invariant: they only take room.
LEMMA OthersReserveStep ==
    ASSUME IInv, NEW n \in Offered, OthersReserve(n), UNCHANGED sends
    PROVE  IInv'
<1> USE DEF sends, signing, local, chain
<1>1. PICK g \in 0 .. offer[n].gas, b \in 0 .. offer[n].blobs : TakeRoom(n, g, b)
  BY DEF OthersReserve
<1>2. OfferShrinks
  <2>1. offer[n].gas \in Nat /\ offer[n].blobs \in Nat
    BY ConstantTypes DEF IInv, TypeOK, EnvironmentTypeOK, SlotInfo
  <2>2. g \in Nat /\ b \in Nat /\ HasRoom(offer[n], b, g)
    BY <2>1 DEF HasRoom
  <2> QED
    BY <1>1, <2>2, RoomFacts DEF IInv
<1>3. others' \in 0 .. MaxOthers
  BY MaxOthersAssumption DEF IInv, TypeOK, EnvironmentTypeOK, OthersReserve
<1>4. UNCHANGED <<nonce, pc, attempts, tx, listing, slot, fee, id, ret, cancelled, faults,
                  reserved, head, account, executions>>
  BY DEF OthersReserve
<1>5. TypeOK'
  BY <1>2, <1>3, <1>4 DEF IInv, TypeOK, EnvironmentTypeOK, OfferShrinks
<1>6. OfferInv' /\ ListingInv' /\ TurnInv'
  <2>1. head \in 0 .. LastSlot /\ head <= head
    BY ConstantTypes DEF IInv, TypeOK, EnvironmentTypeOK
  <2> QED
    BY <1>2, <1>4, <2>1, SlotsStep DEF Refused
<1>7. PickInv' /\ TxInv' /\ HoldInv'
  BY <1>4 DEF IInv, PickInv, TxInv, RightFor, HoldInv, Held
<1>8. PunctualInv' /\ ExecutedInv' /\ ReturnInv'
  BY <1>4 DEF IInv, PunctualInv, ExecutedInv, ReturnInv
<1> QED
  BY <1>5, <1>6, <1>7, <1>8 DEF IInv

\* A transaction beside the manager's keeps the invariant.
LEMMA EscrowStep == ASSUME IInv, EscrowTransact, UNCHANGED sends PROVE IInv'
<1> USE DEF IInv, EscrowTransact, sends, signing, local, gateway
<1>1. others' \in 0 .. MaxOthers
  BY MaxOthersAssumption DEF TypeOK, EnvironmentTypeOK
<1>2. account' \in Uint64s /\ account' = account + 1 /\ account \in Nat
  BY MaxUint64Assumption DEF TypeOK, EnvironmentTypeOK, Uint64s
<1>3. TypeOK'
  BY <1>1, <1>2 DEF TypeOK, EnvironmentTypeOK
<1>4. OfferInv' /\ ListingInv' /\ PickInv' /\ TurnInv'
  BY DEF OfferInv, ListingInv, PickInv, TurnInv, Refused, Fits
<1>5. TxInv' /\ HoldInv'
  BY DEF TxInv, RightFor, HoldInv, Held
<1>6. PunctualInv' /\ ReturnInv'
  BY DEF PunctualInv, ReturnInv
<1>7. ExecutedInv'
  <2>1. \A t \in Senders : tx[t].nonce \in Nat
    BY ConstantTypes DEF TypeOK, Tx
  <2>2. \A x \in Nat : x < account => x < account'
    BY <1>2
  <2> QED
    BY <2>1, <2>2 DEF ExecutedInv
<1> QED
  BY <1>3, <1>4, <1>5, <1>6, <1>7

\* The head only moves on.
LEMMA HeadStep == ASSUME IInv, AdvanceHead, UNCHANGED sends PROVE IInv'
<1> USE DEF AdvanceHead, sends, signing, local, gateway
<1>1. head \in 0 .. LastSlot /\ head' \in 0 .. LastSlot /\ head < head'
  BY LastSlotAssumption, MaxUint64Assumption DEF IInv, TypeOK, EnvironmentTypeOK, Uint64s
<1>2. Inc(head) = head + 1 /\ Inc(head') = head' + 1
  BY <1>1, ConstantTypes
<1>3. UNCHANGED <<nonce, pc, attempts, tx, listing, slot, fee, id, ret, cancelled, faults,
                  offer, reserved, account, executions, others>>
  OBVIOUS
<1>4. TypeOK' /\ PickInv' /\ TxInv'
  BY <1>1, <1>3 DEF IInv, TypeOK, EnvironmentTypeOK, PickInv, TxInv, RightFor
<1>5. OfferInv' /\ ListingInv' /\ TurnInv'
  <2>1. OfferShrinks
    BY <1>3, NoRoomFacts DEF IInv
  <2>2. head <= head'
    BY <1>1, ConstantTypes
  <2> QED
    BY <1>1, <1>3, <2>1, <2>2, SlotsStep DEF Refused
<1>6. HoldInv'
  <2>1. \A s \in Senders : slot[s] \in Nat
    BY ConstantTypes DEF IInv, TypeOK
  <2>2. \A n \in Nat : n < head => n < head'
    BY <1>1, ConstantTypes
  <2> QED
    BY <1>3, <2>1, <2>2 DEF IInv, HoldInv, Held
<1>7. PunctualInv'
  <2>1. \A s \in Senders : \A i \in DOMAIN reserved[s] : reserved[s][i].slot \in Nat
    BY ConstantTypes DEF IInv, TxInv, RightFor
  <2>2. \A n \in Nat : n <= Inc(head) => n <= Inc(head')
    BY <1>1, <1>2
  <2> QED
    BY <1>3, <2>1, <2>2 DEF IInv, PunctualInv
<1>8. ExecutedInv' /\ ReturnInv'
  BY <1>3 DEF IInv, ExecutedInv, ReturnInv
<1> QED
  BY <1>4, <1>5, <1>6, <1>7, <1>8 DEF IInv

\* A block runs a payload for the first time: had it run before, the nonce of
\* its transaction would be below the account's.
LEMMA FirstExecution ==
    ASSUME IInv, NEW s \in Senders, NEW i \in DOMAIN reserved[s], IncludeTx(s, i)
    PROVE  /\ executions[s] = 0
           /\ executions' = [executions EXCEPT ![s] = 1]
           /\ tx[s].nonce = account /\ account' = account + 1
           /\ account \in Nat /\ account' \in Uint64s
<1>1. /\ tx[s].nonce = account /\ account' = account + 1
      /\ account \in Nat /\ account' \in Uint64s
  <2>1. /\ reserved[s][i].tx # NoTx /\ reserved[s][i].tx.nonce = account
        /\ account < MaxUint64 /\ account' = account + 1
    BY DEF IncludeTx
  <2>2. RightFor(s, reserved[s][i]) /\ account \in 0 .. MaxUint64
    BY DEF IInv, TxInv, TypeOK, EnvironmentTypeOK, Uint64s
  <2>3. account \in Nat /\ account + 1 \in Uint64s
    BY <2>1, <2>2, MaxUint64Assumption DEF Uint64s
  <2> QED
    BY <2>1, <2>2, <2>3 DEF RightFor
<1>2. executions[s] = 0
  BY <1>1 DEF IInv, ExecutedInv
<1> QED
  BY <1>1, <1>2 DEF IInv, TypeOK, EnvironmentTypeOK, IncludeTx

\* A payload that runs uses up its nonce, and so runs once.
LEMMA IncludeStep ==
    ASSUME IInv, NEW s \in Senders, NEW i \in DOMAIN reserved[s], IncludeTx(s, i),
           UNCHANGED sends
    PROVE  IInv'
<1> USE DEF sends, signing, local, gateway
<1>1. /\ executions[s] = 0
      /\ executions' = [executions EXCEPT ![s] = 1]
      /\ tx[s].nonce = account /\ account' = account + 1
      /\ account \in Nat /\ account' \in Uint64s
  BY FirstExecution
<1>2. UNCHANGED <<nonce, pc, attempts, tx, listing, slot, fee, id, ret, cancelled, faults,
                  offer, reserved, head, others>>
  BY DEF IncludeTx
<1>3. /\ executions \in [Senders -> Nat]
      /\ \A t \in Senders : tx[t].nonce \in Nat
      /\ pc[s] # "prepare"
  <2>1. \A t \in Senders : tx[t].nonce \in Nat
    BY ConstantTypes DEF IInv, TypeOK, Tx
  <2> QED
    BY <2>1 DEF IInv, TypeOK, EnvironmentTypeOK, TxInv
<1>4. TypeOK'
  <2>1. executions' \in [Senders -> Nat]
    BY <1>1, <1>3
  <2> QED
    BY <1>1, <1>2, <2>1 DEF IInv, TypeOK, EnvironmentTypeOK
<1>5. OfferInv' /\ ListingInv' /\ PickInv' /\ HoldInv'
  BY <1>2 DEF IInv, OfferInv, ListingInv, PickInv, HoldInv, Held
<1>6. PunctualInv' /\ ReturnInv' /\ TurnInv'
  BY <1>2 DEF IInv, PunctualInv, ReturnInv, TurnInv, Refused, Fits
<1>7. TxInv'
  BY <1>1, <1>2, <1>3 DEF IInv, TxInv, RightFor
<1>8. ExecutedInv'
  BY <1>1, <1>2, <1>3 DEF IInv, ExecutedInv
<1> QED
  BY <1>4, <1>5, <1>6, <1>7, <1>8 DEF IInv

-----------------------------------------------------------------------------
\* Every step of Send keeps the invariant.
LEMMA SendStep == ASSUME IInv, NEW s \in Senders, Send(s) PROVE IInv'
<1> USE DEF Outcomes
<1>1. /\ TypeOK
      /\ attempts \in [Senders -> 0 .. MaxAttempts]
      /\ nonce \in Uint64s \cup {NoNonce}
  BY DEF IInv, TypeOK
<1>2. CASE NoSlotFound(s)
  BY <1>1, <1>2, FaultTypes, ReturnStep DEF NoSlotFound, signing
<1>3. CASE QuoteFails(s)
  BY <1>1, <1>3, FaultTypes, ReturnStep DEF QuoteFails, signing
<1>4. CASE PollFails(s)
  BY <1>1, <1>4, FaultTypes, ReturnStep DEF PollFails, signing
<1>5. CASE Receipt(s)
  BY <1>1, <1>5, FaultTypes, ReturnStep DEF Receipt, signing
<1>6. CASE GetSlotForCandidate(s)
  BY <1>2, <1>6, GetSlotsStep, PickSlotStep DEF GetSlotForCandidate
<1>7. CASE ReserveBlockspace(s)
  BY <1>7, ReserveStep, LoopStep, ReserveFailsStep DEF ReserveBlockspace
<1>8. CASE SubmitTransaction(s)
  BY <1>8, SubmitStep, LoopStep, SubmitFailsStep DEF SubmitTransaction
<1> QED
  BY <1>3, <1>4, <1>5, <1>6, <1>7, <1>8, CraftStep, RetryStep, GetFeeStep, PollStep
  DEF Send

\* Every step keeps the invariant.
LEMMA InvNext == IInv /\ [Next]_vars => IInv'
<1> SUFFICES ASSUME IInv, [Next]_vars
             PROVE  IInv'
  OBVIOUS
<1>1. CASE UNCHANGED vars
  <2> USE <1>1 DEF IInv, vars, sends, signing, local, environment, gateway, chain
  <2>1. TypeOK' /\ OfferInv' /\ ListingInv' /\ PickInv' /\ TxInv'
    BY DEF TypeOK, EnvironmentTypeOK, OfferInv, ListingInv, PickInv, TxInv, RightFor
  <2>2. HoldInv' /\ PunctualInv' /\ TurnInv' /\ ExecutedInv' /\ ReturnInv'
    BY DEF HoldInv, Held, PunctualInv, TurnInv, Refused, Fits, ExecutedInv, ReturnInv
  <2> QED
    BY <2>1, <2>2
<1>2. ASSUME EnvironmentNext, UNCHANGED sends
      PROVE  IInv'
  BY <1>2, LateStep, IncludeStep, OthersReserveStep, EscrowStep, HeadStep
  DEF EnvironmentNext, Received
<1> QED
  BY <1>1, <1>2, SendStep, CancelStep DEF Next

\* The inductive invariant holds while any number of Sends run.
THEOREM Invariance == Spec => []IInv
  BY InvInit, InvNext, PTL DEF Spec

-----------------------------------------------------------------------------
(* The properties.                                                         *)

\* Every variable keeps its type, however many Sends run and calls fail:
\* the nonce, the gas and the slots stay uint64 values, and the gateway's
\* room for a slot is never overdrawn.
THEOREM TypeCorrect == Spec => []TypeOK
<1>1. IInv => TypeOK
  BY DEF IInv
<1> QED
  BY <1>1, Invariance, PTL

\* Every reservation of every Send offers the deposit computed from the fee
\* quoted for its own slot, for any quotes and however often Send's loop
\* moved to another slot.
THEOREM DepositsQuoted == Spec => []DepositIsQuotedForItsSlot
<1>1. IInv => DepositIsQuotedForItsSlot
  BY DEF IInv, TxInv, RightFor, DepositIsQuotedForItsSlot
<1> QED
  BY <1>1, Invariance, PTL

\* A transaction the gateway has, however late it arrived, fits a reservation
\* the gateway granted, for any gas limits and estimates.
THEOREM SubmittedTxFits == Spec => []SubmittedTxFitsReservation
<1>1. ASSUME IInv
      PROVE  SubmittedTxFitsReservation
  <2>1. \A s \in Senders : tx[s].gas \in Nat /\ tx[s].blobs \in Nat
    BY <1>1, ConstantTypes DEF IInv, TypeOK, Tx
  <2>2. \A s \in Senders : tx[s].gas <= tx[s].gas /\ tx[s].blobs <= tx[s].blobs
    BY <2>1
  <2> QED
    BY <1>1, <2>2 DEF IInv, TxInv, RightFor, SubmittedTxFitsReservation
<1> QED
  BY <1>1, Invariance, PTL

\* While no call fails, a Send reserves anew only when its last reservation
\* came too late to be used.
THEOREM NoSecondDeposit == Spec => []NoSecondDepositWithoutFault
<1>1. ASSUME IInv
      PROVE  NoSecondDepositWithoutFault
  <2>1. \A s \in Senders : reserved[s] \in Seq(Reservation)
    BY <1>1 DEF IInv, TypeOK, EnvironmentTypeOK
  <2>2. \A s \in Senders : \A i, j \in DOMAIN reserved[s] : i < j => i < Len(reserved[s])
    BY <2>1
  <2> QED
    BY <1>1, <2>2 DEF IInv, PunctualInv, NoSecondDepositWithoutFault
<1> QED
  BY <1>1, Invariance, PTL

\* Only PickSlot leads from the listing to the fee.
LEMMA PicksOnly ==
    ASSUME IInv, [Next]_vars, NEW s \in Senders, pc[s] = "getHead", pc'[s] = "getFee"
    PROVE  PickSlot(s)
<1>1. pc \in [Senders -> PcValues]
  BY DEF IInv, TypeOK
<1>2. \E t \in Senders : Send(t)
  BY DEF Next, Cancel, vars, sends
<1>3. PICK t \in Senders : Send(t)
  BY <1>2
<1>4. t = s
  <2>1. \E l : pc' = [pc EXCEPT ![t] = l]
    BY <1>3, <1>1 DEF Send, Craft, CraftFails, Retry, GetSlotForCandidate, GetSlots, PickSlot,
       NoSlotFound, GetFee, QuoteFails, ReserveBlockspace, Reserve, ReserveRejected,
       ReserveFails, SubmitTransaction, Submit, SubmitRejected, SubmitFails, PollHead,
       PollFails, Receipt, Goto, Return
  <2> QED
    BY <1>1, <2>1
<1> QED
  BY <1>1, <1>3, <1>4 DEF Send, Craft, CraftFails, GetSlotForCandidate, GetSlots,
     NoSlotFound, GetFee, QuoteFails, ReserveBlockspace, Reserve, ReserveRejected,
     ReserveFails, SubmitTransaction, Submit, SubmitRejected, SubmitFails, PollHead,
     PollFails, Receipt, Return

\* The slot picked is not before the last one, and after it when that was refused.
LEMMA PickMovesOn ==
    ASSUME IInv, NEW s \in Senders, PickSlot(s)
    PROVE  /\ slot'[s] \in Nat /\ slot[s] \in Nat
           /\ slot'[s] >= slot[s]
           /\ (faults = 0 /\ Candidate[s].gasLimit # 0) => slot'[s] > slot[s]
           /\ \A r \in Senders : r # s => slot'[r] = slot[r]
<1>1. /\ pc[s] = "getHead" /\ Selected(s) # NoSlot /\ slot'[s] = Selected(s)
      /\ \A r \in Senders : r # s => slot'[r] = slot[r]
  BY DEF PickSlot, IInv, TypeOK
<1>2. Selected(s) \in Offered /\ Fits(s, listing[s][Selected(s)])
  BY <1>1, SelectedFacts
<1>3. Selected(s) \in Nat /\ slot[s] \in Nat
  BY <1>2, ConstantTypes DEF IInv, TypeOK
<1>4. ~(Selected(s) < slot[s] \/ (Selected(s) = slot[s] /\ Refused(s)))
  BY <1>1, <1>2 DEF IInv, TurnInv
<1>5. faults = 0 /\ Candidate[s].gasLimit # 0 => Refused(s)
  BY <1>1 DEF Refused
<1> QED
  BY <1>1, <1>3, <1>4, <1>5

\* However many Sends compete for however many slots, the loop of a Send never
\* turns back, and a refusal moves it to a later slot: without failing calls it
\* takes at most one turn for each slot on offer.
THEOREM TurnsMoveOn == Spec => EachTurnMovesOn
<1>1. IInv /\ [Next]_vars =>
        [\A s \in Senders : (pc[s] = "getHead" /\ pc'[s] = "getFee") =>
            /\ slot'[s] >= slot[s]
            /\ (faults = 0 /\ Candidate[s].gasLimit # 0) => slot'[s] > slot[s]]_vars
  BY PicksOnly, PickMovesOn
<1> QED
  BY <1>1, Invariance, PTL DEF Spec, EachTurnMovesOn

-----------------------------------------------------------------------------
(* What becomes of the reservations of the earlier turns.                  *)

\* Send asks for another reservation...
Asks(s) ==
    /\ pc[s] = "reserve"
    /\ \E g \in BOOLEAN : reserved' = [reserved EXCEPT ![s] = Append(@, Request(s, g))]
    /\ UNCHANGED slot

\* ...or one of those it asked for changes, and keeps its slot.
Changes(s) ==
    /\ \E k \in DOMAIN reserved[s], e \in Reservation :
          /\ reserved' = [reserved EXCEPT ![s][k] = e]
          /\ e.slot = reserved[s][k].slot
    /\ UNCHANGED slot

\* Nothing else happens to reservations, and only PickSlot changes the slot.
LEMMA ReservationSteps ==
    ASSUME IInv, [Next]_vars
    PROVE  \/ UNCHANGED <<reserved, slot>>
           \/ \E s \in Senders : PickSlot(s) /\ UNCHANGED reserved
           \/ \E s \in Senders : Asks(s) \/ Changes(s)
<1>1. ASSUME NEW s \in Senders, Send(s)
      PROVE  \/ UNCHANGED <<reserved, slot>>
             \/ PickSlot(s) /\ UNCHANGED reserved
             \/ Asks(s) \/ Changes(s)
  <2> USE DEF local, environment, gateway
  <2>1. CASE Craft(s) \/ CraftFails(s) \/ GetFee(s) \/ QuoteFails(s)
    BY <2>1 DEF Craft, CraftFails, GetFee, QuoteFails
  <2>2. CASE GetSlotForCandidate(s)
    BY <2>2 DEF GetSlotForCandidate, GetSlots, PickSlot, NoSlotFound
  <2>3. CASE ReserveBlockspace(s)
    BY <2>3 DEF ReserveBlockspace, Reserve, ReserveRejected, ReserveFails, Asks
  <2>4. CASE Submit(s)
    <3> DEFINE e == [Held(s) EXCEPT !.tx = tx[s]]
    <3>1. e \in Reservation /\ e.slot = Held(s).slot /\ id[s] \in DOMAIN reserved[s]
      BY <2>4, HeldFacts DEF Submit, Reservation
    <3>2. reserved' = [reserved EXCEPT ![s][id[s]] = e] /\ UNCHANGED slot
      BY <2>4 DEF Submit, Held
    <3> QED
      BY <3>1, <3>2 DEF Changes, Held
  <2>5. CASE SubmitFails(s)
    <3> DEFINE e == [Held(s) EXCEPT !.sent = tx[s]]
    <3>1. e \in Reservation /\ e.slot = Held(s).slot /\ id[s] \in DOMAIN reserved[s]
      BY <2>5, HeldFacts DEF SubmitFails, Reservation
    <3>2. reserved' = [reserved EXCEPT ![s][id[s]] = e] /\ UNCHANGED slot
      BY <2>5 DEF SubmitFails, Held
    <3> QED
      BY <3>1, <3>2 DEF Changes, Held
  <2>6. CASE SubmitRejected(s)
    BY <2>6 DEF SubmitRejected
  <2>7. CASE PollHead(s) \/ PollFails(s) \/ Receipt(s)
    BY <2>7 DEF PollHead, PollFails, Receipt
  <2> QED
    BY <1>1, <2>1, <2>2, <2>3, <2>4, <2>5, <2>6, <2>7 DEF Send, SubmitTransaction
<1>2. ASSUME NEW s \in Senders, NEW k \in DOMAIN reserved[s],
             GrantLate(s, k) \/ AcceptLate(s, k), UNCHANGED sends
      PROVE  Changes(s)
  <2> DEFINE r == reserved[s][k]
             e == IF GrantLate(s, k) THEN [r EXCEPT !.granted = TRUE]
                  ELSE [r EXCEPT !.sent = NoTx, !.tx = r.sent]
  <2>1. r \in Reservation
    BY DEF IInv, TypeOK, EnvironmentTypeOK
  <2>2. reserved' = [reserved EXCEPT ![s][k] = e] /\ UNCHANGED slot
    BY <1>2 DEF GrantLate, AcceptLate, sends, local
  <2>3. e \in Reservation /\ e.slot = r.slot
    BY <1>2, <2>1 DEF AcceptLate, Reservation
  <2> QED
    BY <2>2, <2>3 DEF Changes
<1>3. ASSUME EnvironmentNext, UNCHANGED sends
      PROVE  UNCHANGED <<reserved, slot>> \/ \E s \in Senders : Changes(s)
  BY <1>2, <1>3
  DEF EnvironmentNext, Received, IncludeTx, OthersReserve, EscrowTransact, AdvanceHead,
      gateway, sends, local
<1>4. ASSUME NEW s \in Senders, Cancel(s)
      PROVE  UNCHANGED <<reserved, slot>>
  BY <1>4 DEF Cancel, local, environment, gateway
<1>5. UNCHANGED vars => UNCHANGED <<reserved, slot>>
  BY DEF vars, sends, local, environment, gateway
<1> QED
  BY <1>1, <1>3, <1>4, <1>5 DEF Next

\* No reservation is for a slot after the one last picked.
BehindInv ==
    \A s \in Senders : \A i \in DOMAIN reserved[s] : reserved[s][i].slot <= slot[s]

\* Send's loop never turns back, so that its reservations stay behind.
LEMMA Behind == Spec => []BehindInv
<1>1. Init => BehindInv
  BY DEF Init, EnvironmentInit, BehindInv
<1>2. IInv /\ BehindInv /\ [Next]_vars => BehindInv'
  <2> SUFFICES ASSUME IInv, BehindInv, [Next]_vars
               PROVE  BehindInv'
    OBVIOUS
  <2>1. /\ TypeOK
        /\ \A s \in Senders : slot[s] \in Nat
        /\ \A s \in Senders : \A i \in DOMAIN reserved[s] : reserved[s][i].slot \in Nat
    BY ConstantTypes DEF IInv, TypeOK, TxInv, RightFor
  <2>2. CASE UNCHANGED <<reserved, slot>>
    BY <2>2 DEF BehindInv
  <2>3. ASSUME NEW s \in Senders, PickSlot(s), UNCHANGED reserved
        PROVE  BehindInv'
    <3>1. \A r \in Senders : slot'[r] \in Nat /\ slot[r] <= slot'[r]
      BY <2>1, <2>3, PickMovesOn
    <3>2. \A x, y, z \in Nat : x <= y /\ y <= z => x <= z
      OBVIOUS
    <3> QED
      BY <2>1, <2>3, <3>1, <3>2 DEF BehindInv
  <2>4. ASSUME NEW s \in Senders, Asks(s)
        PROVE  BehindInv'
    <3>1. PICK g \in BOOLEAN : reserved' = [reserved EXCEPT ![s] = Append(@, Request(s, g))]
      BY <2>4 DEF Asks
    <3>2. /\ \A t \in Senders : t # s => reserved'[t] = reserved[t]
          /\ \A i \in DOMAIN reserved'[s] :
                \/ i \in DOMAIN reserved[s] /\ reserved'[s][i] = reserved[s][i]
                \/ reserved'[s][i].slot = slot[s]
      <4>1. /\ Request(s, g).slot = slot[s]
            /\ reserved'[s][Len(reserved[s]) + 1] = Request(s, g)
            /\ \A t \in Senders : t # s => reserved'[t] = reserved[t]
            /\ \A i \in DOMAIN reserved'[s] :
                  \/ i \in DOMAIN reserved[s] /\ reserved'[s][i] = reserved[s][i]
                  \/ i = Len(reserved[s]) + 1
        BY <2>4, <3>1, RequestFacts DEF Asks
      <4> QED
        BY <4>1
    <3>3. slot[s] <= slot[s] /\ UNCHANGED slot
      BY <2>1, <2>4 DEF Asks
    <3> QED
      BY <3>2, <3>3 DEF BehindInv
  <2>5. ASSUME NEW s \in Senders, Changes(s)
        PROVE  BehindInv'
    <3>1. PICK k \in DOMAIN reserved[s], e \in Reservation :
             /\ reserved' = [reserved EXCEPT ![s][k] = e]
             /\ e.slot = reserved[s][k].slot
      BY <2>5 DEF Changes
    <3>2. /\ \A t \in Senders : DOMAIN reserved'[t] = DOMAIN reserved[t]
          /\ \A t \in Senders : \A i \in DOMAIN reserved[t] :
                reserved'[t][i].slot = reserved[t][i].slot
      BY <2>1, <3>1, UpdateFacts
    <3> QED
      BY <2>5, <3>2 DEF BehindInv, Changes
  <2> QED
    BY <2>2, <2>3, <2>4, <2>5, ReservationSteps
<1> QED
  BY <1>1, <1>2, Invariance, PTL DEF Spec

\* Send asks for its receipt only when the head is past the slot for which its
\* own transaction was accepted, and past those of all its other reservations:
\* a request of an earlier turn that arrives late cannot bring the receipt any
\* more.
THEOREM ReceiptAfterSlot == Spec => []ReceiptAskedAfterOwnSlot
<1>1. ASSUME IInv, BehindInv, NEW s \in Senders, pc[s] = "receipt"
      PROVE  ReceiptAskedAfterOwnSlot!(s)!2
  <2>1. reserved[s] \in Seq(Reservation) /\ id[s] \in Nat
    BY <1>1 DEF IInv, TypeOK, EnvironmentTypeOK
  <2>2. id[s] \in DOMAIN reserved[s] /\ Held(s).tx = tx[s] /\ slot[s] < head
    BY <1>1, <2>1 DEF IInv, HoldInv, Held, Submitted
  <2>3. /\ head \in Nat /\ slot[s] \in Nat
        /\ \A i \in DOMAIN reserved[s] : reserved[s][i].slot \in Nat
    BY <1>1, LastSlotAssumption, ConstantTypes DEF IInv, TypeOK, EnvironmentTypeOK, TxInv, RightFor
  <2>4. \A i \in DOMAIN reserved[s] : reserved[s][i].slot <= slot[s]
    BY <1>1 DEF BehindInv
  <2>5. \A x \in Nat : x <= slot[s] => x < head
    BY <2>2, <2>3
  <2> QED
    BY <2>2, <2>3, <2>4, <2>5
<1>2. IInv /\ BehindInv => ReceiptAskedAfterOwnSlot
  BY <1>1 DEF ReceiptAskedAfterOwnSlot
<1> QED
  BY <1>2, Invariance, Behind, PTL

-----------------------------------------------------------------------------
(* What a lost answer costs.                                               *)

\* The calls from the grant of a reservation to the receipt.
Holding == {"submit"} \cup Submitted

\* The reservations at stake beside the one Send holds.
Spare(s) == IF pc[s] \in Holding THEN AtStake(s) \ {id[s]} ELSE AtStake(s)

\* Send has let its reservation go for good.
Leaving(s) == pc[s] = "returned" \/ (pc[s] = "getSlots" /\ s \in cancelled)

\* Each of them was lost to a failed call, and one more to the end of Send.
FewSpare(s) == Cardinality(Spare(s)) <= faults + (IF Leaving(s) THEN 1 ELSE 0)

StakeInv == \A s \in Senders : FewSpare(s)

\* Reservations can be counted.
LEMMA SpareFinite ==
    ASSUME IInv, NEW s \in Senders
    PROVE  /\ IsFiniteSet(Spare(s)) /\ Cardinality(Spare(s)) \in Nat
           /\ faults \in Nat
<1>1. /\ reserved[s] \in Seq(Reservation) /\ faults \in Nat
      /\ Len(reserved[s]) \in Nat /\ DOMAIN reserved[s] = 1 .. Len(reserved[s])
  BY DEF IInv, TypeOK, EnvironmentTypeOK
<1>2. IsFiniteSet(1 .. Len(reserved[s]))
  BY <1>1, FS_Interval
<1>3. Spare(s) \subseteq 1 .. Len(reserved[s])
  BY <1>1 DEF Spare, AtStake
<1> QED
  BY <1>1, <1>2, <1>3, FS_Subset, FS_CardinalityType

\* A step that puts no reservation at stake.
LEMMA NoMoreSpare ==
    ASSUME IInv, StakeInv, NEW s \in Senders, Spare(s)' \subseteq Spare(s),
           faults' \in {faults, faults + 1}, Leaving(s) => Leaving(s)'
    PROVE  FewSpare(s)'
<1>1. /\ IsFiniteSet(Spare(s)) /\ Cardinality(Spare(s)) \in Nat
      /\ faults \in Nat
  BY SpareFinite
<1>2. Cardinality(Spare(s)') <= Cardinality(Spare(s)) /\ Cardinality(Spare(s)') \in Nat
  BY <1>1, FS_Subset, FS_CardinalityType
<1>3. Cardinality(Spare(s)) <= faults + (IF Leaving(s) THEN 1 ELSE 0)
  BY DEF StakeInv, FewSpare
<1> DEFINE c == Cardinality(Spare(s))
           d == Cardinality(Spare(s)')
           u == IF Leaving(s) THEN 1 ELSE 0
           v == IF Leaving(s)' THEN 1 ELSE 0
<1>4. u \in Nat /\ v \in Nat /\ u <= v
  OBVIOUS
<1>5. d <= faults' + v
  <2>1. /\ c \in Nat /\ d \in Nat /\ faults \in Nat /\ faults' \in Nat
        /\ d <= c /\ c <= faults + u /\ faults <= faults'
    BY <1>1, <1>2, <1>3
  <2>2. \A f, g, k, l, x, y \in Nat : l <= k /\ k <= f + x /\ x <= y /\ f <= g => l <= g + y
    OBVIOUS
  <2> HIDE DEF c, d, u, v
  <2> QED
    BY <1>4, <2>1, <2>2
<1> QED
  BY <1>5 DEF FewSpare

\* A step that puts one more at stake, with a failed call or the end of Send.
LEMMA OneMoreSpare ==
    ASSUME IInv, StakeInv, NEW s \in Senders, NEW i, Spare(s)' \subseteq Spare(s) \cup {i},
           faults' \in {faults, faults + 1}, ~Leaving(s), faults' # faults \/ Leaving(s)'
    PROVE  FewSpare(s)'
<1>1. /\ IsFiniteSet(Spare(s)) /\ Cardinality(Spare(s)) \in Nat
      /\ faults \in Nat
  BY SpareFinite
<1>2. /\ IsFiniteSet(Spare(s) \cup {i})
      /\ Cardinality(Spare(s) \cup {i}) <= Cardinality(Spare(s)) + 1
      /\ Cardinality(Spare(s) \cup {i}) \in Nat
  <2>1. /\ IsFiniteSet(Spare(s) \cup {i})
        /\ \/ Cardinality(Spare(s) \cup {i}) = Cardinality(Spare(s))
           \/ Cardinality(Spare(s) \cup {i}) = Cardinality(Spare(s)) + 1
    BY <1>1, FS_AddElement
  <2> QED
    BY <1>1, <2>1
<1>3. Cardinality(Spare(s)') <= Cardinality(Spare(s) \cup {i}) /\ Cardinality(Spare(s)') \in Nat
  BY <1>2, FS_Subset, FS_CardinalityType
<1>4. Cardinality(Spare(s)) <= faults
  BY <1>1 DEF StakeInv, FewSpare
<1> DEFINE b == Cardinality(Spare(s) \cup {i})
           c == Cardinality(Spare(s))
           d == Cardinality(Spare(s)')
           v == IF Leaving(s)' THEN 1 ELSE 0
<1>5. v \in Nat /\ (faults' = faults + 1 \/ (faults' = faults /\ v = 1))
  OBVIOUS
<1>6. d <= faults' + v
  <2>1. /\ b \in Nat /\ c \in Nat /\ d \in Nat /\ faults \in Nat /\ faults' \in Nat
        /\ d <= b /\ b <= c + 1 /\ c <= faults
    BY <1>1, <1>2, <1>3, <1>4
  <2>2. \A f, j, k, l, y \in Nat :
           l <= j /\ j <= k + 1 /\ k <= f => l <= f + 1 /\ l <= f + 1 + y
    OBVIOUS
  <2> HIDE DEF b, c, d, v
  <2> QED
    BY <1>5, <2>1, <2>2
<1> QED
  BY <1>6 DEF FewSpare

\* A reservation that stays as it was, or that reaches the gateway late, is not at
\* stake when it was not.
LEMMA StakeStays ==
    ASSUME IInv, NEW s \in Senders, NEW X, head' \in 0 .. LastSlot, head <= head',
           \A i \in DOMAIN reserved'[s] \ X :
              /\ i \in DOMAIN reserved[s]
              /\ reserved'[s][i].slot = reserved[s][i].slot
              /\ (reserved'[s][i].tx # NoTx \/ reserved'[s][i].sent # NoTx) =>
                     (reserved[s][i].tx # NoTx \/ reserved[s][i].sent # NoTx)
    PROVE  AtStake(s)' \subseteq AtStake(s) \cup X
<1>1. /\ Inc(head) \in Nat /\ Inc(head') \in Nat /\ Inc(head) <= Inc(head')
      /\ \A i \in DOMAIN reserved[s] : reserved[s][i].slot \in Nat
  BY ConstantTypes DEF IInv, TypeOK, EnvironmentTypeOK, TxInv, RightFor
<1>2. \A n \in Nat : n > Inc(head') => n > Inc(head)
  BY <1>1
<1>3. ASSUME NEW i \in AtStake(s)', i \notin X
      PROVE  i \in AtStake(s)
  <2>1. /\ i \in DOMAIN reserved'[s]
        /\ \/ reserved'[s][i].tx # NoTx
           \/ reserved'[s][i].sent # NoTx
           \/ reserved'[s][i].slot > Inc(head')
    BY <1>3 DEF AtStake, Inc
  <2>2. /\ i \in DOMAIN reserved[s]
        /\ \/ reserved[s][i].tx # NoTx
           \/ reserved[s][i].sent # NoTx
           \/ reserved[s][i].slot > Inc(head)
    BY <1>1, <1>2, <1>3, <2>1
  <2> QED
    BY <2>2 DEF AtStake
<1> QED
  BY <1>3

\* What a step of Send leaves alone, its own and that of the others.
LEMMA SendFrame ==
    ASSUME IInv, NEW s \in Senders, Send(s)
    PROVE  /\ \E l \in PcValues : pc' = [pc EXCEPT ![s] = l]
           /\ UNCHANGED <<head, cancelled>>
           /\ faults' \in {faults, faults + 1}
           /\ \A t \in Senders : t # s => id'[t] = id[t] /\ reserved'[t] = reserved[t]
<1> USE DEF Goto, Return, PcValues, CtxOk, CtxFault, Fault, local, environment, gateway, chain
<1>1. reserved \in [Senders -> Seq(Reservation)] /\ id \in [Senders -> Nat]
  BY DEF IInv, TypeOK, EnvironmentTypeOK
<1>2. CASE Craft(s)
  BY <1>2 DEF Craft
<1>3. CASE CraftFails(s)
  BY <1>3 DEF CraftFails, Retry
<1>4. CASE GetSlotForCandidate(s)
  BY <1>4 DEF GetSlotForCandidate, GetSlots, PickSlot, NoSlotFound
<1>5. CASE GetFee(s) \/ QuoteFails(s)
  BY <1>5 DEF GetFee, QuoteFails
<1>6. CASE ReserveBlockspace(s)
  BY <1>1, <1>6 DEF ReserveBlockspace, Reserve, ReserveRejected, ReserveFails, RetryFrom
<1>7. CASE SubmitTransaction(s)
  BY <1>1, <1>7 DEF SubmitTransaction, Submit, SubmitRejected, SubmitFails, RetryFrom, AfterSubmit
<1>8. CASE PollHead(s) \/ PollFails(s)
  BY <1>8 DEF PollHead, PollFails
<1>9. CASE Receipt(s)
  BY <1>9 DEF Receipt
<1> QED
  BY <1>2, <1>3, <1>4, <1>5, <1>6, <1>7, <1>8, <1>9 DEF Send

\* The steps of Send that change no reservation.
LEMMA KeepingSteps ==
    ASSUME IInv, NEW s \in Senders, Send(s),
           ~Reserve(s), ~ReserveFails(s), ~Submit(s), ~SubmitFails(s)
    PROVE  /\ UNCHANGED <<reserved, id>>
           /\ pc[s] # "returned"
           /\ \/ pc'[s] = "returned"
              \/ SubmitRejected(s) /\ pc'[s] = "getSlots"
              \/ ~Leaving(s) /\ (pc[s] \in Holding <=> pc'[s] \in Holding)
<1> USE DEF Goto, Return, CtxOk, local, environment, gateway, Leaving, Holding, Submitted
<1>1. pc \in [Senders -> PcValues]
  BY DEF IInv, TypeOK
<1>2. CASE Craft(s)
  BY <1>1, <1>2 DEF Craft
<1>3. CASE CraftFails(s)
  BY <1>1, <1>3 DEF CraftFails, Retry
<1>4. CASE GetSlotForCandidate(s)
  BY <1>1, <1>4 DEF GetSlotForCandidate, GetSlots, PickSlot, NoSlotFound
<1>5. CASE GetFee(s) \/ QuoteFails(s)
  BY <1>1, <1>5 DEF GetFee, QuoteFails
<1>6. CASE ReserveRejected(s)
  BY <1>1, <1>6 DEF ReserveRejected, RetryFrom
<1>7. CASE SubmitRejected(s)
  BY <1>1, <1>7 DEF SubmitRejected, RetryFrom
<1>8. CASE PollHead(s) \/ PollFails(s)
  BY <1>1, <1>8 DEF PollHead, PollFails
<1>9. CASE Receipt(s)
  BY <1>1, <1>9 DEF Receipt
<1> QED
  BY <1>2, <1>3, <1>4, <1>5, <1>6, <1>7, <1>8, <1>9
  DEF Send, ReserveBlockspace, SubmitTransaction

\* A step of Send puts at most one more of its reservations at stake: the one a
\* failed call loses sight of, or the one it holds when it ends.
LEMMA OwnStake ==
    ASSUME IInv, StakeInv, NEW s \in Senders, Send(s)
    PROVE  FewSpare(s)'
<1>1. /\ pc \in [Senders -> PcValues]
      /\ head' \in 0 .. LastSlot /\ head <= head'
      /\ faults' \in {faults, faults + 1}
      /\ UNCHANGED cancelled
  <2>1. head \in 0 .. LastSlot /\ head <= head
    BY ConstantTypes DEF IInv, TypeOK, EnvironmentTypeOK
  <2>2. UNCHANGED <<head, cancelled>> /\ faults' \in {faults, faults + 1}
    BY SendFrame
  <2> QED
    BY <2>1, <2>2 DEF IInv, TypeOK
<1>2. CASE Reserve(s) \/ ReserveFails(s)
  <2>1. /\ pc[s] = "reserve"
        /\ \E g \in BOOLEAN : reserved' = [reserved EXCEPT ![s] = Append(@, Request(s, g))]
    BY <1>2 DEF Reserve, ReserveFails
  <2> DEFINE i == Len(reserved[s]) + 1
  <2>2. \A j \in DOMAIN reserved'[s] \ {i} : j \in DOMAIN reserved[s] /\ reserved'[s][j] = reserved[s][j]
    BY <2>1, RequestFacts
  <2> HIDE DEF i
  <2>3. AtStake(s)' \subseteq AtStake(s) \cup {i}
    BY <1>1, <2>2, StakeStays
  <2>4. Spare(s) = AtStake(s) /\ ~Leaving(s)
    BY <2>1 DEF Spare, Leaving, Holding, Submitted
  <2>5. CASE Reserve(s)
    <3>1. pc'[s] = "submit" /\ id'[s] = i /\ faults' = faults
      BY <1>1, <2>5 DEF Reserve, Goto, CtxOk, i, IInv, TypeOK
    <3>2. Spare(s)' \subseteq Spare(s)
      BY <2>3, <2>4, <3>1 DEF Spare, Holding
    <3> QED
      BY <1>1, <2>4, <3>2, NoMoreSpare
  <2>6. CASE ReserveFails(s)
    <3>1. pc'[s] = "getSlots" /\ (faults' # faults \/ s \in cancelled)
      BY <1>1, <2>6, FaultTypes DEF ReserveFails, Goto, RetryFrom, CtxFault, Fault, IInv, TypeOK
    <3>2. Spare(s)' \subseteq Spare(s) \cup {i}
      BY <2>3, <2>4, <3>1 DEF Spare, Holding, Submitted
    <3>3. faults' # faults \/ Leaving(s)'
      BY <1>1, <3>1 DEF Leaving
    <3> QED
      BY <1>1, <2>4, <3>2, <3>3, OneMoreSpare
  <2> QED
    BY <1>2, <2>5, <2>6
<1>3. CASE Submit(s) \/ SubmitFails(s)
  <2> DEFINE k == id[s]
  <2>1. pc[s] = "submit" /\ ~Leaving(s) /\ Spare(s) = AtStake(s) \ {k}
    BY <1>3 DEF Submit, SubmitFails, Spare, Holding, Leaving
  <2>2. PICK e \in Reservation : reserved' = [reserved EXCEPT ![s][k] = e]
    <3>1. /\ [Held(s) EXCEPT !.tx = tx[s]] \in Reservation
          /\ [Held(s) EXCEPT !.sent = tx[s]] \in Reservation
      BY <2>1, HeldFacts DEF Reservation
    <3> QED
      BY <1>3, <3>1 DEF Submit, SubmitFails, Held
  <2>3. k \in DOMAIN reserved[s] /\ TypeOK
    BY <2>1, HeldFacts DEF IInv
  <2>4. \A j \in DOMAIN reserved'[s] \ {k} : j \in DOMAIN reserved[s] /\ reserved'[s][j] = reserved[s][j]
    BY <2>2, <2>3, UpdateFacts
  <2>5. AtStake(s)' \subseteq AtStake(s) \cup {k}
    <3> HIDE DEF k
    <3> QED
      BY <1>1, <2>4, StakeStays
  <2>6. CASE Submit(s)
    <3>1. pc'[s] = "firstHead" /\ id'[s] = k
      BY <1>1, <2>6 DEF Submit, Goto, AfterSubmit, local
    <3>2. Spare(s)' \subseteq Spare(s)
      BY <2>1, <2>5, <3>1 DEF Spare, Holding, Submitted
    <3> QED
      BY <1>1, <2>1, <3>2, NoMoreSpare
  <2>7. CASE SubmitFails(s)
    <3>1. pc'[s] = "getSlots" /\ (faults' # faults \/ s \in cancelled)
      BY <1>1, <2>7, FaultTypes DEF SubmitFails, Goto, RetryFrom, CtxFault, Fault, IInv, TypeOK
    <3>2. Spare(s)' \subseteq Spare(s) \cup {k}
      BY <2>1, <2>5, <3>1 DEF Spare, Holding, Submitted
    <3>3. faults' # faults \/ Leaving(s)'
      BY <1>1, <3>1 DEF Leaving
    <3> QED
      BY <1>1, <2>1, <3>2, <3>3, OneMoreSpare
  <2> QED
    BY <1>3, <2>6, <2>7
<1>4. CASE ~Reserve(s) /\ ~ReserveFails(s) /\ ~Submit(s) /\ ~SubmitFails(s)
  <2>1. /\ UNCHANGED <<reserved, id>>
        /\ pc[s] # "returned"
        /\ \/ pc'[s] = "returned"
           \/ SubmitRejected(s) /\ pc'[s] = "getSlots"
           \/ ~Leaving(s) /\ (pc[s] \in Holding <=> pc'[s] \in Holding)
    BY <1>4, KeepingSteps
  <2>2. AtStake(s)' \subseteq AtStake(s)
    <3>1. AtStake(s)' \subseteq AtStake(s) \cup {}
      BY <1>1, <2>1, StakeStays
    <3> QED
      BY <3>1
  <2>3. CASE pc'[s] = "returned"
    <3>1. Leaving(s)' /\ Spare(s)' = AtStake(s)'
      BY <2>3 DEF Leaving, Spare, Holding, Submitted
    <3>2. CASE pc[s] \in Holding
      <4>1. ~Leaving(s) /\ Spare(s)' \subseteq Spare(s) \cup {id[s]}
        BY <2>2, <3>1, <3>2 DEF Leaving, Spare, Holding, Submitted
      <4> QED
        BY <1>1, <3>1, <4>1, OneMoreSpare
    <3>3. CASE pc[s] \notin Holding
      <4>1. Spare(s)' \subseteq Spare(s)
        BY <2>2, <3>1, <3>3 DEF Spare
      <4> QED
        BY <1>1, <3>1, <4>1, NoMoreSpare
    <3> QED
      BY <3>2, <3>3
  <2>4. CASE SubmitRejected(s) /\ pc'[s] = "getSlots"
    <3>1. pc[s] = "submit" /\ TooLate(Held(s), head)
      BY <2>4 DEF SubmitRejected
    <3>2. id[s] \notin AtStake(s)
      <4>1. Held(s).tx = NoTx /\ Held(s).sent = NoTx /\ Held(s).slot \in Nat
        BY <3>1, HeldFacts, ConstantTypes DEF Reservation
      <4>2. Inc(head) \in Nat
        BY ConstantTypes DEF IInv, TypeOK, EnvironmentTypeOK
      <4>3. ~(Held(s).slot > Inc(head))
        BY <3>1, <4>1, <4>2 DEF TooLate
      <4> QED
        BY <4>1, <4>3 DEF AtStake, Held
    <3>3. Spare(s)' \subseteq Spare(s) /\ ~Leaving(s)
      BY <2>2, <2>4, <3>1, <3>2 DEF Spare, Leaving, Holding, Submitted
    <3> QED
      BY <1>1, <3>3, NoMoreSpare
  <2>5. CASE ~Leaving(s) /\ (pc[s] \in Holding <=> pc'[s] \in Holding)
    <3>1. Spare(s)' \subseteq Spare(s)
      BY <2>1, <2>2, <2>5 DEF Spare
    <3> QED
      BY <1>1, <2>5, <3>1, NoMoreSpare
  <2> QED
    BY <2>1, <2>3, <2>4, <2>5
<1> QED
  BY <1>2, <1>3, <1>4

\* Nothing else puts a reservation of s at stake.
LEMMA ForeignStake ==
    ASSUME IInv, StakeInv, [Next]_vars, NEW s \in Senders, ~Send(s)
    PROVE  FewSpare(s)'
<1>1. head \in 0 .. LastSlot /\ head <= head
  BY ConstantTypes DEF IInv, TypeOK, EnvironmentTypeOK
<1>2. ASSUME pc'[s] = pc[s], id'[s] = id[s], cancelled \subseteq cancelled',
             faults' \in {faults, faults + 1}, AtStake(s)' \subseteq AtStake(s)
      PROVE  FewSpare(s)'
  <2>1. Spare(s)' \subseteq Spare(s) /\ (Leaving(s) => Leaving(s)')
    BY <1>2 DEF Spare, Leaving
  <2> QED
    BY <1>2, <2>1, NoMoreSpare
<1>3. ASSUME reserved'[s] = reserved[s], head' \in 0 .. LastSlot, head <= head'
      PROVE  AtStake(s)' \subseteq AtStake(s)
  <2>1. AtStake(s)' \subseteq AtStake(s) \cup {}
    BY <1>3, StakeStays
  <2> QED
    BY <2>1
<1>4. ASSUME NEW t \in Senders, Send(t)
      PROVE  FewSpare(s)'
  <2>1. t # s /\ pc \in [Senders -> PcValues]
    BY <1>4 DEF IInv, TypeOK
  <2>2. /\ pc'[s] = pc[s] /\ id'[s] = id[s] /\ reserved'[s] = reserved[s]
        /\ UNCHANGED <<head, cancelled>> /\ faults' \in {faults, faults + 1}
    BY <1>4, <2>1, SendFrame
  <2> QED
    BY <1>1, <1>2, <1>3, <2>2
<1>5. ASSUME UNCHANGED sends, AtStake(s)' \subseteq AtStake(s)
      PROVE  FewSpare(s)'
  BY <1>2, <1>5 DEF sends, local
<1>6. ASSUME NEW t \in Senders, Cancel(t)
      PROVE  FewSpare(s)'
  <2>1. /\ pc' = pc /\ id' = id /\ faults' = faults /\ cancelled \subseteq cancelled'
        /\ UNCHANGED <<reserved, head>>
    BY <1>6 DEF Cancel, local, environment, gateway, chain
  <2> QED
    BY <1>1, <1>2, <1>3, <2>1
<1>7. ASSUME NEW t \in Senders, NEW k \in DOMAIN reserved[t],
             GrantLate(t, k) \/ AcceptLate(t, k), UNCHANGED sends
      PROVE  FewSpare(s)'
  <2> DEFINE r == reserved[t][k]
             e == IF GrantLate(t, k) THEN [r EXCEPT !.granted = TRUE]
                  ELSE [r EXCEPT !.sent = NoTx, !.tx = r.sent]
  <2>1. r \in Reservation /\ TypeOK
    BY DEF IInv, TypeOK, EnvironmentTypeOK
  <2>2. reserved' = [reserved EXCEPT ![t][k] = e] /\ UNCHANGED head
    BY <1>7 DEF GrantLate, AcceptLate, chain
  <2>3. /\ e \in Reservation /\ e.slot = r.slot
        /\ (e.tx # NoTx \/ e.sent # NoTx) => (r.tx # NoTx \/ r.sent # NoTx)
    BY <1>7, <2>1 DEF AcceptLate, Reservation
  <2> HIDE DEF e
  <2>4. \A i \in DOMAIN reserved'[s] \ {} :
           /\ i \in DOMAIN reserved[s]
           /\ reserved'[s][i].slot = reserved[s][i].slot
           /\ (reserved'[s][i].tx # NoTx \/ reserved'[s][i].sent # NoTx) =>
                  (reserved[s][i].tx # NoTx \/ reserved[s][i].sent # NoTx)
    BY <2>1, <2>2, <2>3, UpdateFacts
  <2>5. AtStake(s)' \subseteq AtStake(s) \cup {}
    BY <1>1, <2>2, <2>4, StakeStays
  <2> QED
    BY <1>5, <1>7, <2>5
<1>8. ASSUME UNCHANGED sends, UNCHANGED reserved, head' \in 0 .. LastSlot, head <= head'
      PROVE  FewSpare(s)'
  BY <1>3, <1>5, <1>8
<1>9. ASSUME EnvironmentNext, UNCHANGED sends
      PROVE  FewSpare(s)'
  <2>1. CASE AdvanceHead
    <3>1. head' \in 0 .. LastSlot /\ head <= head'
      BY <1>1, <2>1, LastSlotAssumption, MaxUint64Assumption DEF AdvanceHead, Uint64s
    <3> QED
      BY <1>8, <1>9, <2>1, <3>1 DEF AdvanceHead, gateway
  <2>2. ASSUME \/ \E t \in Senders : \E i \in DOMAIN reserved[t] : IncludeTx(t, i)
               \/ \E n \in Offered : OthersReserve(n)
               \/ EscrowTransact
        PROVE  FewSpare(s)'
    <3>1. UNCHANGED <<reserved, head>>
      BY <2>2 DEF IncludeTx, OthersReserve, EscrowTransact, gateway, chain
    <3> QED
      BY <1>1, <1>8, <1>9, <3>1
  <2> QED
    BY <1>7, <1>9, <2>1, <2>2 DEF EnvironmentNext, Received
<1>10. UNCHANGED vars => UNCHANGED sends /\ UNCHANGED <<reserved, head>>
  BY DEF vars, environment, gateway, chain
<1> QED
  BY <1>1, <1>4, <1>6, <1>8, <1>9, <1>10 DEF Next

\* However many calls fail and however late they take effect, a Send never has
\* more reservations at stake than one for each failed call and one for its last
\* turn: between a lost answer and the next listing there is no other way to lose
\* one.
THEOREM DepositsLost == Spec => []OneDepositPerFault
<1>1. Init => StakeInv
  <2> SUFFICES ASSUME Init, NEW s \in Senders
               PROVE  FewSpare(s)
    BY DEF StakeInv
  <2>1. Spare(s) = {}
    BY DEF Init, EnvironmentInit, Spare, AtStake
  <2>2. Cardinality(Spare(s)) = 0 /\ faults = 0
    BY <2>1, FS_EmptySet DEF Init
  <2> QED
    BY <2>2 DEF FewSpare
<1>2. IInv /\ StakeInv /\ [Next]_vars => StakeInv'
  BY OwnStake, ForeignStake DEF StakeInv
<1>3. IInv /\ StakeInv => OneDepositPerFault
  <2> SUFFICES ASSUME IInv, StakeInv, NEW s \in Senders
               PROVE  Cardinality(AtStake(s)) <= faults + 1
    BY DEF OneDepositPerFault
  <2>1. /\ IsFiniteSet(Spare(s)) /\ Cardinality(Spare(s)) \in Nat
        /\ faults \in Nat
    BY SpareFinite
  <2>2. Cardinality(Spare(s)) <= faults + (IF Leaving(s) THEN 1 ELSE 0)
    BY DEF StakeInv, FewSpare
  <2>3. CASE pc[s] \notin Holding
    <3>1. Cardinality(AtStake(s)) <= faults + (IF Leaving(s) THEN 1 ELSE 0)
      BY <2>2, <2>3 DEF Spare
    <3>2. Cardinality(AtStake(s)) \in Nat
      BY <2>1, <2>3 DEF Spare
    <3> QED
      BY <2>1, <3>1, <3>2
  <2>4. CASE pc[s] \in Holding
    <3>1. Cardinality(Spare(s)) <= faults
      BY <2>1, <2>2, <2>4 DEF Leaving, Holding, Submitted
    <3>2. /\ IsFiniteSet(Spare(s) \cup {id[s]})
          /\ \/ Cardinality(Spare(s) \cup {id[s]}) = Cardinality(Spare(s))
             \/ Cardinality(Spare(s) \cup {id[s]}) = Cardinality(Spare(s)) + 1
      BY <2>1, FS_AddElement
    <3>3. AtStake(s) \subseteq Spare(s) \cup {id[s]}
      BY <2>4 DEF Spare
    <3>4. /\ Cardinality(AtStake(s)) <= Cardinality(Spare(s) \cup {id[s]})
          /\ Cardinality(AtStake(s)) \in Nat
      BY <3>2, <3>3, FS_Subset, FS_CardinalityType
    <3> QED
      BY <2>1, <3>1, <3>2, <3>4
  <2> QED
    BY <2>3, <2>4
<1> QED
  BY <1>1, <1>2, <1>3, Invariance, PTL DEF Spec

-----------------------------------------------------------------------------
(* Send implements SynchronousSend.                                        *)

\* At the start no payload has run and no Send has returned.
LEMMA RefinementInit == Init => SynchronousSend!Init
  BY DEF Init, EnvironmentInit, SynchronousSend!Init

\* Send's steps other than its return leave what the caller sees alone, and
\* a return is one of the two the caller expects.
LEMMA SendRefines ==
    ASSUME IInv, NEW s \in Senders, Send(s)
    PROVE  [SynchronousSend!Next]_(SynchronousSend!vars)
<1>1. UNCHANGED executions
  BY DEF Send, Craft, CraftFails, GetSlotForCandidate, GetSlots, PickSlot, NoSlotFound,
     GetFee, QuoteFails, ReserveBlockspace, Reserve, ReserveRejected, ReserveFails,
     SubmitTransaction, Submit, SubmitRejected, SubmitFails, PollHead, PollFails, Receipt,
     environment, chain
<1>2. \/ UNCHANGED ret
      \/ pc[s] # "returned" /\ Return(s, "error")
      \/ pc[s] # "returned" /\ Return(s, "errorWithoutCause")
      \/ pc[s] # "returned" /\ executions[s] > 0 /\ Return(s, "receipt")
  <2>1. CASE Craft(s) \/ CraftFails(s)
    BY <2>1 DEF Craft, CraftFails, Retry, Goto
  <2>2. CASE GetSlotForCandidate(s) \/ GetFee(s) \/ QuoteFails(s)
    BY <2>2 DEF GetSlotForCandidate, GetSlots, PickSlot, NoSlotFound, GetFee, QuoteFails, Goto
  <2>3. CASE ReserveBlockspace(s) \/ SubmitTransaction(s)
    BY <2>3 DEF ReserveBlockspace, Reserve, ReserveRejected, ReserveFails,
       SubmitTransaction, Submit, SubmitRejected, SubmitFails, Goto
  <2>4. CASE PollHead(s) \/ PollFails(s) \/ Receipt(s)
    BY <2>4 DEF PollHead, PollFails, Receipt, Goto
  <2> QED
    BY <2>1, <2>2, <2>3, <2>4 DEF Send
<1> DEFINE seen == [t \in Senders |->
                     IF ret[t] = "errorWithoutCause" THEN "error" ELSE ret[t]]
<1>3. CASE UNCHANGED ret
  BY <1>1, <1>3 DEF SynchronousSend!vars
<1>4. ASSUME pc[s] # "returned"
      PROVE  seen[s] = "running"
  BY <1>4 DEF IInv, ReturnInv
<1>5. ret \in [Senders -> Outcomes] /\ executions \in [Senders -> Nat]
  BY DEF IInv, TypeOK, EnvironmentTypeOK
<1>6. CASE pc[s] # "returned" /\ (Return(s, "error") \/ Return(s, "errorWithoutCause"))
  <2>1. seen' = [seen EXCEPT ![s] = "error"]
    BY <1>5, <1>6 DEF Return
  <2>2. SynchronousSend!ReturnError(s)
    BY <1>1, <1>4, <1>6, <2>1 DEF SynchronousSend!ReturnError
  <2> QED
    BY <2>2 DEF SynchronousSend!Next
<1>7. CASE pc[s] # "returned" /\ executions[s] > 0 /\ Return(s, "receipt")
  <2>1. seen' = [seen EXCEPT ![s] = "receipt"]
    BY <1>5, <1>7 DEF Return
  <2>2. executions[s] = 1
    BY <1>7 DEF IInv, ExecutedInv
  <2>3. SynchronousSend!ReturnReceipt(s)
    BY <1>1, <1>4, <1>7, <2>1, <2>2 DEF SynchronousSend!ReturnReceipt
  <2> QED
    BY <2>3 DEF SynchronousSend!Next
<1> QED
  BY <1>2, <1>3, <1>6, <1>7

\* Every step is one of the synchronous send, or none.
LEMMA RefinementNext ==
    IInv /\ [Next]_vars => [SynchronousSend!Next]_(SynchronousSend!vars)
<1> SUFFICES ASSUME IInv, [Next]_vars
             PROVE  [SynchronousSend!Next]_(SynchronousSend!vars)
  OBVIOUS
<1>1. ASSUME NEW s \in Senders, NEW i \in DOMAIN reserved[s], IncludeTx(s, i), UNCHANGED sends
      PROVE  SynchronousSend!Execute(s)
  BY <1>1, FirstExecution DEF SynchronousSend!Execute, sends
<1>2. ASSUME UNCHANGED <<ret, executions>>
      PROVE  [SynchronousSend!Next]_(SynchronousSend!vars)
  BY <1>2 DEF SynchronousSend!vars
<1>3. CASE UNCHANGED vars
  BY <1>2, <1>3 DEF vars, sends, environment, chain
<1>4. ASSUME NEW s \in Senders, Cancel(s)
      PROVE  UNCHANGED <<ret, executions>>
  BY <1>4 DEF Cancel, environment, chain
<1>5. ASSUME EnvironmentNext, UNCHANGED sends
      PROVE  [SynchronousSend!Next]_(SynchronousSend!vars)
  <2>1. ASSUME NEW s \in Senders, NEW i \in DOMAIN reserved[s],
               GrantLate(s, i) \/ AcceptLate(s, i)
        PROVE  UNCHANGED <<ret, executions>>
    BY <1>5, <2>1 DEF GrantLate, AcceptLate, chain, sends
  <2>2. ASSUME (\E n \in Offered : OthersReserve(n)) \/ EscrowTransact \/ AdvanceHead
        PROVE  UNCHANGED <<ret, executions>>
    BY <1>5, <2>2 DEF OthersReserve, EscrowTransact, AdvanceHead, chain, sends
  <2> QED
    BY <1>1, <1>2, <1>5, <2>1, <2>2
    DEF EnvironmentNext, Received, SynchronousSend!Next
<1> QED
  BY <1>2, <1>3, <1>4, <1>5, SendRefines DEF Next

\* However many Sends run at once, however often each retries after a failed
\* call and however late this call takes effect, the chain runs a payload at
\* most once, and a Send returns a receipt only for a payload that ran.
THEOREM SendImplemented == Spec => ImplementsSynchronousSend
  BY Invariance, RefinementInit, RefinementNext, PTL
  DEF Spec, ImplementsSynchronousSend, SynchronousSend!Spec

-----------------------------------------------------------------------------
(* Send prepares its transaction as TxPreparation promises.                *)

\* How many nonces were taken after that of s.
Place(s) == TakenAfter(tx[s].nonce)

\* The nonces of the signed transactions are the last ones taken, one each.
NonceInv ==
    /\ \A s \in Senders : pc[s] = "prepare" => s \notin Signed
    /\ \A s \in Senders : pc[s] \notin {"prepare", "returned"} => s \in Signed
    /\ nonce = NoNonce => Signed = {}
    /\ \A s \in Signed : Place(s) \in Nat /\ Place(s) < Cardinality(Signed)
    /\ \A s, r \in Signed : Place(s) = Place(r) => s = r
    /\ \A k \in 0 .. Cardinality(Signed) - 1 : \E s \in Signed : Place(s) = k

\* The signed transactions can be counted, and while a Send has none there
\* are fewer of them than uint64s.
LEMMA SignedFinite ==
    /\ IsFiniteSet(Signed)
    /\ Cardinality(Signed) \in Nat
    /\ \A s \in Senders \ Signed : Cardinality(Signed) <= MaxUint64
<1>1. IsFiniteSet(Senders) /\ Cardinality(Senders) <= MaxUint64 + 1 /\ Signed \in SUBSET Senders
  BY SendersAssumption DEF Signed
<1>2. /\ IsFiniteSet(Signed) /\ Cardinality(Signed) <= Cardinality(Senders)
      /\ Cardinality(Signed) = Cardinality(Senders) => Senders = Signed
  BY <1>1, FS_Subset
<1>3. Cardinality(Signed) \in Nat /\ Cardinality(Senders) \in Nat /\ MaxUint64 \in Nat
  BY <1>1, <1>2, FS_CardinalityType, MaxUint64Assumption
<1>4. ASSUME NEW s \in Senders \ Signed
      PROVE  Cardinality(Signed) <= MaxUint64
  BY <1>1, <1>2, <1>3
<1> QED
  BY <1>2, <1>3, <1>4

\* The next nonce is one step further from the others.
LEMMA NonceTaken ==
    ASSUME NEW n \in Uint64s, nonce \in Uint64s, nonce' = Inc(nonce), TakenAfter(n) < MaxUint64
    PROVE  TakenAfter(n)' = TakenAfter(n) + 1
  BY MaxUint64Assumption DEF TakenAfter, Inc, Uint64s

\* A place is a number.
LEMMA PlaceType ==
    ASSUME IInv, nonce \in Uint64s, NEW s \in Senders
    PROVE  Place(s) \in Nat
<1>1. tx[s].nonce \in Uint64s
  BY DEF IInv, TypeOK, Tx
<1> QED
  BY <1>1, MaxUint64Assumption DEF Place, TakenAfter, Uint64s

\* What Craft does to the nonces.
LEMMA CraftNonces ==
    ASSUME IInv, NonceInv, NEW s \in Senders, Craft(s)
    PROVE  /\ s \notin Signed
           /\ Signed' = Signed \cup {s}
           /\ Cardinality(Signed') = Cardinality(Signed) + 1
           /\ \A r \in Signed : Place(r)' = Place(r) + 1
           /\ \A r \in Signed : Place(r) \in Nat
           /\ Place(s)' = 0
           /\ nonce' # NoNonce
<1>1. /\ pc[s] = "prepare" /\ s \notin Signed
      /\ nonce' = NextNonce /\ nonce' \in Uint64s /\ nonce' # NoNonce
      /\ nonce \in Uint64s \cup {NoNonce}
  BY NonceType, NullAssumption DEF IInv, TypeOK, NonceInv, Craft
<1>2. /\ tx'[s].nonce = nonce' /\ tx'[s].gas = TxGas(s)
      /\ \A r \in Senders : r # s => tx'[r] = tx[r]
  BY DEF Craft, IInv, TypeOK
<1>3. TxGas(s) # 0
  BY CandidateAssumption DEF TxGas
<1>4. Signed' = Signed \cup {s}
  BY <1>2, <1>3 DEF Signed
<1>5. Cardinality(Signed') = Cardinality(Signed) + 1
  BY <1>1, <1>4, SignedFinite, FS_AddElement
<1>6. Place(s)' = 0
  <2>1. nonce' \in Int
    BY <1>1, MaxUint64Assumption DEF Uint64s
  <2>2. Place(s)' = IF tx'[s].nonce <= nonce' THEN nonce' - tx'[s].nonce
                    ELSE nonce' - tx'[s].nonce + MaxUint64 + 1
    BY DEF Place, TakenAfter
  <2>3. \A m \in Int : (IF m <= m THEN m - m ELSE m - m + MaxUint64 + 1) = 0
    OBVIOUS
  <2> QED
    BY <1>2, <2>1, <2>2, <2>3, Zenon
<1>7. ASSUME NEW r \in Signed
      PROVE  Place(r)' = Place(r) + 1 /\ Place(r) \in Nat
  <2>1. r \in Senders /\ r # s /\ tx'[r] = tx[r] /\ tx[r].nonce \in Uint64s
    BY <1>1, <1>2 DEF Signed, IInv, TypeOK, Tx
  <2>2. nonce \in Uint64s /\ nonce' = Inc(nonce)
    BY <1>1 DEF NonceInv, NextNonce
  <2>3. Place(r) \in Nat
    BY <2>1, <2>2, PlaceType
  <2>4. Place(r) < Cardinality(Signed) /\ Cardinality(Signed) <= MaxUint64 /\ Cardinality(Signed) \in Nat
    BY <1>1, SignedFinite DEF NonceInv
  <2>5. TakenAfter(tx[r].nonce) < MaxUint64
    BY <2>3, <2>4, MaxUint64Assumption DEF Place
  <2>6. \A m \in Uint64s : TakenAfter(m) < MaxUint64 => TakenAfter(m)' = TakenAfter(m) + 1
    BY <2>2, NonceTaken
  <2>7. Place(r)' = TakenAfter(tx[r].nonce)'
    BY <2>1 DEF Place, TakenAfter
  <2> QED
    BY <2>1, <2>3, <2>5, <2>6, <2>7 DEF Place
<1> QED
  BY <1>1, <1>4, <1>5, <1>6, <1>7

\* Craft takes the place after the last one, and moves the others by one.
LEMMA CraftKeepsNonces == ASSUME IInv, NonceInv, NEW s \in Senders, Craft(s) PROVE NonceInv'
<1> DEFINE K == Cardinality(Signed)
<1>1. /\ s \notin Signed /\ Signed' = Signed \cup {s} /\ K' = K + 1 /\ K \in Nat
      /\ \A r \in Signed : Place(r)' = Place(r) + 1
      /\ \A r \in Signed : Place(r) \in Nat /\ Place(r) < K
      /\ Place(s)' = 0
      /\ nonce' # NoNonce
  BY CraftNonces, SignedFinite DEF NonceInv
<1>2. pc' = [pc EXCEPT ![s] = "getSlots"] /\ pc \in [Senders -> PcValues]
  BY DEF Craft, Goto, IInv, TypeOK
<1>3. /\ \A r \in Senders : pc'[r] = "prepare" => r \notin Signed'
      /\ \A r \in Senders : pc'[r] \notin {"prepare", "returned"} => r \in Signed'
  BY <1>1, <1>2 DEF NonceInv
<1> HIDE DEF K
<1>4. \A r \in Signed' : Place(r)' \in Nat /\ Place(r)' < K'
  BY <1>1
<1>5. \A q, r \in Signed' : Place(q)' = Place(r)' => q = r
  <2>1. \A r \in Signed : Place(r)' # Place(s)'
    BY <1>1
  <2>2. \A q, r \in Signed : Place(q)' = Place(r)' => Place(q) = Place(r)
    BY <1>1
  <2> QED
    BY <1>1, <2>1, <2>2 DEF NonceInv
<1>6. ASSUME NEW k \in 0 .. K' - 1
      PROVE  \E r \in Signed' : Place(r)' = k
  <2>1. CASE k = 0
    BY <1>1, <2>1
  <2>2. CASE k # 0
    <3>1. k - 1 \in 0 .. K - 1 /\ (k - 1) + 1 = k
      BY <1>1, <2>2
    <3>2. PICK r \in Signed : Place(r) = k - 1
      BY <3>1 DEF NonceInv, K
    <3> QED
      BY <1>1, <3>1, <3>2
  <2> QED
    BY <2>1, <2>2
<1> QED
  BY <1>1, <1>3, <1>4, <1>5, <1>6 DEF NonceInv, K

\* A step that signs nothing, and moves the nonce only while none was given out.
Quiet ==
    /\ UNCHANGED tx
    /\ nonce' = nonce \/ nonce = NoNonce
    /\ \A s \in Senders : pc'[s] = "prepare" => pc[s] = "prepare"
    /\ \A s \in Senders : pc[s] \in {"prepare", "returned"} => pc'[s] \in {"prepare", "returned"}

\* A quiet step moves nothing.
LEMMA QuietNonces ==
    ASSUME NonceInv, Quiet
    PROVE  /\ NonceInv'
           /\ Signed' = Signed
           /\ \A s \in Signed : Place(s)' = Place(s)
<1>1. Signed' = Signed
  BY DEF Quiet, Signed
<1>2. ASSUME NEW s \in Signed
      PROVE  Place(s)' = Place(s)
  <2>1. UNCHANGED <<tx, nonce>>
    BY DEF Quiet, NonceInv
  <2> QED
    BY <2>1 DEF Place, TakenAfter
<1>3. /\ \A s \in Senders : pc'[s] = "prepare" => s \notin Signed'
      /\ nonce' = NoNonce => Signed' = {}
  BY <1>1 DEF Quiet, NonceInv
<1>4. \A s \in Senders : pc'[s] \notin {"prepare", "returned"} => s \in Signed'
  BY <1>1 DEF Quiet, NonceInv
<1> DEFINE K == Cardinality(Signed)
<1>5. K' = K
  BY <1>1
<1> HIDE DEF K
<1>6. /\ \A s \in Signed' : Place(s)' \in Nat /\ Place(s)' < K'
      /\ \A s, r \in Signed' : Place(s)' = Place(r)' => s = r
      /\ \A k \in 0 .. K' - 1 : \E s \in Signed' : Place(s)' = k
  BY <1>1, <1>2, <1>5 DEF NonceInv, K
<1> QED
  BY <1>1, <1>2, <1>3, <1>4, <1>6 DEF NonceInv, K

\* Everything Send does after it has prepared its transaction.
LEMMA LaterSteps ==
    ASSUME IInv, NEW s \in Senders, Send(s), ~Craft(s), ~CraftFails(s)
    PROVE  /\ UNCHANGED signing
           /\ pc[s] \notin {"prepare", "returned"}
           /\ \E l \in PcValues \ {"prepare"} : pc' = [pc EXCEPT ![s] = l]
<1> USE DEF PcValues, Goto, Return
<1>1. CASE GetSlotForCandidate(s) \/ GetFee(s) \/ QuoteFails(s)
  BY <1>1 DEF GetSlotForCandidate, GetSlots, PickSlot, NoSlotFound, GetFee, QuoteFails
<1>2. CASE ReserveBlockspace(s)
  BY <1>2 DEF ReserveBlockspace, Reserve, ReserveRejected, ReserveFails, RetryFrom
<1>3. CASE SubmitTransaction(s)
  BY <1>3 DEF SubmitTransaction, Submit, SubmitRejected, SubmitFails, RetryFrom, AfterSubmit
<1>4. CASE PollHead(s) \/ PollFails(s) \/ Receipt(s)
  BY <1>4 DEF PollHead, PollFails, Receipt
<1> QED
  BY <1>1, <1>2, <1>3, <1>4 DEF Send

\* A failed attempt gives its nonce back.
LEMMA FailedCraft ==
    ASSUME IInv, NEW s \in Senders, CraftFails(s)
    PROVE  /\ Quiet
           /\ pc[s] = "prepare"
           /\ pc' = pc \/ pc' = [pc EXCEPT ![s] = "returned"]
<1>1. /\ pc[s] = "prepare" /\ UNCHANGED tx
      /\ nonce' \in {nonce, NonceAfterFailedSign}
      /\ pc \in [Senders -> PcValues] /\ nonce \in Uint64s \cup {NoNonce}
  BY DEF CraftFails, IInv, TypeOK
<1>2. nonce' = nonce \/ nonce = NoNonce
  <2>1. \A n \in Uint64s : Dec(Inc(n)) = n
    BY MaxUint64Assumption DEF Dec, Inc, Uint64s
  <2> QED
    BY <1>1, <2>1 DEF NonceAfterFailedSign, NextNonce
<1>3. pc' = pc \/ pc' = [pc EXCEPT ![s] = "returned"]
  BY <1>1 DEF CraftFails, Retry, Goto, Return
<1> QED
  BY <1>1, <1>2, <1>3 DEF Quiet

\* Every step but Craft is quiet, and those that no CraftFails is leave the Sends
\* that are preparing alone.
LEMMA QuietSteps ==
    ASSUME IInv, [Next]_vars, \A s \in Senders : ~Craft(s) /\ ~CraftFails(s)
    PROVE  /\ Quiet /\ UNCHANGED nonce
           /\ \A s \in Senders : pc[s] = "prepare" <=> pc'[s] = "prepare"
<1>1. CASE UNCHANGED <<signing, pc>>
  BY <1>1 DEF Quiet, signing
<1>2. ASSUME NEW s \in Senders, Send(s)
      PROVE  /\ Quiet /\ UNCHANGED nonce
             /\ \A r \in Senders : pc[r] = "prepare" <=> pc'[r] = "prepare"
  <2>1. /\ UNCHANGED signing
        /\ pc[s] \notin {"prepare", "returned"}
        /\ pc \in [Senders -> PcValues]
    BY <1>2, LaterSteps DEF IInv, TypeOK
  <2>2. PICK l \in PcValues \ {"prepare"} : pc' = [pc EXCEPT ![s] = l]
    BY <1>2, LaterSteps
  <2> QED
    BY <2>1, <2>2 DEF Quiet, signing
<1>3. ASSUME NEW s \in Senders, Cancel(s)
      PROVE  UNCHANGED <<signing, pc>>
  BY <1>3 DEF Cancel
<1>4. (EnvironmentNext /\ UNCHANGED sends) \/ UNCHANGED vars => UNCHANGED <<signing, pc>>
  BY DEF sends, vars
<1> QED
  BY <1>1, <1>2, <1>3, <1>4 DEF Next

\* Every step keeps the nonces in their places.
LEMMA NonceStep == ASSUME IInv, NonceInv, [Next]_vars PROVE NonceInv'
<1>1. CASE \E s \in Senders : Craft(s)
  BY <1>1, CraftKeepsNonces
<1>2. CASE \E s \in Senders : CraftFails(s)
  BY <1>2, FailedCraft, QuietNonces
<1>3. CASE \A s \in Senders : ~Craft(s) /\ ~CraftFails(s)
  BY <1>3, QuietSteps, QuietNonces
<1> QED
  BY <1>1, <1>2, <1>3

\* The last nonces taken stay those of the signed transactions.
LEMMA NonceInvariance == Spec => []NonceInv
<1>1. Init => NonceInv
  <2> SUFFICES ASSUME Init
               PROVE  NonceInv
    OBVIOUS
  <2>1. Signed = {}
    BY DEF Init, Signed
  <2>2. Cardinality(Signed) = 0
    BY <2>1, FS_EmptySet
  <2> QED
    BY <2>1, <2>2 DEF NonceInv, Init
<1>2. IInv /\ NonceInv /\ [Next]_vars => NonceInv'
  BY NonceStep
<1> QED
  BY <1>1, <1>2, Invariance, PTL DEF Spec

\* What the refinement maps to the abstract variables.
Signers == [i \in 1 .. Cardinality(Signed) |-> Signer(Cardinality(Signed) - i)]
Prepared == [s \in Senders |->
               IF s \in Signed THEN "tx"
               ELSE IF pc[s] = "prepare" THEN "running" ELSE "error"]

\* The Sends in the order of their nonces.
InOrder ==
    /\ Signers \in [1 .. Cardinality(Signed) -> Signed]
    /\ \A r \in Signed : Signers[Cardinality(Signed) - Place(r)] = r

\* Every Send that has a transaction appears at its place.
LEMMA SignersOrdered == NonceInv => InOrder
<1> SUFFICES ASSUME NonceInv
             PROVE  InOrder
  OBVIOUS
<1> DEFINE K == Cardinality(Signed)
<1>1. K \in Nat
  BY SignedFinite
<1>2. ASSUME NEW s \in Signed
      PROVE  Signer(Place(s)) = s
  <2> DEFINE k == Place(s)
  <2>1. Signer(k) = IF \E r \in Signed : Place(r) = k
                    THEN CHOOSE r \in Signed : Place(r) = k ELSE NoTx
    BY DEF Signer, Place
  <2>2. \A r \in Signed : Place(r) = k => r = s
    BY DEF NonceInv
  <2>3. \E r \in Signed : Place(r) = k
    OBVIOUS
  <2> HIDE DEF k
  <2> QED
    BY <2>1, <2>2, <2>3 DEF k
<1>3. Signers = [i \in 1 .. K |-> Signer(K - i)]
  BY DEF Signers
<1> HIDE DEF K
<1>4. ASSUME NEW i \in 1 .. K
      PROVE  Signers[i] \in Signed
  <2>1. K - i \in 0 .. K - 1
    BY <1>1
  <2>2. PICK s \in Signed : Place(s) = K - i
    BY <2>1 DEF NonceInv, K
  <2> QED
    BY <1>2, <1>3, <2>2
<1>5. ASSUME NEW s \in Signed
      PROVE  Signers[K - Place(s)] = s
  <2>1. Place(s) \in Nat /\ Place(s) < K
    BY DEF NonceInv, K
  <2>2. K - Place(s) \in 1 .. K /\ K - (K - Place(s)) = Place(s)
    BY <1>1, <2>1
  <2> QED
    BY <1>2, <1>3, <2>2
<1> QED
  BY <1>3, <1>4, <1>5 DEF InOrder, K

\* A quiet step leaves them in their order.
LEMMA QuietSigners ==
    ASSUME NonceInv, Quiet
    PROVE  Signers' = Signers
<1> DEFINE K == Cardinality(Signed)
<1>1. /\ Signed' = Signed /\ K' = K /\ K \in Nat
      /\ \A s \in Signed : Place(s)' = Place(s)
  BY QuietNonces, SignedFinite
<1>2. (/\ Signers \in [1 .. K -> Signed]
       /\ \A r \in Signed : Signers[K - Place(r)] = r)'
  <2>1. NonceInv'
    BY QuietNonces
  <2>2. InOrder'
    BY <2>1, SignersOrdered, PTL
  <2> QED
    BY <2>2 DEF InOrder
<1>3. /\ Signers \in [1 .. K -> Signed]
      /\ \A r \in Signed : Signers[K - Place(r)] = r
  BY SignersOrdered DEF InOrder
<1> HIDE DEF K
<1>4. ASSUME NEW i \in 1 .. K
      PROVE  Signers'[i] = Signers[i]
  <2>1. K - i \in 0 .. K - 1
    BY <1>1
  <2>2. PICK s \in Signed : Place(s) = K - i
    BY <2>1 DEF NonceInv, K
  <2>3. K - Place(s) = i
    BY <1>1, <2>2
  <2> QED
    BY <1>1, <1>2, <1>3, <2>2, <2>3
<1> QED
  BY <1>1, <1>2, <1>3, <1>4

\* Craft takes the next nonce.
LEMMA CraftSigners ==
    ASSUME IInv, NonceInv, NEW s \in Senders, Craft(s)
    PROVE  Signers' = Append(Signers, s)
<1> DEFINE K == Cardinality(Signed)
<1>1. /\ Signed' = Signed \cup {s} /\ K' = K + 1 /\ K \in Nat
      /\ \A r \in Signed : Place(r)' = Place(r) + 1
      /\ Place(s)' = 0
      /\ Signed \subseteq Senders
  BY CraftNonces, SignedFinite DEF Signed
<1>2. (/\ Signers \in [1 .. K -> Signed]
       /\ \A r \in Signed : Signers[K - Place(r)] = r)'
  <2>1. NonceInv'
    BY CraftKeepsNonces
  <2>2. InOrder'
    BY <2>1, SignersOrdered, PTL
  <2> QED
    BY <2>2 DEF InOrder
<1>3. /\ Signers \in [1 .. K -> Signed]
      /\ \A r \in Signed : Signers[K - Place(r)] = r
  BY SignersOrdered DEF InOrder
<1> HIDE DEF K
<1>4. Signers'[K + 1] = s
  <2>1. Signers'[K' - Place(s)'] = s
    BY <1>1, <1>2
  <2> QED
    BY <1>1, <2>1
<1>5. ASSUME NEW i \in 1 .. K
      PROVE  Signers'[i] = Signers[i]
  <2>1. K - i \in 0 .. K - 1
    BY <1>1
  <2>2. PICK r \in Signed : Place(r) = K - i
    BY <2>1 DEF NonceInv, K
  <2>3. K - Place(r) = i /\ K' - Place(r)' = i
    BY <1>1, <2>2
  <2> QED
    BY <1>1, <1>2, <1>3, <2>2, <2>3
<1> DEFINE f == Signers
           g == Signers'
<1>6. /\ f \in [1 .. K -> Senders]
      /\ g \in [1 .. K + 1 -> Senders]
      /\ g[K + 1] = s /\ \A i \in 1 .. K : g[i] = f[i]
  BY <1>1, <1>2, <1>3, <1>4, <1>5
<1> HIDE DEF f, g
<1>7. f \in Seq(Senders) /\ Len(f) = K
  BY <1>1, <1>6, FunctionIsSeq
<1>8. Append(f, s) = [i \in 1 .. K + 1 |-> IF i = K + 1 THEN s ELSE f[i]]
  BY <1>7, AppendAsFunction
<1>9. g = [i \in 1 .. K + 1 |-> IF i = K + 1 THEN s ELSE f[i]]
  <2>1. \A i \in 1 .. K + 1 : i = K + 1 \/ i \in 1 .. K
    BY <1>1
  <2> QED
    BY <1>1, <1>6, <2>1
<1> QED
  BY <1>8, <1>9 DEF f, g

\* At the start no Send has a transaction.
LEMMA PreparationInit == Init => TxPreparation!Init
<1> SUFFICES ASSUME Init
             PROVE  TxPreparation!Init
  OBVIOUS
<1>1. Signed = {}
  BY DEF Init, Signed
<1>2. Cardinality(Signed) = 0
  BY <1>1, FS_EmptySet
<1>3. [i \in 1 .. Cardinality(Signed) |-> Signer(Cardinality(Signed) - i)] = << >>
  <2> DEFINE f == [i \in 1 .. Cardinality(Signed) |-> Signer(Cardinality(Signed) - i)]
  <2>1. f \in [1 .. 0 -> {}]
    BY <1>2
  <2> HIDE DEF f
  <2>2. f \in Seq({}) /\ Len(f) = 0
    BY <2>1, FunctionIsSeq
  <2> QED
    BY <2>2, EmptySeq DEF f
<1> QED
  BY <1>1, <1>3 DEF TxPreparation!Init, Init

\* Craft is Prepare, CraftFails is Fail when it was the last attempt, and the
\* other steps are none of prepare's.
LEMMA PreparationNext ==
    IInv /\ NonceInv /\ [Next]_vars => [TxPreparation!Next]_(TxPreparation!vars)
<1> SUFFICES ASSUME IInv, NonceInv, [Next]_vars
             PROVE  [TxPreparation!Next]_(TxPreparation!vars)
  OBVIOUS
<1>1. pc \in [Senders -> PcValues]
  BY DEF IInv, TypeOK
<1>2. ASSUME NEW s \in Senders, Craft(s)
      PROVE  TxPreparation!Prepare(s)
  <2>1. Signers' = Append(Signers, s)
    BY <1>2, CraftSigners
  <2>2. Signed' = Signed \cup {s} /\ s \notin Signed
    BY <1>2, CraftNonces
  <2>3. pc[s] = "prepare" /\ pc' = [pc EXCEPT ![s] = "getSlots"]
    BY <1>2 DEF Craft, Goto
  <2>4. Prepared[s] = "running" /\ Prepared' = [Prepared EXCEPT ![s] = "tx"]
    BY <1>1, <2>2, <2>3 DEF Prepared
  <2> QED
    BY <2>1, <2>4 DEF TxPreparation!Prepare, TxPreparation!Return, Signers, Prepared
<1>3. ASSUME NEW s \in Senders, CraftFails(s)
      PROVE  TxPreparation!Fail(s) \/ UNCHANGED TxPreparation!vars
  <2>1. /\ Quiet
        /\ pc[s] = "prepare"
        /\ pc' = pc \/ pc' = [pc EXCEPT ![s] = "returned"]
    BY <1>3, FailedCraft
  <2>2. Signers' = Signers /\ Signed' = Signed /\ s \notin Signed
    BY <2>1, QuietSigners, QuietNonces DEF NonceInv
  <2>3. CASE pc' = pc
    BY <2>2, <2>3 DEF TxPreparation!vars, Signers
  <2>4. CASE pc' = [pc EXCEPT ![s] = "returned"]
    <3>1. Prepared[s] = "running" /\ Prepared' = [Prepared EXCEPT ![s] = "error"]
      BY <1>1, <2>1, <2>2, <2>4 DEF Prepared
    <3> QED
      BY <2>2, <3>1 DEF TxPreparation!Fail, TxPreparation!Return, Signers, Prepared
  <2> QED
    BY <2>1, <2>3, <2>4
<1>4. ASSUME \A s \in Senders : ~Craft(s) /\ ~CraftFails(s)
      PROVE  UNCHANGED TxPreparation!vars
  <2>1. Quiet /\ \A s \in Senders : pc[s] = "prepare" <=> pc'[s] = "prepare"
    BY <1>4, QuietSteps
  <2>2. Signers' = Signers /\ Signed' = Signed
    BY <2>1, QuietSigners, QuietNonces
  <2>3. Prepared' = Prepared
    BY <2>1, <2>2 DEF Prepared
  <2> QED
    BY <2>2, <2>3 DEF TxPreparation!vars, Signers, Prepared
<1> QED
  BY <1>2, <1>3, <1>4 DEF TxPreparation!Next

\* However many Sends prepare at once and however often signing fails, the
\* signed transactions have consecutive nonces, one Send each: the nonce a
\* failed signature took is given back before another Send can see it.
THEOREM PreparationImplemented == Spec => ImplementsTxPreparation
  BY Invariance, NonceInvariance, PreparationInit, PreparationNext, PTL
  DEF Spec, ImplementsTxPreparation, TxPreparation!Spec

-----------------------------------------------------------------------------
(* Send takes its nonces as NonceAllocator promises.                       *)

\* The nonces, in the order in which the Sends took them.
Nonces == [i \in 1 .. Cardinality(Signed) |-> tx[Signers[i]].nonce]

\* They are what the refinement maps to the abstract variable.
LEMMA NoncesMapped == NonceInv => IssuedNonces = Nonces
<1> SUFFICES ASSUME NonceInv
             PROVE  IssuedNonces = Nonces
  OBVIOUS
<1> DEFINE K == Cardinality(Signed)
<1>1. Signers \in [1 .. K -> Signed]
  BY SignersOrdered DEF InOrder
<1>2. Signers = [i \in 1 .. K |-> Signer(K - i)]
  BY DEF Signers
<1>3. IssuedNonces = [i \in 1 .. K |-> NonceIssued(K - i)]
  BY DEF IssuedNonces
<1>4. Nonces = [i \in 1 .. K |-> tx[Signers[i]].nonce]
  BY DEF Nonces
<1> HIDE DEF K
<1>5. ASSUME NEW i \in 1 .. K
      PROVE  NonceIssued(K - i) = tx[Signers[i]].nonce
  <2>1. Signer(K - i) = Signers[i] /\ Signers[i] \in Signed
    BY <1>1, <1>2
  <2> QED
    BY <2>1 DEF NonceIssued
<1> QED
  BY <1>3, <1>4, <1>5

\* Craft appends the nonce it takes.
LEMMA CraftIssues ==
    ASSUME IInv, NonceInv, NEW s \in Senders, Craft(s)
    PROVE  Nonces' = Append(Nonces, NextNonce)
<1> DEFINE K == Cardinality(Signed)
           f == Signers
           g == Nonces
           g1 == Nonces'
<1>1. /\ s \notin Signed /\ K' = K + 1 /\ K \in Nat /\ Signed \subseteq Senders
  BY CraftNonces, SignedFinite DEF Signed
<1>2. tx'[s].nonce = NextNonce /\ NextNonce \in Uint64s
      /\ \A r \in Senders : r # s => tx'[r] = tx[r]
  BY NonceType DEF Craft, IInv, TypeOK
<1>3. \A r \in Signed : tx[r].nonce \in Uint64s
  BY DEF Signed, IInv, TypeOK, Tx
<1>4. f \in [1 .. K -> Signed]
  BY SignersOrdered DEF InOrder
<1>5. Signers' = Append(f, s)
  BY CraftSigners
<1>6. g = [i \in 1 .. K |-> tx[f[i]].nonce]
  BY DEF Nonces
<1>7. g1 = [i \in 1 .. K' |-> tx'[(Signers')[i]].nonce]
  BY DEF Nonces
<1> HIDE DEF K, f, g, g1
<1>8. f \in Seq(Senders) /\ Len(f) = K
  <2>1. f \in [1 .. K -> Senders]
    BY <1>1, <1>4
  <2> QED
    BY <1>1, <2>1, FunctionIsSeq
<1>9. Signers' = [i \in 1 .. K + 1 |-> IF i = K + 1 THEN s ELSE f[i]]
  BY <1>5, <1>8, AppendAsFunction
<1>10. g \in [1 .. K -> Uint64s]
  BY <1>3, <1>4, <1>6
<1>11. g \in Seq(Uint64s) /\ Len(g) = K
  BY <1>1, <1>10, FunctionIsSeq
<1>12. Append(g, NextNonce) = [i \in 1 .. K + 1 |-> IF i = K + 1 THEN NextNonce ELSE g[i]]
  BY <1>2, <1>11, AppendAsFunction
<1>13. ASSUME NEW i \in 1 .. K + 1
       PROVE  tx'[(Signers')[i]].nonce = IF i = K + 1 THEN NextNonce ELSE g[i]
  <2>1. CASE i = K + 1
    BY <1>2, <1>9, <2>1
  <2>2. CASE i # K + 1
    <3>1. i \in 1 .. K /\ (Signers')[i] = f[i] /\ f[i] \in Signed /\ f[i] # s
      BY <1>1, <1>4, <1>9, <2>2
    <3>2. tx'[f[i]] = tx[f[i]]
      BY <1>1, <1>2, <3>1
    <3> QED
      BY <1>6, <2>2, <3>1, <3>2
  <2> QED
    BY <2>1, <2>2
<1>14. g1 = [i \in 1 .. K + 1 |-> IF i = K + 1 THEN NextNonce ELSE g[i]]
  BY <1>1, <1>7, <1>13
<1> QED
  BY <1>12, <1>14 DEF g, g1

\* A quiet step issues none.
LEMMA QuietIssues ==
    ASSUME NonceInv, Quiet
    PROVE  Nonces' = Nonces
<1>1. Signers' = Signers /\ Signed' = Signed /\ tx' = tx
  BY QuietSigners, QuietNonces DEF Quiet
<1> QED
  BY <1>1 DEF Nonces

\* The account's nonce moves with the payloads that run and with what the escrow
\* bindings send.
LEMMA AccountMoves ==
    ASSUME [Next]_vars
    PROVE  UNCHANGED account \/ (account < MaxUint64 /\ account' = account + 1)
<1> USE DEF environment, chain
<1>1. ASSUME NEW s \in Senders, Send(s)
      PROVE  UNCHANGED account
  <2>1. CASE Craft(s) \/ CraftFails(s) \/ GetFee(s) \/ QuoteFails(s)
    BY <2>1 DEF Craft, CraftFails, GetFee, QuoteFails
  <2>2. CASE GetSlotForCandidate(s)
    BY <2>2 DEF GetSlotForCandidate, GetSlots, PickSlot, NoSlotFound
  <2>3. CASE ReserveBlockspace(s)
    BY <2>3 DEF ReserveBlockspace, Reserve, ReserveRejected, ReserveFails
  <2>4. CASE SubmitTransaction(s)
    BY <2>4 DEF SubmitTransaction, Submit, SubmitRejected, SubmitFails
  <2>5. CASE PollHead(s) \/ PollFails(s) \/ Receipt(s)
    BY <2>5 DEF PollHead, PollFails, Receipt
  <2> QED
    BY <1>1, <2>1, <2>2, <2>3, <2>4, <2>5 DEF Send
<1>2. ASSUME NEW s \in Senders, Cancel(s)
      PROVE  UNCHANGED account
  BY <1>2 DEF Cancel
<1>3. ASSUME EnvironmentNext
      PROVE  UNCHANGED account \/ (account < MaxUint64 /\ account' = account + 1)
  BY <1>3
  DEF EnvironmentNext, Received, GrantLate, AcceptLate, IncludeTx, OthersReserve,
      EscrowTransact, AdvanceHead
<1>4. UNCHANGED vars => UNCHANGED account
  BY DEF vars
<1> QED
  BY <1>1, <1>2, <1>3, <1>4 DEF Next

\* At the start no nonce was asked for.
LEMMA AllocatorInit == Init => NonceAllocator!Init
<1> SUFFICES ASSUME Init
             PROVE  NonceAllocator!Init
  OBVIOUS
<1>1. Signed = {}
  BY DEF Init, Signed
<1>2. Cardinality(Signed) = 0
  BY <1>1, FS_EmptySet
<1>3. IssuedNonces = << >>
  <2>1. IssuedNonces \in [1 .. 0 -> {}]
    BY <1>2 DEF IssuedNonces
  <2>2. IssuedNonces \in Seq({}) /\ Len(IssuedNonces) = 0
    BY <2>1, FunctionIsSeq
  <2> QED
    BY <2>2, EmptySeq
<1>4. nonce = NoNonce /\ account \in Uint64s
  BY MaxUint64Assumption DEF Init, EnvironmentInit, Uint64s
<1> QED
  BY <1>3, <1>4 DEF NonceAllocator!Init, NonceAllocator!Uint64s, Uint64s

\* Craft is Issue; a first signature that fails leaves the account's nonce learnt;
\* and the account moves on beside them.
LEMMA AllocatorNext ==
    IInv /\ NonceInv /\ [Next]_vars => [NonceAllocator!Next]_(NonceAllocator!vars)
<1> SUFFICES ASSUME IInv, NonceInv, [Next]_vars
             PROVE  [NonceAllocator!Next]_(NonceAllocator!vars)
  OBVIOUS
<1> DEFINE next == IF nonce = NoNonce THEN NoNonce ELSE Inc(nonce)
<1>1. /\ nonce \in Uint64s \cup {NoNonce} /\ account \in Uint64s
      /\ NoNonce \notin Uint64s
      /\ \A n \in Uint64s : Inc(n) \in Uint64s /\ Dec(n) \in Uint64s
                           /\ Inc(Dec(n)) = n /\ Dec(Inc(n)) = n
  <2>1. \A n \in Uint64s : Inc(n) \in Uint64s /\ Dec(n) \in Uint64s
                          /\ Inc(Dec(n)) = n /\ Dec(Inc(n)) = n
    BY MaxUint64Assumption DEF Inc, Dec, Uint64s
  <2> QED
    BY <2>1, NullAssumption DEF IInv, TypeOK, EnvironmentTypeOK
<1>2. IssuedNonces = Nonces
  BY NoncesMapped
<1>3. (IssuedNonces = Nonces)'
  <2>1. NonceInv'
    BY NonceStep
  <2> QED
    BY <2>1, NoncesMapped, PTL
<1>4. ASSUME NEW s \in Senders, Craft(s)
      PROVE  NonceAllocator!Issue
  <2>1. IssuedNonces' = Append(IssuedNonces, NextNonce)
    BY <1>2, <1>3, <1>4, CraftIssues
  <2>2. nonce' = NextNonce /\ NextNonce \in Uint64s /\ UNCHANGED account
    BY <1>1, <1>4 DEF Craft, NextNonce, environment, chain
  <2>3. NextNonce = IF next = NoNonce THEN account ELSE next
    BY <1>1 DEF NextNonce
  <2>4. next' = Inc(NextNonce)
    BY <1>1, <2>2
  <2> QED
    BY <2>1, <2>2, <2>3, <2>4
    DEF NonceAllocator!Issue, NonceAllocator!Upcoming, NonceAllocator!Inc, Inc
<1>5. ASSUME NEW s \in Senders, CraftFails(s)
      PROVE  NonceAllocator!Learn \/ UNCHANGED NonceAllocator!vars
  <2>1. IssuedNonces' = IssuedNonces
    BY <1>2, <1>3, <1>5, FailedCraft, QuietIssues
  <2>2. nonce' \in {nonce, NonceAfterFailedSign} /\ UNCHANGED account
    BY <1>5 DEF CraftFails, environment, chain
  <2>3. CASE nonce' = nonce
    BY <2>1, <2>2, <2>3 DEF NonceAllocator!vars, NonceAllocator!Inc, Inc
  <2>4. CASE nonce = NoNonce /\ nonce' = Dec(account)
    <3>1. next = NoNonce /\ next' = account
      BY <1>1, <2>4
    <3> QED
      BY <2>1, <2>2, <3>1 DEF NonceAllocator!Learn, NonceAllocator!Inc, Inc
  <2>5. CASE nonce # NoNonce /\ nonce' = Dec(Inc(nonce))
    <3>1. nonce' = nonce
      BY <1>1, <2>5
    <3> QED
      BY <2>3, <3>1
  <2> QED
    BY <2>2, <2>3, <2>4, <2>5 DEF NonceAfterFailedSign, NextNonce
<1>6. ASSUME \A s \in Senders : ~Craft(s) /\ ~CraftFails(s)
      PROVE  NonceAllocator!AccountAdvances \/ UNCHANGED NonceAllocator!vars
  <2>1. Quiet /\ UNCHANGED nonce
    BY <1>6, QuietSteps
  <2>2. IssuedNonces' = IssuedNonces
    BY <1>2, <1>3, <2>1, QuietIssues
  <2> QED
    BY <2>1, <2>2, AccountMoves
    DEF NonceAllocator!AccountAdvances, NonceAllocator!vars, NonceAllocator!Inc, Inc
<1> QED
  BY <1>4, <1>5, <1>6 DEF NonceAllocator!Next

\* The nonces signed go on from the account's, one by one, while Sends retry and
\* fail, payloads run and others use the account: the one step that signing is in
\* PreconfTxMgr keeps the promise that NonceManager proves of the code's steps.
THEOREM AllocatorImplemented == Spec => ImplementsNonceAllocator
  BY Invariance, NonceInvariance, AllocatorInit, AllocatorNext, PTL
  DEF Spec, ImplementsNonceAllocator, NonceAllocator!Spec

-----------------------------------------------------------------------------
(* The slot filter, for candidates that state their gas.                   *)

\* The slot at hand had room, in the listing it was picked from, for what the
\* candidate asks for.
RoomInv ==
    \A s \in Senders : pc[s] = "getFee" =>
        HasRoom(listing[s][slot[s]], Candidate[s].blobs, Candidate[s].gasLimit)

\* PickSlot puts in place what the filter let through.
LEMMA PickedHasRoom ==
    ASSUME IInv, RoomInv, NEW s \in Senders, PickSlot(s)
    PROVE  RoomInv'
<1>1. /\ pc' = [pc EXCEPT ![s] = "getFee"] /\ slot' = [slot EXCEPT ![s] = Selected(s)]
      /\ listing' = listing
      /\ pc \in [Senders -> PcValues] /\ slot \in [Senders -> Uint64s]
  BY DEF PickSlot, Goto, IInv, TypeOK
<1>2. HasRoom(listing[s][Selected(s)], Candidate[s].blobs, Candidate[s].gasLimit)
  BY SelectedFacts DEF PickSlot, Fits
<1> QED
  BY <1>1, <1>2 DEF RoomInv

\* No other step of Send makes it ask for a fee, and none touches what the others
\* have at hand.
LEMMA OthersKeepRoom ==
    ASSUME IInv, RoomInv, NEW s \in Senders, Send(s), ~PickSlot(s)
    PROVE  RoomInv'
<1> DEFINE Leaves ==
               /\ \E l \in PcValues \ {"getFee"} : pc' = [pc EXCEPT ![s] = l]
               /\ \A r \in Senders : r # s => listing'[r] = listing[r] /\ slot'[r] = slot[r]
<1>1. /\ pc \in [Senders -> PcValues] /\ slot \in [Senders -> Uint64s]
      /\ listing \in [Senders -> Seq(SlotInfo)]
  BY DEF IInv, TypeOK
<1>2. Leaves
  <2> USE DEF Goto, Return, PcValues, local
  <2>1. CASE Craft(s)
    BY <2>1 DEF Craft
  <2>2. CASE CraftFails(s)
    BY <2>2 DEF CraftFails, Retry
  <2>3. CASE GetSlotForCandidate(s)
    BY <1>1, <2>3 DEF GetSlotForCandidate, GetSlots, NoSlotFound
  <2>4. CASE GetFee(s) \/ QuoteFails(s)
    BY <2>4 DEF GetFee, QuoteFails
  <2>5. CASE ReserveBlockspace(s)
    BY <2>5 DEF ReserveBlockspace, Reserve, ReserveRejected, ReserveFails, RetryFrom
  <2>6. CASE SubmitTransaction(s)
    BY <2>6 DEF SubmitTransaction, Submit, SubmitRejected, SubmitFails, RetryFrom, AfterSubmit
  <2>7. CASE PollHead(s) \/ PollFails(s) \/ Receipt(s)
    BY <2>7 DEF PollHead, PollFails, Receipt
  <2> QED
    BY <2>1, <2>2, <2>3, <2>4, <2>5, <2>6, <2>7 DEF Send
<1> QED
  BY <1>1, <1>2 DEF RoomInv

\* A candidate that states its gas gets a slot that had room for its transaction
\* when it was listed (txmgr.go:110-144): what MCSlotFilter refutes happens only
\* where the gas is estimated.
THEOREM StatedGasHasRoom ==
    Spec => [](\A s \in Senders : (pc[s] = "getFee" /\ Candidate[s].gasLimit # 0) =>
                  listing[s][slot[s]].gas >= tx[s].gas)
<1> DEFINE Stated ==
               \A s \in Senders : (pc[s] = "getFee" /\ Candidate[s].gasLimit # 0) =>
                   listing[s][slot[s]].gas >= tx[s].gas
<1>1. Init => RoomInv
  BY DEF Init, RoomInv
<1>2. IInv /\ RoomInv /\ [Next]_vars => RoomInv'
  <2> SUFFICES ASSUME IInv, RoomInv, [Next]_vars
               PROVE  RoomInv'
    OBVIOUS
  <2>1. ASSUME NEW s \in Senders, Send(s)
        PROVE  RoomInv'
    BY <2>1, PickedHasRoom, OthersKeepRoom
  <2>2. CASE UNCHANGED <<pc, listing, slot>>
    BY <2>2 DEF RoomInv
  <2>3. ASSUME NEW s \in Senders, Cancel(s)
        PROVE  UNCHANGED <<pc, listing, slot>>
    BY <2>3 DEF Cancel, local
  <2>4. (EnvironmentNext /\ UNCHANGED sends) \/ UNCHANGED vars => UNCHANGED <<pc, listing, slot>>
    BY DEF sends, local, vars
  <2> QED
    BY <2>1, <2>2, <2>3, <2>4 DEF Next
<1>3. IInv /\ RoomInv => Stated
  <2> SUFFICES ASSUME IInv, RoomInv, NEW s \in Senders, pc[s] = "getFee",
                      Candidate[s].gasLimit # 0
               PROVE  listing[s][slot[s]].gas >= tx[s].gas
    OBVIOUS
  <2>1. tx[s].gas = Candidate[s].gasLimit
    BY DEF IInv, TxInv, TxGas
  <2> QED
    BY <2>1 DEF RoomInv, HasRoom
<1> QED
  BY <1>1, <1>2, <1>3, Invariance, PTL DEF Spec

-----------------------------------------------------------------------------
(* Whose the nonces are that later transactions wait for.                  *)

\* Not more nonces were taken than Sends have transactions, since the account's
\* nonce was asked for.
NextInv == nonce # NoNonce => Inc(nonce) <= account + Cardinality(Signed)

\* The account's nonce only grows, and Craft takes one nonce for one Send.
LEMMA NextInvariance == Spec => []NextInv
<1>1. Init => NextInv
  BY DEF Init, NextInv
<1>2. IInv /\ NonceInv /\ NextInv /\ [Next]_vars => NextInv'
  <2> SUFFICES ASSUME IInv, NonceInv, NextInv, [Next]_vars
               PROVE  NextInv'
    OBVIOUS
  <2> DEFINE K == Cardinality(Signed)
  <2>1. /\ nonce \in Uint64s \cup {NoNonce} /\ account \in Uint64s /\ K \in Nat
        /\ account' \in Int /\ account <= account'
    <3>1. account \in Uint64s /\ account \in Int
      BY MaxUint64Assumption DEF IInv, TypeOK, EnvironmentTypeOK, Uint64s
    <3>2. account' = account \/ account' = account + 1
      BY AccountMoves
    <3> QED
      BY <3>1, <3>2, SignedFinite DEF IInv, TypeOK
  <2>2. /\ \A n \in Uint64s : Inc(n) \in Nat /\ Inc(n) <= n + 1 /\ Dec(n) \in Uint64s
                             /\ Inc(Dec(n)) = n
        /\ \A n \in Uint64s : n \in Int
        /\ \A n \in Uint64s : Inc(n) \in Uint64s
    BY MaxUint64Assumption DEF Inc, Dec, Uint64s
  <2>3. ASSUME NEW s \in Senders, Craft(s)
        PROVE  NextInv'
    <3>1. nonce' = NextNonce /\ K' = K + 1
      BY <2>3, CraftNonces DEF Craft
    <3> HIDE DEF K
    <3>2. NextNonce <= account + K /\ NextNonce \in Uint64s
      BY <2>1, <2>2 DEF NextNonce, NextInv, K
    <3>3. Inc(NextNonce) <= NextNonce + 1 /\ Inc(NextNonce) \in Nat /\ NextNonce \in Int
      BY <2>2, <3>2
    <3>4. Inc(NextNonce) <= account' + K' /\ Inc(nonce') = Inc(NextNonce)
      BY <2>1, <2>2, <3>1, <3>2, <3>3
    <3> QED
      BY <3>4 DEF NextInv, K, Inc
  <2>4. ASSUME NEW s \in Senders, CraftFails(s)
        PROVE  NextInv'
    <3>1. nonce' \in {nonce, NonceAfterFailedSign} /\ K' = K
      BY <2>4, FailedCraft, QuietNonces DEF CraftFails
    <3> HIDE DEF K
    <3>2. nonce' = nonce \/ (nonce = NoNonce /\ nonce' = Dec(account))
      BY <2>4, <3>1, FailedCraft DEF Quiet, NonceAfterFailedSign, NextNonce
    <3>3. CASE nonce' = nonce
      BY <2>1, <2>2, <3>1, <3>3 DEF NextInv, K, Inc
    <3>4. CASE nonce = NoNonce /\ nonce' = Dec(account)
      <4>1. Inc(nonce') = account
        BY <2>1, <2>2, <3>4
      <4> QED
        BY <2>1, <2>2, <3>1, <4>1 DEF NextInv, K, Inc
    <3> QED
      BY <3>2, <3>3, <3>4
  <2>5. CASE \A s \in Senders : ~Craft(s) /\ ~CraftFails(s)
    <3>1. nonce' = nonce /\ K' = K
      BY <2>5, QuietSteps, QuietNonces
    <3> HIDE DEF K
    <3> QED
      BY <2>1, <2>2, <3>1 DEF NextInv, K, Inc
  <2> QED
    BY <2>3, <2>4, <2>5
<1> QED
  BY <1>1, <1>2, Invariance, NonceInvariance, PTL DEF Spec

\* The nonces from the account's up to the next are those of the last Sends that
\* signed, one each.
LEMMA NonceOwner ==
    ASSUME IInv, NonceInv, NextInv, NEW n \in account .. NextNonce - 1
    PROVE  \E s \in Signed : tx[s].nonce = n /\ \A r \in Signed \ {s} : tx[r].nonce # n
<1> DEFINE K == Cardinality(Signed)
<1>1. /\ account \in Uint64s /\ K \in Nat /\ nonce \in Uint64s \cup {NoNonce}
      /\ account \in Nat
  BY SignedFinite, MaxUint64Assumption DEF IInv, TypeOK, EnvironmentTypeOK, Uint64s
<1>2. nonce # NoNonce /\ nonce \in Nat /\ nonce \in Uint64s /\ Inc(nonce) <= account + K
  <2>1. nonce # NoNonce
    BY <1>1 DEF NextNonce
  <2> QED
    BY <1>1, <2>1, MaxUint64Assumption DEF NextInv, Uint64s
<1> HIDE DEF K
<1>3. n \in Nat /\ n <= nonce /\ nonce - n \in 0 .. K - 1
  <2>1. n \in Nat /\ account <= n /\ n < Inc(nonce)
    BY <1>1, <1>2 DEF NextNonce, Inc
  <2> QED
    BY <1>1, <1>2, <2>1, MaxUint64Assumption DEF Inc, Uint64s
<1>4. PICK s \in Signed : Place(s) = nonce - n
  BY <1>3 DEF NonceInv, K
<1>5. tx[s].nonce \in Uint64s
  BY DEF Signed, IInv, TypeOK, Tx
<1>6. tx[s].nonce = n
  <2>1. \A m \in Uint64s : TakenAfter(m) = nonce - n => m = n
    BY <1>2, <1>3, MaxUint64Assumption DEF TakenAfter, Uint64s
  <2> QED
    BY <1>4, <1>5, <2>1 DEF Place
<1>7. \A r \in Signed : tx[r].nonce = n => r = s
  BY <1>6 DEF NonceInv, Place
<1> QED
  BY <1>6, <1>7

\* A receipt is that of a payload that ran.
ReceiptInv == \A s \in Senders : ret[s] = "receipt" => executions[s] # 0

\* What the synchronous send promises keeps it so.
LEMMA Receipts == Spec => []ReceiptInv
<1>1. Init => ReceiptInv
  BY DEF Init, ReceiptInv
<1>2. IInv /\ ReceiptInv /\ [Next]_vars => ReceiptInv'
  <2> SUFFICES ASSUME IInv, ReceiptInv, [Next]_vars
               PROVE  ReceiptInv'
    OBVIOUS
  <2> DEFINE seen == [t \in Senders |->
                       IF ret[t] = "errorWithoutCause" THEN "error" ELSE ret[t]]
             Kept == \A s \in Senders : seen[s] = "receipt" => executions[s] # 0
  <2>1. [SynchronousSend!Next]_(SynchronousSend!vars)
    BY RefinementNext
  <2>2. Kept /\ executions \in [Senders -> Nat]
    BY DEF ReceiptInv, IInv, TypeOK, EnvironmentTypeOK
  <2>3. \/ seen' = seen /\ executions' = executions
        \/ \E s \in Senders :
              \/ executions' = [executions EXCEPT ![s] = 1] /\ seen' = seen
              \/ executions[s] = 1 /\ seen' = [seen EXCEPT ![s] = "receipt"] /\ executions' = executions
              \/ seen' = [seen EXCEPT ![s] = "error"] /\ executions' = executions
    BY <2>1
    DEF SynchronousSend!Next, SynchronousSend!vars, SynchronousSend!Execute,
        SynchronousSend!ReturnReceipt, SynchronousSend!ReturnError
  <2>4. DOMAIN seen = Senders
    OBVIOUS
  <2>5. Kept'
    <3> HIDE DEF seen
    <3> QED
      BY <2>2, <2>3, <2>4
  <2> QED
    BY <2>5 DEF ReceiptInv
<1> QED
  BY <1>1, <1>2, Invariance, PTL DEF Spec

\* However many signatures fail, a nonce between the account's and the next one
\* is that of exactly one Send, which has not told its caller that its payload
\* ran: what MCNonceHole refutes is left to a Send that failed after signing.
THEOREM NoncesHaveTheirSends == Spec => []EachNonceHasItsSend
<1>1. ASSUME IInv, NonceInv, NextInv, ReceiptInv, NEW n \in account .. NextNonce - 1
      PROVE  \E s \in Signed :
                /\ tx[s].nonce = n
                /\ executions[s] = 0 /\ ret[s] # "receipt"
                /\ \A r \in Signed \ {s} : tx[r].nonce # n
  <2>1. PICK s \in Signed : tx[s].nonce = n /\ \A r \in Signed \ {s} : tx[r].nonce # n
    BY <1>1, NonceOwner
  <2>2. account \in Nat /\ ~(n < account) /\ s \in Senders
    BY <1>1, MaxUint64Assumption DEF IInv, TypeOK, EnvironmentTypeOK, Uint64s, Signed
  <2>3. executions[s] = 0
    BY <1>1, <2>1, <2>2 DEF IInv, ExecutedInv
  <2> QED
    BY <1>1, <2>1, <2>2, <2>3 DEF ReceiptInv
<1>2. IInv /\ NonceInv /\ NextInv /\ ReceiptInv => EachNonceHasItsSend
  BY <1>1 DEF EachNonceHasItsSend
<1> QED
  BY <1>2, Invariance, NonceInvariance, NextInvariance, Receipts, PTL

\* Only a Send that has signed asks for reservations, and so only its transaction
\* is ever included.
AskedInv == \A s \in Senders : reserved[s] # << >> => s \in Signed

\* A signed transaction stays signed.
LEMMA Asked == Spec => []AskedInv
<1>1. Init => AskedInv
  BY DEF Init, EnvironmentInit, AskedInv
<1>2. IInv /\ NonceInv /\ AskedInv /\ [Next]_vars => AskedInv'
  <2> SUFFICES ASSUME IInv, NonceInv, AskedInv, [Next]_vars
               PROVE  AskedInv'
    OBVIOUS
  <2>1. Signed \subseteq Signed'
    <3>1. CASE \E s \in Senders : Craft(s)
      BY <3>1, CraftNonces
    <3>2. CASE \E s \in Senders : CraftFails(s)
      BY <3>2, FailedCraft, QuietNonces
    <3>3. CASE \A s \in Senders : ~Craft(s) /\ ~CraftFails(s)
      BY <3>3, QuietSteps, QuietNonces
    <3> QED
      BY <3>1, <3>2, <3>3
  <2>2. CASE UNCHANGED reserved
    BY <2>1, <2>2 DEF AskedInv
  <2>3. ASSUME NEW s \in Senders, Asks(s)
        PROVE  AskedInv'
    <3>1. s \in Signed /\ \A t \in Senders : t # s => reserved'[t] = reserved[t]
      BY <2>3, RequestFacts DEF Asks, NonceInv
    <3> QED
      BY <2>1, <3>1 DEF AskedInv
  <2>4. ASSUME NEW s \in Senders, Changes(s)
        PROVE  AskedInv'
    <3>1. TypeOK
      BY DEF IInv
    <3>2. reserved[s] # << >> /\ \A t \in Senders : t # s => reserved'[t] = reserved[t]
      BY <2>4, <3>1, UpdateFacts DEF Changes
    <3> QED
      BY <2>1, <3>2 DEF AskedInv
  <2> QED
    BY <2>2, <2>3, <2>4, ReservationSteps
<1> QED
  BY <1>1, <1>2, Invariance, NonceInvariance, PTL DEF Spec

\* While no other customer and no escrow transaction has come in between, the
\* account moves by the payloads of Sends only.
LEMMA AccountAlone ==
    ASSUME IInv, [Next]_vars, others' = 0
    PROVE  /\ others = 0
           /\ \/ UNCHANGED account
              \/ \E s \in Senders : \E i \in DOMAIN reserved[s] :
                    IncludeTx(s, i) /\ UNCHANGED sends
<1> USE DEF environment, chain
<1>1. others \in Nat
  BY MaxOthersAssumption DEF IInv, TypeOK, EnvironmentTypeOK
<1>2. ASSUME NEW s \in Senders, Send(s)
      PROVE  UNCHANGED <<account, others>>
  <2>1. CASE Craft(s) \/ CraftFails(s) \/ GetFee(s) \/ QuoteFails(s)
    BY <2>1 DEF Craft, CraftFails, GetFee, QuoteFails
  <2>2. CASE GetSlotForCandidate(s)
    BY <2>2 DEF GetSlotForCandidate, GetSlots, PickSlot, NoSlotFound
  <2>3. CASE ReserveBlockspace(s)
    BY <2>3 DEF ReserveBlockspace, Reserve, ReserveRejected, ReserveFails
  <2>4. CASE SubmitTransaction(s)
    BY <2>4 DEF SubmitTransaction, Submit, SubmitRejected, SubmitFails
  <2>5. CASE PollHead(s) \/ PollFails(s) \/ Receipt(s)
    BY <2>5 DEF PollHead, PollFails, Receipt
  <2> QED
    BY <1>2, <2>1, <2>2, <2>3, <2>4, <2>5 DEF Send
<1>3. ASSUME NEW s \in Senders, Cancel(s)
      PROVE  UNCHANGED <<account, others>>
  BY <1>3 DEF Cancel
<1>4. ASSUME EnvironmentNext, UNCHANGED sends
      PROVE  \/ UNCHANGED <<account, others>>
             \/ others' = others + 1
             \/ /\ UNCHANGED others
                /\ \E s \in Senders : \E i \in DOMAIN reserved[s] : IncludeTx(s, i)
  BY <1>4
  DEF EnvironmentNext, Received, GrantLate, AcceptLate, IncludeTx, OthersReserve,
      EscrowTransact, AdvanceHead
<1>5. UNCHANGED vars => UNCHANGED <<account, others>>
  BY DEF vars
<1>6. others' # others + 1
  BY <1>1
<1> QED
  BY <1>2, <1>3, <1>4, <1>5, <1>6 DEF Next

\* The nonces taken are then 0, 1, 2... and the account's is not past them.
AloneInv ==
    others = 0 =>
        /\ account <= Cardinality(Signed)
        /\ nonce = NoNonce => account = 0
        /\ nonce # NoNonce =>
              nonce = IF Signed = {} THEN MaxUint64 ELSE Cardinality(Signed) - 1

\* What this says of the nonce that Craft takes next.
LEMMA NextNonceAlone ==
    ASSUME IInv, NonceInv, AloneInv, others = 0, NEW s \in Senders \ Signed
    PROVE  /\ NextNonce = Cardinality(Signed)
           /\ \A r \in Signed : tx[r].nonce # NextNonce
<1> DEFINE K == Cardinality(Signed)
<1>1. /\ K \in Nat /\ K <= MaxUint64 /\ (Signed = {} => K = 0)
      /\ account \in Nat /\ account <= K
      /\ nonce = NoNonce => account = 0 /\ Signed = {}
      /\ nonce # NoNonce => nonce = IF Signed = {} THEN MaxUint64 ELSE K - 1
      /\ MaxUint64 \in Nat
  BY SignedFinite, FS_EmptySet, MaxUint64Assumption
  DEF AloneInv, NonceInv, IInv, TypeOK, EnvironmentTypeOK, Uint64s
<1>2. Signed # {} => K # 0
  BY SignedFinite, FS_EmptySet
<1> HIDE DEF K
<1>3. NextNonce = K
  BY <1>1, <1>2 DEF NextNonce, Inc
<1>4. ASSUME NEW r \in Signed
      PROVE  tx[r].nonce # K
  <2>1. Place(r) < K /\ nonce = K - 1
    BY <1>1 DEF NonceInv, K
  <2>2. TakenAfter(K) = MaxUint64
    BY <1>1, <2>1 DEF TakenAfter
  <2> QED
    BY <1>1, <2>1, <2>2 DEF Place
<1> QED
  BY <1>3, <1>4 DEF K

\* Craft takes one nonce for one Send, and only a nonce that was taken is used up.
LEMMA Alone == Spec => []AloneInv
<1>1. Init => AloneInv
  <2> SUFFICES ASSUME Init
               PROVE  AloneInv
    OBVIOUS
  <2>1. Signed = {}
    BY DEF Init, Signed
  <2>2. Cardinality(Signed) = 0
    BY <2>1, FS_EmptySet
  <2> QED
    BY <2>2 DEF Init, EnvironmentInit, AloneInv
<1>2. IInv /\ NonceInv /\ AskedInv /\ AloneInv /\ [Next]_vars => AloneInv'
  <2> SUFFICES ASSUME IInv, NonceInv, AskedInv, AloneInv, [Next]_vars, others' = 0
               PROVE  AloneInv'
    BY DEF AloneInv
  <2> DEFINE K == Cardinality(Signed)
  <2>1. /\ others = 0
        /\ account \in Nat /\ account <= MaxUint64 /\ MaxUint64 \in Nat
        /\ K \in Nat /\ account <= K
        /\ nonce = NoNonce => account = 0 /\ Signed = {}
        /\ nonce # NoNonce => nonce = IF Signed = {} THEN MaxUint64 ELSE K - 1
    <3>1. others = 0
      BY AccountAlone
    <3>2. account <= K /\ (nonce = NoNonce => account = 0)
          /\ (nonce # NoNonce => nonce = IF Signed = {} THEN MaxUint64 ELSE K - 1)
      BY <3>1 DEF AloneInv
    <3>3. account \in Uint64s
      BY DEF IInv, TypeOK, EnvironmentTypeOK
    <3>4. account \in Nat /\ account <= MaxUint64 /\ MaxUint64 \in Nat
      BY <3>3, MaxUint64Assumption DEF Uint64s
    <3>5. nonce = NoNonce => Signed = {}
      BY DEF NonceInv
    <3> QED
      BY <3>1, <3>2, <3>4, <3>5, SignedFinite
  <2>2. ASSUME NEW s \in Senders, Craft(s)
        PROVE  AloneInv'
    <3>1. /\ s \notin Signed /\ Signed' = Signed \cup {s} /\ K' = K + 1
          /\ nonce' # NoNonce /\ nonce' = NextNonce /\ UNCHANGED account
      BY <2>2, CraftNonces DEF Craft, environment, chain
    <3>2. NextNonce = K
      BY <2>1, <2>2, <3>1, NextNonceAlone
    <3>3. nonce' = K' - 1 /\ account' <= K'
      BY <2>1, <3>1, <3>2
    <3> QED
      BY <3>1, <3>3 DEF AloneInv
  <2>3. ASSUME NEW s \in Senders, CraftFails(s)
        PROVE  AloneInv'
    <3>1. Quiet /\ UNCHANGED account
      BY <2>3, FailedCraft DEF CraftFails, environment, chain
    <3>2. Signed' = Signed /\ K' = K
      BY <3>1, QuietNonces
    <3>3. nonce' = nonce \/ (nonce = NoNonce /\ nonce' = Dec(account))
      BY <2>3, <3>1 DEF Quiet, CraftFails, NonceAfterFailedSign, NextNonce
    <3>4. CASE nonce' = nonce
      BY <2>1, <3>1, <3>2, <3>4 DEF AloneInv
    <3>5. CASE nonce = NoNonce /\ nonce' = Dec(account)
      <4>1. nonce' = MaxUint64 /\ Signed' = {} /\ account' = 0 /\ account' <= K'
        BY <2>1, <3>1, <3>2, <3>5 DEF Dec
      <4> QED
        BY <4>1, NullAssumption, MaxUint64Assumption DEF AloneInv, Uint64s
    <3> QED
      BY <3>3, <3>4, <3>5
  <2>4. ASSUME \A s \in Senders : ~Craft(s) /\ ~CraftFails(s), UNCHANGED account
        PROVE  AloneInv'
    <3>1. nonce' = nonce /\ Signed' = Signed /\ K' = K
      BY <2>4, QuietSteps, QuietNonces
    <3> QED
      BY <2>1, <2>4, <3>1 DEF AloneInv
  <2>5. ASSUME NEW s \in Senders, NEW i \in DOMAIN reserved[s], IncludeTx(s, i), UNCHANGED sends
        PROVE  AloneInv'
    <3>1. /\ UNCHANGED <<nonce, tx>>
          /\ tx[s].nonce = account /\ account' = account + 1
      BY <2>5, FirstExecution DEF sends, signing
    <3>2. Signed' = Signed /\ K' = K
      BY <3>1 DEF Signed
    <3>3. s \in Signed
      BY DEF AskedInv
    <3>4. Place(s) < K /\ Place(s) = TakenAfter(account) /\ nonce = K - 1 /\ nonce # NoNonce
      BY <2>1, <3>1, <3>3 DEF NonceInv, Place
    <3>5. account + 1 <= K
      <4> HIDE DEF K
      <4>1. CASE account <= K - 1
        BY <2>1, <4>1
      <4>2. CASE account = K
        BY <2>1, <2>5, <3>4, <4>2 DEF TakenAfter, IncludeTx
      <4> QED
        BY <2>1, <4>1, <4>2
    <3> QED
      BY <2>1, <3>1, <3>2, <3>3, <3>4, <3>5 DEF AloneInv
  <2> QED
    BY <2>1, <2>2, <2>3, <2>4, <2>5, AccountAlone
<1> QED
  BY <1>1, <1>2, Invariance, NonceInvariance, Asked, PTL DEF Spec

\* While nobody else has used the account, a transaction is signed with the next
\* available nonce (txmgr.go:329) in this sense: a nonce that is not below the
\* account's, that no other transaction has, and such that each nonce in between
\* is that of a Send before it.  After an escrow transaction the first two fail:
\* the manager does not ask for the account's nonce again.
THEOREM SignsNextFreeNonce ==
    Spec => [][\A s \in Senders : (Craft(s) /\ others = 0) =>
                  /\ account <= tx'[s].nonce
                  /\ \A r \in Signed : tx[r].nonce # tx'[s].nonce
                  /\ \A n \in account .. tx'[s].nonce - 1 : \E r \in Signed : tx[r].nonce = n]_vars
<1> DEFINE Next1(s) ==
               /\ account <= tx'[s].nonce
               /\ \A r \in Signed : tx[r].nonce # tx'[s].nonce
               /\ \A n \in account .. tx'[s].nonce - 1 : \E r \in Signed : tx[r].nonce = n
<1>1. ASSUME IInv, NonceInv, NextInv, AloneInv, NEW s \in Senders, Craft(s), others = 0
      PROVE  Next1(s)
  <2>1. s \notin Signed /\ tx'[s].nonce = NextNonce
    BY <1>1 DEF Craft, NonceInv, IInv, TypeOK
  <2>2. NextNonce = Cardinality(Signed) /\ \A r \in Signed : tx[r].nonce # NextNonce
    BY <1>1, <2>1, NextNonceAlone
  <2>3. account <= NextNonce
    BY <1>1, <2>2 DEF AloneInv
  <2>4. \A n \in account .. NextNonce - 1 : \E r \in Signed : tx[r].nonce = n
    BY <1>1, NonceOwner
  <2> QED
    BY <2>1, <2>2, <2>3, <2>4
<1>2. IInv /\ NonceInv /\ NextInv /\ AloneInv /\ [Next]_vars
        => [\A s \in Senders : (Craft(s) /\ others = 0) => Next1(s)]_vars
  BY <1>1
<1> QED
  BY <1>2, Invariance, NonceInvariance, NextInvariance, Alone, PTL DEF Spec
=============================================================================
