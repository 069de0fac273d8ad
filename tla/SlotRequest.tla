---------------------------- MODULE SlotRequest ----------------------------
(***************************************************************************)
(* The two computations Send makes on what the gateway answers: the slot   *)
(* picked from a listing (getSlotForCandidate, txmgr/txmgr.go:122-143) and *)
(* the deposit offered for a reservation in it (txmgr.go:171-176).         *)
(***************************************************************************)
EXTENDS Uint64, Sequences

\* One SlotInfo of the gateway's answer, as far as Send looks at it.
SlotInfo == [slot : Uint64s, gas : Uint64s, blobs : Uint64s]

\* slot == 0 stands for "nothing found" in getSlotForCandidate.
NoSlot == 0

\* The gateway still lists old slots; slots up to head + 1 are skipped.
TooLate(s, head) == s.slot <= Inc(head)

HasRoom(s, blobs, gas) == s.blobs >= blobs /\ s.gas >= gas

\* The first listed slot that is neither too late nor too full, or NoSlot.
SelectSlot(slots, head, blobs, gas) ==
    LET fits(i)  == ~TooLate(slots[i], head) /\ HasRoom(slots[i], blobs, gas)
        first(i) == fits(i) /\ \A j \in DOMAIN slots : fits(j) => i <= j
    IN  IF \E i \in DOMAIN slots : first(i)
        THEN slots[CHOOSE i \in DOMAIN slots : first(i)].slot
        ELSE NoSlot

-----------------------------------------------------------------------------
\* A fee quote of the gateway: the prices per gas and per blob.
Fee == [gas : Nat, blob : Nat]

\* { gas_limit * gas_fee + blob_count * blob_gas_fee } * 0.5, in u256, which
\* products and sums of uint64 values do not overflow.
Deposit(gas, blobs, fee) == (gas * fee.gas + blobs * fee.blob) \div 2
=============================================================================
