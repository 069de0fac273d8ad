---------------------------- MODULE PreconfTxMgr ----------------------------
(***************************************************************************)
(* Send (txmgr/txmgr.go:147-224) run by several goroutines on one          *)
(* PreconfTxMgr: craft and sign the transaction, pick a slot, ask its fee, *)
(* reserve room in it, submit the transaction for the reservation, wait    *)
(* for the slot to pass and ask for the receipt.  A failed reservation or  *)
(* submission starts over with a fresh listing.  PreconfEnvironment is     *)
(* what it talks to.                                                       *)
(*                                                                         *)
(* signWithNextNonce is one step here; NonceManager justifies this.        *)
(***************************************************************************)
EXTENDS PreconfEnvironment, FiniteSets

CONSTANTS
    Candidate,      \* the TxCandidate of each sender: [gasLimit, estimate, blobs]
    MaxAttempts,    \* the attempts of prepare's retry.Do (30 in the code)
    MaxFaults,      \* bound: how many calls fail without a reason of ours
    Cancellable,    \* the senders whose caller may cancel the ctx
    NoNonce         \* m.nonce is the nil pointer

\* A transaction costs gas, and the node's estimate is never zero.
ASSUME CandidateAssumption ==
    Candidate \in [Senders -> [gasLimit : Uint64s, estimate : Uint64s \ {0}, blobs : Uint64s]]

\* There are nonces for all of them.
ASSUME SendersAssumption == IsFiniteSet(Senders) /\ Cardinality(Senders) <= MaxUint64 + 1
ASSUME BoundsAssumption == MaxAttempts \in Nat \ {0} /\ MaxFaults \in Nat
ASSUME CancellableAssumption == Cancellable \subseteq Senders
ASSUME NullAssumption == NoNonce \notin Uint64s

VARIABLES
    nonce,          \* m.nonce
    pc,             \* the next call each Send makes
    attempts,       \* how many times prepare called craftTx
    tx,             \* the signed transaction
    listing,        \* the slots the last GetSlots returned
    slot,           \* the slot picked
    fee,            \* the fee quoted for it
    id,             \* the id of the reservation made
    ret,            \* what Send returned
    cancelled,      \* the senders whose ctx is done
    faults          \* how many calls failed so far

signing == <<nonce, attempts, tx>>
local   == <<listing, slot, fee, id>>
sends   == <<signing, pc, local, ret, cancelled, faults>>
vars    == <<sends, environment>>

PcValues == {"prepare", "getSlots", "getHead", "getFee", "reserve", "submit",
             "firstHead", "wait", "receipt", "returned"}

Outcomes == {"running", "receipt", "error", "errorWithoutCause"}

NoFee == [gas |-> 0, blob |-> 0]

Init ==
    /\ EnvironmentInit
    /\ nonce = NoNonce
    /\ pc = [s \in Senders |-> "prepare"]
    /\ attempts = [s \in Senders |-> 0]
    /\ tx = [s \in Senders |-> [nonce |-> 0, gas |-> 0, blobs |-> 0]]
    /\ listing = [s \in Senders |-> << >>]
    /\ slot = [s \in Senders |-> NoSlot]
    /\ fee = [s \in Senders |-> NoFee]
    /\ id = [s \in Senders |-> 0]
    /\ ret = [s \in Senders |-> "running"]
    /\ cancelled = {}
    /\ faults = 0

-----------------------------------------------------------------------------
(* How calls end.  A call made with a done ctx fails; any other call may   *)
(* fail on the network, MaxFaults times in all.                            *)

Goto(s, label) ==
    /\ pc' = [pc EXCEPT ![s] = label]
    /\ UNCHANGED <<ret, cancelled>>

Return(s, result) ==
    /\ pc' = [pc EXCEPT ![s] = "returned"]
    /\ ret' = [ret EXCEPT ![s] = result]
    /\ UNCHANGED cancelled

\* A call that takes no ctx (http.Get, line 74).
Fault ==
    /\ faults < MaxFaults
    /\ faults' = faults + 1

\* A ctx that is done stops a call before it starts or while it is under way.
CtxFault(s) ==
    \/ s \in cancelled /\ UNCHANGED faults
    \/ s \notin cancelled /\ Fault

CtxOk(s) == s \notin cancelled /\ UNCHANGED faults

-----------------------------------------------------------------------------
(* prepare, craftTx and signWithNextNonce, lines 245-368.                  *)

\* The account's nonce asked for at each signature.
FetchedNonce == account

\* signWithNextNonce's nonce for the next signature.
NextNonce == IF nonce = NoNonce THEN account ELSE Inc(nonce)

\* The nonce taken for a signature that failed, and the same given back.
NonceKept == NextNonce
NonceAfterFailedSign == Dec(NextNonce)

\* The candidate's gas limit, or the node's estimate when it is zero.
TxGas(s) == IF Candidate[s].gasLimit = 0 THEN Candidate[s].estimate
            ELSE Candidate[s].gasLimit

Craft(s) ==
    /\ pc[s] = "prepare"
    /\ CtxOk(s)
    /\ nonce' = NextNonce
    /\ tx' = [tx EXCEPT ![s] = [nonce |-> NextNonce, gas |-> TxGas(s),
                                blobs |-> Candidate[s].blobs]]
    /\ Goto(s, "getSlots")
    /\ UNCHANGED <<attempts, local, environment>>

\* An attempt of retry.Do failed; after the last one prepare gives up.
Retry(s) ==
    /\ attempts' = [attempts EXCEPT ![s] = @ + 1]
    /\ IF attempts[s] + 1 < MaxAttempts
       THEN Goto(s, "prepare")
       ELSE Return(s, "error")

\* craftTx fails before the nonce is touched, or in the signer, which gives the
\* nonce back.  retry.Do does not go on with a done ctx.
CraftFails(s) ==
    /\ pc[s] = "prepare"
    /\ CtxFault(s)
    /\ nonce' \in {nonce, NonceAfterFailedSign}
    /\ \/ s \notin cancelled /\ Retry(s)
       \/ s \in cancelled /\ Return(s, "error") /\ UNCHANGED attempts
    /\ UNCHANGED <<tx, local, environment>>

-----------------------------------------------------------------------------
(* getSlotForCandidate, lines 110-144, and GetPreconfFee.                  *)

GetSlots(s) ==
    /\ pc[s] = "getSlots"
    /\ CtxOk(s)
    /\ listing' = [listing EXCEPT ![s] = offer]
    /\ Goto(s, "getHead")
    /\ UNCHANGED <<signing, slot, fee, id, environment>>

\* The slot picked for s; the filter uses the candidate's gas limit, not tx's.
Selected(s) ==
    SelectSlot(listing[s], head, Candidate[s].blobs, Candidate[s].gasLimit)

PickSlot(s) ==
    /\ pc[s] = "getHead"
    /\ Selected(s) # NoSlot
    /\ slot' = [slot EXCEPT ![s] = Selected(s)]
    /\ Goto(s, "getFee")
    /\ UNCHANGED <<signing, listing, fee, id, faults, environment>>

\* No slot fits, or the head could not be read.
NoSlotFound(s) ==
    /\ pc[s] = "getHead"
    /\ \/ Selected(s) = NoSlot /\ UNCHANGED faults
       \/ Fault
    /\ Return(s, "error")
    /\ UNCHANGED <<signing, local, environment>>

\* The first quote kept for the retries.
FirstFee(s) == IF fee[s] = NoFee THEN Quote[slot[s]] ELSE fee[s]
QuotedFee(s) == Quote[slot[s]]

GetFee(s) ==
    /\ pc[s] = "getFee"
    /\ CtxOk(s)
    /\ fee' = [fee EXCEPT ![s] = QuotedFee(s)]
    /\ Goto(s, "reserve")
    /\ UNCHANGED <<signing, listing, slot, id, environment>>

\* A failed listing or quote asked for again, instead of ending the Send.
QuoteRetried(s) ==
    /\ pc[s] \in {"getSlots", "getFee"}
    /\ CtxFault(s)
    /\ UNCHANGED <<signing, pc, local, ret, cancelled, environment>>

QuoteFails(s) ==
    /\ pc[s] \in {"getSlots", "getFee"}
    /\ CtxFault(s)
    /\ Return(s, "error")
    /\ UNCHANGED <<signing, local, environment>>

-----------------------------------------------------------------------------
(* ReserveBlockspace and SubmitTransaction, lines 171-203.                 *)

CandidateGas(s) == Candidate[s].gasLimit
ReservedGas(s) == tx[s].gas

Request(s, granted) ==
    [slot |-> slot[s], gas |-> ReservedGas(s), blobs |-> Candidate[s].blobs,
     deposit |-> Deposit(ReservedGas(s), Candidate[s].blobs, fee[s]),
     granted |-> granted, sent |-> NoTx, tx |-> NoTx]

CraftAgain == "prepare"
ListedBefore == "getHead"
\* Another turn of the loop: the same transaction, a fresh listing.
RetryFrom == "getSlots"

LoopOn == "getSlots"
\* A submission that succeeds breaks out of the loop.
AfterSubmit == "firstHead"

Reserve(s) ==
    /\ pc[s] = "reserve"
    /\ CtxOk(s)
    /\ LET r == Request(s, TRUE)
       IN  /\ Grantable(r)
           /\ reserved' = [reserved EXCEPT ![s] = Append(@, r)]
           /\ TakeRoom(r.slot, r.gas, r.blobs)
    /\ id' = [id EXCEPT ![s] = Len(reserved[s]) + 1]
    /\ Goto(s, "submit")
    /\ UNCHANGED <<signing, listing, slot, fee, chain, others>>

ReserveRejected(s) ==
    /\ pc[s] = "reserve"
    /\ CtxOk(s)
    /\ Refusable(Request(s, FALSE))
    /\ Goto(s, RetryFrom)
    /\ UNCHANGED <<signing, local, environment>>

\* The request may still be granted, for an id nobody knows.
ReserveFails(s) ==
    /\ pc[s] = "reserve"
    /\ CtxFault(s)
    /\ reserved' = [reserved EXCEPT ![s] = Append(@, Request(s, FALSE))]
    /\ Goto(s, RetryFrom)
    /\ UNCHANGED <<signing, local, offer, chain, others>>

Held(s) == reserved[s][id[s]]

Submit(s) ==
    /\ pc[s] = "submit"
    /\ CtxOk(s)
    /\ Acceptable(Held(s))
    /\ reserved' = [reserved EXCEPT ![s][id[s]].tx = tx[s]]
    /\ Goto(s, AfterSubmit)
    /\ UNCHANGED <<signing, local, offer, chain, others>>

SubmitRejected(s) ==
    /\ pc[s] = "submit"
    /\ CtxOk(s)
    /\ TooLate(Held(s), head)
    /\ Goto(s, RetryFrom)
    /\ UNCHANGED <<signing, local, environment>>

\* The transaction may still be accepted.
SubmitFails(s) ==
    /\ pc[s] = "submit"
    /\ CtxFault(s)
    /\ reserved' = [reserved EXCEPT ![s][id[s]].sent = tx[s]]
    /\ Goto(s, RetryFrom)
    /\ UNCHANGED <<signing, local, offer, chain, others>>

-----------------------------------------------------------------------------
(* Waiting for the slot to pass, lines 206-223.                            *)

SlotReached(h, sl) == h >= sl
SlotJustPassed(h, sl) == h = Inc(sl)
\* The loop condition `head < slot+1`, negated.
SlotPassed(h, sl) == h >= Inc(sl)

\* The beacon node answers: the loop goes on or ends.
PollHead(s) ==
    /\ pc[s] \in {"firstHead", "wait"}
    /\ Goto(s, IF SlotPassed(head, slot[s]) THEN "receipt" ELSE "wait")
    /\ UNCHANGED <<signing, local, faults, environment>>

\* In the loop getHeadErr is returned, formatted at line 207 from the nil err of
\* the first poll.
PollFails(s) ==
    /\ pc[s] \in {"firstHead", "wait"}
    /\ Fault
    /\ Return(s, IF pc[s] = "firstHead" THEN "error" ELSE "errorWithoutCause")
    /\ UNCHANGED <<signing, local, environment>>

Receipt(s) ==
    /\ pc[s] = "receipt"
    /\ \/ CtxOk(s) /\ Return(s, IF executions[s] > 0 THEN "receipt" ELSE "error")
       \/ CtxFault(s) /\ Return(s, "error")
    /\ UNCHANGED <<signing, local, environment>>

\* The caller gives up.
Cancel(s) ==
    /\ pc[s] # "returned"
    /\ s \in Cancellable \ cancelled
    /\ cancelled' = cancelled \cup {s}
    /\ UNCHANGED <<signing, pc, local, ret, faults, environment>>

-----------------------------------------------------------------------------
GetSlotForCandidate(s) == GetSlots(s) \/ PickSlot(s) \/ NoSlotFound(s)

ReserveBlockspace(s) == Reserve(s) \/ ReserveRejected(s) \/ ReserveFails(s)

SubmitTransaction(s) == Submit(s) \/ SubmitRejected(s) \/ SubmitFails(s)

Send(s) ==
    \/ Craft(s)
    \/ CraftFails(s)
    \/ GetSlotForCandidate(s)
    \/ GetFee(s)
    \/ QuoteFails(s)
    \/ ReserveBlockspace(s)
    \/ SubmitTransaction(s)
    \/ PollHead(s)
    \/ PollFails(s)
    \/ Receipt(s)

Next ==
    \/ \E s \in Senders : Send(s) \/ Cancel(s)
    \/ EnvironmentNext /\ UNCHANGED sends

Spec == Init /\ [][Next]_vars

\* A goroutine inside Send keeps running and the beacon chain keeps moving;
\* the caller, the other customers, late requests and the proposers owe nothing.
FairSpec ==
    /\ Spec
    /\ \A s \in Senders : WF_vars(Send(s))
    /\ WF_vars(AdvanceHead /\ UNCHANGED sends)

-----------------------------------------------------------------------------
TypeOK ==
    /\ EnvironmentTypeOK
    /\ nonce \in Uint64s \cup {NoNonce}
    /\ pc \in [Senders -> PcValues]
    /\ attempts \in [Senders -> 0 .. MaxAttempts]
    /\ tx \in [Senders -> Tx]
    /\ listing \in [Senders -> Seq(SlotInfo)]
    /\ slot \in [Senders -> Uint64s]
    /\ fee \in [Senders -> Fee]
    /\ id \in [Senders -> Nat]
    /\ ret \in [Senders -> Outcomes]
    /\ cancelled \subseteq Senders
    /\ faults \in 0 .. MaxFaults

\* Every reservation offers the deposit computed from the fee the gateway
\* quoted for that very slot, also after a retry moved to another slot
\* (GetPreconfFee is asked anew in each turn of Send's loop).
DepositIsQuotedForItsSlot ==
    \A s \in Senders : \A i \in DOMAIN reserved[s] :
        LET r == reserved[s][i]
        IN  r.deposit = Deposit(r.gas, r.blobs, Quote[r.slot])

\* The gateway has a transaction only for a reservation it granted with room for
\* it, also when the candidate's gas limit is zero and the gas was estimated,
\* and when the transaction arrives after Send has gone on.
SubmittedTxFitsReservation ==
    \A s \in Senders : \A i \in DOMAIN reserved[s] :
        LET r == reserved[s][i]
        IN  r.tx # NoTx => r.granted /\ r.tx.gas <= r.gas /\ r.tx.blobs <= r.blobs

\* Send asks for the receipt only once the head is past the slot of the
\* reservation that holds its transaction, not of an earlier turn of the loop,
\* and no other reservation it made can have the transaction included any more:
\* a receipt that is not there then will never be.
ReceiptAskedAfterOwnSlot ==
    \A s \in Senders : pc[s] = "receipt" =>
        /\ id[s] \in DOMAIN reserved[s] /\ Held(s).tx = tx[s]
        /\ \A i \in DOMAIN reserved[s] : reserved[s][i].slot < head

\* While no call fails and the ctx is not done, a Send never pays for room
\* twice: a reservation is used, or about to be, or its slot was nearly over
\* when the transaction was submitted.
NoSecondDepositWithoutFault ==
    \A s \in Senders :
        (faults = 0 /\ s \notin cancelled) =>
            \A i, j \in DOMAIN reserved[s] :
                i < j => reserved[s][i].tx = NoTx /\ reserved[s][i].slot <= Inc(head)

\* The reservations of a Send that may still cost it their deposit: those that
\* have its transaction, or have it on its way, or whose slot is not nearly over.
AtStake(s) ==
    {i \in DOMAIN reserved[s] :
        LET r == reserved[s][i]
        IN  r.tx # NoTx \/ r.sent # NoTx \/ r.slot > Inc(head)}

\* A lost answer costs one deposit at most: Send reserves anew without knowing
\* the id it may have been granted, or whether its transaction was accepted, but
\* never has more than one reservation at stake for each failed call, and one
\* for the turn it is in, also when its ctx ends in the middle of it.
OneDepositPerFault ==
    \A s \in Senders : Cardinality(AtStake(s)) <= faults + 1

\* Send's loop has no bound of its own; what bounds it is that each turn moves
\* on.  It never turns back to an earlier slot, and after a refusal it moves to a
\* later one, unless the filter does not know the gas (PickedSlotHasRoom).  This
\* holds as long as the gateway does not get room back.
EachTurnMovesOn ==
    [][\A s \in Senders : (pc[s] = "getHead" /\ pc'[s] = "getFee") =>
          /\ slot'[s] >= slot[s]
          /\ (faults = 0 /\ Candidate[s].gasLimit # 0) => slot'[s] > slot[s]]_vars

\* However often a Send retries after failed calls, and however late these take
\* effect, its payload runs at most once, and only a payload that ran yields a
\* receipt.
SynchronousSend ==
    INSTANCE SynchronousSend WITH
        outcome <- [s \in Senders |->
                      IF ret[s] = "errorWithoutCause" THEN "error" ELSE ret[s]]

ImplementsSynchronousSend == SynchronousSend!Spec

\* The Sends that have a transaction: before, it has no gas.
Signed == {s \in Senders : tx[s].gas # 0}

\* How many nonces were taken after n.
TakenAfter(n) == IF n <= nonce THEN nonce - n ELSE nonce - n + MaxUint64 + 1

\* The Send whose transaction has the nonce that k more were taken after, if any.
Signer(k) ==
    IF \E s \in Signed : TakenAfter(tx[s].nonce) = k
    THEN CHOOSE s \in Signed : TakenAfter(tx[s].nonce) = k
    ELSE NoTx

\* Prepare, as Send uses it here, is what CraftTx implements: the transactions of
\* concurrent Sends use up the nonces from the last one back, each its own, and
\* a failed attempt takes none, although the account's nonce is read only once
\* and m.nonce is given back by a decrement that wraps around.
TxPreparation ==
    INSTANCE TxPreparation WITH
        Callers <- Senders,
        issued <- [i \in 1 .. Cardinality(Signed) |-> Signer(Cardinality(Signed) - i)],
        outcome <- [s \in Senders |->
                      IF s \in Signed THEN "tx"
                      ELSE IF pc[s] = "prepare" THEN "running" ELSE "error"]

ImplementsTxPreparation == TxPreparation!Spec

\* The nonce that k more were taken after, if a Send has it.
NonceIssued(k) ==
    LET s == Signer(k) IN IF s \in Signed THEN tx[s].nonce ELSE NoNonce

IssuedNonces ==
    [i \in 1 .. Cardinality(Signed) |-> NonceIssued(Cardinality(Signed) - i)]

\* The one step that signing is here is what NonceManager implements with its lock
\* and its calls: while Sends retry and fail, payloads run and others use the
\* account, the nonces go on from the one the account had when it was asked.
NonceAllocator ==
    INSTANCE NonceAllocator WITH
        next <- IF nonce = NoNonce THEN NoNonce ELSE Inc(nonce),
        issued <- IssuedNonces

ImplementsNonceAllocator == NonceAllocator!Spec

\* A nonce that later transactions wait for belongs to one Send, which is still
\* running or has told its caller of an error: a failed signature leaves none
\* that is nobody's, and a payload that ran, or that a caller has the receipt of,
\* does not stand in the way of another.
EachNonceHasItsSend ==
    \A n \in account .. NextNonce - 1 :
        \E s \in Signed :
            /\ tx[s].nonce = n
            /\ executions[s] = 0 /\ ret[s] # "receipt"
            /\ \A r \in Signed \ {s} : tx[r].nonce # n

\* Once its transaction was accepted, Send returns, although its wait loop
\* polls the head only now and then and slots may be skipped meanwhile.
SubmittedSendReturns ==
    \A s \in Senders : pc[s] = "firstHead" ~> pc[s] = "returned"

\* A Send whose ctx is done returns, although neither loop of Send looks at
\* the ctx: the retry loop ends at its next listing, the wait loop when the
\* slot has passed.
CancelledSendReturns ==
    \A s \in Senders : s \in cancelled ~> pc[s] = "returned"

-----------------------------------------------------------------------------
(* What the comments and tests say and the code does not do.               *)

\* The slot picked had, in the listing, room for the transaction's gas: the
\* filter the test applies (client_test.go:244).
PickedSlotHasRoom ==
    \A s \in Senders : pc[s] = "getFee" =>
        listing[s][slot[s]].gas >= tx[s].gas

\* A transaction is signed with the next available nonce (line 329): the
\* nonces before it, from the account's on, belong to transactions of Sends
\* still running or of reservations.
InUse(n) ==
    \E s \in Senders :
        \/ pc[s] \notin {"prepare", "returned"} /\ tx[s].nonce = n
        \/ \E i \in DOMAIN reserved[s] :
              reserved[s][i].tx # NoTx /\ reserved[s][i].tx.nonce = n

SignsNextAvailableNonce ==
    [][\A s \in Senders : Craft(s) =>
          \A n \in account .. NextNonce - 1 : InUse(n)]_vars

\* Every error of Send wraps the error it comes from (the %w of line 207).
ErrorsHaveCause == \A s \in Senders : ret[s] # "errorWithoutCause"
=============================================================================
