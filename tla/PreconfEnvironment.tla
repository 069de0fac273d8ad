------------------------- MODULE PreconfEnvironment -------------------------
(***************************************************************************)
(* What Send (txmgr/txmgr.go:147-224) relies on and src/ does not define:  *)
(* the gateway that sells room in slots, the beacon chain whose head moves *)
(* on, and the account whose nonce orders the transactions.  A request     *)
(* that failed for Send may still reach the gateway, later or never.  What *)
(* Send takes for an answer is the gateway's; HttpCall says when it may    *)
(* not be.                                                                 *)
(***************************************************************************)
EXTENDS SlotRequest

CONSTANTS
    Senders,        \* the goroutines inside Send, one call each
    Quote,          \* the gateway's fee for each slot it offers
    Capacity,       \* what each offered slot has room for, [gas, blobs]
    LastSlot,       \* bound: the last slot of the beacon chain
    MaxOthers,      \* bound: how many transactions and reservations others make
    NoTx            \* no transaction was submitted for the reservation

Offered == DOMAIN Quote     \* the gateway offers the slots 1 .. Len(Quote)

ASSUME QuoteAssumption == Quote \in Seq(Fee)
ASSUME CapacityAssumption == Capacity \in [gas : Uint64s, blobs : Uint64s]
ASSUME LastSlotAssumption == LastSlot \in Uint64s /\ LastSlot < MaxUint64
ASSUME OfferedAssumption == Len(Quote) < LastSlot
ASSUME MaxOthersAssumption == MaxOthers \in Nat

VARIABLES
    offer,          \* gateway: the room left in each offered slot
    reserved,       \* the reservations each sender asked for, ids are indices
    head,           \* beacon node: the head slot
    account,        \* chain: the account's nonce
    executions,     \* chain: how many transactions of each sender it executed
    others          \* how many transactions and reservations others made so far

gateway == <<offer, reserved>>
chain   == <<head, account, executions>>
environment == <<gateway, chain, others>>

Tx == [nonce : Uint64s, gas : Uint64s, blobs : Uint64s]

\* A reservation asked for; whether the gateway granted it; the transaction on
\* its way to the gateway, and the one the gateway has.
Reservation == [slot : Uint64s, gas : Uint64s, blobs : Uint64s, deposit : Nat,
                granted : BOOLEAN, sent : Tx \cup {NoTx}, tx : Tx \cup {NoTx}]

EnvironmentInit ==
    /\ offer = [n \in Offered |->
                  [slot |-> n, gas |-> Capacity.gas, blobs |-> Capacity.blobs]]
    /\ reserved = [s \in Senders |-> << >>]
    /\ head = 0
    /\ account = 0
    /\ executions = [s \in Senders |-> 0]
    /\ others = 0

-----------------------------------------------------------------------------
(* The gateway answers.                                                    *)

\* A reservation is granted while the slot is ahead and has room...
Grantable(r) ==
    /\ r.slot > head
    /\ HasRoom(offer[r.slot], r.blobs, r.gas)

\* ...and may be refused once the slot is the next one, or when it is full.
Refusable(r) ==
    \/ TooLate(r, head)
    \/ ~HasRoom(offer[r.slot], r.blobs, r.gas)

\* What is left of an offered slot.
RoomLess(o, gas, blobs) ==
    [slot |-> o.slot, gas |-> o.gas - gas, blobs |-> o.blobs - blobs]

TakeRoom(n, gas, blobs) == offer' = [offer EXCEPT ![n] = RoomLess(@, gas, blobs)]

\* A transaction is accepted for a reservation while the slot is ahead; it may be
\* refused, as TooLate, once the slot is the next one.
Acceptable(r) == r.slot > head

-----------------------------------------------------------------------------
(* The gateway receives what failed for Send.                              *)

GrantLate(s, i) ==
    LET r == reserved[s][i]
    IN  /\ ~r.granted
        /\ Grantable(r)
        /\ reserved' = [reserved EXCEPT ![s][i].granted = TRUE]
        /\ TakeRoom(r.slot, r.gas, r.blobs)
        /\ UNCHANGED <<chain, others>>

AcceptLate(s, i) ==
    LET r == reserved[s][i]
    IN  /\ r.sent # NoTx
        /\ Acceptable(r)
        /\ reserved' = [reserved EXCEPT ![s][i] = [r EXCEPT !.sent = NoTx, !.tx = r.sent]]
        /\ UNCHANGED <<offer, chain, others>>

-----------------------------------------------------------------------------
(* The other customers, the beacon chain and the proposers.                *)

\* Another customer reserves some of the room left in slot n.
OthersReserve(n) ==
    /\ others < MaxOthers
    /\ others' = others + 1
    /\ \E g \in 0 .. offer[n].gas, b \in 0 .. offer[n].blobs :
          g + b > 0 /\ TakeRoom(n, g, b)
    /\ UNCHANGED <<reserved, chain>>

\* The account's owner pays into the escrow, with a transaction whose nonce the
\* bindings take from the account and not from the manager.
EscrowTransact ==
    /\ others < MaxOthers
    /\ others' = others + 1
    /\ account < MaxUint64
    /\ account' = account + 1
    /\ UNCHANGED <<gateway, head, executions>>

\* The head block moves on; a slot without a block is skipped.
AdvanceHead ==
    /\ \E h \in {head + 1, head + 2} : h <= LastSlot /\ head' = h
    /\ UNCHANGED <<gateway, account, executions, others>>

\* The proposer of the next block, in the next slot or the one after it,
\* includes a transaction submitted for the slot, when the chain lets it: its
\* nonce is the account's.  The execution node may run the head block only after
\* the beacon node has named it.
IncludeTx(s, i) ==
    /\ reserved[s][i].tx # NoTx
    /\ reserved[s][i].slot \in head .. head + 2
    /\ reserved[s][i].tx.nonce = account
    /\ account < MaxUint64
    /\ account' = account + 1
    /\ executions' = [executions EXCEPT ![s] = @ + 1]
    /\ UNCHANGED <<gateway, head, others>>

Received(s, i) == GrantLate(s, i) \/ AcceptLate(s, i) \/ IncludeTx(s, i)

EnvironmentNext ==
    \/ \E s \in Senders : \E i \in DOMAIN reserved[s] : Received(s, i)
    \/ \E n \in Offered : OthersReserve(n)
    \/ EscrowTransact
    \/ AdvanceHead

EnvironmentTypeOK ==
    /\ offer \in [Offered -> SlotInfo]
    /\ reserved \in [Senders -> Seq(Reservation)]
    /\ head \in 0 .. LastSlot
    /\ account \in Uint64s
    /\ executions \in [Senders -> Nat]
    /\ others \in 0 .. MaxOthers
=============================================================================
