------------------------------ MODULE CraftTx ------------------------------
(***************************************************************************)
(* prepare, craftTx and getBaseFees (txmgr/txmgr.go:226-327), call by      *)
(* call: check the candidate, make the sidecar, estimate the gas, read the *)
(* latest block and its fees, sign.  A failed attempt starts over, up to   *)
(* MaxAttempts times.  Several Sends prepare at once while the chain grows *)
(* and its fees move.  PreconfTxMgr takes all this as one step.            *)
(***************************************************************************)
EXTENDS FeeMarket, Sequences

CONSTANTS
    Callers,        \* the Sends that prepare a transaction
    Candidates,     \* the TxCandidates they may have: [blobs, to, gasLimit, value]
    Genesis,        \* the first block
    LastBlock,      \* bound: the number of the last block
    MaxAttempts,    \* the attempts of retry.Do (30 in the code)
    Cancellable     \* the callers that may cancel the ctx

\* to: whether the candidate has a recipient (it deploys a contract otherwise).
Candidate == [blobs : Nat, to : BOOLEAN, gasLimit : Nat, value : Nat]

ASSUME CandidatesAssumption == Candidates \subseteq Candidate
ASSUME GenesisAssumption ==
    /\ Genesis \in Block
    /\ Genesis.baseFee >= MinBaseFee
    /\ CalcExcess(Genesis) <= MaxExcess
ASSUME CancellableAssumption == Cancellable \subseteq Callers
ASSUME BoundsAssumption == LastBlock \in Nat \ {0} /\ MaxAttempts \in Nat \ {0}

VARIABLES
    chain,          \* the blocks, by number
    candidate,      \* the candidate of each caller
    pc,             \* the next call each prepare makes
    attempts,       \* the attempts each prepare has made
    bn,             \* the block number read in this attempt
    signed,         \* the signed transactions, in the order of their nonces
    outcome,        \* "running", or what prepare returned
    cancelled       \* the callers whose ctx is done

vars == <<chain, candidate, pc, attempts, bn, signed, outcome, cancelled>>

NoBlock == 0

\* The fee of the block itself instead of the next one's; a fee not doubled.
OwnBaseFee(blk) == 2 * blk.baseFee
OwnBlobFee(blk) == CalcBlobFee[blk.excess]

BaseFeeCap(blk) == 2 * CalcBaseFee(blk)
BlobFeeCap(blk) == 2 * CalcBlobFee[blk.excess]

BlobFeeCaps == {BlobFeeCap(blk) : blk \in [excess : 0 .. MaxExcess]}

\* A signed transaction, and the number of the block that priced it.
Tx == [from : Callers, blobs : Nat, value : Nat,
       block : Nat, feeCap : Nat, blobFeeCap : {0} \cup BlobFeeCaps]

PcValues == {"attempt", "estimate", "blockNumber", "blockByNumber", "sign", "returned"}

Init ==
    /\ chain = <<Genesis>>
    /\ candidate \in [Callers -> Candidates]
    /\ pc = [c \in Callers |-> "attempt"]
    /\ attempts = [c \in Callers |-> 0]
    /\ bn = [c \in Callers |-> NoBlock]
    /\ signed = << >>
    /\ outcome = [c \in Callers |-> "running"]
    /\ cancelled = {}

Goto(c, label) ==
    /\ pc' = [pc EXCEPT ![c] = label]
    /\ UNCHANGED <<candidate, attempts, outcome, cancelled>>

Return(c, result) ==
    /\ pc' = [pc EXCEPT ![c] = "returned"]
    /\ outcome' = [outcome EXCEPT ![c] = result]
    /\ UNCHANGED <<candidate, cancelled>>

\* A call whose ctx is done fails, before it starts or while it is under way.
CtxOk(c) == c \notin cancelled

-----------------------------------------------------------------------------
(* One attempt of retry.Do.                                                *)

OneMore(c) == attempts[c] <= MaxAttempts
AttemptsLeft(c) == attempts[c] < MaxAttempts

\* retry.Do looks at the ctx and at its counter before each attempt.
GiveUp(c) ==
    /\ pc[c] = "attempt"
    /\ c \in cancelled \/ ~AttemptsLeft(c)
    /\ Return(c, "error")
    /\ UNCHANGED <<chain, attempts, bn, signed>>

\* Blobs are not sent to a contract that does not exist yet.
Deployable(c) == candidate[c].blobs > 0 => candidate[c].to

\* craftTx up to the sidecar.
Attempt(c) ==
    /\ pc[c] = "attempt"
    /\ CtxOk(c) /\ AttemptsLeft(c)
    /\ Deployable(c)
    /\ attempts' = [attempts EXCEPT ![c] = @ + 1]
    /\ pc' = [pc EXCEPT ![c] = IF candidate[c].gasLimit = 0 THEN "estimate" ELSE "blockNumber"]
    /\ UNCHANGED <<chain, candidate, bn, signed, outcome, cancelled>>

\* The candidate is refused, or its sidecar cannot be made; and it will be again.
AttemptRefused(c) ==
    /\ pc[c] = "attempt"
    /\ CtxOk(c) /\ AttemptsLeft(c)
    /\ candidate[c].blobs > 0
    /\ attempts' = [attempts EXCEPT ![c] = @ + 1]
    /\ UNCHANGED <<chain, candidate, pc, bn, signed, outcome, cancelled>>

EstimateGas(c) ==
    /\ pc[c] = "estimate"
    /\ CtxOk(c)
    /\ Goto(c, "blockNumber")
    /\ UNCHANGED <<chain, bn, signed>>

BlockNumber(c) ==
    /\ pc[c] = "blockNumber"
    /\ CtxOk(c)
    /\ bn' = [bn EXCEPT ![c] = Len(chain)]
    /\ Goto(c, "blockByNumber")
    /\ UNCHANGED <<chain, signed>>

BlockByNumber(c) ==
    /\ pc[c] = "blockByNumber"
    /\ CtxOk(c)
    /\ Goto(c, "sign")
    /\ UNCHANGED <<chain, bn, signed>>

\* The message whose gas is estimated, and the transaction made of it: only
\* one of them has the value when there are blobs.  The block is the one whose
\* number was read, whatever came after it.
CallMsg(c) == [blobs |-> candidate[c].blobs, value |-> candidate[c].value]

TxMessage(c) ==
    [from |-> c, blobs |-> candidate[c].blobs,
     value |-> IF candidate[c].blobs > 0 THEN 0 ELSE candidate[c].value,
     block |-> bn[c], feeCap |-> BaseFeeCap(chain[bn[c]]),
     blobFeeCap |-> IF candidate[c].blobs > 0 THEN BlobFeeCap(chain[bn[c]]) ELSE 0]

\* signWithNextNonce, which NonceManager shows to be one step; a signer need
\* not look at the ctx.
Sign(c) ==
    /\ pc[c] = "sign"
    /\ signed' = Append(signed, TxMessage(c))
    /\ Return(c, "tx")
    /\ bn' = [bn EXCEPT ![c] = NoBlock]
    /\ UNCHANGED <<chain, attempts>>

Calling == {"estimate", "blockNumber", "blockByNumber", "sign"}

\* A signer that fails and a nonce that is not given back.
CallFailsAndKeepsNonce(c) ==
    /\ pc[c] \in Calling
    /\ Goto(c, "attempt")
    /\ bn' = [bn EXCEPT ![c] = NoBlock]
    /\ signed' = IF pc[c] = "sign" THEN Append(signed, TxMessage(c)) ELSE signed
    /\ UNCHANGED chain

\* A failed call that does not count as an attempt.
CallNotCounted(c) ==
    /\ pc[c] \in Calling
    /\ pc' = [pc EXCEPT ![c] = "attempt"]
    /\ attempts' = [attempts EXCEPT ![c] = @ - 1]
    /\ bn' = [bn EXCEPT ![c] = NoBlock]
    /\ UNCHANGED <<chain, candidate, signed, outcome, cancelled>>

\* A call fails, and the next attempt starts from nothing.
CallFails(c) ==
    /\ pc[c] \in Calling
    /\ Goto(c, "attempt")
    /\ bn' = [bn EXCEPT ![c] = NoBlock]
    /\ UNCHANGED <<chain, signed>>

\* The caller gives up.
Cancel(c) ==
    /\ pc[c] # "returned"
    /\ c \in Cancellable
    /\ cancelled' = cancelled \cup {c}
    /\ UNCHANGED <<chain, candidate, pc, attempts, bn, signed, outcome>>

\* The chain grows by a block that uses none or all of its gas and blobs, while
\* the fee of the one after it is within the bound.
Mine ==
    /\ Len(chain) < LastBlock
    /\ \E used \in {0, 2} :
          LET new == Child(chain[Len(chain)], used)
          IN  /\ CalcExcess(new) <= MaxExcess
              /\ chain' = Append(chain, new)
    /\ UNCHANGED <<candidate, pc, attempts, bn, signed, outcome, cancelled>>

-----------------------------------------------------------------------------
Prepare(c) ==
    \/ GiveUp(c)
    \/ Attempt(c)
    \/ AttemptRefused(c)
    \/ EstimateGas(c)
    \/ BlockNumber(c)
    \/ BlockByNumber(c)
    \/ Sign(c)
    \/ CallFails(c)

Next ==
    \/ \E c \in Callers : Prepare(c) \/ Cancel(c)
    \/ Mine

\* prepare keeps running; the chain and the caller owe nothing.
Spec == Init /\ [][Next]_vars /\ \A c \in Callers : WF_vars(Prepare(c))

-----------------------------------------------------------------------------
TypeOK ==
    /\ chain \in Seq(Block) /\ Len(chain) \in 1 .. LastBlock
    /\ candidate \in [Callers -> Candidates]
    /\ pc \in [Callers -> PcValues]
    /\ attempts \in [Callers -> 0 .. MaxAttempts]
    /\ bn \in [Callers -> 0 .. LastBlock]
    /\ signed \in Seq(Tx)
    /\ outcome \in [Callers -> {"running", "tx", "error"}]
    /\ cancelled \subseteq Cancellable

\* The caps are set once, from the block that was the latest at the time, and
\* never again while Send retries.  Doubling the base fee covers the next six
\* blocks, if every one of them is full.
BaseFeeCapCoversSixBlocks ==
    \A i \in DOMAIN signed :
        Len(chain) < signed[i].block + 6 =>
            CalcBaseFee(chain[Len(chain)]) <= signed[i].feeCap

\* The blob fee is the latest block's own, not the next one's, and a small one
\* loses up to half to rounding: doubling it covers the next three blocks only.
BlobFeeCapCoversThreeBlocks ==
    \A i \in DOMAIN signed :
        signed[i].blobs > 0 /\ Len(chain) < signed[i].block + 3 =>
            CalcBlobFee[CalcExcess(chain[Len(chain)])] <= signed[i].blobFeeCap

\* Attempts that fail spend no nonce, and one prepare never signs twice: no
\* transaction of a later Send waits for one that nobody has.
TxPreparation ==
    INSTANCE TxPreparation WITH issued <- [i \in DOMAIN signed |-> signed[i].from]

ImplementsTxPreparation == TxPreparation!Spec

\* prepare returns, also for a candidate that no attempt can make a transaction
\* of, and when every call fails.
PrepareReturns == \A c \in Callers : pc[c] = "attempt" ~> pc[c] = "returned"

\* The gas limit is estimated for the transaction that is signed (line 282).
GasIsForTheTransaction ==
    \A i \in DOMAIN signed :
        LET t == signed[i]
        IN  candidate[t.from].gasLimit = 0 => t.value = CallMsg(t.from).value
=============================================================================
