---------------------------- MODULE CraftTxProofs ----------------------------
(***************************************************************************)
(* Proofs about CraftTx for any number of Sends, any candidates, any number *)
(* of attempts and blocks.                                                 *)
(***************************************************************************)
EXTENDS CraftTx, CommonLemmas

\* Each block follows from the one before it, and base fees stay above the point
\* where an eighth of them is nothing.
ChainInv ==
    /\ \A n \in 1 .. Len(chain) :
          /\ chain[n].baseFee >= MinBaseFee
          /\ CalcExcess(chain[n]) \in 0 .. MaxExcess
    /\ \A n \in 1 .. Len(chain) - 1 : \E used \in {0, 2} : chain[n + 1] = Child(chain[n], used)

\* A transaction has the caps that its block gives it, for ever.
PriceInv ==
    \A i \in DOMAIN signed :
        LET t == signed[i]
        IN  /\ t.block \in 1 .. Len(chain)
            /\ t.feeCap = BaseFeeCap(chain[t.block])
            /\ t.blobs > 0 => t.blobFeeCap = BlobFeeCap(chain[t.block])

\* A number read is that of a block, and who has no result is still running.
CallInv ==
    \A c \in Callers :
        /\ pc[c] \in {"blockByNumber", "sign"} => bn[c] \in 1 .. Len(chain)
        /\ outcome[c] = "running" <=> pc[c] # "returned"

IInv == TypeOK /\ ChainInv /\ PriceInv /\ CallInv

-----------------------------------------------------------------------------
(* The fee market.                                                         *)

\* Max of go-ethereum's fee rules, which is always of two numbers.
LEMMA MaxOfTwo ==
    ASSUME NEW a \in Int, NEW b \in Int
    PROVE  Max({a, b}) = IF a >= b THEN a ELSE b
<1>1. \A m \in {a, b} : (\A y \in {a, b} : m >= y) <=> (m >= a /\ m >= b)
  OBVIOUS
<1>2. Max({a, b}) = CHOOSE m \in {a, b} : m >= a /\ m >= b
  BY <1>1 DEF Max
<1>3. \E m \in {a, b} : m >= a /\ m >= b
  OBVIOUS
<1>4. Max({a, b}) \in {a, b} /\ Max({a, b}) >= a /\ Max({a, b}) >= b
  BY <1>2, <1>3
<1> QED
  BY <1>4

\* An eighth up at most, or one; it does not matter whose eighth is rounded.
LEMMA BaseFeeStep ==
    ASSUME NEW blk \in Block, blk.baseFee >= MinBaseFee
    PROVE  /\ CalcBaseFee(blk) \in Nat
           /\ CalcBaseFee(blk) >= MinBaseFee
           /\ 7 * CalcBaseFee(blk) <= 8 * blk.baseFee
<1> DEFINE f == blk.baseFee
<1>1. f \in Nat /\ f >= 7 /\ blk.used \in 0 .. 2
  BY DEF Block, MinBaseFee
<1>2. CASE blk.used = 1
  BY <1>1, <1>2 DEF CalcBaseFee, MinBaseFee
<1>3. CASE blk.used = 2
  <2>1. CalcBaseFee(blk) = f + Max({1, f \div 8})
    BY <1>1, <1>3 DEF CalcBaseFee
  <2>2. f \div 8 \in Int /\ 8 * (f \div 8) <= f
    BY <1>1
  <2>3. Max({1, f \div 8}) = IF 1 >= f \div 8 THEN 1 ELSE f \div 8
    BY <2>2, MaxOfTwo
  <2> QED
    BY <1>1, <2>1, <2>2, <2>3 DEF MinBaseFee
<1>4. CASE blk.used = 0
  <2>1. CalcBaseFee(blk) = f - (f \div 8)
    BY <1>1, <1>4 DEF CalcBaseFee
  <2>2. f \div 8 \in Int /\ 8 * (f \div 8) <= f /\ f < 8 * (f \div 8) + 8 /\ f \div 8 >= 0
    BY <1>1
  <2> QED
    BY <1>1, <2>1, <2>2 DEF MinBaseFee
<1> QED
  BY <1>1, <1>2, <1>3, <1>4

\* The excess grows by a block's target at most.
LEMMA ExcessStep ==
    ASSUME NEW blk \in Block
    PROVE  CalcExcess(blk) \in Nat /\ CalcExcess(blk) <= blk.excess + BlobTarget
<1>1. blk.excess \in Nat /\ blk.used \in 0 .. 2 /\ blk.used \in Int
  BY DEF Block, MaxExcess
<1> DEFINE e == blk.excess + BlobTarget * (blk.used - 1)
<1>2. e \in Int /\ e <= blk.excess + BlobTarget
  BY <1>1 DEF BlobTarget
<1>3. CalcExcess(blk) = IF 0 >= e THEN 0 ELSE e
  BY <1>2, MaxOfTwo DEF CalcExcess
<1> QED
  BY <1>1, <1>2, <1>3 DEF BlobTarget

\* What is assumed of the first block and of the bounds, in numbers.
LEMMA GenesisFacts ==
    /\ Genesis \in Block /\ Genesis.baseFee >= MinBaseFee
    /\ CalcExcess(Genesis) \in 0 .. MaxExcess
    /\ LastBlock \in Nat \ {0} /\ MaxAttempts \in Nat \ {0}
<1>1. CalcExcess(Genesis) \in Nat
  BY GenesisAssumption, ExcessStep
<1>2. CalcExcess(Genesis) <= MaxExcess
  BY GenesisAssumption
<1> QED
  BY <1>1, <1>2, GenesisAssumption, BoundsAssumption DEF MaxExcess

-----------------------------------------------------------------------------
\* The strengthened invariant holds at first,
LEMMA InvInit == Init => IInv
<1> SUFFICES ASSUME Init
             PROVE  IInv
  OBVIOUS
<1> USE GenesisAssumption, BoundsAssumption DEF Init
<1>1. chain \in Seq(Block) /\ Len(chain) = 1 /\ chain[1] = Genesis
  OBVIOUS
<1>2. signed \in Seq(Tx) /\ DOMAIN signed = 1 .. 0
  BY EmptySeq, LenProperties
<1>3. TypeOK
  <2>1. Len(chain) \in 1 .. LastBlock /\ 0 \in 0 .. MaxAttempts /\ NoBlock \in 0 .. LastBlock
    BY <1>1 DEF NoBlock
  <2> QED
    BY <1>1, <1>2, <2>1 DEF TypeOK, PcValues
<1>4. ChainInv
  <2>1. \A n \in 1 .. Len(chain) : n = 1
    BY <1>1
  <2>2. \A n \in 1 .. Len(chain) - 1 : FALSE
    BY <1>1
  <2> QED
    BY <1>1, <2>1, <2>2, GenesisFacts DEF ChainInv
<1>5. PriceInv /\ CallInv
  BY <1>2 DEF PriceInv, CallInv
<1> QED
  BY <1>3, <1>4, <1>5 DEF IInv

\* A block is added; those before it stay, and so do the prices taken from them.
LEMMA MineStep == IInv /\ Mine => IInv'
<1> SUFFICES ASSUME IInv, Mine
             PROVE  IInv'
  OBVIOUS
<1> DEFINE last == chain[Len(chain)]
           new(used) == Child(last, used)
<1>1. PICK used \in {0, 2} : CalcExcess(new(used)) <= MaxExcess /\ chain' = Append(chain, new(used))
  BY DEF Mine
<1> DEFINE block == new(used)
<1>2. /\ chain \in Seq(Block) /\ Len(chain) \in Nat \ {0} /\ Len(chain) < LastBlock
      /\ last \in Block /\ last.baseFee >= MinBaseFee
      /\ CalcExcess(last) \in 0 .. MaxExcess
  BY BoundsAssumption DEF IInv, TypeOK, ChainInv, Mine
<1>3. CalcBaseFee(last) \in Nat /\ CalcBaseFee(last) >= MinBaseFee
  BY <1>2, BaseFeeStep
<1>4. /\ block \in Block /\ block.baseFee = CalcBaseFee(last)
      /\ CalcExcess(block) \in 0 .. MaxExcess
  <2> HIDE DEF last
  <2>1. block = [baseFee |-> CalcBaseFee(last), excess |-> CalcExcess(last), used |-> used]
    BY DEF Child
  <2>2. used \in 0 .. 2
    OBVIOUS
  <2>3. block \in Block
    BY <1>2, <1>3, <2>1, <2>2 DEF Block
  <2>4. CalcExcess(block) \in Nat /\ CalcExcess(block) <= MaxExcess
    BY <1>1, <2>3, ExcessStep
  <2> QED
    BY <2>1, <2>3, <2>4 DEF MaxExcess
<1>0. chain' = Append(chain, block)
  BY <1>1
<1> HIDE DEF block, last
<1>5. /\ chain' \in Seq(Block) /\ Len(chain') = Len(chain) + 1
      /\ chain'[Len(chain) + 1] = block
      /\ \A n \in 1 .. Len(chain) : chain'[n] = chain[n]
  BY <1>0, <1>2, <1>4, AppendProperties
<1>6. UNCHANGED <<candidate, pc, attempts, bn, signed, outcome, cancelled>>
  BY DEF Mine
<1>7. TypeOK'
  BY <1>2, <1>5, <1>6, BoundsAssumption DEF IInv, TypeOK
<1>8. ChainInv'
  <2>1. ASSUME NEW n \in 1 .. Len(chain')
        PROVE  /\ chain'[n].baseFee >= MinBaseFee
               /\ CalcExcess(chain'[n]) \in 0 .. MaxExcess
    <3>1. CASE n \in 1 .. Len(chain)
      BY <1>5, <3>1 DEF IInv, ChainInv
    <3>2. CASE n = Len(chain) + 1
      BY <1>3, <1>4, <1>5, <3>2
    <3> QED
      BY <1>2, <1>5, <3>1, <3>2
  <2>2. ASSUME NEW n \in 1 .. Len(chain') - 1
        PROVE  \E u \in {0, 2} : chain'[n + 1] = Child(chain'[n], u)
    <3>1. CASE n \in 1 .. Len(chain) - 1
      <4>1. n + 1 \in 1 .. Len(chain) /\ n \in 1 .. Len(chain)
        BY <1>2, <3>1
      <4> QED
        BY <1>5, <3>1, <4>1 DEF IInv, ChainInv
    <3>2. CASE n = Len(chain)
      BY <1>2, <1>5, <3>2 DEF block, last
    <3> QED
      BY <1>2, <1>5, <3>1, <3>2
  <2> QED
    BY <2>1, <2>2 DEF ChainInv
<1>9. PriceInv'
  <2> SUFFICES ASSUME NEW i \in DOMAIN signed
               PROVE  /\ signed[i].block \in 1 .. Len(chain')
                      /\ signed[i].feeCap = BaseFeeCap(chain'[signed[i].block])
                      /\ signed[i].blobs > 0 =>
                            signed[i].blobFeeCap = BlobFeeCap(chain'[signed[i].block])
    BY <1>6 DEF PriceInv
  <2>1. /\ signed[i].block \in 1 .. Len(chain)
        /\ signed[i].feeCap = BaseFeeCap(chain[signed[i].block])
        /\ signed[i].blobs > 0 =>
              signed[i].blobFeeCap = BlobFeeCap(chain[signed[i].block])
    BY DEF IInv, PriceInv
  <2> QED
    BY <1>2, <1>5, <2>1
<1>10. CallInv'
  BY <1>2, <1>5, <1>6 DEF IInv, CallInv
<1> QED
  BY <1>7, <1>8, <1>9, <1>10 DEF IInv

\* The transaction made of a candidate is priced by the block that was read.
LEMMA TxMessageType ==
    ASSUME IInv, NEW c \in Callers, pc[c] = "sign"
    PROVE  /\ TxMessage(c) \in Tx
           /\ TxMessage(c).from = c
           /\ TxMessage(c).block \in 1 .. Len(chain)
           /\ TxMessage(c).feeCap = BaseFeeCap(chain[TxMessage(c).block])
           /\ TxMessage(c).blobs > 0 =>
                 TxMessage(c).blobFeeCap = BlobFeeCap(chain[TxMessage(c).block])
<1> DEFINE blk == chain[bn[c]]
<1>1. bn[c] \in 1 .. Len(chain) /\ bn[c] \in Nat /\ blk \in Block /\ blk.baseFee >= MinBaseFee
  BY BoundsAssumption DEF IInv, TypeOK, CallInv, ChainInv
<1>2. candidate[c].blobs \in Nat /\ candidate[c].value \in Nat
  BY CandidatesAssumption DEF IInv, TypeOK, Candidate
<1>3. BaseFeeCap(blk) \in Nat
  <2>1. CalcBaseFee(blk) \in Nat
    BY <1>1, BaseFeeStep
  <2> QED
    BY <2>1 DEF BaseFeeCap
<1>4. BlobFeeCap(blk) \in BlobFeeCaps
  <2>1. blk.excess \in 0 .. MaxExcess
    BY <1>1 DEF Block
  <2>2. [excess |-> blk.excess] \in [excess : 0 .. MaxExcess]
    BY <2>1
  <2>3. BlobFeeCap([excess |-> blk.excess]) = BlobFeeCap(blk)
    BY DEF BlobFeeCap
  <2> QED
    BY <2>2, <2>3 DEF BlobFeeCaps
<1> HIDE DEF blk
<1>5. /\ TxMessage(c).from = c
      /\ TxMessage(c).block = bn[c]
      /\ TxMessage(c).feeCap = BaseFeeCap(blk)
      /\ TxMessage(c).blobs > 0 => TxMessage(c).blobFeeCap = BlobFeeCap(blk)
  BY DEF TxMessage, blk
<1>6. TxMessage(c) \in Tx
  BY <1>1, <1>2, <1>3, <1>4 DEF TxMessage, Tx, blk
<1> QED
  BY <1>1, <1>5, <1>6 DEF blk

\* A nonce is signed over once its caller's craft is done.
LEMMA SignStep == ASSUME IInv, NEW c \in Callers, Sign(c) PROVE IInv'
<1>1. /\ signed \in Seq(Tx) /\ pc[c] = "sign" /\ signed' = Append(signed, TxMessage(c))
      /\ pc' = [pc EXCEPT ![c] = "returned"] /\ outcome' = [outcome EXCEPT ![c] = "tx"]
      /\ bn' = [bn EXCEPT ![c] = NoBlock]
      /\ UNCHANGED <<chain, candidate, attempts, cancelled>>
  BY DEF IInv, TypeOK, Sign, Return
<1>2. /\ signed' \in Seq(Tx)
      /\ \A i \in DOMAIN signed' :
            \/ i \in DOMAIN signed /\ signed'[i] = signed[i]
            \/ signed'[i] = TxMessage(c)
  BY <1>1, TxMessageType, AppendProperties
<1>3. TypeOK'
  BY <1>1, <1>2, BoundsAssumption DEF IInv, TypeOK, PcValues, NoBlock
<1>4. ChainInv' /\ PriceInv'
  BY <1>1, <1>2, TxMessageType DEF IInv, ChainInv, PriceInv
<1>5. CallInv'
  BY <1>1 DEF IInv, TypeOK, CallInv
<1> QED
  BY <1>3, <1>4, <1>5 DEF IInv

\* The other steps of an attempt sign nothing.
LEMMA AttemptStep ==
    ASSUME IInv, NEW c \in Callers, Prepare(c), ~Sign(c)
    PROVE  IInv'
<1> USE BoundsAssumption DEF IInv
<1>1. ASSUME NEW label \in PcValues, pc' = [pc EXCEPT ![c] = label],
             attempts' \in [Callers -> 0 .. MaxAttempts],
             outcome' = [outcome EXCEPT ![c] = IF label = "returned" THEN "error" ELSE @],
             pc[c] # "returned",
             bn' \in [Callers -> 0 .. LastBlock], \A d \in Callers : d # c => bn'[d] = bn[d],
             label \in {"blockByNumber", "sign"} => bn'[c] \in 1 .. Len(chain),
             UNCHANGED <<chain, candidate, signed, cancelled>>
      PROVE  IInv'
  <2>1. TypeOK'
    BY <1>1 DEF TypeOK
  <2>2. ChainInv' /\ PriceInv'
    BY <1>1 DEF ChainInv, PriceInv
  <2>3. CallInv'
    BY <1>1 DEF TypeOK, CallInv
  <2> QED
    BY <2>1, <2>2, <2>3
<1>2. /\ pc \in [Callers -> PcValues] /\ attempts \in [Callers -> 0 .. MaxAttempts]
      /\ bn \in [Callers -> 0 .. LastBlock] /\ Len(chain) \in 1 .. LastBlock
      /\ outcome \in [Callers -> {"running", "tx", "error"}]
  BY DEF TypeOK
<1> HIDE DEF IInv
<1>3. CASE GiveUp(c)
  BY <1>1, <1>2, <1>3 DEF GiveUp, Return, PcValues
<1>4. CASE Attempt(c) \/ AttemptRefused(c)
  <2>1. attempts' \in [Callers -> 0 .. MaxAttempts]
    BY <1>2, <1>4 DEF Attempt, AttemptRefused, AttemptsLeft
  <2>2. PICK label \in {"attempt", "estimate", "blockNumber"} : pc' = [pc EXCEPT ![c] = label]
    <3>1. CASE Attempt(c)
      BY <3>1 DEF Attempt
    <3>2. CASE AttemptRefused(c)
      BY <1>2, <3>2 DEF AttemptRefused
    <3> QED
      BY <1>4, <3>1, <3>2
  <2>3. /\ UNCHANGED <<chain, candidate, bn, signed, outcome, cancelled>> /\ pc[c] = "attempt"
    BY <1>4 DEF Attempt, AttemptRefused
  <2> QED
    BY <1>1, <1>2, <2>1, <2>2, <2>3 DEF PcValues
<1>5. CASE EstimateGas(c) \/ BlockByNumber(c)
  <2>1. pc[c] = "blockByNumber" => bn[c] \in 1 .. Len(chain)
    BY DEF IInv, CallInv
  <2> QED
    BY <1>1, <1>2, <1>5, <2>1 DEF EstimateGas, BlockByNumber, Goto, PcValues
<1>6. CASE BlockNumber(c)
  BY <1>1, <1>2, <1>6 DEF BlockNumber, Goto, PcValues
<1>7. CASE CallFails(c)
  BY <1>1, <1>2, <1>7 DEF CallFails, Goto, PcValues, Calling, NoBlock
<1> QED
  BY <1>3, <1>4, <1>5, <1>6, <1>7 DEF Prepare

\* ... and every step keeps it.
LEMMA InvNext == IInv /\ [Next]_vars => IInv'
<1>1. ASSUME IInv, NEW c \in Callers, Cancel(c)
      PROVE  IInv'
  BY <1>1 DEF IInv, Cancel, TypeOK, ChainInv, PriceInv, CallInv
<1>2. ASSUME IInv, UNCHANGED vars
      PROVE  IInv'
  BY <1>2 DEF IInv, vars, TypeOK, ChainInv, PriceInv, CallInv
<1> QED
  BY <1>1, <1>2, MineStep, SignStep, AttemptStep DEF Next

\* The inductive invariant holds however the Sends and the chain interleave.
THEOREM Invariance == Spec => []IInv
  BY InvInit, InvNext, PTL DEF Spec

\* No prepare makes more attempts than it may, and what it signs is a priced
\* transaction.
THEOREM TypeCorrect == Spec => []TypeOK
<1>1. IInv => TypeOK
  BY DEF IInv
<1> QED
  BY <1>1, Invariance, PTL

-----------------------------------------------------------------------------
(* The cap on the base fee.                                                *)

\* Both fees are natural numbers, and one block raises the fee by an eighth at
\* most.
LEMMA FeeStep ==
    ASSUME IInv, NEW n \in 1 .. Len(chain)
    PROVE  /\ CalcBaseFee(chain[n]) \in Nat
           /\ n + 1 <= Len(chain) =>
                /\ CalcBaseFee(chain[n + 1]) \in Nat
                /\ 7 * CalcBaseFee(chain[n + 1]) <= 8 * CalcBaseFee(chain[n])
<1>1. ASSUME NEW m \in 1 .. Len(chain)
      PROVE  chain[m] \in Block /\ chain[m].baseFee >= MinBaseFee
  BY DEF IInv, TypeOK, ChainInv
<1>2. CalcBaseFee(chain[n]) \in Nat
  BY <1>1, BaseFeeStep
<1>3. ASSUME n + 1 <= Len(chain)
      PROVE  /\ CalcBaseFee(chain[n + 1]) \in Nat
             /\ 7 * CalcBaseFee(chain[n + 1]) <= 8 * CalcBaseFee(chain[n])
  <2>1. Len(chain) \in Nat
    BY DEF IInv, TypeOK
  <2>2. n + 1 \in 1 .. Len(chain) /\ n \in 1 .. Len(chain) - 1
    BY <1>3, <2>1
  <2>3. chain[n + 1].baseFee = CalcBaseFee(chain[n])
    <3>1. PICK used \in {0, 2} : chain[n + 1] = Child(chain[n], used)
      BY <2>2 DEF IInv, ChainInv
    <3> QED
      BY <3>1 DEF Child
  <2> QED
    BY <1>1, <2>2, <2>3, BaseFeeStep
<1> QED
  BY <1>2, <1>3

\* The ratios of the lemma below: one eighth more than each is at most the next.
LEMMA Rise ==
    ASSUME NEW f \in Nat, NEW g \in Nat, NEW h \in Nat, 7 * h <= 8 * g
    PROVE  /\ 7 * g <= 8 * f => 3 * h <= 4 * f
           /\ 3 * g <= 4 * f => 21 * h <= 32 * f
           /\ 21 * g <= 32 * f => 4 * h <= 7 * f
           /\ 4 * g <= 7 * f => h <= 2 * f
<1>1. 7 * g <= 8 * f => 3 * h <= 4 * f
  OBVIOUS
<1>2. 3 * g <= 4 * f => 21 * h <= 32 * f
  OBVIOUS
<1>3. 21 * g <= 32 * f => 4 * h <= 7 * f
  OBVIOUS
<1>4. 4 * g <= 7 * f => h <= 2 * f
  OBVIOUS
<1> QED
  BY <1>1, <1>2, <1>3, <1>4

\* Five blocks raise it less than twofold: 8^5 < 2 * 7^5, here by way of
\* 8/7, 4/3, 32/21, 7/4 and 2.
LEMMA FiveSteps ==
    ASSUME IInv, NEW n \in 1 .. Len(chain), Len(chain) < n + 6
    PROVE  CalcBaseFee(chain[Len(chain)]) <= 2 * CalcBaseFee(chain[n])
<1> DEFINE fee(m) == CalcBaseFee(chain[m])
           last == Len(chain)
<1>1. last \in Nat /\ n \in Nat /\ n <= last /\ last <= n + 5
  BY DEF IInv, TypeOK
<1>2. \A m \in 1 .. last :
        /\ fee(m) \in Nat
        /\ m + 1 <= last => fee(m + 1) \in Nat /\ 7 * fee(m + 1) <= 8 * fee(m)
  BY FeeStep
<1> HIDE DEF fee, last
<1> SUFFICES fee(last) <= 2 * fee(n)
  BY DEF fee, last
<1>3. \A m \in Nat : n <= m /\ m <= last => m \in 1 .. last
  BY <1>1
<1>4. fee(n) \in Nat
  BY <1>1, <1>2, <1>3
<1>5. n + 1 <= last => fee(n + 1) \in Nat /\ 7 * fee(n + 1) <= 8 * fee(n)
  BY <1>1, <1>2, <1>3
<1>6. n + 2 <= last => fee(n + 2) \in Nat /\ 7 * fee(n + 2) <= 8 * fee(n + 1)
  <2>1. n + 2 <= last => n + 1 \in 1 .. last /\ (n + 1) + 1 = n + 2
    BY <1>1
  <2> QED
    BY <1>2, <2>1
<1>7. n + 3 <= last => fee(n + 3) \in Nat /\ 7 * fee(n + 3) <= 8 * fee(n + 2)
  <2>1. n + 3 <= last => n + 2 \in 1 .. last /\ (n + 2) + 1 = n + 3
    BY <1>1
  <2> QED
    BY <1>2, <2>1
<1>8. n + 4 <= last => fee(n + 4) \in Nat /\ 7 * fee(n + 4) <= 8 * fee(n + 3)
  <2>1. n + 4 <= last => n + 3 \in 1 .. last /\ (n + 3) + 1 = n + 4
    BY <1>1
  <2> QED
    BY <1>2, <2>1
<1>9. n + 5 <= last => fee(n + 5) \in Nat /\ 7 * fee(n + 5) <= 8 * fee(n + 4)
  <2>1. n + 5 <= last => n + 4 \in 1 .. last /\ (n + 4) + 1 = n + 5
    BY <1>1
  <2> QED
    BY <1>2, <2>1
<1>10. last = n \/ last = n + 1 \/ last = n + 2 \/ last = n + 3 \/ last = n + 4 \/ last = n + 5
  BY <1>1
<1>11. n + 1 <= last => 7 * fee(n + 1) <= 8 * fee(n)
  BY <1>5
<1>12. ASSUME n + 2 <= last
       PROVE  3 * fee(n + 2) <= 4 * fee(n)
  <2>1. n + 1 <= last
    BY <1>1, <1>12
  <2>2. fee(n + 1) \in Nat /\ 7 * fee(n + 1) <= 8 * fee(n)
    BY <2>1, <1>5, <1>11
  <2>3. fee(n + 2) \in Nat /\ 7 * fee(n + 2) <= 8 * fee(n + 1)
    BY <1>12, <1>6
  <2> QED
    BY <1>4, <2>2, <2>3, Rise
<1>13. ASSUME n + 3 <= last
       PROVE  21 * fee(n + 3) <= 32 * fee(n)
  <2>1. n + 2 <= last
    BY <1>1, <1>13
  <2>2. fee(n + 2) \in Nat /\ 3 * fee(n + 2) <= 4 * fee(n)
    BY <2>1, <1>6, <1>12
  <2>3. fee(n + 3) \in Nat /\ 7 * fee(n + 3) <= 8 * fee(n + 2)
    BY <1>13, <1>7
  <2> QED
    BY <1>4, <2>2, <2>3, Rise
<1>14. ASSUME n + 4 <= last
       PROVE  4 * fee(n + 4) <= 7 * fee(n)
  <2>1. n + 3 <= last
    BY <1>1, <1>14
  <2>2. fee(n + 3) \in Nat /\ 21 * fee(n + 3) <= 32 * fee(n)
    BY <2>1, <1>7, <1>13
  <2>3. fee(n + 4) \in Nat /\ 7 * fee(n + 4) <= 8 * fee(n + 3)
    BY <1>14, <1>8
  <2> QED
    BY <1>4, <2>2, <2>3, Rise
<1>15. ASSUME n + 5 <= last
       PROVE  fee(n + 5) <= 2 * fee(n)
  <2>1. n + 4 <= last
    BY <1>1, <1>15
  <2>2. fee(n + 4) \in Nat /\ 4 * fee(n + 4) <= 7 * fee(n)
    BY <2>1, <1>8, <1>14
  <2>3. fee(n + 5) \in Nat /\ 7 * fee(n + 5) <= 8 * fee(n + 4)
    BY <1>15, <1>9
  <2> QED
    BY <1>4, <2>2, <2>3, Rise
<1>16. CASE last = n
  BY <1>4, <1>16
<1>17. CASE last = n + 1
  <2>1. fee(n + 1) \in Nat /\ 7 * fee(n + 1) <= 8 * fee(n)
    BY <1>1, <1>5, <1>11, <1>17
  <2> QED
    BY <1>4, <1>17, <2>1
<1>18. CASE last = n + 2
  <2>1. fee(n + 2) \in Nat /\ 3 * fee(n + 2) <= 4 * fee(n)
    BY <1>1, <1>6, <1>12, <1>18
  <2> QED
    BY <1>4, <1>18, <2>1
<1>19. CASE last = n + 3
  <2>1. fee(n + 3) \in Nat /\ 21 * fee(n + 3) <= 32 * fee(n)
    BY <1>1, <1>7, <1>13, <1>19
  <2> QED
    BY <1>4, <1>19, <2>1
<1>20. CASE last = n + 4
  <2>1. fee(n + 4) \in Nat /\ 4 * fee(n + 4) <= 7 * fee(n)
    BY <1>1, <1>8, <1>14, <1>20
  <2> QED
    BY <1>4, <1>20, <2>1
<1>21. CASE last = n + 5
  <2>1. fee(n + 5) \in Nat /\ fee(n + 5) <= 2 * fee(n)
    BY <1>1, <1>9, <1>15, <1>21
  <2> QED
    BY <1>4, <1>21, <2>1
<1> QED
  BY <1>10, <1>16, <1>17, <1>18, <1>19, <1>20, <1>21

\* Whatever the chain does, a cap covers the six blocks after the one it was
\* taken from.
THEOREM BaseFeeCapHolds == Spec => []BaseFeeCapCoversSixBlocks
<1>1. IInv => BaseFeeCapCoversSixBlocks
  <2> SUFFICES ASSUME IInv, NEW i \in DOMAIN signed, Len(chain) < signed[i].block + 6
               PROVE  CalcBaseFee(chain[Len(chain)]) <= signed[i].feeCap
    BY DEF BaseFeeCapCoversSixBlocks
  <2>1. /\ signed[i].block \in 1 .. Len(chain)
        /\ signed[i].feeCap = 2 * CalcBaseFee(chain[signed[i].block])
    BY DEF IInv, PriceInv, BaseFeeCap
  <2> QED
    BY <2>1, FiveSteps
<1> QED
  BY <1>1, Invariance, PTL

-----------------------------------------------------------------------------
(* The cap on the blob fee.                                                *)

\* What an iteration makes of the terms.
Iterate(excess, i, state) ==
    [output |-> state.output + state.accum,
     accum |-> ((state.accum * 100 * excess) \div BlobFraction) \div i]

\* An iteration keeps two natural numbers.
LEMMA IterateType ==
    ASSUME NEW excess \in Nat, NEW i \in Nat \ {0}, NEW s \in [output : Nat, accum : Nat]
    PROVE  Iterate(excess, i, s) \in [output : Nat, accum : Nat]
<1> DEFINE t == s.accum * 100 * excess
<1>1. s.accum \in Nat /\ s.output \in Nat
  OBVIOUS
<1>2. t \in Nat
  BY <1>1
<1> HIDE DEF t
<1>3. t \div BlobFraction \in Nat
  BY <1>2 DEF BlobFraction
<1> DEFINE u == t \div BlobFraction
<1> HIDE DEF u
<1>4. u \in Nat /\ u \div i \in Nat
  BY <1>3 DEF u
<1> QED
  BY <1>1, <1>4 DEF Iterate, t, u

\* The loop, started and continued: the recursive function is what it says.
LEMMA LoopSteps ==
    ASSUME NEW excess \in Nat
    PROVE  /\ Loop(excess) \in [0 .. Iterations -> [output : Nat, accum : Nat]]
           /\ Loop(excess)[0] = [output |-> 0, accum |-> BlobFraction]
           /\ \A i \in 1 .. Iterations : Loop(excess)[i] = Iterate(excess, i, Loop(excess)[i - 1])
<1> DEFINE S == [output : Nat, accum : Nat]
           first == [output |-> 0, accum |-> BlobFraction]
           step == [n \in Nat |-> [s \in S |-> Iterate(excess, n + 1, s)]]
           body(f) == [i \in 0 .. Iterations |->
                          IF i = 0 THEN first ELSE Iterate(excess, i, f[i - 1])]
<1>1. first \in S
  BY DEF BlobFraction
<1>2. step \in [Nat -> [S -> S]]
  <2>1. ASSUME NEW n \in Nat, NEW s \in S
        PROVE  Iterate(excess, n + 1, s) \in S
    BY IterateType
  <2> HIDE DEF S
  <2> QED
    BY <2>1
<1> HIDE DEF S, first, step
<1>3. PICK f : Follows(f, S, first, step)
  BY <1>1, <1>2, Recursion
<1>4. \A i \in 1 .. Iterations : f[i] = Iterate(excess, i, f[i - 1])
  <2> SUFFICES ASSUME NEW i \in 1 .. Iterations
               PROVE  f[i] = Iterate(excess, i, f[i - 1])
    OBVIOUS
  <2>1. i - 1 \in Nat /\ (i - 1) + 1 = i
    BY DEF Iterations
  <2>2. f[i] = step[i - 1][f[i - 1]] /\ f[i - 1] \in S
    BY <1>3, <2>1 DEF Follows
  <2> QED
    BY <2>1, <2>2 DEF step
<1> DEFINE g == [i \in 0 .. Iterations |-> f[i]]
<1>5. g = body(g)
  <2>1. ASSUME NEW i \in 0 .. Iterations
        PROVE  f[i] = IF i = 0 THEN first ELSE Iterate(excess, i, g[i - 1])
    <3>1. CASE i = 0
      BY <1>3, <3>1 DEF Follows
    <3>2. CASE i # 0
      <4>1. i \in 1 .. Iterations /\ i - 1 \in 0 .. Iterations
        BY <3>2 DEF Iterations
      <4> QED
        BY <1>4, <3>2, <4>1
    <3> QED
      BY <3>1, <3>2
  <2> QED
    BY <2>1
<1>6. Loop(excess) = CHOOSE h : h = body(h)
  BY DEF Loop, Iterate, first
<1>7. Loop(excess) = body(Loop(excess))
  <2> HIDE DEF g, body
  <2> QED
    BY <1>5, <1>6
<1> DEFINE h == Loop(excess)
<1> HIDE DEF h
<1>8. h = [i \in 0 .. Iterations |-> IF i = 0 THEN first ELSE Iterate(excess, i, h[i - 1])]
  BY <1>7 DEF h
<1>9. h[0] = first /\ \A i \in 1 .. Iterations : h[i] = Iterate(excess, i, h[i - 1])
  <2>1. 0 \in 0 .. Iterations /\ \A i \in 1 .. Iterations : i \in 0 .. Iterations /\ i # 0
    BY DEF Iterations
  <2> QED
    BY <1>8, <2>1
<1> DEFINE T == {i \in Nat : i <= Iterations => h[i] \in S}
<1>10. Nat \subseteq T
  <2>1. 0 \in T
    BY <1>1, <1>9
  <2>2. ASSUME NEW i \in Nat, i \in T
        PROVE  i + 1 \in T
    <3>1. ASSUME i + 1 <= Iterations
          PROVE  h[i + 1] \in S
      <4>1. i + 1 \in 1 .. Iterations /\ (i + 1) - 1 = i /\ h[i] \in S
        BY <2>2, <3>1 DEF Iterations
      <4>2. h[i + 1] = Iterate(excess, i + 1, h[i])
        BY <1>9, <4>1
      <4> QED
        BY <4>1, <4>2, IterateType DEF S
    <3> QED
      BY <3>1
  <2> HIDE DEF T
  <2> QED
    BY <2>1, <2>2, Induction
<1>11. h \in [0 .. Iterations -> S]
  <2>1. \A i \in 0 .. Iterations : h[i] \in S
    BY <1>10 DEF Iterations
  <2> QED
    BY <1>8, <2>1
<1> QED
  BY <1>9, <1>11 DEF h, S, first
\* The numbers an iteration computes, for an excess and a term that are not below
\* those of another.
LEMMA IterateGrows ==
    ASSUME NEW d \in Nat, NEW e \in Nat, d <= e, NEW i \in 1 .. Iterations,
           NEW s \in [output : Nat, accum : Nat], NEW t \in [output : Nat, accum : Nat],
           s.output <= t.output, s.accum <= t.accum
    PROVE  /\ Iterate(d, i, s).output <= Iterate(e, i, t).output
           /\ Iterate(d, i, s).accum <= Iterate(e, i, t).accum
<1> DEFINE a == s.accum * 100 * d
           b == t.accum * 100 * e
<1>1. s.accum \in Nat /\ t.accum \in Nat /\ s.output \in Nat /\ t.output \in Nat
  OBVIOUS
<1>2. a \in Nat /\ b \in Nat /\ a <= b
  <2>1. ASSUME NEW x \in Nat, NEW y \in Nat, x <= y
        PROVE  x * 100 * d \in Nat /\ y * 100 * e \in Nat /\ x * 100 * d <= y * 100 * e
    <3>1. x * d <= y * d /\ y * d <= y * e
      BY <2>1
    <3>2. x * 100 * d = 100 * (x * d) /\ y * 100 * e = 100 * (y * e)
      OBVIOUS
    <3>3. x * d \in Nat /\ y * e \in Nat /\ x * d <= y * e
      BY <3>1
    <3> HIDE <2>1
    <3> QED
      BY <3>2, <3>3
  <2> QED
    BY <1>1, <2>1
<1> HIDE DEF a, b
<1> DEFINE p == a \div BlobFraction
           q == b \div BlobFraction
<1>3. p \in Nat /\ q \in Nat /\ p <= q
  BY <1>2 DEF BlobFraction
<1> HIDE DEF p, q
<1>4. p \div i <= q \div i
  <2>1. i = 1 \/ i = 2 \/ i = 3 \/ i = 4 \/ i = 5 \/ i = 6 \/ i = 7 \/ i = 8 \/ i = 9
          \/ i = 10 \/ i = 11
    BY DEF Iterations
  <2> QED
    BY <1>3, <2>1
<1> QED
  BY <1>1, <1>4 DEF Iterate, p, q, a, b

\* A higher excess makes a higher fee, and no term of the loop smaller.
LEMMA LoopGrows ==
    ASSUME NEW d \in Nat, NEW e \in Nat, d <= e, NEW i \in 0 .. Iterations
    PROVE  /\ Loop(d)[i].output <= Loop(e)[i].output
           /\ Loop(d)[i].accum <= Loop(e)[i].accum
<1> DEFINE S == [output : Nat, accum : Nat]
           T == {n \in Nat : n <= Iterations =>
                    /\ Loop(d)[n].output <= Loop(e)[n].output
                    /\ Loop(d)[n].accum <= Loop(e)[n].accum}
<1>1. 0 \in T
  BY LoopSteps DEF BlobFraction
<1>2. ASSUME NEW n \in Nat, n \in T
      PROVE  n + 1 \in T
  <2>1. ASSUME n + 1 <= Iterations
        PROVE  /\ Loop(d)[n + 1].output <= Loop(e)[n + 1].output
               /\ Loop(d)[n + 1].accum <= Loop(e)[n + 1].accum
    <3>1. n + 1 \in 1 .. Iterations /\ (n + 1) - 1 = n /\ n \in 0 .. Iterations
      BY <2>1 DEF Iterations
    <3>2. Loop(d)[n] \in S /\ Loop(e)[n] \in S
      BY <3>1, LoopSteps
    <3>3. /\ Loop(d)[n + 1] = Iterate(d, n + 1, Loop(d)[n])
          /\ Loop(e)[n + 1] = Iterate(e, n + 1, Loop(e)[n])
      BY <3>1, LoopSteps
    <3>4. Loop(d)[n].output <= Loop(e)[n].output /\ Loop(d)[n].accum <= Loop(e)[n].accum
      BY <1>2, <3>1 DEF Iterations
    <3> QED
      BY <3>1, <3>2, <3>3, <3>4, IterateGrows
  <2> QED
    BY <2>1
<1> HIDE DEF T
<1>3. Nat \subseteq T
  BY <1>1, <1>2, Induction
<1> QED
  BY <1>3 DEF T, Iterations

\* The fee of a larger excess is not lower.
LEMMA FeeGrows ==
    ASSUME NEW d \in 0 .. MaxExcess, NEW e \in 0 .. MaxExcess, d <= e
    PROVE  CalcBlobFee[d] \in Nat /\ CalcBlobFee[e] \in Nat /\ CalcBlobFee[d] <= CalcBlobFee[e]
<1> DEFINE x == Loop(d)[Iterations].output
           y == Loop(e)[Iterations].output
<1>1. d \in Nat /\ e \in Nat /\ Iterations \in 0 .. Iterations
  BY DEF MaxExcess, Iterations
<1>2. x \in Nat /\ y \in Nat /\ x <= y
  BY <1>1, LoopSteps, LoopGrows
<1> HIDE DEF x, y
<1>3. x \div BlobFraction \in Nat /\ y \div BlobFraction \in Nat
      /\ x \div BlobFraction <= y \div BlobFraction
  BY <1>2 DEF BlobFraction
<1> QED
  BY <1>3 DEF CalcBlobFee, x, y

\* The loop ends where a term is zero.
LEMMA LoopEnds ==
    ASSUME NEW e \in Nat, NEW i \in 0 .. Iterations, NEW o \in Nat,
           Loop(e)[i] = [output |-> o, accum |-> 0]
    PROVE  Loop(e)[Iterations] = [output |-> o, accum |-> 0]
<1> DEFINE zero == [output |-> o, accum |-> 0]
           T == {n \in Nat : i <= n /\ n <= Iterations => Loop(e)[n] = zero}
<1>1. 0 \in T
  BY DEF Iterations
<1>2. ASSUME NEW n \in Nat, n \in T
      PROVE  n + 1 \in T
  <2>1. CASE i <= n /\ n + 1 <= Iterations
    <3>1. n + 1 \in 1 .. Iterations /\ (n + 1) - 1 = n /\ Loop(e)[n] = zero
      BY <1>2, <2>1 DEF Iterations
    <3>2. Loop(e)[n + 1] = Iterate(e, n + 1, zero)
      BY <3>1, LoopSteps
    <3>3. (0 * 100 * e) \div BlobFraction = 0
      BY DEF BlobFraction
    <3>4. 0 \div (n + 1) = 0
      OBVIOUS
    <3>5. Iterate(e, n + 1, zero) = zero
      BY <3>3, <3>4 DEF Iterate
    <3> QED
      BY <3>2, <3>5
  <2>2. CASE i = n + 1
    BY <2>2
  <2> QED
    BY <2>1, <2>2 DEF Iterations
<1> HIDE DEF T
<1>3. Nat \subseteq T
  BY <1>1, <1>2, Induction
<1> QED
  BY <1>3 DEF T, Iterations

\* The fee, term by term, where it decides: it is 1 at least, 2 from 18 blobs on,
\* still 2 at 26 and 4 at 36.
LEMMA FeeValues ==
    /\ CalcBlobFee[0] = 1
    /\ CalcBlobFee[18] = 2
    /\ CalcBlobFee[26] = 2
    /\ CalcBlobFee[36] = 4
    /\ Loop(36)[Iterations].accum = 0
<1> DEFINE at(e, i, o, a) == Loop(e)[i] = [output |-> o, accum |-> a]
<1>1. ASSUME NEW e \in Nat, NEW i \in 1 .. Iterations, NEW o \in Nat, NEW a \in Nat,
             at(e, i - 1, o, a)
      PROVE  at(e, i, o + a, ((a * 100 * e) \div BlobFraction) \div i)
  <2>1. Loop(e)[i] = Iterate(e, i, Loop(e)[i - 1])
    BY LoopSteps
  <2> DEFINE before == [output |-> o, accum |-> a]
  <2>2. Loop(e)[i - 1] = before
    BY <1>1
  <2>3. before.output = o /\ before.accum = a
    OBVIOUS
  <2> HIDE DEF before
  <2>4. Iterate(e, i, before) = [output |-> o + a,
                                 accum |-> ((a * 100 * e) \div BlobFraction) \div i]
    BY <2>3 DEF Iterate
  <2> QED
    BY <2>1, <2>2, <2>4
<1>2. ASSUME NEW e \in Nat
      PROVE  at(e, 0, 0, 2547)
  BY LoopSteps DEF BlobFraction
<1>3. ASSUME NEW e \in 0 .. MaxExcess, NEW i \in 0 .. Iterations, NEW o \in Nat, at(e, i, o, 0)
      PROVE  CalcBlobFee[e] = o \div BlobFraction /\ Loop(e)[Iterations].accum = 0
  <2>1. e \in Nat
    BY DEF MaxExcess
  <2>2. Loop(e)[Iterations].output = o /\ Loop(e)[Iterations].accum = 0
    BY <1>3, <2>1, LoopEnds
  <2> QED
    BY <2>2 DEF CalcBlobFee
<1> USE DEF BlobFraction, Iterations, MaxExcess
<1> HIDE DEF at
<1>4. CalcBlobFee[0] = 1
  <2>1. at(0, 1, 2547, 0)
    BY <1>1, <1>2
  <2> QED
    BY <1>3, <2>1
<1>5. CalcBlobFee[18] = 2
  <2>1. at(18, 1, 2547, 1800)
    BY <1>1, <1>2
  <2>2. at(18, 2, 4347, 636)
    BY <1>1, <2>1
  <2>3. at(18, 3, 4983, 149)
    BY <1>1, <2>2
  <2>4. at(18, 4, 5132, 26)
    BY <1>1, <2>3
  <2>5. at(18, 5, 5158, 3)
    BY <1>1, <2>4
  <2>6. at(18, 6, 5161, 0)
    BY <1>1, <2>5
  <2> QED
    BY <1>3, <2>6
<1>6. CalcBlobFee[26] = 2
  <2>1. at(26, 1, 2547, 2600)
    BY <1>1, <1>2
  <2>2. at(26, 2, 5147, 1327)
    BY <1>1, <2>1
  <2>3. at(26, 3, 6474, 451)
    BY <1>1, <2>2
  <2>4. at(26, 4, 6925, 115)
    BY <1>1, <2>3
  <2>5. at(26, 5, 7040, 23)
    BY <1>1, <2>4
  <2>6. at(26, 6, 7063, 3)
    BY <1>1, <2>5
  <2>7. at(26, 7, 7066, 0)
    BY <1>1, <2>6
  <2> QED
    BY <1>3, <2>7
<1>7. CalcBlobFee[36] = 4 /\ Loop(36)[Iterations].accum = 0
  <2>1. at(36, 1, 2547, 3600)
    BY <1>1, <1>2
  <2>2. at(36, 2, 6147, 2544)
    BY <1>1, <2>1
  <2>3. at(36, 3, 8691, 1198)
    BY <1>1, <2>2
  <2>4. at(36, 4, 9889, 423)
    BY <1>1, <2>3
  <2>5. at(36, 5, 10312, 119)
    BY <1>1, <2>4
  <2>6. at(36, 6, 10431, 28)
    BY <1>1, <2>5
  <2>7. at(36, 7, 10459, 5)
    BY <1>1, <2>6
  <2>8. at(36, 8, 10464, 0)
    BY <1>1, <2>7
  <2> QED
    BY <1>3, <2>8
<1> QED
  BY <1>4, <1>5, <1>6, <1>7

\* fakeExponential, which stops where a term is zero, has stopped by then for every
\* excess: the terms of a lower one are not larger.
THEOREM LoopIsOver == \A e \in 0 .. MaxExcess : Loop(e)[Iterations].accum = 0
<1> SUFFICES ASSUME NEW e \in 0 .. MaxExcess
             PROVE  Loop(e)[Iterations].accum = 0
  OBVIOUS
<1>1. e \in Nat /\ 36 \in Nat /\ e <= 36 /\ Iterations \in 0 .. Iterations
  BY DEF MaxExcess, Iterations
<1>2. Loop(e)[Iterations].accum <= 0
  BY <1>1, LoopGrows, FeeValues
<1>3. Loop(e)[Iterations].accum \in Nat
  BY <1>1, LoopSteps
<1> QED
  BY <1>2, <1>3

\* Three blocks, of nine more blobs of excess at most, raise the fee less than
\* twofold.
LEMMA FeeDoubles ==
    ASSUME NEW d \in 0 .. MaxExcess, NEW e \in 0 .. MaxExcess, e <= d + 9
    PROVE  CalcBlobFee[e] <= 2 * CalcBlobFee[d]
<1> DEFINE fee(x) == CalcBlobFee[x]
<1>1. /\ 0 \in 0 .. MaxExcess /\ 18 \in 0 .. MaxExcess /\ 26 \in 0 .. MaxExcess
      /\ 36 \in 0 .. MaxExcess /\ 0 <= d /\ e <= 36 /\ d \in Int /\ e \in Int
  BY DEF MaxExcess
<1>2. \A x, y \in 0 .. MaxExcess : x <= y => fee(x) \in Nat /\ fee(y) \in Nat /\ fee(x) <= fee(y)
  BY FeeGrows
<1>3. fee(0) = 1 /\ fee(18) = 2 /\ fee(26) = 2 /\ fee(36) = 4
  BY FeeValues
<1> HIDE DEF fee
<1>4. fee(0) <= fee(d) /\ fee(e) <= fee(36) /\ fee(d) \in Nat /\ fee(e) \in Nat
  BY <1>1, <1>2
<1>5. CASE d <= 17
  <2>1. fee(e) <= fee(26)
    BY <1>1, <1>2, <1>5
  <2> QED
    BY <1>3, <1>4, <2>1 DEF fee
<1>6. CASE d >= 18
  <2>1. fee(18) <= fee(d)
    BY <1>1, <1>2, <1>6
  <2> QED
    BY <1>3, <1>4, <2>1 DEF fee
<1> QED
  BY <1>1, <1>5, <1>6

\* Each block has the excess that the one before it leaves, three blobs more at
\* most.
LEMMA ExcessOfChain ==
    ASSUME IInv, NEW n \in 1 .. Len(chain)
    PROVE  /\ CalcExcess(chain[n]) \in 0 .. MaxExcess
           /\ CalcExcess(chain[n]) <= chain[n].excess + 3
           /\ chain[n].excess \in 0 .. MaxExcess
           /\ CalcExcess(chain[n]) \in Int /\ chain[n].excess \in Int
           /\ n + 1 <= Len(chain) => chain[n + 1].excess = CalcExcess(chain[n])
<1>1. chain[n] \in Block /\ CalcExcess(chain[n]) \in 0 .. MaxExcess
  BY DEF IInv, TypeOK, ChainInv
<1>2. CalcExcess(chain[n]) <= chain[n].excess + 3
  BY <1>1, ExcessStep DEF BlobTarget
<1>3. ASSUME n + 1 <= Len(chain)
      PROVE  chain[n + 1].excess = CalcExcess(chain[n])
  <2>1. n \in 1 .. Len(chain) - 1
    BY <1>3 DEF IInv, TypeOK
  <2>2. PICK used \in {0, 2} : chain[n + 1] = Child(chain[n], used)
    BY <2>1 DEF IInv, ChainInv
  <2> QED
    BY <2>2 DEF Child
<1>4. chain[n].excess \in 0 .. MaxExcess
  BY <1>1 DEF Block
<1>5. \A x \in 0 .. MaxExcess : x \in Int
  BY DEF MaxExcess
<1> QED
  BY <1>1, <1>2, <1>3, <1>4, <1>5

\* In three blocks the excess grows by nine blobs at most.
LEMMA ThreeSteps ==
    ASSUME IInv, NEW n \in 1 .. Len(chain), Len(chain) < n + 3
    PROVE  CalcExcess(chain[Len(chain)]) <= chain[n].excess + 9
<1> DEFINE after(m) == CalcExcess(chain[m])
           own(m) == chain[m].excess
           last == Len(chain)
<1>1. last \in Nat /\ n \in 1 .. last /\ last < n + 3
  BY DEF IInv, TypeOK
<1>2. ASSUME NEW m \in 1 .. last
      PROVE  /\ after(m) \in Int /\ own(m) \in Int /\ after(m) <= own(m) + 3
             /\ m + 1 <= last => own(m + 1) = after(m)
  <2>1. after(m) \in Int /\ own(m) \in Int
    BY ExcessOfChain
  <2>2. after(m) <= own(m) + 3
    BY ExcessOfChain
  <2>3. m + 1 <= last => own(m + 1) = after(m)
    BY ExcessOfChain
  <2> HIDE DEF after, own, last
  <2> QED
    BY <2>1, <2>2, <2>3, Zenon
<1> HIDE DEF after, own, last
<1> SUFFICES after(last) <= own(n) + 9
  BY DEF after, own, last
<1>3. CASE last = n
  BY <1>1, <1>2, <1>3
<1>4. CASE last = n + 1
  BY <1>1, <1>2, <1>4
<1>5. CASE last = n + 2
  <2>1. n + 1 \in 1 .. last /\ (n + 1) + 1 = last
    BY <1>1, <1>5
  <2>2. own(last) = after(n + 1) /\ after(n + 1) <= own(n + 1) + 3 /\ own(n + 1) = after(n)
    BY <1>1, <1>2, <2>1
  <2> QED
    BY <1>1, <1>2, <2>1, <2>2
<1> QED
  BY <1>1, <1>3, <1>4, <1>5

\* A cap covers the blob fee of the three blocks after the one it was taken from,
\* although it is taken from that block's own fee and fees this small are rounded
\* by almost a half.
THEOREM BlobFeeCapHolds == Spec => []BlobFeeCapCoversThreeBlocks
<1>1. IInv => BlobFeeCapCoversThreeBlocks
  <2> SUFFICES ASSUME IInv, NEW i \in DOMAIN signed, signed[i].blobs > 0,
                      Len(chain) < signed[i].block + 3
               PROVE  CalcBlobFee[CalcExcess(chain[Len(chain)])] <= signed[i].blobFeeCap
    BY DEF BlobFeeCapCoversThreeBlocks
  <2> DEFINE n == signed[i].block
             e == CalcExcess(chain[Len(chain)])
             d == chain[n].excess
  <2>1. n \in 1 .. Len(chain) /\ signed[i].blobFeeCap = 2 * CalcBlobFee[d]
    BY DEF IInv, PriceInv, BlobFeeCap
  <2>2. Len(chain) \in 1 .. Len(chain)
    BY DEF IInv, TypeOK
  <2>3. d \in 0 .. MaxExcess /\ e \in 0 .. MaxExcess
    BY <2>1, <2>2, ExcessOfChain
  <2>4. e <= d + 9
    BY <2>1, ThreeSteps
  <2> HIDE DEF e, d
  <2>5. CalcBlobFee[e] <= 2 * CalcBlobFee[d]
    BY <2>3, <2>4, FeeDoubles
  <2> QED
    BY <2>1, <2>5 DEF e
<1> QED
  BY <1>1, Invariance, PTL

-----------------------------------------------------------------------------
(* The refinement.                                                         *)

\* Signing gives the next nonce to the Send that gets the transaction; no other
\* step spends one.
THEOREM PreparationImplemented == Spec => ImplementsTxPreparation
<1> DEFINE issued == [i \in DOMAIN signed |-> signed[i].from]
<1>1. Init => TxPreparation!Init
  BY DEF Init, TxPreparation!Init
<1>2. ASSUME IInv, NEW c \in Callers, Sign(c)
      PROVE  TxPreparation!Prepare(c)
  <2>1. outcome[c] = "running" /\ outcome' = [outcome EXCEPT ![c] = "tx"]
    BY <1>2 DEF IInv, CallInv, Sign, Return
  <2>2. issued' = Append(issued, c)
    <3>1. signed \in Seq(Tx) /\ signed' = Append(signed, TxMessage(c))
      BY <1>2 DEF IInv, TypeOK, Sign
    <3>2. TxMessage(c) \in Tx /\ TxMessage(c).from = c
      BY <1>2, TxMessageType DEF Sign
    <3>3. /\ Len(signed) \in Nat /\ DOMAIN signed = 1 .. Len(signed)
          /\ DOMAIN signed' = 1 .. Len(signed) + 1
          /\ signed'[Len(signed) + 1] = TxMessage(c)
          /\ \A i \in 1 .. Len(signed) : signed'[i] = signed[i]
      BY <3>1, <3>2, AppendProperties, LenProperties
    <3>4. \A i \in 1 .. Len(signed) : signed[i].from \in Callers
      <4>1. \A i \in 1 .. Len(signed) : signed[i] \in Tx
        BY <3>1, ElementOfSeq
      <4> QED
        BY <4>1 DEF Tx
    <3>5. issued \in [1 .. Len(signed) -> Callers]
      BY <3>3, <3>4
    <3>6. issued \in Seq(Callers) /\ Len(issued) = Len(signed)
      <4> HIDE DEF issued
      <4> QED
        BY <3>3, <3>5
    <3>7. issued' = [i \in 1 .. Len(signed) + 1 |-> IF i = Len(signed) + 1 THEN c ELSE issued[i]]
      BY <3>2, <3>3
    <3>8. Append(issued, c) =
            [i \in 1 .. Len(signed) + 1 |-> IF i = Len(signed) + 1 THEN c ELSE issued[i]]
      BY <3>6, AppendAsFunction
    <3> QED
      BY <3>7, <3>8
  <2> QED
    BY <2>1, <2>2 DEF TxPreparation!Prepare, TxPreparation!Return
<1>3. ASSUME IInv, NEW c \in Callers, GiveUp(c)
      PROVE  TxPreparation!Fail(c)
  BY <1>3 DEF IInv, CallInv, GiveUp, Return, TxPreparation!Fail, TxPreparation!Return
<1>4. ASSUME NEW c \in Callers, Prepare(c), ~Sign(c), ~GiveUp(c)
      PROVE  UNCHANGED <<signed, outcome>>
  BY <1>4 DEF Prepare, Attempt, AttemptRefused, EstimateGas, BlockNumber, BlockByNumber,
              CallFails, Goto
<1>5. ASSUME NEW c \in Callers, Cancel(c)
      PROVE  UNCHANGED <<signed, outcome>>
  BY <1>5 DEF Cancel
<1>6. Mine => UNCHANGED <<signed, outcome>>
  BY DEF Mine
<1>7. UNCHANGED <<signed, outcome>> => UNCHANGED TxPreparation!vars
  BY DEF TxPreparation!vars
<1>8. IInv /\ [Next]_vars => [TxPreparation!Next]_(TxPreparation!vars)
  <2>1. ASSUME IInv, NEW c \in Callers, Prepare(c)
        PROVE  TxPreparation!Next \/ UNCHANGED <<signed, outcome>>
    BY <1>2, <1>3, <1>4, <2>1 DEF TxPreparation!Next
  <2>2. UNCHANGED vars => UNCHANGED <<signed, outcome>>
    BY DEF vars
  <2> QED
    BY <1>5, <1>6, <1>7, <2>1, <2>2 DEF Next
<1> QED
  BY <1>1, <1>8, Invariance, PTL DEF Spec, ImplementsTxPreparation, TxPreparation!Spec
=============================================================================
