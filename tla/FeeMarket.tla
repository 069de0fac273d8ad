----------------------------- MODULE FeeMarket -----------------------------
(***************************************************************************)
(* How the chain prices gas and blobs, as getBaseFees asks go-ethereum     *)
(* (txmgr/txmgr.go:236-237): eip1559.CalcBaseFee and eip4844.CalcBlobFee   *)
(* with the parameters of the main net.  What a block uses is measured in  *)
(* targets: 0, 1 or, when it is full, 2 of them.                           *)
(***************************************************************************)
EXTENDS Integers, FiniteSetsExt

\* The base fee of the block after parent: an eighth up or down, at least 1 up.
CalcBaseFee(parent) ==
    CASE parent.used = 1 -> parent.baseFee
      [] parent.used > 1 ->
            parent.baseFee + Max({1, (parent.baseFee * (parent.used - 1)) \div 8})
      [] parent.used < 1 -> parent.baseFee - (parent.baseFee \div 8)

\* An eighth of less than that is nothing: base fees do not fall below it.
MinBaseFee == 7

BlobTarget == 3
MaxExcess == 36         \* bound: the blobs the fee is computed for

\* baseFee: the header's BaseFee.  excess: its ExcessBlobGas, in blobs.
\* used: its GasUsed and BlobGasUsed, in targets.
Block == [baseFee : Nat, excess : 0 .. MaxExcess, used : 0 .. 2]

CalcExcess(parent) == Max({0, parent.excess + BlobTarget * (parent.used - 1)})

\* The price of blobs grows e-fold over 3338477 / 131072 blobs, here in hundredths.
BlobFraction == 2547

\* The loop of fakeExponential ends where the next term is zero, which is here at
\* the latest.
Iterations == 11

\* fakeExponential(1, excess, fraction) after i iterations: Taylor's terms, each
\* rounded down, and the sum of those before.
Loop(excess) ==
    LET loop[i \in 0 .. Iterations] ==
            IF i = 0 THEN [output |-> 0, accum |-> BlobFraction]
            ELSE LET before == loop[i - 1]
                 IN  [output |-> before.output + before.accum,
                      accum |-> ((before.accum * 100 * excess) \div BlobFraction) \div i]
    IN  loop

CalcBlobFee ==
    [excess \in 0 .. MaxExcess |-> Loop(excess)[Iterations].output \div BlobFraction]

\* A block on top of parent.
Child(parent, used) ==
    [baseFee |-> CalcBaseFee(parent), excess |-> CalcExcess(parent), used |-> used]
=============================================================================
