----------------------------- MODULE MCCraftTx -----------------------------
(* Small instances of CraftTx for TLC.                                      *)
EXTENDS CraftTx

\* A plain transfer, data in a blob with a value, and data in a blob for a
\* contract that is not there yet.
MCCandidates ==
    {[blobs |-> 0, to |-> TRUE, gasLimit |-> 1, value |-> 1],
     [blobs |-> 1, to |-> TRUE, gasLimit |-> 0, value |-> 1],
     [blobs |-> 1, to |-> FALSE, gasLimit |-> 0, value |-> 0]}

\* The base fee is far from its minimum, the blob fee just below 2 wei.
MCGenesis == [baseFee |-> 1000, excess |-> 17, used |-> 2]
=============================================================================
