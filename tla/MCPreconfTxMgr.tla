--------------------------- MODULE MCPreconfTxMgr ---------------------------
(* Small instances of PreconfTxMgr for TLC.                                 *)
EXTENDS PreconfTxMgr, TLC

CONSTANTS s1, s2

\* s1 sends a blob with an estimated gas limit, s2 a plain transaction.
MCCandidate ==
       s1 :> [gasLimit |-> 0, estimate |-> 2, blobs |-> 1]
    @@ s2 :> [gasLimit |-> 1, estimate |-> 1, blobs |-> 0]

\* s1 alone, with the other customers as its competitors.
MCOneCandidate == s1 :> [gasLimit |-> 0, estimate |-> 2, blobs |-> 1]

\* The first slot is too near from the start; the fees of the others differ.
MCQuote == << [gas |-> 9, blob |-> 9], [gas |-> 2, blob |-> 6], [gas |-> 5, blob |-> 4] >>

MCCapacity == [gas |-> 2, blobs |-> 1]
=============================================================================
