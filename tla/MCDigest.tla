------------------------------ MODULE MCDigest ------------------------------
(* A small instance of Digest for TLC: words of two bytes of four values.   *)
EXTENDS Digest

\* The numbers with one byte that is not zero, and the largest one.
Powers(n) == {0} \cup {Power[i] : i \in 0 .. n - 1} \cup {Power[n] - 1}

MCReservations ==
    [target_slot : {0, 1, 4}, gas_limit : {0, 1, 4}, deposit : Powers(8),
     tip : {0, 1, 4, 16, 4096}, blob_count : {0, 1}]

\* Ids and hashes that tell all their places apart, or that only one does.
Ids == {[i \in 1 .. UuidBytes |-> i], [i \in 1 .. UuidBytes |-> 17 - i]}
          \cup {[i \in 1 .. UuidBytes |-> IF i = k THEN 1 ELSE 0] : k \in 1 .. UuidBytes}
Hashes == {[i \in 1 .. HashBytes |-> i], [i \in 1 .. HashBytes |-> IF i = 1 THEN 1 ELSE 0]}

MCSubmissions == [request_id : Ids, tx_hash : Hashes]
=============================================================================
