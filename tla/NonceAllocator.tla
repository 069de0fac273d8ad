--------------------------- MODULE NonceAllocator ---------------------------
(***************************************************************************)
(* What signWithNextNonce promises to its callers, taken together: the     *)
(* account's nonce is learnt once, for the first signed transaction at the *)
(* latest, and each one after it gets the next, in the order of signing,   *)
(* whatever calls fail in between.                                         *)
(***************************************************************************)
EXTENDS Uint64, Sequences

CONSTANT NoNonce        \* the allocator has not learnt a nonce yet

VARIABLES
    next,       \* the nonce the next signed transaction gets, or NoNonce
    issued,     \* the nonces of the signed transactions, in order
    account     \* the account's nonce on the chain

vars == <<next, issued, account>>

Init ==
    /\ next = NoNonce
    /\ issued = << >>
    /\ account \in Uint64s

Learn ==
    /\ next = NoNonce
    /\ next' = account
    /\ UNCHANGED <<issued, account>>

\* What is issued next, learnt now or before.
Upcoming == IF next = NoNonce THEN account ELSE next

Issue ==
    /\ issued' = Append(issued, Upcoming)
    /\ next' = Inc(Upcoming)
    /\ UNCHANGED account

AccountAdvances ==
    /\ account < MaxUint64
    /\ account' = account + 1
    /\ UNCHANGED <<next, issued>>

Next == Learn \/ Issue \/ AccountAdvances

Spec == Init /\ [][Next]_vars
=============================================================================
