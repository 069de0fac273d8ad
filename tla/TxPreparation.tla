--------------------------- MODULE TxPreparation ---------------------------
(***************************************************************************)
(* What prepare (txmgr/txmgr.go:245) promises the Sends that call it: each *)
(* of them gets one signed transaction or an error.  The signed            *)
(* transactions take consecutive nonces, and none is spent on a            *)
(* transaction that its Send does not get: the chain would wait for it     *)
(* before it runs any later one.                                           *)
(***************************************************************************)
EXTENDS Sequences

CONSTANT Callers        \* the Sends that prepare a transaction

VARIABLES
    issued,     \* whose transaction each nonce was spent on, in order
    outcome     \* "running", or what prepare returned: "tx" or "error"

vars == <<issued, outcome>>

Init ==
    /\ issued = << >>
    /\ outcome = [c \in Callers |-> "running"]

Return(c, result) ==
    /\ outcome[c] = "running"
    /\ outcome' = [outcome EXCEPT ![c] = result]

Prepare(c) == Return(c, "tx") /\ issued' = Append(issued, c)

Fail(c) == Return(c, "error") /\ UNCHANGED issued

Next == \E c \in Callers : Prepare(c) \/ Fail(c)

Spec == Init /\ [][Next]_vars
=============================================================================
