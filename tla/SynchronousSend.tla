-------------------------- MODULE SynchronousSend --------------------------
(***************************************************************************)
(* What Send (txmgr/txmgr.go:147) promises a caller that asks it to get    *)
(* one payload on the chain: the chain runs the payload at most once,      *)
(* whatever is retried underneath; a receipt is returned only for a        *)
(* payload that ran.  An error promises nothing: the payload may have run, *)
(* or may still run later.                                                 *)
(***************************************************************************)
EXTENDS Naturals

CONSTANT Senders        \* the goroutines inside Send, one payload each

VARIABLES
    executions,     \* how many times the chain ran each payload
    outcome         \* "running", or what Send returned: "receipt" or "error"

vars == <<executions, outcome>>

Init ==
    /\ executions = [s \in Senders |-> 0]
    /\ outcome = [s \in Senders |-> "running"]

Execute(s) ==
    /\ executions[s] = 0
    /\ executions' = [executions EXCEPT ![s] = 1]
    /\ UNCHANGED outcome

ReturnReceipt(s) ==
    /\ outcome[s] = "running"
    /\ executions[s] = 1
    /\ outcome' = [outcome EXCEPT ![s] = "receipt"]
    /\ UNCHANGED executions

ReturnError(s) ==
    /\ outcome[s] = "running"
    /\ outcome' = [outcome EXCEPT ![s] = "error"]
    /\ UNCHANGED executions

Next == \E s \in Senders : Execute(s) \/ ReturnReceipt(s) \/ ReturnError(s)

Spec == Init /\ [][Next]_vars
=============================================================================
