----------------------------- MODULE RemoteCall -----------------------------
(***************************************************************************)
(* What a caller of client.Client may conclude from a call                 *)
(* (client/client.go).  The gateway serves a call at most once.  A result  *)
(* is the gateway's own answer to this very call, unless something else    *)
(* answered in its place with what passes for an answer; a distinctive     *)
(* answer is always the gateway's.  An error says nothing: the gateway may *)
(* have served the call, or may still serve it.                            *)
(***************************************************************************)
EXTENDS Naturals

CONSTANT Calls          \* the calls made, one endpoint each

VARIABLES
    distinctive,    \* the calls whose answer nothing else passes for
    served,         \* the gateway did what the call asks for
    forged,         \* the calls with an answer at hand that passes for the gateway's
    outcome         \* "pending", or what the call returned

vars == <<distinctive, served, forged, outcome>>

Init ==
    /\ distinctive \in SUBSET Calls
    /\ served = [c \in Calls |-> FALSE]
    /\ forged = {}
    /\ outcome = [c \in Calls |-> "pending"]

\* The gateway's answer may replace the other one.
Serve(c) ==
    /\ ~served[c]
    /\ served' = [served EXCEPT ![c] = TRUE]
    /\ forged' \in {forged, forged \ {c}}
    /\ UNCHANGED <<distinctive, outcome>>

\* Something else answers, with what passes for the gateway's answer or not.
Answer(c) ==
    /\ forged' \in {forged \cup {c}, forged \ {c}}
    /\ UNCHANGED <<distinctive, served, outcome>>

Return(c, result) ==
    /\ outcome[c] = "pending"
    /\ outcome' = [outcome EXCEPT ![c] = result]
    /\ UNCHANGED <<distinctive, served, forged>>

Reply(c) == served[c] /\ Return(c, "reply")

Invent(c) == c \in forged \ distinctive /\ Return(c, "invented")

Error(c) == Return(c, "error")

Next == \E c \in Calls : Serve(c) \/ Answer(c) \/ Reply(c) \/ Invent(c) \/ Error(c)

Spec == Init /\ [][Next]_vars
=============================================================================
