---------------------------- MODULE EventStream ----------------------------
(***************************************************************************)
(* What a user of the escrow bindings may rely on, whether it iterates     *)
(* over past events or watches new ones (escrow/Escrow.go): the events     *)
(* come in the order of the chain, none twice and none left out, until the *)
(* stream ends.  It ends because all of them came, because of an error, or *)
(* because the user closed it; after that nothing comes any more.          *)
(***************************************************************************)
EXTENDS Naturals, Sequences

CONSTANT NumLogs        \* how many logs the chain has for the user

VARIABLES
    delivered,      \* the logs the user received, as events, by their position
    outcome         \* "open", or how the stream ended

vars == <<delivered, outcome>>

Init == delivered = << >> /\ outcome = "open"

Deliver ==
    /\ outcome = "open"
    /\ Len(delivered) < NumLogs
    /\ delivered' = Append(delivered, Len(delivered) + 1)
    /\ UNCHANGED outcome

End ==
    /\ outcome = "open"
    /\ outcome' \in {"complete", "error", "closed"}
    /\ outcome' = "complete" => Len(delivered) = NumLogs
    /\ UNCHANGED delivered

Next == Deliver \/ End

Spec == Init /\ [][Next]_vars
=============================================================================
