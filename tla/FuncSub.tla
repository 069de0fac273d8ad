------------------------------ MODULE FuncSub ------------------------------
(***************************************************************************)
(* event.NewSubscription of go-ethereum, which escrow/Escrow.go uses and   *)
(* src/ does not define: a goroutine runs a producer function until it     *)
(* returns or Unsubscribe closes its quit channel; the error channel       *)
(* carries the producer's error, if any, and is then closed.               *)
(***************************************************************************)
EXTENDS Naturals, Sequences

CONSTANT NoError        \* the nil error

VARIABLES
    unsubscribed,   \* Unsubscribe was called, or the producer returned
    quit,           \* the quit channel is closed
    err,            \* the error channel: at most one error
    errClosed       \* the error channel is closed: the producer has returned

subVars == <<unsubscribed, quit, err, errClosed>>

SubInit ==
    /\ unsubscribed = FALSE
    /\ quit = FALSE
    /\ err = << >>
    /\ errClosed = FALSE

\* A nil error sent like any other.
ProducerReturnsNil(e) ==
    /\ errClosed' = TRUE
    /\ err' = IF unsubscribed THEN << >> ELSE <<e>>
    /\ unsubscribed' = TRUE
    /\ UNCHANGED quit

\* The producer returned e; after Unsubscribe nobody is told the error.
ProducerReturns(e) ==
    /\ errClosed' = TRUE
    /\ err' = IF unsubscribed \/ e = NoError THEN << >> ELSE <<e>>
    /\ unsubscribed' = TRUE
    /\ UNCHANGED quit

\* Unsubscribe stops the producer, unless it was called before.
Unsubscribe ==
    /\ ~unsubscribed
    /\ unsubscribed' = TRUE
    /\ quit' = TRUE
    /\ UNCHANGED <<err, errClosed>>

\* A receive from Err(): the error, or nil from the closed channel.
ReceiveErr(e) ==
    /\ \/ err = <<e>>
       \/ err = << >> /\ errClosed /\ e = NoError
    /\ err' = << >>
    /\ UNCHANGED <<unsubscribed, quit, errClosed>>
=============================================================================
