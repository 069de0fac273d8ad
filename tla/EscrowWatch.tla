---------------------------- MODULE EscrowWatch ----------------------------
(***************************************************************************)
(* The event watchers of the escrow bindings (escrow/Escrow.go:349-387 for *)
(* Deposited events; PaymentMade and Withdrawn have the same code).  A     *)
(* goroutine takes logs from a subscription of the node, unpacks them and  *)
(* hands the events to the user's channel.  The subscription may end, the  *)
(* user may stop reading, and the user may unsubscribe, all at any time.   *)
(***************************************************************************)
EXTENDS FuncSub

CONSTANTS
    NumLogs,        \* bound: how many logs the node sends
    BufferSize,     \* the capacity of the channel logs (128)
    RetrievalError, \* an error of the node's subscription
    UnpackError     \* an error of UnpackLog

ASSUME NumLogsAssumption == NumLogs \in Nat
ASSUME BufferSizeAssumption == BufferSize \in Nat \ {0}
ASSUME ErrorAssumption == NoError \notin {RetrievalError, UnpackError}

VARIABLES
    malformed,      \* the logs, by position, that do not unpack
    sent,           \* how many logs the node sent
    logs,           \* the channel logs
    source,         \* the node's subscription: "live", "ended", "unsubscribed"
    sourceErr,      \* its error channel
    pc,             \* the select the goroutine is at, or "returned"
    event,          \* the event unpacked last
    returned,       \* what the goroutine returned
    reading,        \* the user is receiving from sink
    delivered       \* the events the user received from sink

node == <<malformed, sent, logs, source, sourceErr>>
watcher == <<pc, event, returned>>
user == <<reading, delivered>>
vars == <<subVars, node, watcher, user>>

Init ==
    /\ SubInit
    /\ malformed \in SUBSET (1 .. NumLogs)
    /\ sent = 0
    /\ logs = << >>
    /\ source = "live"
    /\ sourceErr = << >>
    /\ pc = "receive"
    /\ event = 0
    /\ returned = NoError
    /\ reading = TRUE
    /\ delivered = << >>

-----------------------------------------------------------------------------
(* WatchLogs: the subscription of the node.                                *)

NodeSends ==
    /\ source = "live"
    /\ sent < NumLogs
    /\ Len(logs) < BufferSize
    /\ sent' = sent + 1
    /\ logs' = Append(logs, sent + 1)
    /\ UNCHANGED <<subVars, malformed, source, sourceErr, watcher, user>>

\* The connection breaks, or the user closes the RPC client: the error is nil.
NodeEnds ==
    /\ source = "live"
    /\ source' = "ended"
    /\ \E e \in {NoError, RetrievalError} : sourceErr' = <<e>>
    /\ UNCHANGED <<subVars, malformed, sent, logs, watcher, user>>

-----------------------------------------------------------------------------
(* The goroutine, lines 361-386.                                           *)

\* A return runs the deferred sub.Unsubscribe().
Return(e) ==
    /\ pc' = "returned"
    /\ returned' = e
    /\ source' = "unsubscribed"
    /\ ProducerReturns(e)

ReceiveLog ==
    /\ pc = "receive"
    /\ logs # << >>
    /\ logs' = Tail(logs)
    /\ event' = Head(logs)
    /\ IF Head(logs) \in malformed
       THEN Return(UnpackError)
       ELSE pc' = "send" /\ UNCHANGED <<returned, source, subVars>>
    /\ UNCHANGED <<malformed, sent, sourceErr, user>>

\* A send that does not wait for the user.
SendOrDrop ==
    /\ pc = "send"
    /\ delivered' = IF reading THEN Append(delivered, event) ELSE delivered
    /\ pc' = "receive"
    /\ UNCHANGED <<subVars, node, event, returned, reading>>

SendEvent ==
    /\ pc = "send"
    /\ reading
    /\ delivered' = Append(delivered, event)
    /\ pc' = "receive"
    /\ UNCHANGED <<subVars, node, event, returned, reading>>

\* The places that wait: both selects, or just one of them.
Selects == {"receive", "send"}
OuterSelect == {"receive"}

SelectsErr == Selects
SelectsQuit == Selects

ReceiveSourceErr ==
    /\ pc \in SelectsErr
    /\ sourceErr # << >>
    /\ sourceErr' = << >>
    /\ Return(Head(sourceErr))
    /\ UNCHANGED <<malformed, sent, logs, event, user>>

ReceiveQuit ==
    /\ pc \in SelectsQuit
    /\ quit
    /\ Return(NoError)
    /\ UNCHANGED <<malformed, sent, logs, sourceErr, event, user>>

Watcher == ReceiveLog \/ SendEvent \/ ReceiveSourceErr \/ ReceiveQuit

-----------------------------------------------------------------------------
(* The user.                                                               *)

StartOrStopReading ==
    /\ reading' = ~reading
    /\ UNCHANGED <<subVars, node, watcher, delivered>>

UserUnsubscribes ==
    /\ Unsubscribe
    /\ UNCHANGED <<node, watcher, user>>

UserReceivesErr ==
    /\ err # << >>
    /\ ReceiveErr(Head(err))
    /\ UNCHANGED <<node, watcher, user>>

Next ==
    \/ NodeSends
    \/ NodeEnds
    \/ Watcher
    \/ StartOrStopReading
    \/ UserUnsubscribes
    \/ UserReceivesErr

Spec == Init /\ [][Next]_vars

\* The goroutine runs; nothing is asked of the node or the user.
FairSpec == Spec /\ WF_vars(Watcher)

-----------------------------------------------------------------------------
TypeOK ==
    /\ unsubscribed \in BOOLEAN /\ quit \in BOOLEAN /\ errClosed \in BOOLEAN
    /\ reading \in BOOLEAN
    /\ err \in {<< >>, <<RetrievalError>>, <<UnpackError>>}
    /\ malformed \subseteq 1 .. NumLogs
    /\ sent \in 0 .. NumLogs
    /\ logs \in Seq(1 .. NumLogs) /\ Len(logs) <= BufferSize
    /\ source \in {"live", "ended", "unsubscribed"}
    /\ sourceErr \in {<< >>, <<NoError>>, <<RetrievalError>>}
    /\ pc \in {"receive", "send", "returned"}
    /\ event \in 0 .. NumLogs
    /\ returned \in {NoError, RetrievalError, UnpackError}
    /\ delivered \in Seq(1 .. NumLogs)

\* The user receives the events of the node in order, none twice and none
\* left out, until the watcher returns; nothing comes after that.
EventStream ==
    INSTANCE EventStream WITH
        outcome <- IF pc # "returned" THEN "open"
                   ELSE IF returned # NoError THEN "error" ELSE "closed"

ImplementsEventStream == EventStream!Spec

\* Unsubscribe ends the goroutine and the node's subscription, also when the
\* goroutine holds an event that nobody will receive any more.
UnsubscribeEnds == quit ~> pc = "returned" /\ source = "unsubscribed"

\* So does the end of the node's subscription, with an error or with none: its
\* error is for the user unless the user unsubscribed or a log did not unpack.
NodeErrorEnds ==
    \A e \in {NoError, RetrievalError} :
        sourceErr = <<e>> ~>
            /\ pc = "returned"
            /\ e = NoError \/ quit \/ returned # NoError
=============================================================================
