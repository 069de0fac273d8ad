--------------------------- MODULE EscrowIterator ---------------------------
(***************************************************************************)
(* The event iterators of the escrow bindings (escrow/Escrow.go:256-345    *)
(* for Deposited events; PaymentMade and Withdrawn have the same code).    *)
(* FilterLogs of go-ethereum starts a producer goroutine that sends the    *)
(* logs found to a buffered channel; one goroutine calls Next, and Close   *)
(* may be called while it waits.                                           *)
(***************************************************************************)
EXTENDS FuncSub

CONSTANTS
    NumLogs,        \* how many logs FilterLogs found
    BufferSize,     \* the capacity of the channel logs (128)
    RetrievalError, \* an error of the subscription
    UnpackError     \* an error of UnpackLog

ASSUME NumLogsAssumption == NumLogs \in Nat
ASSUME BufferSizeAssumption == BufferSize \in Nat \ {0}
ASSUME ErrorAssumption == NoError \notin {RetrievalError, UnpackError}

VARIABLES
    malformed,      \* the logs, by position, that do not unpack
    sent,           \* how many logs the producer has sent
    logs,           \* it.logs, the channel's buffer
    done,           \* it.done
    fail,           \* it.fail
    calling,        \* a call of Next is under way
    result,         \* what the last Next returned
    delivered,      \* the events the user got from Next
    closing         \* Close: "open", "waiting" for the producer, or "closed"

producer == <<malformed, sent>>
iterator == <<logs, done, fail, calling, result, delivered>>
vars == <<subVars, producer, iterator, closing>>

Errors == {NoError, RetrievalError, UnpackError}

Init ==
    /\ SubInit
    /\ malformed \in SUBSET (1 .. NumLogs)
    /\ sent = 0
    /\ logs = << >>
    /\ done = FALSE
    /\ fail = NoError
    /\ calling = FALSE
    /\ result = "none"
    /\ delivered = << >>
    /\ closing = "open"

-----------------------------------------------------------------------------
(* The producer of FilterLogs.                                             *)

Produce ==
    /\ ~errClosed
    /\ sent < NumLogs
    /\ Len(logs) < BufferSize
    /\ sent' = sent + 1
    /\ logs' = Append(logs, sent + 1)
    /\ UNCHANGED <<subVars, malformed, done, fail, calling, result, delivered, closing>>

\* All logs are sent, or quit is closed.
ProducerEnds ==
    /\ ~errClosed
    /\ sent = NumLogs \/ quit
    /\ ProducerReturns(NoError)
    /\ UNCHANGED <<producer, iterator, closing>>

\* A retrieval error, as the comment on Next has it.
ProducerFails ==
    /\ ~errClosed
    /\ ProducerReturns(RetrievalError)
    /\ UNCHANGED <<producer, iterator, closing>>

-----------------------------------------------------------------------------
(* Next, lines 272-309.                                                    *)

Call ==
    /\ ~calling
    /\ calling' = TRUE
    /\ UNCHANGED <<subVars, producer, logs, done, fail, result, delivered, closing>>

Return(value) ==
    /\ calling' = FALSE
    /\ result' = value

\* A log is taken from the channel and unpacked.
TakeLog ==
    /\ logs # << >>
    /\ logs' = Tail(logs)
    /\ IF Head(logs) \in malformed
       THEN fail' = UnpackError /\ Return("false") /\ UNCHANGED delivered
       ELSE delivered' = Append(delivered, Head(logs)) /\ Return("true") /\ UNCHANGED fail
    /\ UNCHANGED <<subVars, producer, done, closing>>

\* The iterator failed earlier, or in this very call (line 307).
NextFailed ==
    /\ calling
    /\ fail # NoError
    /\ Return("false")
    /\ UNCHANGED <<subVars, producer, logs, done, fail, delivered, closing>>

\* it.done: whatever is in the channel, without waiting.
NextDrains ==
    /\ calling /\ fail = NoError /\ done
    /\ TakeLog

NextExhausted ==
    /\ calling /\ fail = NoError /\ done
    /\ logs = << >>
    /\ Return("false")
    /\ UNCHANGED <<subVars, producer, logs, done, fail, delivered, closing>>

\* The select with both channels: a log, ...
NextTakes ==
    /\ calling /\ fail = NoError /\ ~done
    /\ TakeLog

\* The subscription's end taken for the end of the events.
NextEndsAtOnce ==
    /\ calling /\ fail = NoError /\ ~done
    /\ \E e \in Errors : ReceiveErr(e) /\ fail' = e
    /\ done' = TRUE
    /\ Return("false")
    /\ UNCHANGED <<producer, logs, delivered, closing>>

\* The nil of the closed error channel not taken for an end.
NextEndsOnError ==
    /\ calling /\ fail = NoError /\ ~done
    /\ \E e \in Errors : ReceiveErr(e) /\ fail' = e
    /\ done' = (fail' # NoError)
    /\ UNCHANGED <<producer, logs, calling, result, delivered, closing>>

\* ... or the end of the subscription, after which Next calls itself.
NextEnds ==
    /\ calling /\ fail = NoError /\ ~done
    /\ \E e \in Errors : ReceiveErr(e) /\ fail' = e
    /\ done' = TRUE
    /\ UNCHANGED <<producer, logs, calling, result, delivered, closing>>

IterNext ==
    \/ NextFailed
    \/ NextDrains
    \/ NextExhausted
    \/ NextTakes
    \/ NextEnds

-----------------------------------------------------------------------------
(* Close, lines 318-321.                                                   *)

\* Unsubscribe has nothing to do once the producer has returned.
CloseAfterEnd ==
    /\ closing = "open"
    /\ unsubscribed
    /\ closing' = "closed"
    /\ UNCHANGED <<subVars, producer, iterator>>

Close ==
    /\ closing = "open"
    /\ Unsubscribe
    /\ closing' = "waiting"
    /\ UNCHANGED <<producer, iterator>>

\* Unsubscribe waits for the producer.
CloseReturns ==
    /\ closing = "waiting"
    /\ ReceiveErr(NoError)
    /\ closing' = "closed"
    /\ UNCHANGED <<producer, iterator>>

-----------------------------------------------------------------------------
Producer == Produce \/ ProducerEnds

Next ==
    \/ Producer
    \/ ProducerFails
    \/ Call
    \/ IterNext
    \/ CloseAfterEnd
    \/ Close
    \/ CloseReturns

Spec == Init /\ [][Next]_vars

\* The goroutines run; the user need not call Next or Close.
FairSpec ==
    /\ Spec
    /\ WF_vars(Producer)
    /\ WF_vars(IterNext)
    /\ WF_vars(CloseReturns)

-----------------------------------------------------------------------------
TypeOK ==
    /\ unsubscribed \in BOOLEAN /\ quit \in BOOLEAN /\ errClosed \in BOOLEAN
    /\ done \in BOOLEAN /\ calling \in BOOLEAN
    /\ err \in {<< >>, <<RetrievalError>>}
    /\ malformed \subseteq 1 .. NumLogs
    /\ sent \in 0 .. NumLogs
    /\ logs \in Seq(1 .. NumLogs) /\ Len(logs) <= BufferSize
    /\ fail \in Errors
    /\ result \in {"none", "true", "false"}
    /\ delivered \in Seq(1 .. NumLogs)
    /\ closing \in {"open", "waiting", "closed"}

\* The iterator ends with the first false of Next.
StreamOutcome ==
    IF result # "false" THEN "open"
    ELSE IF fail # NoError THEN "error"
    ELSE IF quit /\ Len(delivered) # NumLogs THEN "closed" ELSE "complete"

\* The events of successive calls of Next come in order, none is lost in the
\* channel when the subscription's end wins the race against the last logs,
\* a false without an error means that there are no more (unless the user
\* closed the iterator), and after a false Next never returns true again.
EventStream == INSTANCE EventStream WITH outcome <- StreamOutcome

ImplementsEventStream == EventStream!Spec

\* Next does not wait for ever, whether the producer ends, fails, or is
\* stopped by a Close from another goroutine.
NextReturns == calling ~> ~calling
=============================================================================
