-------------------------- MODULE EscrowWatchProofs --------------------------
(***************************************************************************)
(* Proofs about EscrowWatch for any number of logs, any channel capacity   *)
(* and any malformed logs.                                                 *)
(***************************************************************************)
EXTENDS EscrowWatch, SequenceTheorems, TLAPS

\* The user is told nothing before the goroutine has returned, which ends the
\* node's subscription.
SubInv ==
    /\ unsubscribed <=> quit \/ errClosed
    /\ errClosed <=> pc = "returned"
    /\ ~errClosed => err = << >>
    /\ source = "unsubscribed" <=> pc = "returned"

\* The channel holds the logs sent last...
LogsInv ==
    /\ Len(logs) <= sent
    /\ \A i \in DOMAIN logs : logs[i] = sent - Len(logs) + i

\* ...and the user has got all before them, but for the event that the
\* goroutine holds.
TakenInv ==
    /\ pc = "receive" => Len(delivered) + Len(logs) = sent
    /\ pc = "send" =>
          Len(delivered) + 1 + Len(logs) = sent /\ event = Len(delivered) + 1

IInv == TypeOK /\ SubInv /\ LogsInv /\ TakenInv

-----------------------------------------------------------------------------
\* The invariant holds before the first log.
LEMMA InvInit == Init => IInv
<1> SUFFICES ASSUME Init
             PROVE  IInv
  OBVIOUS
<1> USE DEF Init, SubInit
<1>1. << >> \in Seq(1 .. NumLogs) /\ Len(<< >>) = 0 /\ DOMAIN << >> = 1 .. 0
  BY EmptySeq, LenProperties
<1>2. /\ sent \in 0 .. NumLogs /\ event \in 0 .. NumLogs /\ Len(logs) <= BufferSize
      /\ logs \in Seq(1 .. NumLogs) /\ delivered \in Seq(1 .. NumLogs)
  BY <1>1, NumLogsAssumption, BufferSizeAssumption
<1>3. TypeOK
  BY <1>2 DEF TypeOK
<1>4. LogsInv /\ TakenInv
  BY <1>1 DEF LogsInv, TakenInv
<1>5. SubInv
  BY DEF SubInv
<1> QED
  BY <1>3, <1>4, <1>5 DEF IInv

\* A log sent goes to the end of the channel.
LEMMA NodeSendsStep == IInv /\ NodeSends => IInv'
<1> SUFFICES ASSUME IInv, NodeSends
             PROVE  IInv'
  OBVIOUS
<1> USE NumLogsAssumption DEF IInv, NodeSends, subVars, watcher, user
<1>1. /\ logs \in Seq(1 .. NumLogs) /\ sent \in 0 .. NumLogs /\ sent + 1 \in 1 .. NumLogs
      /\ Len(logs) \in Nat /\ Len(logs) + 1 <= BufferSize /\ Len(delivered) \in Nat
  BY BufferSizeAssumption, LenProperties DEF TypeOK
<1>2. /\ logs' \in Seq(1 .. NumLogs)
      /\ Len(logs') = Len(logs) + 1
      /\ \A i \in DOMAIN logs' :
            logs'[i] = IF i = Len(logs) + 1 THEN sent + 1 ELSE logs[i]
  BY <1>1
<1>3. TypeOK'
  BY <1>1, <1>2 DEF TypeOK
<1>4. LogsInv'
  BY <1>1, <1>2 DEF LogsInv
<1>5. TakenInv'
  BY <1>1, <1>2 DEF TakenInv
<1>6. SubInv'
  BY DEF SubInv
<1> QED
  BY <1>3, <1>4, <1>5, <1>6

\* The goroutine returns, whatever ended its select.
LEMMA ReturnStep ==
    ASSUME IInv, pc # "returned",
           NEW e \in {NoError, RetrievalError, UnpackError}, Return(e),
           UNCHANGED <<malformed, sent, user>>,
           sourceErr' \in {<< >>, <<NoError>>, <<RetrievalError>>},
           event' \in 0 .. NumLogs,
           logs' \in Seq(1 .. NumLogs), Len(logs') <= BufferSize, LogsInv'
    PROVE  IInv'
<1> USE DEF IInv, Return, user
<1>1. err' \in {<< >>, <<RetrievalError>>, <<UnpackError>>}
  BY ErrorAssumption DEF ProducerReturns
<1>2. errClosed' /\ unsubscribed' /\ UNCHANGED quit
  BY DEF ProducerReturns
<1>3. TypeOK'
  BY <1>1, <1>2 DEF TypeOK, ProducerReturns
<1>4. SubInv' /\ TakenInv'
  BY <1>2 DEF SubInv, TakenInv
<1> QED
  BY <1>3, <1>4

\* What the head of the channel is.
LEMMA HeadOfLogs ==
    ASSUME IInv, logs # << >>
    PROVE  /\ Head(logs) = sent - Len(logs) + 1
           /\ Head(logs) \in 1 .. NumLogs
           /\ Tail(logs) \in Seq(1 .. NumLogs)
           /\ Len(Tail(logs)) = Len(logs) - 1
           /\ Len(logs) \in Nat \ {0}
           /\ \A i \in DOMAIN Tail(logs) : i + 1 \in DOMAIN logs /\ Tail(logs)[i] = logs[i + 1]
<1>1. logs \in Seq(1 .. NumLogs) /\ logs # << >>
  BY DEF IInv, TypeOK
<1>2. Len(logs) \in Nat \ {0} /\ 1 \in DOMAIN logs /\ Head(logs) = logs[1]
  BY <1>1
<1>3. /\ Head(logs) \in 1 .. NumLogs /\ Tail(logs) \in Seq(1 .. NumLogs)
      /\ Len(Tail(logs)) = Len(logs) - 1
      /\ \A i \in 1 .. Len(Tail(logs)) : Tail(logs)[i] = logs[i + 1]
  BY <1>1, HeadTailProperties
<1>4. DOMAIN Tail(logs) = 1 .. Len(Tail(logs)) /\ DOMAIN logs = 1 .. Len(logs)
  BY <1>1, <1>3
<1> QED
  BY <1>2, <1>3, <1>4 DEF IInv, LogsInv

\* The goroutine holds the event it took from the channel.
LEMMA ReceiveLogStep == IInv /\ ReceiveLog => IInv'
<1> SUFFICES ASSUME IInv, ReceiveLog
             PROVE  IInv'
  OBVIOUS
<1>1. /\ pc = "receive" /\ logs # << >> /\ logs' = Tail(logs) /\ event' = Head(logs)
      /\ UNCHANGED <<malformed, sent, sourceErr, user>>
  BY DEF ReceiveLog
<1>2. /\ sent \in 0 .. NumLogs /\ Len(logs) \in Nat \ {0} /\ Len(logs) <= sent
      /\ Len(logs') = Len(logs) - 1 /\ event' \in 1 .. NumLogs
      /\ event' = sent - Len(logs) + 1
      /\ logs' \in Seq(1 .. NumLogs)
      /\ \A i \in DOMAIN logs' :
            i + 1 \in DOMAIN logs /\ i \in Nat /\ logs'[i] = logs[i + 1]
  <2>1. \A i \in DOMAIN Tail(logs) : i \in Nat
    BY <1>1, HeadOfLogs
  <2> QED
    BY <1>1, <2>1, HeadOfLogs DEF IInv, TypeOK, LogsInv
<1>3. LogsInv'
  <2>1. sent' = sent /\ sent \in Nat
    BY <1>1, <1>2, NumLogsAssumption
  <2>2. ASSUME NEW i \in DOMAIN logs'
        PROVE  logs'[i] = sent' - Len(logs') + i
    <3>1. i \in Nat /\ logs'[i] = sent - Len(logs) + (i + 1)
      BY <1>2 DEF IInv, LogsInv
    <3> QED
      BY <1>2, <2>1, <3>1
  <2> QED
    BY <1>2, <2>1, <2>2 DEF LogsInv
<1>4. Len(logs') <= BufferSize
  BY <1>2, BufferSizeAssumption DEF IInv, TypeOK
<1>5. event' \in 0 .. NumLogs
  BY <1>2, NumLogsAssumption
<1>6. CASE Head(logs) \in malformed
  <2>1. Return(UnpackError)
    BY <1>6 DEF ReceiveLog
  <2>2. sourceErr' \in {<< >>, <<NoError>>, <<RetrievalError>>}
    BY <1>1 DEF IInv, TypeOK
  <2> QED
    BY <1>1, <1>2, <1>3, <1>4, <1>5, <2>1, <2>2, ReturnStep
<1>7. CASE Head(logs) \notin malformed
  <2>1. pc' = "send" /\ UNCHANGED <<returned, source, subVars>>
    BY <1>7 DEF ReceiveLog
  <2>2. TypeOK'
    BY <1>1, <1>2, <1>4, <1>5, <2>1 DEF IInv, TypeOK, subVars, user
  <2>3. TakenInv'
    <3>1. Len(delivered) + Len(logs) = sent /\ Len(delivered) \in Nat
      BY <1>1, LenProperties DEF IInv, TypeOK, TakenInv
    <3>2. UNCHANGED <<sent, delivered>>
      BY <1>1 DEF user
    <3> QED
      BY <1>2, <2>1, <3>1, <3>2 DEF TakenInv
  <2>4. SubInv'
    BY <1>1, <2>1 DEF IInv, SubInv, subVars
  <2> QED
    BY <1>3, <2>2, <2>3, <2>4 DEF IInv
<1> QED
  BY <1>6, <1>7

\* The event handed over is the next one.
LEMMA SendEventFacts ==
    ASSUME IInv, SendEvent
    PROVE  /\ event = Len(delivered) + 1 /\ event \in 1 .. NumLogs
           /\ Len(delivered) \in Nat /\ Len(delivered) < NumLogs
           /\ Len(delivered') = Len(delivered) + 1 /\ delivered' \in Seq(1 .. NumLogs)
           /\ Len(delivered') + Len(logs) = sent
<1>1. /\ pc = "send" /\ delivered' = Append(delivered, event)
      /\ delivered \in Seq(1 .. NumLogs) /\ logs \in Seq(1 .. NumLogs)
      /\ sent \in 0 .. NumLogs
  BY DEF IInv, TypeOK, SendEvent
<1>2. Len(delivered) \in Nat /\ Len(logs) \in Nat
  BY <1>1
<1>3. Len(delivered) + 1 + Len(logs) = sent /\ event = Len(delivered) + 1
  BY <1>1 DEF IInv, TakenInv
<1>4. event \in 1 .. NumLogs /\ Len(delivered) < NumLogs
  BY <1>1, <1>2, <1>3, NumLogsAssumption
<1>5. delivered' \in Seq(1 .. NumLogs) /\ Len(delivered') = Len(delivered) + 1
  BY <1>1, <1>4, AppendProperties
<1> QED
  BY <1>2, <1>3, <1>4, <1>5, <1>1

\* Every step keeps the invariant.
LEMMA InvNext == IInv /\ [Next]_vars => IInv'
<1> SUFFICES ASSUME IInv, [Next]_vars
             PROVE  IInv'
  OBVIOUS
<1>1. CASE NodeEnds
  BY <1>1 DEF IInv, NodeEnds, subVars, watcher, user, TypeOK, SubInv, LogsInv, TakenInv
<1>2. CASE SendEvent
  <2>1. /\ pc' = "receive" /\ pc = "send"
        /\ UNCHANGED <<subVars, node, event, returned, reading>>
    BY <1>2 DEF SendEvent
  <2>2. TypeOK'
    BY <1>2, <2>1, SendEventFacts DEF IInv, TypeOK, subVars, node
  <2>3. SubInv' /\ LogsInv' /\ TakenInv'
    BY <1>2, <2>1, SendEventFacts DEF IInv, SubInv, LogsInv, TakenInv, subVars, node
  <2> QED
    BY <2>2, <2>3 DEF IInv
<1>3. CASE ReceiveSourceErr \/ ReceiveQuit
  <2>1. /\ pc # "returned" /\ UNCHANGED <<malformed, sent, logs, event, user>>
        /\ sourceErr' \in {<< >>, sourceErr}
    BY <1>3 DEF ReceiveSourceErr, ReceiveQuit, SelectsErr, SelectsQuit, Selects
  <2>2. PICK e \in {NoError, RetrievalError, UnpackError} : Return(e)
    <3>1. CASE ReceiveQuit
      BY <3>1 DEF ReceiveQuit
    <3>2. CASE ReceiveSourceErr
      <4>1. sourceErr \in {<<NoError>>, <<RetrievalError>>} /\ Return(Head(sourceErr))
        BY <3>2 DEF ReceiveSourceErr, IInv, TypeOK
      <4>2. Head(<<NoError>>) = NoError /\ Head(<<RetrievalError>>) = RetrievalError
        OBVIOUS
      <4> QED
        BY <4>1, <4>2
    <3> QED
      BY <1>3, <3>1, <3>2
  <2>3. /\ sourceErr' \in {<< >>, <<NoError>>, <<RetrievalError>>} /\ event' \in 0 .. NumLogs
        /\ logs' \in Seq(1 .. NumLogs) /\ Len(logs') <= BufferSize
    BY <2>1 DEF IInv, TypeOK
  <2>4. LogsInv'
    BY <2>1 DEF IInv, LogsInv
  <2> QED
    BY <2>1, <2>2, <2>3, <2>4, ReturnStep
<1>4. CASE StartOrStopReading
  BY <1>4 DEF IInv, StartOrStopReading, subVars, node, watcher, TypeOK, SubInv, LogsInv,
     TakenInv
<1>5. CASE UserUnsubscribes
  BY <1>5 DEF IInv, UserUnsubscribes, Unsubscribe, node, watcher, user, TypeOK, SubInv,
     LogsInv, TakenInv
<1>6. CASE UserReceivesErr
  <2>1. /\ err # << >> /\ err' = << >> /\ UNCHANGED <<unsubscribed, quit, errClosed>>
        /\ UNCHANGED <<node, watcher, user>>
    BY <1>6 DEF UserReceivesErr, ReceiveErr
  <2> QED
    BY <2>1 DEF IInv, node, watcher, user, TypeOK, SubInv, LogsInv, TakenInv
<1>7. CASE UNCHANGED vars
  BY <1>7 DEF IInv, vars, subVars, node, watcher, user, TypeOK, SubInv, LogsInv, TakenInv
<1> QED
  BY <1>1, <1>2, <1>3, <1>4, <1>5, <1>6, <1>7, NodeSendsStep, ReceiveLogStep
  DEF Next, Watcher

\* The inductive invariant holds whatever the node and the user do.
THEOREM Invariance == Spec => []IInv
  BY InvInit, InvNext, PTL DEF Spec

\* The channel never holds more than its capacity, and the goroutine returns nil
\* or one of its two errors.
THEOREM TypeCorrect == Spec => []TypeOK
<1>1. IInv => TypeOK
  BY DEF IInv
<1> QED
  BY <1>1, Invariance, PTL

-----------------------------------------------------------------------------
(* The refinement.  Only SendEvent delivers, only a return ends the stream.*)

\* The goroutine's return ends the stream.
LEMMA ReturnRefines ==
    ASSUME pc # "returned", NEW e, Return(e), UNCHANGED user
    PROVE  EventStream!Next
  BY DEF Return, user, EventStream!Next, EventStream!End

\* Every step is one of the event stream, or none.
LEMMA RefinementNext == IInv /\ [Next]_vars => [EventStream!Next]_(EventStream!vars)
<1> SUFFICES ASSUME IInv, [Next]_vars
             PROVE  [EventStream!Next]_(EventStream!vars)
  OBVIOUS
<1> USE DEF EventStream!vars
<1>1. CASE SendEvent
  <2>1. delivered' = Append(delivered, Len(delivered) + 1) /\ Len(delivered) < NumLogs
    BY <1>1, SendEventFacts DEF SendEvent
  <2> QED
    BY <1>1, <2>1 DEF SendEvent, EventStream!Next, EventStream!Deliver
<1>2. CASE ReceiveSourceErr \/ ReceiveQuit
  BY <1>2, ReturnRefines
  DEF ReceiveSourceErr, ReceiveQuit, SelectsErr, SelectsQuit, Selects
<1>3. CASE ReceiveLog
  <2>1. CASE Head(logs) \in malformed
    BY <1>3, <2>1, ReturnRefines DEF ReceiveLog
  <2>2. CASE Head(logs) \notin malformed
    BY <1>3, <2>2 DEF ReceiveLog, user
  <2> QED
    BY <2>1, <2>2
<1>4. CASE NodeSends \/ NodeEnds \/ UserUnsubscribes \/ UserReceivesErr \/ UNCHANGED vars
  BY <1>4 DEF NodeSends, NodeEnds, UserUnsubscribes, UserReceivesErr, vars, watcher, user
<1>5. CASE StartOrStopReading
  BY <1>5 DEF StartOrStopReading, watcher
<1> QED
  BY <1>1, <1>2, <1>3, <1>4, <1>5 DEF Next, Watcher

\* The user receives the node's events in order, none twice and none left out,
\* until the goroutine returns, and none after that.
THEOREM EventStreamImplemented == Spec => ImplementsEventStream
<1>1. Init => EventStream!Init
  BY DEF Init, EventStream!Init
<1> QED
  BY <1>1, Invariance, RefinementNext, PTL
  DEF Spec, ImplementsEventStream, EventStream!Spec
=============================================================================
