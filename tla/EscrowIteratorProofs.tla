------------------------ MODULE EscrowIteratorProofs ------------------------
(***************************************************************************)
(* Proofs about EscrowIterator for any number of logs, any channel         *)
(* capacity and any malformed logs.                                        *)
(***************************************************************************)
EXTENDS EscrowIterator, SequenceTheorems, TLAPS

\* Nothing has an error before the producer returned, and only a Close or
\* its return unsubscribes.
SubInv ==
    /\ unsubscribed <=> quit \/ errClosed
    /\ ~errClosed => err = << >>

\* The channel holds the logs sent last...
LogsInv ==
    /\ Len(logs) <= sent
    /\ \A i \in DOMAIN logs : logs[i] = sent - Len(logs) + i

\* ...and the user has got all before them, unless one did not unpack.
TakenInv == fail # UnpackError => Len(delivered) + Len(logs) = sent

\* The iterator is done once it has the end of the subscription...
DoneInv == done => errClosed /\ err = << >>

\* ...which comes after the last log, after a Close, or with an error.
EndInv ==
    errClosed =>
        \/ sent = NumLogs
        \/ quit
        \/ err = <<RetrievalError>>
        \/ fail # NoError

\* A false is final: there is an error or there are no more logs.
FalseInv == result = "false" => fail # NoError \/ (done /\ logs = << >>)

IInv == TypeOK /\ SubInv /\ LogsInv /\ TakenInv /\ DoneInv /\ EndInv /\ FalseInv

-----------------------------------------------------------------------------
\* The invariant holds before the first log.
LEMMA InvInit == Init => IInv
<1> SUFFICES ASSUME Init
             PROVE  IInv
  OBVIOUS
<1> USE DEF Init, SubInit
<1>1. << >> \in Seq(1 .. NumLogs) /\ Len(<< >>) = 0
  BY EmptySeq
<1>2. TypeOK
  <2>1. sent \in 0 .. NumLogs /\ Len(logs) <= BufferSize
    BY <1>1, NumLogsAssumption, BufferSizeAssumption
  <2>2. logs \in Seq(1 .. NumLogs) /\ delivered \in Seq(1 .. NumLogs)
    BY <1>1
  <2>3. err \in {<< >>, <<RetrievalError>>} /\ fail \in Errors
    BY DEF Errors
  <2> QED
    BY <2>1, <2>2, <2>3 DEF TypeOK
<1>3. LogsInv
  <2>1. DOMAIN logs = 1 .. 0
    BY <1>1, LenProperties
  <2> QED
    BY <1>1, <2>1 DEF LogsInv
<1>4. TakenInv
  BY <1>1 DEF TakenInv
<1>5. SubInv /\ DoneInv /\ EndInv /\ FalseInv
  BY DEF SubInv, DoneInv, EndInv, FalseInv
<1> QED
  BY <1>2, <1>3, <1>4, <1>5 DEF IInv

\* A log sent goes to the end of the channel.
LEMMA ProduceStep == IInv /\ Produce => IInv'
<1> SUFFICES ASSUME IInv, Produce
             PROVE  IInv'
  OBVIOUS
<1> USE NumLogsAssumption DEF IInv, Produce, subVars
<1>1. /\ logs \in Seq(1 .. NumLogs) /\ sent \in 0 .. NumLogs /\ sent + 1 \in 1 .. NumLogs
      /\ Len(logs) \in Nat /\ Len(logs) + 1 <= BufferSize /\ delivered \in Seq(1 .. NumLogs)
  BY BufferSizeAssumption DEF TypeOK
<1>2. /\ logs' \in Seq(1 .. NumLogs)
      /\ Len(logs') = Len(logs) + 1
      /\ \A i \in DOMAIN logs' :
            logs'[i] = IF i = Len(logs) + 1 THEN sent + 1 ELSE logs[i]
  BY <1>1
<1>3. TypeOK'
  BY <1>1, <1>2 DEF TypeOK
<1>4. LogsInv'
  BY <1>1, <1>2 DEF LogsInv
<1>5. TakenInv'
  BY <1>1, <1>2 DEF TakenInv
<1>6. SubInv' /\ DoneInv' /\ EndInv' /\ FalseInv'
  BY DEF SubInv, DoneInv, EndInv, FalseInv
<1> QED
  BY <1>3, <1>4, <1>5, <1>6

\* The subscription ends after the last log, or with an error.
LEMMA ProducerReturnStep == IInv /\ (ProducerEnds \/ ProducerFails) => IInv'
<1> SUFFICES ASSUME IInv, ProducerEnds \/ ProducerFails
             PROVE  IInv'
  OBVIOUS
<1> USE ErrorAssumption
    DEF IInv, ProducerEnds, ProducerFails, ProducerReturns, producer, iterator
<1>1. TypeOK'
  BY DEF TypeOK
<1>2. SubInv' /\ DoneInv'
  BY DEF SubInv, DoneInv
<1>3. LogsInv' /\ TakenInv' /\ FalseInv'
  BY DEF LogsInv, TakenInv, FalseInv
<1>4. EndInv'
  BY DEF EndInv, SubInv
<1> QED
  BY <1>1, <1>2, <1>3, <1>4

\* What the head of the channel is.
LEMMA HeadOfLogs ==
    ASSUME IInv, logs # << >>
    PROVE  /\ Head(logs) = sent - Len(logs) + 1
           /\ Head(logs) \in 1 .. NumLogs
           /\ Tail(logs) \in Seq(1 .. NumLogs)
           /\ Len(Tail(logs)) = Len(logs) - 1
           /\ Len(logs) \in Nat \ {0}
           /\ \A i \in DOMAIN Tail(logs) : Tail(logs)[i] = logs[i + 1]
<1>1. logs \in Seq(1 .. NumLogs) /\ logs # << >>
  BY DEF IInv, TypeOK
<1>2. Len(logs) \in Nat \ {0} /\ 1 \in DOMAIN logs /\ Head(logs) = logs[1]
  BY <1>1
<1>3. /\ Head(logs) \in 1 .. NumLogs /\ Tail(logs) \in Seq(1 .. NumLogs)
      /\ Len(Tail(logs)) = Len(logs) - 1
      /\ \A i \in 1 .. Len(Tail(logs)) : Tail(logs)[i] = logs[i + 1]
  BY <1>1, HeadTailProperties
<1>4. DOMAIN Tail(logs) = 1 .. Len(Tail(logs))
  BY <1>3
<1> QED
  BY <1>2, <1>3, <1>4 DEF IInv, LogsInv

\* The log taken is the next event, or does not unpack.
LEMMA TakeStep == ASSUME IInv, calling, fail = NoError, TakeLog PROVE IInv'
<1> USE DEF IInv, TakeLog, Return, producer, subVars
<1>1. /\ logs # << >> /\ logs' = Tail(logs) /\ UNCHANGED <<subVars, producer, done, closing>>
      /\ calling' = FALSE
  BY DEF TakeLog
<1>2. \/ Head(logs) \in malformed /\ fail' = UnpackError /\ result' = "false"
         /\ UNCHANGED delivered
      \/ UNCHANGED fail /\ result' = "true" /\ delivered' = Append(delivered, Head(logs))
  BY DEF TakeLog
<1> HIDE DEF TakeLog, Return
<1>3. /\ sent \in 0 .. NumLogs /\ Len(logs) \in Nat \ {0} /\ Len(logs) <= sent
      /\ Len(logs') = Len(logs) - 1 /\ Head(logs) \in 1 .. NumLogs
      /\ logs' \in Seq(1 .. NumLogs) /\ delivered \in Seq(1 .. NumLogs)
      /\ \A i \in DOMAIN logs' : i + 1 \in DOMAIN logs /\ logs'[i] = logs[i + 1]
  BY <1>1, HeadOfLogs, NumLogsAssumption DEF TypeOK, LogsInv
<1>4. /\ Append(delivered, Head(logs)) \in Seq(1 .. NumLogs)
      /\ Len(Append(delivered, Head(logs))) = Len(delivered) + 1
      /\ Len(delivered) \in Nat
  BY <1>3, AppendProperties, LenProperties
<1>5. TypeOK'
  <2>1. delivered' \in Seq(1 .. NumLogs)
    BY <1>2, <1>3, <1>4
  <2>2. fail' \in Errors /\ result' \in {"none", "true", "false"}
    BY <1>2 DEF TypeOK, Errors
  <2>3. logs' \in Seq(1 .. NumLogs) /\ Len(logs') <= BufferSize
    BY <1>3, BufferSizeAssumption DEF TypeOK
  <2>4. calling' \in BOOLEAN
    BY <1>1
  <2> QED
    BY <1>1, <2>1, <2>2, <2>3, <2>4 DEF TypeOK
<1>6. LogsInv'
  BY <1>1, <1>3, NumLogsAssumption DEF LogsInv
<1>7. TakenInv'
  <2>1. CASE fail' = UnpackError
    BY <2>1 DEF TakenInv
  <2>2. CASE delivered' = Append(delivered, Head(logs)) /\ UNCHANGED fail
    <3>1. Len(delivered') = Len(delivered) + 1
      BY <1>4, <2>2
    <3>2. (fail' # UnpackError) => Len(delivered) + Len(logs) = sent
      BY <2>2 DEF TakenInv
    <3>3. sent' = sent
      BY <1>1
    <3>4. Len(logs') = Len(logs) - 1 /\ Len(logs) \in Nat /\ Len(delivered) \in Nat
      BY <1>3, <1>4
    <3>5. (fail' # UnpackError) => Len(delivered') + Len(logs') = sent'
      BY <3>1, <3>2, <3>3, <3>4
    <3> QED
      BY <3>5 DEF TakenInv
  <2> QED
    BY <1>2, <2>1, <2>2
<1>8. SubInv' /\ DoneInv' /\ EndInv' /\ FalseInv'
  BY <1>1, <1>2, ErrorAssumption DEF SubInv, DoneInv, EndInv, FalseInv
<1> QED
  BY <1>5, <1>6, <1>7, <1>8

\* Sequences of one element are equal when their elements are.
LEMMA OneElement == \A a, b : <<a>> # << >> /\ (<<a>> = <<b>> => a = b)
<1> SUFFICES ASSUME NEW a, NEW b
             PROVE  <<a>> # << >> /\ (<<a>> = <<b>> => a = b)
  OBVIOUS
<1>1. Len(<<a>>) = 1 /\ <<a>>[1] = a /\ <<b>>[1] = b
  OBVIOUS
<1>2. Len(<< >>) = 0
  BY EmptySeq
<1> QED
  BY <1>1, <1>2

\* Each branch of Next keeps the invariant.
LEMMA NextStep == IInv /\ IterNext => IInv'
<1> SUFFICES ASSUME IInv, IterNext
             PROVE  IInv'
  OBVIOUS
<1>1. CASE NextFailed \/ NextExhausted
  <2>1. /\ UNCHANGED <<subVars, producer, logs, done, fail, delivered, closing>>
        /\ calling' = FALSE /\ result' = "false"
        /\ fail # NoError \/ (done /\ logs = << >>)
    BY <1>1 DEF NextFailed, NextExhausted, Return
  <2>2. calling' \in BOOLEAN
    BY <2>1
  <2>3. TypeOK'
    BY <2>1, <2>2 DEF IInv, TypeOK, subVars, producer
  <2>4. SubInv' /\ LogsInv' /\ TakenInv' /\ DoneInv' /\ EndInv'
    BY <2>1 DEF IInv, subVars, producer, SubInv, LogsInv, TakenInv, DoneInv, EndInv
  <2>5. FalseInv'
    BY <2>1 DEF FalseInv
  <2> QED
    BY <2>3, <2>4, <2>5 DEF IInv
<1>2. CASE NextDrains \/ NextTakes
  BY <1>2, TakeStep DEF NextDrains, NextTakes
<1>3. CASE NextEnds
  <2>1. PICK e \in Errors : ReceiveErr(e) /\ fail' = e
    BY <1>3 DEF NextEnds
  <2>2. /\ errClosed /\ err' = << >> /\ UNCHANGED <<unsubscribed, quit, errClosed>>
        /\ fail' \in {NoError, RetrievalError} /\ (err # << >> => fail' # NoError)
    <3>1. err' = << >> /\ UNCHANGED <<unsubscribed, quit, errClosed>>
      BY <2>1 DEF ReceiveErr
    <3>2. CASE err = <<e>>
      <4>1. err = <<RetrievalError>>
        BY <3>2, OneElement DEF IInv, TypeOK
      <4>2. e = RetrievalError
        BY <3>2, <4>1, OneElement
      <4>3. err # << >>
        BY <4>1, OneElement
      <4> QED
        BY <2>1, <3>1, <4>2, <4>3, ErrorAssumption DEF IInv, SubInv
    <3>3. CASE err = << >> /\ errClosed /\ e = NoError
      BY <2>1, <3>1, <3>3
    <3> QED
      BY <2>1, <3>2, <3>3 DEF ReceiveErr
  <2>3. /\ done' /\ fail = NoError
        /\ UNCHANGED <<producer, logs, calling, result, delivered, closing>>
    BY <1>3 DEF NextEnds
  <2>4. done' \in BOOLEAN
    BY <1>3 DEF NextEnds
  <2>5. TypeOK'
    BY <2>2, <2>3, <2>4 DEF IInv, TypeOK, producer, Errors
  <2>6. SubInv' /\ LogsInv' /\ TakenInv' /\ DoneInv'
    BY <2>2, <2>3, ErrorAssumption
    DEF IInv, SubInv, LogsInv, TakenInv, DoneInv, producer
  <2>7. EndInv' /\ FalseInv'
    BY <1>3, <2>2, <2>3 DEF IInv, EndInv, FalseInv, producer, NextEnds
  <2> QED
    BY <2>5, <2>6, <2>7 DEF IInv
<1> QED
  BY <1>1, <1>2, <1>3 DEF IterNext

\* Every step keeps the invariant.
LEMMA InvNext == IInv /\ [Next]_vars => IInv'
<1> SUFFICES ASSUME IInv, [Next]_vars
             PROVE  IInv'
  OBVIOUS
<1>1. CASE Call \/ CloseAfterEnd \/ UNCHANGED vars
  <2>1. /\ UNCHANGED <<subVars, producer, logs, done, fail, result, delivered>>
        /\ calling' \in BOOLEAN /\ closing' \in {"open", "waiting", "closed"}
    BY <1>1 DEF IInv, TypeOK, Call, CloseAfterEnd, vars, iterator
  <2>2. TypeOK'
    BY <2>1 DEF IInv, TypeOK, subVars, producer
  <2> QED
    BY <2>1, <2>2 DEF IInv, subVars, producer, SubInv, LogsInv, TakenInv, DoneInv,
       EndInv, FalseInv
<1>2. CASE Close
  BY <1>2 DEF IInv, Close, Unsubscribe, iterator, producer, TypeOK, SubInv,
     LogsInv, TakenInv, DoneInv, EndInv, FalseInv
<1>3. CASE CloseReturns
  <2>1. err = << >> /\ errClosed /\ UNCHANGED subVars
    BY <1>3, ErrorAssumption DEF CloseReturns, ReceiveErr, IInv, TypeOK, subVars
  <2> QED
    BY <1>3, <2>1 DEF IInv, CloseReturns, iterator, subVars, producer, TypeOK, SubInv,
       LogsInv, TakenInv, DoneInv, EndInv, FalseInv
<1> QED
  BY <1>1, <1>2, <1>3, ProduceStep, ProducerReturnStep, NextStep DEF Next, Producer

\* The inductive invariant holds however the goroutines interleave.
THEOREM Invariance == Spec => []IInv
  BY InvInit, InvNext, PTL DEF Spec

\* The channel never holds more than its capacity, and the errors and flags
\* of the iterator keep their types.
THEOREM TypeCorrect == Spec => []TypeOK
<1>1. IInv => TypeOK
  BY DEF IInv
<1> QED
  BY <1>1, Invariance, PTL

-----------------------------------------------------------------------------
(* The refinement.  A false of Next fixes the outcome; the two errors that *)
(* a user cannot tell apart are one outcome.                               *)

\* At the start nothing is delivered.
LEMMA RefinementInit == Init => EventStream!Init
<1> SUFFICES ASSUME Init
             PROVE  EventStream!Init
  OBVIOUS
<1> QED
  BY DEF Init, EventStream!Init, StreamOutcome

\* An event is the next one of the chain, or ends the stream with an error.
LEMMA TakeRefines ==
    ASSUME IInv, calling, fail = NoError, result # "false", TakeLog
    PROVE  EventStream!Next
<1>1. fail # UnpackError /\ StreamOutcome = "open"
  BY ErrorAssumption DEF StreamOutcome
<1>2. /\ sent \in 0 .. NumLogs /\ Len(logs) \in Nat \ {0} /\ Len(delivered) \in Nat
      /\ Len(delivered) + Len(logs) = sent /\ Head(logs) = sent - Len(logs) + 1
  BY <1>1, HeadOfLogs, LenProperties DEF IInv, TypeOK, TakenInv, TakeLog
<1>3. Len(delivered) < NumLogs /\ Head(logs) = Len(delivered) + 1
  BY <1>2, NumLogsAssumption
<1>4. CASE Head(logs) \in malformed
  <2>1. fail' = UnpackError /\ result' = "false" /\ UNCHANGED delivered
    BY <1>4 DEF TakeLog, Return
  <2>2. StreamOutcome' = "error"
    BY <2>1, ErrorAssumption DEF StreamOutcome
  <2> QED
    BY <1>1, <2>1, <2>2 DEF EventStream!Next, EventStream!End
<1>5. CASE Head(logs) \notin malformed
  <2>1. delivered' = Append(delivered, Head(logs)) /\ result' = "true"
    BY <1>5 DEF TakeLog, Return
  <2>2. StreamOutcome' = "open"
    BY <2>1 DEF StreamOutcome
  <2> QED
    BY <1>1, <1>3, <2>1, <2>2 DEF EventStream!Next, EventStream!Deliver
<1> QED
  BY <1>4, <1>5

\* A false without an error: all logs were delivered, or the user closed.
LEMMA NothingMissed ==
    ASSUME IInv, fail = NoError, done, logs = << >>
    PROVE  quit \/ Len(delivered) = NumLogs
<1>1. errClosed /\ err = << >>
  BY DEF IInv, DoneInv
<1>2. err # <<RetrievalError>>
  BY <1>1, OneElement
<1>3. sent = NumLogs \/ quit
  BY <1>1, <1>2 DEF IInv, EndInv
<1>4. Len(delivered) + Len(logs) = sent /\ Len(logs) = 0 /\ Len(delivered) \in Nat
  BY ErrorAssumption, EmptySeq, LenProperties DEF IInv, TakenInv, TypeOK
<1> QED
  BY <1>3, <1>4

\* Next delivers the next event, ends the stream, or does neither.
LEMMA NextRefines == IInv /\ IterNext => [EventStream!Next]_(EventStream!vars)
<1> SUFFICES ASSUME IInv, IterNext
             PROVE  EventStream!Next \/ UNCHANGED EventStream!vars
  BY DEF EventStream!vars
<1>1. CASE NextFailed
  <2>1. fail # NoError /\ result' = "false" /\ UNCHANGED <<fail, delivered>>
    BY <1>1 DEF NextFailed, Return
  <2>2. StreamOutcome' = "error" /\ StreamOutcome \in {"open", "error"}
    BY <2>1 DEF StreamOutcome
  <2> QED
    BY <2>1, <2>2 DEF EventStream!Next, EventStream!End, EventStream!vars
<1>2. CASE NextDrains \/ NextTakes
  <2>1. calling /\ fail = NoError /\ TakeLog /\ logs # << >>
    BY <1>2 DEF NextDrains, NextTakes, TakeLog
  <2>2. result # "false"
    BY <2>1 DEF IInv, FalseInv
  <2> QED
    BY <2>1, <2>2, TakeRefines
<1>3. CASE NextExhausted
  <2>1. /\ fail = NoError /\ done /\ logs = << >> /\ result' = "false"
        /\ UNCHANGED <<fail, delivered, quit>>
    BY <1>3 DEF NextExhausted, Return, subVars
  <2>2. quit \/ Len(delivered) = NumLogs
    BY <2>1, NothingMissed
  <2>3. StreamOutcome' \in {"closed", "complete"}
        /\ (StreamOutcome' = "complete" => Len(delivered) = NumLogs)
    BY <2>1, <2>2 DEF StreamOutcome
  <2>4. StreamOutcome \in {"open", StreamOutcome'}
    BY <2>1 DEF StreamOutcome
  <2> QED
    BY <2>1, <2>3, <2>4 DEF EventStream!Next, EventStream!End, EventStream!vars
<1>4. CASE NextEnds
  <2>1. fail = NoError /\ ~done /\ UNCHANGED <<result, delivered>>
    BY <1>4 DEF NextEnds
  <2>2. result # "false"
    BY <2>1 DEF IInv, FalseInv
  <2>3. UNCHANGED StreamOutcome
    BY <2>1, <2>2 DEF StreamOutcome
  <2> QED
    BY <2>1, <2>3 DEF EventStream!vars
<1> QED
  BY <1>1, <1>2, <1>3, <1>4 DEF IterNext

\* Close changes the outcome of no stream that has ended.
LEMMA CloseRefines == IInv /\ Close => UNCHANGED EventStream!vars
<1> SUFFICES ASSUME IInv, Close
             PROVE  UNCHANGED EventStream!vars
  OBVIOUS
<1>1. ~errClosed /\ UNCHANGED <<result, fail, delivered>>
  BY DEF Close, Unsubscribe, IInv, SubInv, iterator
<1>2. ~done
  BY <1>1 DEF IInv, DoneInv
<1>3. result = "false" => fail # NoError
  BY <1>2 DEF IInv, FalseInv
<1>4. UNCHANGED StreamOutcome
  BY <1>1, <1>3 DEF StreamOutcome
<1> QED
  BY <1>1, <1>4 DEF EventStream!vars

\* Every step is one of the event stream, or none.
LEMMA RefinementNext == IInv /\ [Next]_vars => [EventStream!Next]_(EventStream!vars)
<1> SUFFICES ASSUME IInv, [Next]_vars
             PROVE  [EventStream!Next]_(EventStream!vars)
  OBVIOUS
<1>1. CASE Producer \/ ProducerFails \/ Call \/ CloseAfterEnd \/ CloseReturns \/ UNCHANGED vars
  <2>1. UNCHANGED <<result, fail, delivered, quit>>
    BY <1>1 DEF Producer, Produce, ProducerEnds, ProducerFails, ProducerReturns, Call,
       CloseAfterEnd, CloseReturns, ReceiveErr, iterator, subVars, vars
  <2>2. UNCHANGED StreamOutcome
    BY <2>1 DEF StreamOutcome
  <2> QED
    BY <2>1, <2>2 DEF EventStream!vars
<1> QED
  BY <1>1, NextRefines, CloseRefines DEF Next

\* A user gets the events in order, each once, and a false of Next without an
\* error means that none is missing unless the user closed the iterator,
\* however the subscription's end races with the last logs.
THEOREM EventStreamImplemented == Spec => ImplementsEventStream
<1>1. Spec => [][EventStream!Next]_(EventStream!vars)
  BY Invariance, RefinementNext, PTL DEF Spec
<1>2. Spec => EventStream!Init
  BY RefinementInit DEF Spec
<1> QED
  BY <1>1, <1>2, PTL DEF ImplementsEventStream, EventStream!Spec
=============================================================================
