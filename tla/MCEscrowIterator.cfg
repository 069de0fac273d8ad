\* More logs than the channel holds, so that the producer has to wait.
CONSTANTS
    NumLogs = 4
    BufferSize = 2
    NoError = NoError
    RetrievalError = RetrievalError
    UnpackError = UnpackError
SPECIFICATION FairSpec
INVARIANTS
    TypeOK
PROPERTIES
    ImplementsEventStream
    NextReturns
