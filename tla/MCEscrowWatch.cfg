CONSTANTS
    NumLogs = 3
    BufferSize = 2
    NoError = NoError
    RetrievalError = RetrievalError
    UnpackError = UnpackError
SPECIFICATION FairSpec
INVARIANTS
    TypeOK
PROPERTIES
    ImplementsEventStream
    UnsubscribeEnds
    NodeErrorEnds
