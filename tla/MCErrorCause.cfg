CONSTANTS
    s1 = s1
    s2 = s2
    Senders = {s1}
    Candidate <- MCOneCandidate
    Quote <- MCQuote
    Capacity <- MCCapacity
    LastSlot = 4
    MaxUint64 = 6
    MaxAttempts = 2
    MaxFaults = 2
    MaxOthers = 1
    Cancellable = {s1}
    NoNonce = NoNonce
    NoTx = NoTx
SPECIFICATION Spec
INVARIANTS
    ErrorsHaveCause
CHECK_DEADLOCK FALSE
