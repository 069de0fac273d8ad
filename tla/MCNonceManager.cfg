\* Three goroutines, a five-value uint64 from every starting nonce, so that the
\* first failed signature underflows and the later nonces wrap around.
CONSTANTS
    Callers = {c1, c2, c3}
    NoNonce = NoNonce
    NoCaller = NoCaller
    MaxUint64 = 4
    MaxSigned = 5
SPECIFICATION FairSpec
INVARIANTS
    TypeOK
    NoNonceSignedTwice
    SignedNoncesConsecutive
PROPERTIES
    ImplementsAllocator
    LockIsReleased
\* Once MaxSigned transactions are signed the callers stop.
CHECK_DEADLOCK FALSE
