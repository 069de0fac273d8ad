CONSTANTS
    s1 = s1
    s2 = s2
    Senders = {s1, s2}
    Candidate <- MCCandidate
    Quote <- MCQuote
    Capacity <- MCCapacity
    LastSlot = 4
    MaxUint64 = 6
    MaxAttempts = 2
    MaxFaults = 2
    MaxOthers = 0
    Cancellable = {}
    NoNonce = NoNonce
    NoTx = NoTx
SPECIFICATION Spec
INVARIANTS
    TypeOK
    DepositIsQuotedForItsSlot
    SubmittedTxFitsReservation
    ReceiptAskedAfterOwnSlot
    NoSecondDepositWithoutFault
    EachNonceHasItsSend
PROPERTIES
    EachTurnMovesOn
    ImplementsSynchronousSend
    ImplementsTxPreparation
    ImplementsNonceAllocator
CHECK_DEADLOCK FALSE
