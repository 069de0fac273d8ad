\* Two Sends; six full blocks after the first one; two attempts.
CONSTANTS
    Callers = {c1, c2}
    Candidates <- MCCandidates
    Genesis <- MCGenesis
    LastBlock = 6
    MaxAttempts = 2
    Cancellable = {c1}
SPECIFICATION Spec
INVARIANTS
    TypeOK
    BaseFeeCapCoversSixBlocks
    BlobFeeCapCoversThreeBlocks
PROPERTIES
    ImplementsTxPreparation
    PrepareReturns
\* Every prepare returns.
CHECK_DEADLOCK FALSE
