\* The value of a candidate with blobs.
CONSTANTS
    Callers = {c1, c2}
    Candidates <- MCCandidates
    Genesis <- MCGenesis
    LastBlock = 2
    MaxAttempts = 1
    Cancellable = {}
SPECIFICATION Spec
INVARIANTS
    GasIsForTheTransaction
CHECK_DEADLOCK FALSE
