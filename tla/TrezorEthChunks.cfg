CONSTANTS
    Width = 2
    Amounts <- MCAmounts
    DataLengths <- MCDataLengths
    ChainIds <- MCChainIds
    RecoveryVs <- MCRecoveryVs
SPECIFICATION Spec
INVARIANTS
    ChunksMatchRequests
CHECK_DEADLOCK FALSE
