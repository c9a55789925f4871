CONSTANTS
    Width = 2
    Amounts <- MCAmounts
    DataLengths <- MCDataLengths
    ChainIds <- MCChainIds
    RecoveryVs <- MCRecoveryVs
SPECIFICATION Spec
INVARIANTS
    TrimPreservesValue
CHECK_DEADLOCK FALSE
