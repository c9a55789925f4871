CONSTANTS
    ETH = ETH
    BSC = BSC
    n1 = n1
    n2 = n2
    n3 = n3
    n4 = n4
    me = me
    other = other
    Accounts <- MCAccounts
    WalletOf <- MCWalletOf
    Recipient <- MCRecipient
    Pages <- MCPages
    ChainLists <- MCChainLists
    Answers = {"page", "error", "no_result"}
SPECIFICATION Spec
INVARIANTS
    ListedInServerOrder
CHECK_DEADLOCK FALSE
