CONSTANTS
    h1 = h1
    w1 = w1
    x1 = x1
    u1 = u1
    Nodes <- MCNodes
    Scheme <- MCScheme
    Version <- MCVersion
    NodeLists <- MCNodeLists
SPECIFICATION Spec
INVARIANTS
    OutcomeAsSpecified
    PoolInShuffledOrder
CHECK_DEADLOCK FALSE
