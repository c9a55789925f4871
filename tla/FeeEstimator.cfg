CONSTANTS
    eth = eth
    erc = erc
    btc = btc
    bsc = bsc
    tnet = tnet
    r1 = r1
    r2 = r2
    NoChain = NoChain
    Coins <- MCLiveCoins
    EthCoins <- MCLiveCoins
    ChainId <- MCChainId
    NoChainId = NoChain
    SupportedChainId = 1
    Zero = Zero
    NoCoin = NoCoin
    Callers <- MCCallers
    MaxSpawns = 2

SPECIFICATION FairSpec
INVARIANTS
    TypeOK
    SingleActiveLoop
    LateWriteAtMostOnce
PROPERTIES
    AbortedLoopTerminates
    ImplementsLifecycle
