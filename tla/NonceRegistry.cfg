CONSTANTS
    ETH = ETH
    USDT = USDT
    NFT_ETH = NFT_ETH
    BNB = BNB
    s1 = s1
    s2 = s2
    s3 = s3
    g1 = g1
    g2 = g2
    None = None
    Platforms <- MCPlatforms
    Tokens <- MCTokens
    PlatformOf <- MCPlatformOf
    Slots <- MCSlots
    Signers <- MCSigners
    MaxLocks = 2
    MaxNonce = 2
SYMMETRY MCSignerSymmetry
SPECIFICATION Spec
INVARIANTS
    NonceMutualExclusion
    NoncesStrictlyIncrease
