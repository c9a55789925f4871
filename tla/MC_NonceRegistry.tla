------------------------- MODULE MC_NonceRegistry -------------------------
(* One platform coin with a token and its global NFT, three coin          *)
(* instances (so the platform can be disabled and built again while a      *)
(* token of the first instance is alive) and two concurrent operations.   *)
EXTENDS NonceRegistry, TLC

CONSTANTS ETH, USDT, NFT_ETH, BNB, s1, s2, s3, g1, g2

MCPlatforms == {ETH}
MCTokens == {USDT, NFT_ETH}
MCPlatformOf == [t \in MCTokens |-> ETH]
MCSlots == {s1, s2, s3}
MCSigners == {g1, g2}
MCSignerSymmetry == Permutations(MCSigners)
=============================================================================
