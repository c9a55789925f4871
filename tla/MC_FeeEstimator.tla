------------------------- MODULE MC_FeeEstimator -------------------------
(* Small instances of FeeEstimator for TLC.                                *)
EXTENDS FeeEstimator, TLC

CONSTANTS eth, erc, btc, bsc, tnet, r1, r2, NoChain

(* eth: the platform coin on mainnet; erc: a token on mainnet; btc: not an *)
(* EthCoin; bsc: an EthCoin of chain 56; tnet: an EthCoin whose conf has   *)
(* no chain_id.                                                            *)
MCChainId == [c \in {eth, erc, btc, bsc, tnet} |->
                 CASE c = bsc -> 56
                   [] c = tnet -> NoChain
                   [] OTHER -> 1]
MCLiveCoins == {eth}
MCCallers == {r1, r2}
=============================================================================
