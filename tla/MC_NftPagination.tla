-------------------------- MODULE MC_NftPagination --------------------------
(* NftPagination for TLC: ETH has three pages, the middle one empty (a    *)
(* page may be), BSC one; a request names up to three chains, repeats     *)
(* allowed.  The wallet's address is checksummed; the server spells the    *)
(* recipients in lower case (n1, n2) or checksummed (n3, n4), n1 and n3    *)
(* being the wallet itself.                                                *)
EXTENDS NftPagination, TLC

CONSTANTS ETH, BSC, n1, n2, n3, n4, me, other

MCPages == (ETH :> <<<<n1, n2>>, <<>>, <<n3>>>>) @@ (BSC :> <<<<n4>>>>)
MCChainLists == UNION {[1..k -> {ETH, BSC}] : k \in 0..3}
MCChains == {<<ETH, BSC>>}
MCAccounts == {me, other}
MCWalletOf == [c \in {ETH, BSC} |-> [acct |-> me, cased |-> TRUE]]
MCRecipient == (n1 :> [acct |-> me, cased |-> FALSE]) @@ (n2 :> [acct |-> other, cased |-> FALSE])
            @@ (n3 :> [acct |-> me, cased |-> TRUE]) @@ (n4 :> [acct |-> other, cased |-> TRUE])
=============================================================================
