---------------------------- MODULE MC_Web3Pool ----------------------------
(* Small node lists for Web3Pool.                                         *)
EXTENDS Web3Pool, TLC

CONSTANTS h1, w1, x1, u1

(* h1: http node running Geth; w1: ws node running Parity; x1: a node     *)
(* with an ftp url; u1: a url parse() rejects.                            *)
MCNodes == {h1, w1, x1, u1}
MCScheme == [n \in MCNodes |->
                CASE n = h1 -> "http" [] n = w1 -> "wss" [] n = x1 -> "ftp"
                  [] OTHER -> "unparsable"]
MCVersion == [n \in MCNodes |-> IF n = w1 THEN "Parity" ELSE "Geth"]

(* Every list of up to three distinct configured nodes, the empty one too. *)
MCNodeLists == {l \in UNION {[1..k -> MCNodes] : k \in 0..3} : IsInjective(l)}
=============================================================================
