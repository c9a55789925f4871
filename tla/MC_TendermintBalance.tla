----------------------- MODULE MC_TendermintBalance -----------------------
(* Two active tickers (the native coin and an IBC token), a denom no coin *)
(* is active for, two balance values and three transfers.                 *)
EXTENDS TendermintBalance, TLC

CONSTANTS atom, ibc, uatom, ibcx, uosmo

MCTickers == {atom, ibc}
MCDenoms == {uatom, ibcx, uosmo}
MCTickerOf == (uatom :> atom) @@ (ibcx :> ibc) @@ (uosmo :> None)
=============================================================================
