CONSTANTS
    atom = atom
    ibc = ibc
    uatom = uatom
    ibcx = ibcx
    uosmo = uosmo
    None = None
    Tickers <- MCTickers
    Denoms <- MCDenoms
    TickerOf <- MCTickerOf
    Balances = {0, 1}
    MaxChanges = 3
SPECIFICATION Spec
INVARIANTS
    BroadcastOnlyChanges
    CacheMatchesLastBroadcast
