-------------------------- MODULE TendermintBalance --------------------------
(***************************************************************************)
(* The balance event streamer of coins/tendermint/                          *)
(* tendermint_balance_events.rs (EventBehaviour::handle).                  *)
(*                                                                         *)
(* The handler loops forever: get an rpc client, open the node's websocket,*)
(* send the two subscription queries (coin_received, coin_spent), then     *)
(* read messages until Close or an error.  Any failure before the read    *)
(* loop is logged and the outer loop starts again at once.  A Text message*)
(* names the denoms of its transfers; for each denom of an active ticker  *)
(* the balance is fetched (an await): an error broadcasts an error event  *)
(* for that ticker and goes on with the next denom, a balance different   *)
(* from current_balances (or the first one) updates current_balances and  *)
(* is added to balance_updates, broadcast as one event after the denoms.  *)
(*                                                                         *)
(* The chain is the environment: a transfer changes a ticker's balance and*)
(* the node pushes a message to a subscribed socket only.                  *)
(***************************************************************************)
EXTENDS Naturals, Sequences, FiniteSets

CONSTANTS
    Tickers,     \* active tickers (active_ticker_and_decimals_from_denom)
    Denoms,      \* denoms that may appear in transfer.amount
    TickerOf,    \* denom -> ticker, or None for a denom no coin is active for
    Balances,    \* balance values
    MaxChanges,  \* bound: transfers on chain
    None

ASSUME TendermintAssumption ==
    /\ TickerOf \in [Denoms -> Tickers \cup {None}]
    /\ None \notin Tickers \cup Balances
    /\ Balances # {}
    /\ MaxChanges \in Nat

(* Each active coin has a denom of its own (the platform denom or the      *)
(* token's), so one message's denoms name each ticker at most once; the    *)
(* model's balance_updates, one entry per ticker, relies on it.           *)
ASSUME DenomAssumption ==
    \A d1, d2 \in Denoms : TickerOf[d1] = TickerOf[d2] /\ TickerOf[d1] # None => d1 = d2

VARIABLES
    pc,          \* where the handler's loop is
    inbox,       \* messages the node sent on the socket, not yet read
    todo,        \* denoms of the message being handled, not yet looked at
    updates,     \* balance_updates of the message being handled
    current,     \* current_balances: ticker -> balance, None when absent
    chain,       \* chain[t]: the account's balance of t on chain
    changes,     \* transfers made so far
    sent,        \* sent[t]: balances broadcast for t, in order (history)
    errors       \* CoinBalanceError events broadcast (history count)

vars == <<pc, inbox, todo, updates, current, chain, changes, sent, errors>>

Pcs == {"client", "connect", "send_receiver", "send_spender", "listen", "denoms"}

TypeOK ==
    /\ pc \in Pcs
    /\ inbox \in Seq(SUBSET Denoms)
    /\ todo \subseteq Denoms
    /\ updates \in [Tickers -> Balances \cup {None}]
    /\ current \in [Tickers -> Balances \cup {None}]
    /\ chain \in [Tickers -> Balances]
    /\ changes \in 0..MaxChanges
    /\ sent \in [Tickers -> Seq(Balances)]
    /\ errors \in Nat

Init ==
    /\ pc = "client"
    /\ inbox = <<>>
    /\ todo = {}
    /\ updates = [t \in Tickers |-> None]
    /\ current = [t \in Tickers |-> None]
    /\ chain \in [Tickers -> Balances]
    /\ changes = 0
    /\ sent = [t \in Tickers |-> <<>>]
    /\ errors = 0

Subscribed == pc \in {"listen", "denoms"}

-----------------------------------------------------------------------------
(* The chain: a transaction with transfers of the denoms ds sets their     *)
(* tickers' balances; a subscribed socket gets a message naming ds.       *)
Transfer(ds, b) ==
    /\ changes < MaxChanges
    /\ changes' = changes + 1
    /\ chain' = [t \in Tickers |-> IF \E d \in ds : TickerOf[d] = t THEN b ELSE chain[t]]
    /\ inbox' = IF Subscribed THEN Append(inbox, ds) ELSE inbox
    /\ UNCHANGED <<pc, todo, updates, current, sent, errors>>

-----------------------------------------------------------------------------
(* The handler.                                                            *)

(* self.rpc_client().await, connect(&socket_address).await and the two    *)
(* wsocket.send(..).await: each either goes on or logs and continues the  *)
(* outer loop.                                                             *)
SetupStep(from, to) ==
    /\ pc = from
    /\ \/ pc' = to
       \/ pc' = "client"
    /\ UNCHANGED <<inbox, todo, updates, current, chain, changes, sent, errors>>

RpcClient == SetupStep("client", "connect")
Connect == SetupStep("connect", "send_receiver")
SendReceiverQuery == SetupStep("send_receiver", "send_spender")
SendSpenderQuery == SetupStep("send_spender", "listen")

(* wsocket.next(): a Text message starts the denom loop over its denoms.   *)
ReadMessage ==
    /\ pc = "listen"
    /\ inbox # <<>>
    /\ todo' = Head(inbox)
    /\ inbox' = Tail(inbox)
    /\ updates' = [t \in Tickers |-> None]
    /\ pc' = "denoms"
    /\ UNCHANGED <<current, chain, changes, sent, errors>>

(* Close, an error, or the stream ending: back to the outer loop; what the *)
(* node had sent and was not read is gone with the socket.                *)
SocketClosed ==
    /\ pc = "listen"
    /\ pc' = "client"
    /\ inbox' = <<>>
    /\ UNCHANGED <<todo, updates, current, chain, changes, sent, errors>>

(* A denom no coin is active for is skipped.                               *)
SkipDenom(d) ==
    /\ pc = "denoms"
    /\ d \in todo
    /\ TickerOf[d] = None
    /\ todo' = todo \ {d}
    /\ UNCHANGED <<pc, inbox, updates, current, chain, changes, sent, errors>>

(* account_balance_for_denom failed: broadcast the error event, continue.  *)
BalanceFetchFailed(d) ==
    /\ pc = "denoms"
    /\ d \in todo
    /\ TickerOf[d] # None
    /\ todo' = todo \ {d}
    /\ errors' = errors + 1
    /\ UNCHANGED <<pc, inbox, updates, current, chain, changes, sent>>

(* Mutant: the comparison with current_balances is dropped.               *)
BalanceFetchedAlways(d) ==
    /\ pc = "denoms"
    /\ d \in todo
    /\ TickerOf[d] # None
    /\ todo' = todo \ {d}
    /\ current' = [current EXCEPT ![TickerOf[d]] = chain[TickerOf[d]]]
    /\ updates' = [updates EXCEPT ![TickerOf[d]] = chain[TickerOf[d]]]
    /\ UNCHANGED <<pc, inbox, chain, changes, sent, errors>>

(* The balance as the node reports it now; only a change from             *)
(* current_balances, or a first balance, is recorded and queued.          *)
BalanceFetched(d) ==
    /\ pc = "denoms"
    /\ d \in todo
    /\ TickerOf[d] # None
    /\ todo' = todo \ {d}
    /\ LET t == TickerOf[d]
           b == chain[t]
       IN  IF current[t] # b
             THEN /\ current' = [current EXCEPT ![t] = b]
                  /\ updates' = [updates EXCEPT ![t] = b]
             ELSE UNCHANGED <<current, updates>>
    /\ UNCHANGED <<pc, inbox, chain, changes, sent, errors>>

HasUpdates == \E t \in Tickers : updates[t] # None

(* Mutant: balance_updates is broadcast only when it holds more than one   *)
(* ticker.                                                                 *)
BroadcastUpdatesOffByOne ==
    /\ pc = "denoms"
    /\ todo = {}
    /\ LET ts == {t \in Tickers : updates[t] # None} IN
         sent' = IF Cardinality(ts) > 1
                   THEN [t \in Tickers |-> IF t \in ts THEN Append(sent[t], updates[t])
                                                        ELSE sent[t]]
                   ELSE sent
    /\ pc' = "listen"
    /\ UNCHANGED <<inbox, todo, updates, current, chain, changes, errors>>

(* After the denoms: !balance_updates.is_empty() broadcasts one event.     *)
BroadcastUpdates ==
    /\ pc = "denoms"
    /\ todo = {}
    /\ sent' = IF HasUpdates
                 THEN [t \in Tickers |-> IF updates[t] # None
                                           THEN Append(sent[t], updates[t])
                                           ELSE sent[t]]
                 ELSE sent
    /\ pc' = "listen"
    /\ UNCHANGED <<inbox, todo, updates, current, chain, changes, errors>>

-----------------------------------------------------------------------------
Next ==
    \/ \E ds \in SUBSET Denoms \ {{}}, b \in Balances : Transfer(ds, b)
    \/ RpcClient \/ Connect \/ SendReceiverQuery \/ SendSpenderQuery
    \/ ReadMessage \/ SocketClosed
    \/ \E d \in Denoms : SkipDenom(d) \/ BalanceFetchFailed(d) \/ BalanceFetched(d)
    \/ BroadcastUpdates

Spec == Init /\ [][Next]_vars

-----------------------------------------------------------------------------
(* Properties.                                                             *)

Last(s) == s[Len(s)]

(* "Only broadcast when balance is changed" (line 161): two consecutive    *)
(* balance events of a ticker never carry the same balance, across        *)
(* reconnects and failed fetches.                                         *)
BroadcastOnlyChanges ==
    \A t \in Tickers :
        \A k \in 1..(Len(sent[t]) - 1) : sent[t][k] # sent[t][k + 1]

(* Between messages, current_balances is exactly what subscribers were     *)
(* last told: a ticker has a cached balance iff one was broadcast, and it  *)
(* is the last one broadcast.                                             *)
CacheMatchesLastBroadcast ==
    pc # "denoms" =>
        \A t \in Tickers :
            IF current[t] = None THEN sent[t] = <<>>
                                 ELSE sent[t] # <<>> /\ Last(sent[t]) = current[t]

=============================================================================
