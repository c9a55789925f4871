---------------------------- MODULE NonceRegistry ----------------------------
(***************************************************************************)
(* The nonce lock of ETH coins (coins/eth/v2_activation.rs).               *)
(*                                                                         *)
(* eth_coin_from_conf_and_request_v2 takes the platform coin's nonce_lock  *)
(* from the process-wide NONCE_LOCK map, keyed by ticker, inserting a new  *)
(* lock on first use (entry().or_insert_with under a std Mutex, so one     *)
(* atomic step).  initialize_erc20_token and                              *)
(* global_nft_from_platform_coin give the token and the global NFT a       *)
(* clone of the platform coin's nonce_lock.  A coin instance is an Arc:   *)
(* a swap that holds one keeps using it after the coin was disabled and   *)
(* re-activated.                                                           *)
(*                                                                         *)
(* The signing critical section (lock, read nonce, submit, release) is    *)
(* code outside this source tree; it is taken from spec 2 and 4.3.  Its   *)
(* identity is the platform ticker whose account the transaction spends  *)
(* from.                                                                   *)
(***************************************************************************)
EXTENDS Naturals, Sequences, FiniteSets

CONSTANTS
    Platforms,  \* platform coin tickers
    Tokens,     \* ERC20 and global NFT tickers
    PlatformOf, \* token -> its platform ticker
    Slots,      \* coin instances (Arc<EthCoinImpl>) that may be built
    Signers,    \* concurrent swap / withdraw operations
    MaxLocks,   \* bound: locks new_nonce_lock() may create
    MaxNonce,   \* bound: account nonce
    None        \* the absent ticker, slot or holder

ASSUME RegistryAssumption ==
    /\ PlatformOf \in [Tokens -> Platforms]
    /\ Platforms \cap Tokens = {}
    /\ MaxLocks \in Nat \ {0}
    /\ MaxNonce \in Nat
    /\ None \notin Platforms \cup Tokens \cup Slots \cup Signers

LockIds == 1..MaxLocks
NoLock == 0

VARIABLES
    registry,   \* NONCE_LOCK: ticker -> lock, NoLock when absent
    nextLock,   \* the next lock new_nonce_lock() creates
    coins,      \* coins[s]: the instance built in slot s
    holder,     \* holder[l]: the signer holding lock l, or None
    signers,    \* signers[g]: where operation g is
    chainNonce, \* chainNonce[p]: the next nonce of p's account on chain
    submitted   \* submitted[p]: nonces of p's account in submit order

vars == <<registry, nextLock, coins, holder, signers, chainNonce, submitted>>

CoinState == [state : {"unbuilt", "active", "disabled"},
              ticker : Platforms \cup Tokens \cup {None},
              identity : Platforms \cup {None},
              lock : LockIds \cup {NoLock}]
SignerState == [pc : {"idle", "waiting", "holding", "read"},
                slot : Slots \cup {None}, nonce : 0..MaxNonce]

TypeOK ==
    /\ registry \in [Platforms -> LockIds \cup {NoLock}]
    /\ nextLock \in 1..(MaxLocks + 1)
    /\ coins \in [Slots -> CoinState]
    /\ holder \in [LockIds -> Signers \cup {None}]
    /\ signers \in [Signers -> SignerState]
    /\ chainNonce \in [Platforms -> 0..MaxNonce]
    /\ submitted \in [Platforms -> Seq(0..MaxNonce)]

Init ==
    /\ registry = [p \in Platforms |-> NoLock]
    /\ nextLock = 1
    /\ coins = [s \in Slots |-> [state |-> "unbuilt", ticker |-> None,
                                 identity |-> None, lock |-> NoLock]]
    /\ holder = [l \in LockIds |-> None]
    /\ signers = [g \in Signers |-> [pc |-> "idle", slot |-> None, nonce |-> 0]]
    /\ chainNonce = [p \in Platforms |-> 0]
    /\ submitted = [p \in Platforms |-> <<>>]

Active(t) == \E s \in Slots : coins[s].state = "active" /\ coins[s].ticker = t

-----------------------------------------------------------------------------
(* Coin activation.                                                         *)

(* NONCE_LOCK.lock(); map.entry(ticker).or_insert_with(new_nonce_lock)     *)
(* .clone(): the entry after the call is the lock the coin keeps.         *)
NonceLockFor(p) == IF registry[p] # NoLock THEN registry[p] ELSE nextLock

(* Mutant: map.insert(ticker, new_nonce_lock()), a fresh lock each time.   *)
RegisterNonceLockFresh(p) ==
    /\ nextLock <= MaxLocks
    /\ registry' = [registry EXCEPT ![p] = nextLock]
    /\ nextLock' = nextLock + 1

RegisterNonceLock(p) ==
    /\ registry[p] # NoLock \/ nextLock <= MaxLocks
    /\ registry' = [registry EXCEPT ![p] = NonceLockFor(p)]
    /\ nextLock' = IF registry[p] # NoLock THEN nextLock ELSE nextLock + 1

(* eth_coin_from_conf_and_request_v2.  The checks and awaits before the    *)
(* nonce lock (swap contract addresses, key policy, build_web3_instances)  *)
(* return with nothing changed; after it, the abortable subsystem, the fee *)
(* estimator context and spawn_balance_stream_if_enabled can still fail,   *)
(* leaving only the registry entry.                                        *)
ActivatePlatform(s, p) ==
    /\ coins[s].state = "unbuilt"
    /\ ~Active(p)
    /\ \/ UNCHANGED <<registry, nextLock, coins>>
       \/ /\ RegisterNonceLock(p)
          /\ \/ UNCHANGED coins
             \/ coins' = [coins EXCEPT ![s] = [state |-> "active", ticker |-> p,
                                               identity |-> p,
                                               lock |-> registry'[p]]]
    /\ UNCHANGED <<holder, signers, chainNonce, submitted>>

(* Mutant: the token gets new_nonce_lock() instead of the platform's.      *)
ActivateTokenOwnLock(s, t, q) ==
    /\ coins[s].state = "unbuilt"
    /\ ~Active(t)
    /\ coins[q].state = "active" /\ coins[q].ticker = PlatformOf[t]
    /\ nextLock <= MaxLocks
    /\ nextLock' = nextLock + 1
    /\ coins' = [coins EXCEPT ![s] = [state |-> "active", ticker |-> t,
                                      identity |-> coins[q].identity,
                                      lock |-> nextLock]]
    /\ UNCHANGED <<registry, holder, signers, chainNonce, submitted>>

(* initialize_erc20_token and global_nft_from_platform_coin on platform    *)
(* instance q: each may fail (weak ctx, decimals, subsystem, fee context, *)
(* NFT fetch) before building; the built coin's nonce_lock is              *)
(* self.nonce_lock.clone().                                                *)
ActivateToken(s, t, q) ==
    /\ coins[s].state = "unbuilt"
    /\ ~Active(t)
    /\ coins[q].state = "active" /\ coins[q].ticker = PlatformOf[t]
    /\ coins' = [coins EXCEPT ![s] = [state |-> "active", ticker |-> t,
                                      identity |-> coins[q].identity,
                                      lock |-> coins[q].lock]]
    /\ UNCHANGED <<registry, nextLock, holder, signers, chainNonce, submitted>>

(* disable_coin (outside this tree): the coin leaves the coins map; Arcs   *)
(* held by operations in flight stay usable.                              *)
DisableCoin(s) ==
    /\ coins[s].state = "active"
    /\ coins' = [coins EXCEPT ![s].state = "disabled"]
    /\ UNCHANGED <<registry, nextLock, holder, signers, chainNonce, submitted>>

(* The last Arc of a disabled instance is dropped once no operation uses  *)
(* it; the slot can hold a later instance.                                *)
DropInstance(s) ==
    /\ coins[s].state = "disabled"
    /\ \A g \in Signers : signers[g].slot # s
    /\ coins' = [coins EXCEPT ![s] = [state |-> "unbuilt", ticker |-> None,
                                      identity |-> None, lock |-> NoLock]]
    /\ UNCHANGED <<registry, nextLock, holder, signers, chainNonce, submitted>>

-----------------------------------------------------------------------------
(* The signing critical section of spec 2 and 4.3.                         *)

(* An operation starts on an active coin and waits for its nonce_lock.     *)
BeginSigning(g, s) ==
    /\ signers[g].pc = "idle"
    /\ coins[s].state = "active"
    /\ signers' = [signers EXCEPT ![g] = [pc |-> "waiting", slot |-> s, nonce |-> 0]]
    /\ UNCHANGED <<registry, nextLock, coins, holder, chainNonce, submitted>>

LockOf(g) == coins[signers[g].slot].lock
IdentityOf(g) == coins[signers[g].slot].identity

(* nonce_lock.lock().await                                                 *)
AcquireNonceLock(g) ==
    /\ signers[g].pc = "waiting"
    /\ holder[LockOf(g)] = None
    /\ holder' = [holder EXCEPT ![LockOf(g)] = g]
    /\ signers' = [signers EXCEPT ![g].pc = "holding"]
    /\ UNCHANGED <<registry, nextLock, coins, chainNonce, submitted>>

(* Mutant: the guard is scoped to the nonce read and dropped before the   *)
(* transaction is signed and sent.                                        *)
ReadNonceInScope(g) ==
    /\ signers[g].pc = "holding"
    /\ signers' = [signers EXCEPT ![g].pc = "read",
                                  ![g].nonce = chainNonce[IdentityOf(g)]]
    /\ holder' = [holder EXCEPT ![LockOf(g)] = None]
    /\ UNCHANGED <<registry, nextLock, coins, chainNonce, submitted>>

(* get_addr_nonce through the pool: the account's pending nonce.           *)
ReadNonce(g) ==
    /\ signers[g].pc = "holding"
    /\ signers' = [signers EXCEPT ![g].pc = "read",
                                  ![g].nonce = chainNonce[IdentityOf(g)]]
    /\ UNCHANGED <<registry, nextLock, coins, holder, chainNonce, submitted>>

(* Sign and broadcast with the nonce read, then drop the guard.            *)
SubmitAndRelease(g) ==
    /\ signers[g].pc = "read"
    /\ signers[g].nonce < MaxNonce
    /\ LET p == IdentityOf(g) IN
         /\ chainNonce' = [chainNonce EXCEPT ![p] =
                              IF signers[g].nonce = @ THEN @ + 1 ELSE @]
         /\ submitted' = [submitted EXCEPT ![p] = Append(@, signers[g].nonce)]
    /\ holder' = [holder EXCEPT ![LockOf(g)] = None]
    /\ signers' = [signers EXCEPT ![g] = [pc |-> "idle", slot |-> None, nonce |-> 0]]
    /\ UNCHANGED <<registry, nextLock, coins>>

(* The operation fails or is cancelled while holding the guard: dropping   *)
(* the guard releases the lock.                                           *)
AbortSigning(g) ==
    /\ signers[g].pc \in {"holding", "read"}
    /\ holder' = [holder EXCEPT ![LockOf(g)] = None]
    /\ signers' = [signers EXCEPT ![g] = [pc |-> "idle", slot |-> None, nonce |-> 0]]
    /\ UNCHANGED <<registry, nextLock, coins, chainNonce, submitted>>

-----------------------------------------------------------------------------
Next ==
    \/ \E s \in Slots :
          \/ \E p \in Platforms : ActivatePlatform(s, p)
          \/ \E t \in Tokens, q \in Slots : ActivateToken(s, t, q)
          \/ DisableCoin(s)
          \/ DropInstance(s)
    \/ \E g \in Signers :
          \/ \E s \in Slots : BeginSigning(g, s)
          \/ AcquireNonceLock(g)
          \/ ReadNonce(g)
          \/ SubmitAndRelease(g)
          \/ AbortSigning(g)

Spec == Init /\ [][Next]_vars

-----------------------------------------------------------------------------
(* Properties.                                                             *)

HoldsNonceLock(g) == signers[g].slot # None /\ holder[LockOf(g)] = g

(* Spec 4.3: for one account at most one operation holds a nonce lock at  *)
(* a time, across the platform coin, its tokens, its global NFT and every *)
(* re-activation of them, because all of them end up with the lock        *)
(* NONCE_LOCK holds for the platform ticker.                              *)
NonceMutualExclusion ==
    \A g, h \in Signers :
        g # h /\ HoldsNonceLock(g) /\ HoldsNonceLock(h)
            => IdentityOf(g) # IdentityOf(h)

(* Spec 8: the nonces submitted from one account are strictly increasing, *)
(* so no two transactions collide on a nonce.                             *)
NoncesStrictlyIncrease ==
    \A p \in Platforms :
        \A a, b \in 1..Len(submitted[p]) : a < b => submitted[p][a] < submitted[p][b]

=============================================================================
