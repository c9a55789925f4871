--------------------------- MODULE FeeEstimator ---------------------------
(***************************************************************************)
(* The gas fee estimator context of coins/rpc_command/get_estimated_fees.rs *)
(*                                                                         *)
(* One FeeEstimatorContext exists per MmCtx.  It holds the cached estimate *)
(* (estimated_fees, behind an async mutex) and the optional abort handle   *)
(* of the spawned fee_estimator_loop (abort_handler).  Three RPCs act on   *)
(* it: start_eth_fee_estimator, stop_eth_fee_estimator and                 *)
(* get_eth_gas_price_estimated.  Each RPC first looks the coin up          *)
(* (check_if_coin_supported, an await) and only then takes the context's  *)
(* lock, so a coin can be enabled or disabled between the two steps.      *)
(*                                                                         *)
(* The loop runs under spawn_abortable: dropping the handle aborts the     *)
(* task, and the abort is seen when the task is next polled.  A poll that  *)
(* already began (the fee request has returned, the cache write is under   *)
(* way) runs to its next suspension point on its worker thread while the   *)
(* stop RPC runs on another; the state "writing" is that window.           *)
(***************************************************************************)
EXTENDS Naturals, FiniteSets

CONSTANTS
    Coins,            \* tickers the RPCs may name
    EthCoins,         \* those that lp_coinfind returns as MmCoinEnum::EthCoin
    ChainId,          \* coin -> conf["chain_id"], or NoChainId when absent
    NoChainId,        \* the None of Option<u64>
    SupportedChainId, \* ETH_SUPPORTED_CHAIN_ID
    Zero,             \* FeePerGasEstimated::default(), the all-zero estimate
    NoCoin,           \* coin field of a task slot never spawned
    Callers,          \* concurrent RPC requests
    MaxSpawns         \* bound: number of loop tasks ever spawned

ASSUME CoinsAssumption == Coins # {} /\ EthCoins \subseteq Coins /\ NoCoin \notin Coins
ASSUME ZeroAssumption == Zero \notin Coins
ASSUME ChainAssumption == SupportedChainId # NoChainId
ASSUME SpawnsAssumption == MaxSpawns \in Nat \ {0}

VARIABLES
    active,    \* coins currently activated (what lp_coinfind finds)
    handler,   \* abort_handler: 0 for None, t for Some(handle of task t)
    spawned,   \* number of loop tasks spawned so far
    loop,      \* loop[t]: state of the t-th spawned fee_estimator_loop task
    cache,     \* *estimated_fees: the fees of a coin, or Zero
    feeLock,   \* holder of the estimated_fees mutex: "free" or a caller
    callers    \* callers[r]: the RPC request r is serving

vars == <<active, handler, spawned, loop, cache, feeLock, callers>>

Tasks == 1..MaxSpawns
Snapshots == Coins \cup {Zero}
Ops == {"start", "stop", "get"}
Errors == {"CoinNotActivated", "CoinNotSupported", "ChainNotSupported",
           "AlreadyStarted", "AlreadyStopping"}
Responses == {"none", "Success"} \cup Errors \cup Snapshots
LoopPcs == {"unspawned", "fetching", "writing", "lockwait", "sleeping", "done"}

(* late: writes to the cache the task made after it was aborted (history). *)
LoopState == [pc : LoopPcs, coin : Coins \cup {NoCoin}, aborted : BOOLEAN,
              fetched : Snapshots, late : Nat]
CallerState == [pc : {"idle", "checked", "reading"}, op : Ops,
                coin : Coins, resp : Responses]

TypeOK ==
    /\ active \subseteq Coins
    /\ handler \in 0..MaxSpawns
    /\ spawned \in 0..MaxSpawns
    /\ loop \in [Tasks -> LoopState]
    /\ cache \in Snapshots
    /\ feeLock \in {"free"} \cup Callers
    /\ callers \in [Callers -> CallerState]

Init ==
    /\ active = {}
    /\ handler = 0
    /\ spawned = 0
    /\ loop = [t \in Tasks |-> [pc |-> "unspawned", coin |-> NoCoin,
                                aborted |-> FALSE, fetched |-> Zero, late |-> 0]]
    /\ cache = Zero
    /\ feeLock = "free"
    /\ callers = [r \in Callers |-> [pc |-> "idle", op |-> "get",
                                     coin |-> CHOOSE c \in Coins : TRUE,
                                     resp |-> "none"]]

-----------------------------------------------------------------------------
(* Environment: coin activation and deactivation.                          *)

EnableCoin(c) ==
    /\ c \notin active
    /\ active' = active \cup {c}
    /\ UNCHANGED <<handler, spawned, loop, cache, feeLock, callers>>

DisableCoin(c) ==
    /\ c \in active
    /\ active' = active \ {c}
    /\ UNCHANGED <<handler, spawned, loop, cache, feeLock, callers>>

-----------------------------------------------------------------------------
(* The RPC handlers.                                                       *)

(* check_if_coin_supported and check_if_chain_id_supported: the error, or  *)
(* "Ok".  A coin whose conf has no chain_id passes the chain check.        *)
CheckIfCoinSupported(c) ==
    CASE c \notin active -> "CoinNotActivated"
      [] c \notin EthCoins -> "CoinNotSupported"
      [] ChainId[c] # NoChainId /\ ChainId[c] # SupportedChainId
            -> "ChainNotSupported"
      [] OTHER -> "Ok"

Finish(r, resp) ==
    callers' = [callers EXCEPT ![r].pc = "idle", ![r].resp = resp]

(* A request arrives and its coin is looked up; an error is returned at    *)
(* once, otherwise the handler goes on to the context's lock.             *)
CheckRequest(r, op, c) ==
    /\ callers[r].pc = "idle"
    /\ IF CheckIfCoinSupported(c) = "Ok"
         THEN callers' = [callers EXCEPT ![r] = [pc |-> "checked", op |-> op,
                                                 coin |-> c, resp |-> "none"]]
         ELSE callers' = [callers EXCEPT ![r] = [pc |-> "idle", op |-> op,
                                  coin |-> c, resp |-> CheckIfCoinSupported(c)]]
    /\ UNCHANGED <<active, handler, spawned, loop, cache, feeLock>>

(* Mutant: no handler.is_some() check; the new handle replaces the old,   *)
(* whose drop aborts the loop it held.                                      *)
StartIfNotRunningUnchecked(r) ==
    /\ callers[r].pc = "checked"
    /\ callers[r].op = "start"
    /\ spawned < MaxSpawns
    /\ spawned' = spawned + 1
    /\ handler' = spawned + 1
    /\ loop' = [t \in Tasks |->
                   IF t = spawned + 1 THEN [loop[t] EXCEPT !.pc = "fetching", !.coin = callers[r].coin]
                   ELSE IF t = handler THEN [loop[t] EXCEPT !.aborted = TRUE]
                   ELSE loop[t]]
    /\ Finish(r, "Success")
    /\ UNCHANGED <<active, cache, feeLock>>

(* start_if_not_running, under the abort_handler lock.                     *)
StartIfNotRunning(r) ==
    /\ callers[r].pc = "checked"
    /\ callers[r].op = "start"
    /\ \/ /\ handler # 0
          /\ Finish(r, "AlreadyStarted")
          /\ UNCHANGED <<handler, spawned, loop>>
       \/ /\ handler = 0
          /\ spawned < MaxSpawns
          /\ spawned' = spawned + 1
          /\ handler' = spawned + 1
          /\ loop' = [loop EXCEPT ![spawned + 1].pc = "fetching",
                                  ![spawned + 1].coin = callers[r].coin]
          /\ Finish(r, "Success")
    /\ UNCHANGED <<active, cache, feeLock>>

(* Mutant: the handle is detached instead of dropped, the task goes on.  *)
RequestToStopDetached(r) ==
    /\ callers[r].pc = "checked"
    /\ callers[r].op = "stop"
    /\ \/ /\ handler = 0
          /\ Finish(r, "AlreadyStopping")
          /\ UNCHANGED handler
       \/ /\ handler # 0
          /\ handler' = 0
          /\ Finish(r, "Success")
    /\ UNCHANGED <<active, spawned, loop, cache, feeLock>>

(* request_to_stop: take() the handle; dropping it aborts the task.        *)
RequestToStop(r) ==
    /\ callers[r].pc = "checked"
    /\ callers[r].op = "stop"
    /\ \/ /\ handler = 0
          /\ Finish(r, "AlreadyStopping")
          /\ UNCHANGED <<handler, loop>>
       \/ /\ handler # 0
          /\ handler' = 0
          /\ loop' = [loop EXCEPT ![handler].aborted = TRUE]
          /\ Finish(r, "Success")
    /\ UNCHANGED <<active, spawned, cache, feeLock>>

(* get_estimated_fees: lock estimated_fees, clone it, release.             *)
LockEstimatedFees(r) ==
    /\ callers[r].pc = "checked"
    /\ callers[r].op = "get"
    /\ feeLock = "free"
    /\ feeLock' = r
    /\ callers' = [callers EXCEPT ![r].pc = "reading"]
    /\ UNCHANGED <<active, handler, spawned, loop, cache>>

GetEstimatedFees(r) ==
    /\ callers[r].pc = "reading"
    /\ feeLock' = "free"
    /\ Finish(r, cache)
    /\ UNCHANGED <<active, handler, spawned, loop, cache>>

-----------------------------------------------------------------------------
(* The fee_estimator_loop task.                                            *)

(* Mutant: the loop is spawned with spawn, not spawn_abortable.            *)
PollProceedsUnabortable(t) == TRUE

(* Abortable::poll, the wrapper spawn_abortable puts around the loop: each *)
(* poll runs the loop only if the task has not been aborted.              *)
PollProceeds(t) == ~loop[t].aborted

(* Mutant: the Result is stored without unwrap_or_default().              *)
FeeRequestDoneNoDefault(t) ==
    /\ loop[t].pc = "fetching"
    /\ ~loop[t].aborted
    /\ \E res \in {loop[t].coin, "TransportError"} :
          loop' = [loop EXCEPT ![t].pc = "writing", ![t].fetched = res]
    /\ UNCHANGED <<active, handler, spawned, cache, feeLock, callers>>

(* The poll that resumes the task after get_eip1559_gas_price returned:    *)
(* the Abortable wrapper checks the abort flag first; the result is the   *)
(* coin's fees, or on error unwrap_or_default(), the zero estimate.       *)
FeeRequestDone(t) ==
    /\ loop[t].pc = "fetching"
    /\ PollProceeds(t)
    /\ \E res \in {loop[t].coin, Zero} :
          loop' = [loop EXCEPT ![t].pc = "writing", ![t].fetched = res]
    /\ UNCHANGED <<active, handler, spawned, cache, feeLock, callers>>

(* *estimated_fees.lock().await = ...: the guard is taken and dropped in   *)
(* the same poll, then the task sleeps.  No abort check happens here.      *)
WriteEstimatedFees(t) ==
    /\ feeLock = "free"
    /\ cache' = loop[t].fetched
    /\ loop' = [loop EXCEPT ![t].pc = "sleeping",
                            ![t].late = IF loop[t].aborted THEN @ + 1 ELSE @]
    /\ UNCHANGED <<active, handler, spawned, feeLock, callers>>

StoreFees(t) ==
    /\ loop[t].pc = "writing"
    /\ WriteEstimatedFees(t)

(* The mutex is held by a reader: lock() returns Pending.                  *)
WaitFeesLock(t) ==
    /\ loop[t].pc = "writing"
    /\ feeLock # "free"
    /\ loop' = [loop EXCEPT ![t].pc = "lockwait"]
    /\ UNCHANGED <<active, handler, spawned, cache, feeLock, callers>>

(* Woken by the mutex release; a new poll, so the abort flag is checked.   *)
FeesLockAcquired(t) ==
    /\ loop[t].pc = "lockwait"
    /\ PollProceeds(t)
    /\ WriteEstimatedFees(t)

(* Timer::sleep(wait_secs) elapsed: the next tick issues the fee request.  *)
SleepDone(t) ==
    /\ loop[t].pc = "sleeping"
    /\ PollProceeds(t)
    /\ loop' = [loop EXCEPT ![t].pc = "fetching"]
    /\ UNCHANGED <<active, handler, spawned, cache, feeLock, callers>>

(* Mutant: the abort is only noticed when the fee request returns.        *)
AbortedPollAtFetchOnly(t) ==
    /\ loop[t].aborted
    /\ loop[t].pc = "fetching"
    /\ loop' = [loop EXCEPT ![t].pc = "done"]
    /\ UNCHANGED <<active, handler, spawned, cache, feeLock, callers>>

(* AbortHandle::abort wakes the task; its next poll returns Aborted at     *)
(* whichever await it is suspended on, and the task is dropped.           *)
AbortedPoll(t) ==
    /\ loop[t].aborted
    /\ loop[t].pc \in {"fetching", "lockwait", "sleeping"}
    /\ loop' = [loop EXCEPT ![t].pc = "done"]
    /\ UNCHANGED <<active, handler, spawned, cache, feeLock, callers>>

-----------------------------------------------------------------------------
CallerStep(r) ==
    \/ \E op \in Ops, c \in Coins : CheckRequest(r, op, c)
    \/ StartIfNotRunning(r)
    \/ RequestToStop(r)
    \/ LockEstimatedFees(r)
    \/ GetEstimatedFees(r)

TaskStep(t) ==
    \/ FeeRequestDone(t)
    \/ StoreFees(t)
    \/ WaitFeesLock(t)
    \/ FeesLockAcquired(t)
    \/ SleepDone(t)
    \/ AbortedPoll(t)

Next ==
    \/ \E c \in Coins : EnableCoin(c) \/ DisableCoin(c)
    \/ \E r \in Callers : CallerStep(r)
    \/ \E t \in Tasks : TaskStep(t)

(* The executor polls every woken task, and a poll that began runs to its  *)
(* next await: weak fairness for the steps of a task that need no outside *)
(* event (the network answering or a timer firing are not assumed).       *)
TaskFairness ==
    \A t \in Tasks : /\ WF_vars(StoreFees(t) \/ WaitFeesLock(t))
                     /\ WF_vars(AbortedPoll(t))

Spec == Init /\ [][Next]_vars

FairSpec == Spec /\ TaskFairness /\ \A r \in Callers : WF_vars(GetEstimatedFees(r))

-----------------------------------------------------------------------------
(* Properties.                                                             *)

Live(t) == loop[t].pc # "unspawned" /\ ~loop[t].aborted

(* Polling ticks never overlap: the only loop task that is not aborted is  *)
(* the one whose handle abort_handler holds, and there is one exactly when *)
(* the handler is Some (start_if_not_running / request_to_stop).          *)
SingleActiveLoop ==
    \A t \in Tasks : Live(t) <=> t = handler

(* After request_to_stop drops the handle, the aborted task writes the     *)
(* cache at most once more: only the poll already under way on another    *)
(* worker can finish its write, every later poll sees the abort.          *)
LateWriteAtMostOnce ==
    \A t \in Tasks : loop[t].late <= 1

(* Every loop task that request_to_stop aborted is eventually dropped by   *)
(* the executor, whatever await it was suspended on.                      *)
AbortedLoopTerminates ==
    \A t \in Tasks : loop[t].aborted ~> loop[t].pc = "done"

(* Spec 5 and 8: once stop_eth_fee_estimator returned, the loop never      *)
(* writes the cache again.                                                 *)
NoWriteAfterStop ==
    \A t \in Tasks : loop[t].late = 0

-----------------------------------------------------------------------------
(* Refinement of the promised lifecycle.                                   *)

(* Aborted tasks whose write is under way: each may still store once.    *)
Stragglers == {t \in Tasks : loop[t].aborted /\ loop[t].pc = "writing"}

Lifecycle == INSTANCE FeeEstimatorLifecycle
    WITH running <- handler # 0,
         pending <- Cardinality(Stragglers),
         cache <- cache,
         resp <- [r \in Callers |-> callers[r].resp],
         Values <- Snapshots,
         CheckErrors <- {"CoinNotActivated", "CoinNotSupported", "ChainNotSupported"}

(* The context behaves as the atomic lifecycle of spec 4.2 and 5, with    *)
(* one allowance: a stop that catches the loop between its fee request     *)
(* and its cache write leaves that write in flight.  Start and stop answer *)
(* as if they ran atomically, a get returns the cache of its moment, and   *)
(* no other write follows a stop.                                          *)
ImplementsLifecycle == Lifecycle!LifecycleSpec

=============================================================================
