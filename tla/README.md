# TLA+ models of the EVM fee estimator, nonce registry, streamers and device protocols

This directory holds TLA+ models of the concurrent and protocol-driven parts
of `src/mm2src`. It contains:

- one module per component;
- MC modules and TLC configurations that check them on small instances;
- TLAPS proofs of the main safety properties for every value of the
  constants;
- `PROJECT.json`, which records:
  - the components;
  - the runs;
  - the mutants;
  - the map from definitions to source lines;
  - the findings;
  - the hazards;
  - the theorems.

Every action is translated from the Rust source named in `PROJECT.json`'s
map. The one exception is the signing critical section of `NonceRegistry`,
which lives outside `src/` and is modelled from spec sections 2 and 4.3.

## 1. The system and its parts

| Part | Source | Module |
|---|---|---|
| Fee estimator context and its three RPCs | `coins/rpc_command/get_estimated_fees.rs` | `FeeEstimator`, abstract `FeeEstimatorLifecycle`, proofs and the refinement in `FeeEstimatorProofs` |
| Fee polling tick (estimator and streamer) | `get_estimated_fees.rs`, `coins/eth/fee_estimation/eth_fee_events.rs` | `FeeTickTiming`, proofs in `FeeTickTimingProofs` |
| Web3 connection pool | `coins/eth/v2_activation.rs` `build_web3_instances` | `Web3Pool`, proofs in `Web3PoolProofs` |
| Coin activation and the nonce-lock registry | `v2_activation.rs` (`eth_coin_from_conf_and_request_v2`, `initialize_erc20_token`, `global_nft_from_platform_coin`) | `NonceRegistry`, proofs in `NonceRegistryProofs` |
| Tendermint balance streamer | `coins/tendermint/tendermint_balance_events.rs` | `TendermintBalance`, proofs in `TendermintBalanceProofs` |
| Network info streamer | `mm2_net/src/network_event.rs` | `NetworkEvent`, proofs in `NetworkEventProofs` |
| Trezor ETH signing | `trezor/src/eth/eth_command.rs` | `TrezorEthSign`, proofs in `TrezorEthSignProofs` |
| Hardware wallet connection | `crypto/src/hw_client.rs` | `HwClient`, proofs in `HwClientProofs` |
| NFT listing and transfers | `coins/nft.rs` | `NftPagination` |
| Z-coin balance streamer | `coins/z_coin/z_balance_streaming.rs` | not modelled |
| Test coin | `coins/test_coin.rs` | not modelled |

How the parts interact:

- Activation builds the web3 pool and registers the platform's nonce lock.
  Tokens and the global NFT reuse that lock.
- The fee estimator's loop polls through the coin.
- Its RPCs find the coin with `lp_coinfind` (an await) before they take the
  estimator's lock. A coin can therefore be enabled or disabled between the
  check and the use. `FeeEstimator` models this with `EnableCoin` and
  `DisableCoin` environment actions.
- The streamers (fee events, network, Tendermint balance) each run one loop
  per streamer. They share nothing but the coin or p2p state they read,
  which each model treats as an environment that changes between awaits.

## 2. Modules

A module's state is its VARIABLES. Each action is one handler, or one step
of a handler between two awaits. Environment actions (the user, the chain,
the server, the device) are named as such in each module's header comment.

### FeeEstimator

State:

- `active`: the coins `lp_coinfind` finds.
- `handler`: `abort_handler`. 0 is `None`; `t` is the handle of task `t`.
- `spawned`: the spawn counter, bounded by `MaxSpawns`.
- `loop[t]`: one record per spawned task (`pc`, `coin`, `aborted`,
  `fetched`). It also keeps the history counter `late`, which counts cache
  writes made after the abort.
- `cache`: `*estimated_fees`.
- `feeLock`: the `estimated_fees` mutex.
- `callers[r]`: the RPC requests in flight.

RPC actions:

- `CheckRequest`: `check_if_coin_supported(..).await?`.
- `StartIfNotRunning`: the start handler under the `abort_handler` lock.
- `RequestToStop`: the stop handler under the same lock.
- `LockEstimatedFees` and `GetEstimatedFees`: the read.

Task actions, one per await of `fee_estimator_loop` under `spawn_abortable`:

- `FeeRequestDone`: the fee result, or `unwrap_or_default()`.
- `StoreFees`, `WaitFeesLock` and `FeesLockAcquired`: the cache write.
- `SleepDone`: the timer.
- `AbortedPoll`: a poll that sees the abort and returns `Aborted`.

The abort is checked only at the start of a poll (`PollProceeds`). A poll
already past the fee request finishes its write (state `writing`), since on
the multi-threaded runtime it runs on another worker while stop runs.

`FeesLockAcquired` checks the abort flag and writes in one step. In the
code, a poll woken by the mutex release passes its abort check and then
writes, and a stop on another worker can fall between the two. That path
gives one more way to write late, but still at most one late write per
stopped task, the same bound the `writing` state already gives.
`LateWriteAtMostOnce` and the refinement's one straggler per stop are
unaffected, and `fee_no_write_after_stop` already shows a write after a
stop.

### FeeEstimatorLifecycle (abstract) and the refinement

`FeeEstimatorLifecycle` states what the context promises its callers
(spec 4.2 and 5), with every RPC one atomic step:

- `Start` succeeds exactly when no loop runs.
- `Stop` succeeds exactly when a loop runs.
- `Get` answers the cache.
- `Reject` and `Accept` are the coin check's outcomes.
- `WriteLive` writes the cache from the running loop. `WriteLate` and
  `Retire` are the one allowance the code needs: a stop may leave the
  stopped loop's write in flight, counted in `pending`, and each such
  straggler writes once or is dropped.

`FeeEstimator` maps onto it with `Lifecycle == INSTANCE FeeEstimatorLifecycle WITH ...`:

- `running` is `handler # 0`.
- `pending` is the number of `Stragglers`, the aborted tasks in state
  `writing`.
- `cache` is `cache`.
- `resp[r]` is `callers[r].resp`.

The property `ImplementsLifecycle` is `Lifecycle!LifecycleSpec`. Every
intermediate step of a handler or of the loop (the lock waits, the fee
request, the sleep, an aborted poll) maps to a stutter.

### FeeTickTiming

One whole tick per action: the requests take `d` from `Durations`, and the
outcome is handed on. The loop then sleeps `SleepFor(loop, d)`:

- the estimator clamps `interval - elapsed` at 0 and sleeps;
- the streamer sleeps only when the wait is at least 0.1 s
  (`StreamerMinSleep`).

Which loop runs is chosen in `Init`. Time is counted in units of 0.05 s.

### Web3Pool

`build_web3_instances`:

- `StartBuild`: the empty-list check, then the shuffle as any permutation.
- `ResolveTransport`: the scheme match per node. An unparsable url, or any
  other scheme, is `InvalidPayload`.
- `ProbeFailed` and `ProbeAnswered`: the `client_version` probe. A failure
  skips the node; an answer keeps it, with the parity tag.
- `FinishBuild`: `UnreachableNodes` when no node was kept.

Its properties are `OutcomeAsSpecified` (the result is the reference
result of spec 4.1 and 8, and success follows a loop over a permutation of
the input) and `PoolInShuffledOrder` (in every state, not only at the end,
the pool is the answered nodes in shuffled order). `PoolInShuffledOrder`
is `pool = SelectSeq(order, answered)` written out: an increasing map from
the pool's positions onto exactly the positions of `order` whose node
answered. TLC checked that the two forms agree on every reachable state of
`web3_pool_build`. The written-out form is the one TLAPS can reason about.

A url is abstracted to its scheme, and a version string to its vendor token.

### NonceRegistry

State:

- `registry`: the `NONCE_LOCK` map.
- `coins`: coin instances in slots, each with its ticker, identity and lock.
- `holder`: the holder of each lock.
- `signers`: signing operations.
- `chainNonce` and `submitted`: the account's nonce, and the history of
  submitted nonces.

Activation actions:

- `ActivatePlatform` runs `entry().or_insert_with` in one step (it runs
  under a std mutex) and includes its failure points.
- `ActivateToken` clones the platform's lock.
- `DisableCoin` and `DropInstance` end a coin instance. An `Arc` held by a
  swap keeps the old instance alive, so that swap still uses its lock.

The signing section:

- `BeginSigning`, `AcquireNonceLock`, `ReadNonce`, `SubmitAndRelease` and
  `AbortSigning`.
- These come from the spec (spec_modelled), because that code is not under
  `src/`.

Properties:

- `NonceMutualExclusion`: one critical section per account.
- `NoncesStrictlyIncrease`: the submitted nonces of an account increase.
  In this model the chain nonce moves only at a matching submit, and a
  read nonce is never ahead of it. So a transaction sent with a stale
  nonce repeats an earlier one, and this property also covers sending
  with a stale nonce.

### TendermintBalance

The setup steps are `RpcClient`, `Connect`, `SendReceiverQuery` and
`SendSpenderQuery`. Any of them can fail, which restarts the outer loop.
`ReadMessage` and `SocketClosed` are the read loop.

The denom loop:

- `SkipDenom`: a denom with no active ticker.
- `BalanceFetchFailed`: broadcasts an error event and goes on.
- `BalanceFetched`: dedup against `current_balances`.
- `BroadcastUpdates`: the batched event.

`Transfer` is the chain. It changes a balance and notifies a subscribed
socket only.

`updates` keeps one entry per ticker, where the code pushes onto a vec.
The two agree because each active coin has its own denom
(`DenomAssumption`).

### NetworkEvent

- `Query(p)`: the five p2p queries, one await each.
- `Decide`: compares with `previously_sent`, or honours `always_send`, and
  then broadcasts and remembers.
- `SleepDone`: the timer.
- `NetworkChanged`: the swarm changing between queries.

### TrezorEthSign

- `SendSignTx`: `to_sign_eth_message`, with `my_trim_u8` modelled exactly
  on `Width`-byte big-endian arrays and the first 1024-byte chunk.
- `SendTxAck`: the ack loop.
- `TxAckFailed`: a failed ack.
- `ExtractSignature`: `v_fixed`, truncated to u8.

The device is the environment. The call data is abstracted to its length.

### HwClient

- `OnConnect`: `on_connect`.
- `TryToConnect`: `try_to_connect`, including the device count checks.
- `SleepDone`: the 1 s sleep, raced by the timeout at the deadline.
- `OnConnected` and `OnConnectionFailed`: the outcome callbacks.
- `Replug`: the user plugging and unplugging devices.

### NftPagination

The cursor loop shared by `get_nft_list` and `get_nft_transfers`:

- `GetAddress`: `get_eth_address`.
- `SendRequest`: the server's answer, which is a page, an error, or a body
  without a `result` array.
- `MatchResponse`: the `if let Some(..) = response["result"].as_array()`.
- `ConvertItem`: one NFT's conversion and metadata awaits (`get_nft_list`).
- `ConvertTransfer`: one transfer's conversion in `get_nft_transfers`: the
  parses of the item and of its addresses, `get_nft_metadata` (an error or an
  unparsable body ends the call; `try_get_uri_meta` only fails on a token-uri
  body that is not JSON, a failed request gives empty metadata) and
  `get_tx_status`.
- `PageDone`: the cursor or the break.

The variable `kind` says which of the two calls runs; a run covers both. An
address is abstracted to the account it names and whether it is
checksummed (`Spelling`): `get_tx_status` lowercases both sides, so a
transfer is `Receive` exactly when its recipient is the wallet's account.
The instance spells two recipients in lower case and two checksummed, one of
each being the wallet, so a comparison of the raw spellings (the mutant
`GetTxStatusCaseSensitive`) is caught by `ListedInServerOrder`, which for a
transfer listing also demands the right status on every entry.

## 3. Runs

| Run | Checks | Bounds | Result |
|---|---|---|---|
| `fee_estimator` | `TypeOK`, `SingleActiveLoop`, `LateWriteAtMostOnce`, `AbortedLoopTerminates`, `ImplementsLifecycle` | 1 coin, 2 callers, 2 spawns | pass |
| `fee_no_write_after_stop` | `NoWriteAfterStop` | same | violation (finding 1) |
| `fee_tick_timing` | `SkewCorrected`, `EstimatorPeriodAsSpecified` | interval 300, durations {0} ∪ 290..305, 3 ticks | pass |
| `web3_pool_build` | `OutcomeAsSpecified`, `PoolInShuffledOrder` | 4 nodes, one per scheme kind (http, ws/Parity, unparsable, other), lists of length ≤ 3 | pass |
| `nonce_registry` | `NonceMutualExclusion`, `NoncesStrictlyIncrease` | 1 platform, 2 tokens, 3 slots, 2 signers, 2 locks, nonce ≤ 2 | pass |
| `tendermint_balance` | `BroadcastOnlyChanges`, `CacheMatchesLastBroadcast` | 2 tickers, 3 denoms (one without ticker), balances {0,1}, 3 transfers | pass |
| `network_event` | `BroadcastOnlyChanges`, `FinalStateBroadcast` | 2 queries, 2 values, 3 changes | pass |
| `trezor_chunks` | `ChunksMatchRequests` | data lengths 0, 1, 1024, 1025, 2048, 2500 | pass |
| `trezor_trim` | `TrimPreservesValue` | 2-byte arrays, amounts 0..65535 at the edges | violation (finding 2) |
| `nft_listing` | `ListedInServerOrder` | 2 chains, an empty middle page, lists of ≤ 3 chains, NFTs or transfers, recipients in both spellings | pass |
| `nft_no_result` | `ListingTerminates` | one list of 2 chains | violation (finding 3) |
| `hw_client` | `CallbacksMatchOutcome`, `ScansWithinTimeout` | timeouts {0,1,3}, ≤ 2 devices | pass |

Why these bounds are enough:

- Fee estimator: two spawns give a stop followed by a restart while the old
  task is still in its write. Two callers let a start race a stop.
- Fee tick: the durations bracket the interval, so a wait below, at and
  above the 0.1 s threshold all occur.
- Nonce registry: three slots let a platform, a token and a re-activated
  platform coexist. Two signers can then contend for one lock through
  different coins.
- Trezor: the data lengths cover the 1024-byte chunk edges. The amounts
  include an inner zero byte (256, 258).
- NFT: the chains include an empty page.

Symmetry is used only where the model values are interchangeable: the
signers of `nonce_registry`. Runs that check liveness use none.

Every property of every passing run has a mutant in `PROJECT.json`. The
mutant is a plausible bug in the mapped code (a dropped guard, a missing
reset, an off-by-one), and TLC finds the property violated under the run's
own configuration.

### Fairness

- `FeeEstimator.FairSpec` assumes weak fairness for each task's steps that
  need no outside event: the cache write, and the aborted poll. The tokio
  executor polls every woken task, and an aborted task is woken. The network
  answering and timers are not assumed, and neither is the user.
- `NetworkEvent.FairSpec` assumes weak fairness for the streamer's own
  steps. The p2p loop answers its queries and the timer fires. The swarm
  gets no fairness.
- `NftPagination.FairSpec` assumes weak fairness for the client's steps,
  since every await completes or times out. Under it, `ListingTerminates`
  fails (see below).

## 4. Findings

1. **Stop is not immediate** (`get_estimated_fees.rs:155`).
   `request_to_stop` only drops the abort handle, so a poll already past
   the fee request still writes the cache after stop has returned Success.
   Spec sections 5 and 8 say no write follows a stop. `LateWriteAtMostOnce`
   (run and proof) shows the damage is bounded: one late write per stop.
2. **`my_trim_u8` drops the wrong bytes** (`eth_command.rs:88`). It counts
   every zero byte of the big-endian array, not only the leading ones. A
   nonce, gas value or amount with an inner zero byte (256, or 20 gwei) is
   sent to the device as a different number.
3. **A response without `result` is retried forever** (`nft.rs:58`).
   A 2xx body without a `result` array matches neither branch, so the loop
   sends the same request again, with no bound.

Divergences noted while modelling that have no run of their own. Each is
described in the hazards of `PROJECT.json`:

- the estimator keeps the previous snapshot when a tick's request fails;
- stop succeeds for any caller, not only the last user;
- the streamer sleeps only from 0.1 s, so it ticks up to 0.1 s early. This
  is shown by the difference between `SkewCorrected` and
  `EstimatorPeriodAsSpecified`.

## 5. Proofs (TLAPS)

Each proof module EXTENDS its component module and TLAPS. Each uses the
named assumptions of its constants, which TLC also evaluates in the passing
runs:

- `CoinsAssumption`, `SpawnsAssumption` and the others of `FeeEstimator`;
- `TimingAssumption`;
- `RegistryAssumption`;
- `NetworkAssumption`;
- `TendermintAssumption` and `DenomAssumption`;
- `HwAssumption`;
- `NodeListsAssumption` (`Web3Pool`);
- `TrezorAssumption`.

### `FeeEstimatorProofs`

- `TypeCorrect`: `Spec => []TypeOK`. It goes through `TypeInv`, which adds
  that a spawned task polls a coin.
- `SingleLoop`: `Spec => []SingleActiveLoop`. Its inductive invariant
  `LoopInv` adds `handler <= spawned` and that task slots above `spawned`
  are fresh. Without them a start could spawn into a slot that looks live.
- `LateWriteBound`: `Spec => []LateWriteAtMostOnce`. Its inductive
  invariant is `LateInv`:
  - a non-aborted task has made no late write;
  - a task that has not yet passed its write window (`unspawned`,
    `fetching`, `writing`, `lockwait`) has made none either.

  So the single late write leaves the task sleeping, and from there the
  next poll aborts it.

### The refinement, in `FeeEstimatorProofs`

- `Refinement`: `Spec => ImplementsLifecycle`, for every set of coins and
  callers and every spawn bound.
- It rests on `RInv == TypeInv /\ LoopInv`, the invariant already proved
  for `SingleLoop`. `LoopInv` is what makes `running` match: the task a
  stop aborts is the live one, so it was no straggler before the stop, and
  a loop step of a non-aborted task is a step of the handler's task.
- `RefineInit`: the initial state maps to `LifecycleInit`. There are no
  stragglers, so their count is 0.
- `RefineStep`: `RInv /\ [Next]_vars` implies a lifecycle step or a
  stutter. It has one case per action.
  - A stop adds the handler's task to the stragglers exactly when it is in
    `writing` (`Stop` with `pending + 1`).
  - An aborted task's `StoreFees` is `WriteLate`, and its `WaitFeesLock`
    is `Retire`.
- The lemmas are:
  - `StragglersFrame`: a step touching one slot changes the stragglers by at
    most that slot.
  - `StragglerCount`: the cardinality then moves by one, through
    `FS_AddElement` and `FS_RemoveElement`.
- The theorem combines `[]RInv`, `RefineInit` and `RefineStep` by PTL.

### `FeeTickTimingProofs`

- `TimingCorrect`: `Spec => [](SkewCorrected /\ EstimatorPeriodAsSpecified)`.
  It holds for every interval, threshold and set of durations.
- Its invariant `TimingInv` records that `lastInterval` is
  `lastFetch + SleepFor(loop, lastFetch)`.
- The lemma `SleepForBounds` does the arithmetic.
- `EstimatorPeriod`: `Spec => []EstimatorPeriodAsSpecified`, the
  estimator's half on its own, from the same invariant.

### `Web3PoolProofs`

- `OutcomeCorrect`: `Spec => []OutcomeAsSpecified`, for every node list,
  scheme assignment, shuffle and probe outcome.
- Its invariant `LoopInv` says what holds while the loop runs:
  - the order is a permutation of the non-empty input (same nodes);
  - every node passed, and the node waiting for its probe, has a known
    scheme;
  - the pool is empty exactly when no probe answered.

  The permutation is what lets an unknown scheme met in the shuffled order
  be one of `req.nodes`, and the full pass show that none of them has one.
- `PoolCorrect`: `Spec => []PoolInShuffledOrder`, for the same range of
  inputs. The inductive invariant adds `OrderInv`:
  - the shuffled order is injective;
  - every answered position lies before the loop index `i`.

  With these, `ProbeAnswered` extends the index map by `i`. This keeps it
  increasing, and its image becomes the answered positions plus `i`.
  `ProbeFailed` moves past `i` and changes nothing else. Injectivity is what
  makes "the node at position `k` answered" the same as "position `k` was
  probed and answered". Without it, a node repeated in `req.nodes` would be
  counted twice.
- `ShuffleRange` proves from `Bijection` that a shuffle keeps the length
  and the set of nodes, and turns an injective input into an injective
  order.
- TLC checked `IInv` as an invariant of `web3_pool_build` before it was
  proved.

### `TrezorEthSignProofs`

- `ChunksCorrect`: `Spec => []ChunksMatchRequests`, for every call data
  length, width and chain id.
- Its invariant `AgreeInv` says that during the ack loop the host's
  `data.len()` equals what the device still expects, and the device's
  request is `min(1024, left)`. So each ack sends exactly what was asked,
  and a request of 0 means nothing is left on either side.
- Its type part `ChunkTypeOK` is `TypeOK` without the trimmed nonce. That
  the nonce is a byte string needs `256^k` to be a positive integer for
  every `k`, which the provers only get by induction. It stays checked by
  TLC in both Trezor runs.
- TLC checked `IInv` on the `trezor_chunks` instance before it was proved.

### `NonceRegistryProofs`

- `MutualExclusion`: `Spec => []NonceMutualExclusion`.
- `NoncesIncrease`: `Spec => []NoncesStrictlyIncrease`.

Both rest on the invariant `Inv`:

- `CoinsInv`: a built coin's lock is `registry[identity]`. This is the
  sharing through `NONCE_LOCK` and the token's clone.
- `SignersInv`: a busy signer's slot is built.
- `HolderInv` and `HeldInv`: the lock holder and the signer in its section
  agree.
- `ReadInv`: a signer that has read holds the chain's current nonce.
- `SubmittedInv`: every submitted nonce is below the chain's nonce, and
  they increase.

The lemmas are:

- `Exclusive`: two signers in their sections with the same lock or identity
  are the same signer.
- `InSection`.
- `CoinFrame`: the activation steps leave the signers' view unchanged.
- `StepInv`: one case per action, and one step per conjunct the action can
  disturb.

TLC checked `Inv` itself as an invariant of the `nonce_registry`
configuration before it was proved.

### `NetworkEventProofs`

- `OnlyChanges`: `Spec => []BroadcastOnlyChanges`, for every number of
  queries and every set of answers.
- Its invariant `SentInv` says that, without `always_send`,
  `previously_sent` is exactly the last event broadcast. A round then
  broadcasts only an event that differs from it.
- The constant assumption states that the queries form a finite
  `1..N`, so that the first query is `1`.

### `TendermintBalanceProofs`

- `OnlyChanges`: `Spec => []BroadcastOnlyChanges`.
- `CacheMatches`: `Spec => []CacheMatchesLastBroadcast`.
- Both rest on `IInv`. For each ticker, `CacheAt` holds:
  - Between messages, `current_balances` is the last balance broadcast
    (`Told`).
  - While a message's denoms are handled, a ticker with a queued update
    has it cached. The update differs from the last broadcast, and no
    denom left to handle names that ticker.
- The last point needs `DenomAssumption`: each active coin has a denom of
  its own. The model keeps one update per ticker where the code's
  `balance_updates` is a vec, and the two agree only under it.
- The lemma `AppendNoRepeat` shows that appending a value other than the
  last keeps a sequence free of repeats.

### `HwClientProofs`

- `CallbacksCorrect`: `Spec => []CallbacksMatchOutcome`.
- `ScansBounded`: `Spec => []ScansWithinTimeout`.
- Their invariant gives the callbacks made and the result at each `pc`
  (`CallbackInv`).
- It also says that before a scan the scans made fit the seconds slept
  (`ScanInv`: `attempts <= clock` at `try`, and nothing made before
  `on_connect`).
- `AppendCallback` computes the callback sequences through
  `AppendProperties` and `SeqEqual`.

### Only model-checked

- Liveness (`AbortedLoopTerminates`, `FinalStateBroadcast`,
  `ListingTerminates`). TLAPS does not reason about fairness or `ENABLED`.
- `ListedInServerOrder`. `FlattenSeq` is a fold defined by a recursive
  function, here applied twice (pages within a chain, then chains). What it
  gives for one more page follows only by induction over the sequence, and
  the installed provers cannot instantiate the library's induction
  theorems. Unlike the single selection of `PoolInShuffledOrder`, the
  nested concatenation has no short first-order restatement.
- `TrimPreservesValue`. It is violated (finding 2), and `FromBigEndian` is a
  `FoldLeft`.

## 6. Not modelled

- The Z-coin balance streamer: one sequential loop that returns at its
  first error (line 60). It has no interleaving to check.
- The test coin: stubs only.
- The wasm and iOS variants of `HwClient`.
- The Trezor address and public-key calls, which are single request and
  response.
- NFT withdraw and the database cache.
- Serialisation, logging and configuration parsing throughout.
