----------------------- MODULE FeeEstimatorProofs -----------------------
(***************************************************************************)
(* Proofs about FeeEstimator for every value of its constants.            *)
(***************************************************************************)
EXTENDS FeeEstimator, FiniteSetTheorems, TLAPS

(* Task slots beyond the spawn counter are untouched: never polled, never  *)
(* aborted.  start_if_not_running hands out slot spawned + 1.             *)
FreshSlots ==
    \A t \in Tasks : t > spawned => loop[t].pc = "unspawned" /\ ~loop[t].aborted

(* The inductive invariant behind SingleActiveLoop (with TypeInv).          *)
LoopInv ==
    /\ handler <= spawned
    /\ FreshSlots
    /\ SingleActiveLoop

(* The inductive invariant behind LateWriteAtMostOnce: a late write is only *)
(* possible from the poll that was under way (writing, or waiting for the  *)
(* mutex it reached in that poll), and it leaves the task sleeping, from    *)
(* where the abort drops it.                                              *)
LateInv ==
    \A t \in Tasks :
        /\ loop[t].late <= 1
        /\ ~loop[t].aborted => loop[t].late = 0
        /\ loop[t].pc \in {"unspawned", "fetching", "writing", "lockwait"}
              => loop[t].late = 0

-----------------------------------------------------------------------------
(* check_if_coin_supported answers with one of its errors or "Ok".         *)
LEMMA CheckResult ==
    \A c \in Coins : CheckIfCoinSupported(c) \in Errors \cup {"Ok"}
BY DEF CheckIfCoinSupported, Errors

(* The RPC callers keep their type in every step of a handler.             *)
LEMMA FinishType ==
    ASSUME NEW r \in Callers, NEW resp \in Responses,
           callers \in [Callers -> CallerState], Finish(r, resp)
    PROVE  callers' \in [Callers -> CallerState]
BY DEF Finish, CallerState

(* A spawned task polls the coin whose start request spawned it.          *)
SpawnedCoins ==
    \A t \in Tasks : loop[t].pc # "unspawned" => loop[t].coin \in Coins

TypeInv == TypeOK /\ SpawnedCoins

(* The fee estimator starts in a well-typed state.                      *)
LEMMA TypeInit == Init => TypeInv
BY SpawnsAssumption, CoinsAssumption
   DEF Init, TypeInv, TypeOK, SpawnedCoins, LoopState, CallerState, Tasks,
       Snapshots, Responses, LoopPcs, Ops

(* Every handler step of the fee estimator keeps its state well typed.  *)
LEMMA TypeStep == TypeInv /\ [Next]_vars => TypeInv'
<1> SUFFICES ASSUME TypeInv, [Next]_vars PROVE TypeInv'
  OBVIOUS
<1>0. TypeOK /\ SpawnedCoins
  BY DEF TypeInv
<1>1. ASSUME NEW c \in Coins, EnableCoin(c) \/ DisableCoin(c) PROVE TypeInv'
  BY <1>0, <1>1 DEF EnableCoin, DisableCoin, TypeInv, TypeOK, SpawnedCoins
<1>2. ASSUME NEW r \in Callers, NEW op \in Ops, NEW c \in Coins,
             CheckRequest(r, op, c)
      PROVE TypeInv'
  BY <1>0, <1>2, CheckResult
  DEF CheckRequest, TypeInv, TypeOK, SpawnedCoins, CallerState, Responses
<1>3. ASSUME NEW r \in Callers, StartIfNotRunning(r) PROVE TypeInv'
  <2>0. UNCHANGED <<active, cache, feeLock>>
    BY <1>3 DEF StartIfNotRunning
  <2>1. CASE handler # 0 /\ Finish(r, "AlreadyStarted")
                         /\ UNCHANGED <<handler, spawned, loop>>
    <3>1. callers' \in [Callers -> CallerState]
      BY <1>0, <2>1, FinishType DEF TypeOK, Responses, Errors
    <3>2. QED
      BY <1>0, <2>0, <2>1, <3>1 DEF TypeInv, TypeOK, SpawnedCoins
  <2>2. CASE /\ handler = 0 /\ spawned < MaxSpawns
             /\ spawned' = spawned + 1 /\ handler' = spawned + 1
             /\ loop' = [loop EXCEPT ![spawned + 1].pc = "fetching",
                                     ![spawned + 1].coin = callers[r].coin]
             /\ Finish(r, "Success")
    <3>1. callers' \in [Callers -> CallerState]
      BY <1>0, <2>2, FinishType DEF TypeOK, Responses
    <3>2. spawned + 1 \in Tasks /\ callers[r].coin \in Coins
      BY <1>0, <2>2, SpawnsAssumption DEF TypeOK, Tasks, CallerState
    <3>3. loop' \in [Tasks -> LoopState]
      BY <1>0, <2>2, <3>2 DEF TypeOK, LoopState, LoopPcs
    <3>4. SpawnedCoins'
      BY <1>0, <2>2, <3>2 DEF SpawnedCoins, TypeOK, Tasks
    <3>5. handler' \in 0..MaxSpawns /\ spawned' \in 0..MaxSpawns
      BY <1>0, <2>2, SpawnsAssumption DEF TypeOK
    <3>6. QED
      BY <1>0, <2>0, <3>1, <3>3, <3>4, <3>5 DEF TypeInv, TypeOK
  <2>3. QED
    BY <1>3, <2>1, <2>2 DEF StartIfNotRunning
<1>4. ASSUME NEW r \in Callers, RequestToStop(r) PROVE TypeInv'
  <2>0. UNCHANGED <<active, spawned, cache, feeLock>>
    BY <1>4 DEF RequestToStop
  <2>1. CASE handler = 0 /\ Finish(r, "AlreadyStopping")
                         /\ UNCHANGED <<handler, loop>>
    <3>1. callers' \in [Callers -> CallerState]
      BY <1>0, <2>1, FinishType DEF TypeOK, Responses, Errors
    <3>2. QED
      BY <1>0, <2>0, <2>1, <3>1 DEF TypeInv, TypeOK, SpawnedCoins
  <2>2. CASE /\ handler # 0 /\ handler' = 0
             /\ loop' = [loop EXCEPT ![handler].aborted = TRUE]
             /\ Finish(r, "Success")
    <3>1. callers' \in [Callers -> CallerState]
      BY <1>0, <2>2, FinishType DEF TypeOK, Responses
    <3>2. loop' \in [Tasks -> LoopState] /\ SpawnedCoins'
      BY <1>0, <2>2 DEF TypeOK, LoopState, Tasks, SpawnedCoins
    <3>3. QED
      BY <1>0, <2>0, <2>2, <3>1, <3>2, SpawnsAssumption DEF TypeInv, TypeOK
  <2>3. QED
    BY <1>4, <2>1, <2>2 DEF RequestToStop
<1>5. ASSUME NEW r \in Callers, LockEstimatedFees(r) PROVE TypeInv'
  BY <1>0, <1>5 DEF LockEstimatedFees, TypeInv, TypeOK, SpawnedCoins, CallerState
<1>6. ASSUME NEW r \in Callers, GetEstimatedFees(r) PROVE TypeInv'
  <2>1. cache \in Responses
    BY <1>0 DEF TypeOK, Responses
  <2>2. callers' \in [Callers -> CallerState]
    BY <1>0, <1>6, <2>1, FinishType DEF GetEstimatedFees, TypeOK
  <2>3. QED
    BY <1>0, <1>6, <2>2 DEF GetEstimatedFees, TypeInv, TypeOK, SpawnedCoins
<1>7. ASSUME NEW t \in Tasks, FeeRequestDone(t) PROVE TypeInv'
  <2>1. loop[t].coin \in Coins
    BY <1>0, <1>7 DEF FeeRequestDone, SpawnedCoins
  <2>2. PICK res \in {loop[t].coin, Zero} :
          loop' = [loop EXCEPT ![t].pc = "writing", ![t].fetched = res]
    BY <1>7 DEF FeeRequestDone
  <2>3. res \in Snapshots
    BY <2>1 DEF Snapshots
  <2>4. [loop[t] EXCEPT !.pc = "writing", !.fetched = res] \in LoopState
    BY <1>0, <2>3 DEF TypeOK, LoopState, LoopPcs
  <2>5. loop' \in [Tasks -> LoopState]
    BY <1>0, <2>2, <2>4 DEF TypeOK
  <2>6. SpawnedCoins'
    BY <1>0, <2>1, <2>2 DEF SpawnedCoins, TypeOK, LoopState
  <2>7. QED
    BY <1>0, <1>7, <2>5, <2>6 DEF FeeRequestDone, TypeInv, TypeOK
<1>8. ASSUME NEW t \in Tasks, StoreFees(t) \/ FeesLockAcquired(t)
      PROVE TypeInv'
  <2>1. WriteEstimatedFees(t)
    BY <1>8 DEF StoreFees, FeesLockAcquired
  <2>6. loop[t] \in LoopState
    BY <1>0 DEF TypeOK
  <2>7. (IF loop[t].aborted THEN loop[t].late + 1 ELSE loop[t].late) \in Nat
    BY <2>6 DEF LoopState
  <2>8. loop' = [loop EXCEPT ![t] = [loop[t] EXCEPT !.pc = "sleeping",
             !.late = IF loop[t].aborted THEN loop[t].late + 1 ELSE loop[t].late]]
    BY <2>1 DEF WriteEstimatedFees
  <2>2. [loop[t] EXCEPT !.pc = "sleeping",
             !.late = IF loop[t].aborted THEN loop[t].late + 1 ELSE loop[t].late]
          \in LoopState
    BY <2>6, <2>7 DEF LoopState, LoopPcs
  <2>9. loop' \in [Tasks -> LoopState]
    BY <1>0, <2>2, <2>8 DEF TypeOK
  <2>10. loop'[t].coin = loop[t].coin /\ loop'[t].pc = "sleeping"
    BY <1>0, <2>6, <2>8 DEF TypeOK, LoopState
  <2>12. loop[t].coin \in Coins
    BY <1>0, <1>8 DEF StoreFees, FeesLockAcquired, SpawnedCoins
  <2>11. SpawnedCoins'
    BY <1>0, <2>8, <2>10, <2>12 DEF SpawnedCoins, TypeOK
  <2>5. loop' \in [Tasks -> LoopState] /\ SpawnedCoins'
    BY <2>9, <2>11
  <2>3. cache' \in Snapshots
    BY <1>0, <2>1 DEF WriteEstimatedFees, TypeOK, LoopState
  <2>4. QED
    BY <1>0, <2>1, <2>5, <2>3 DEF WriteEstimatedFees, TypeInv, TypeOK
<1>9. ASSUME NEW t \in Tasks,
             WaitFeesLock(t) \/ SleepDone(t) \/ AbortedPoll(t)
      PROVE TypeInv'
  BY <1>0, <1>9 DEF WaitFeesLock, SleepDone, AbortedPoll, TypeInv, TypeOK,
                    LoopState, LoopPcs, SpawnedCoins
<1>10. CASE UNCHANGED vars
  BY <1>0, <1>10 DEF vars, TypeInv, TypeOK, SpawnedCoins
<1>11. QED
  BY <1>1, <1>2, <1>3, <1>4, <1>5, <1>6, <1>7, <1>8, <1>9, <1>10
     DEF Next, CallerStep, TaskStep

(* Type correctness: every reachable state satisfies TypeOK.              *)
THEOREM TypeCorrect == Spec => []TypeOK
<1>1. Spec => []TypeInv
  BY TypeInit, TypeStep, PTL DEF Spec
<1>2. QED
  BY <1>1, PTL DEF TypeInv

-----------------------------------------------------------------------------
(* A step of a loop task touches only its own slot, keeps its abort flag   *)
(* and moves it between states of a spawned task.                        *)
LEMMA TaskFrame ==
    ASSUME TypeOK, NEW t \in Tasks, TaskStep(t)
    PROVE  /\ loop[t].pc # "unspawned" /\ loop'[t].pc # "unspawned"
           /\ loop'[t].aborted = loop[t].aborted
           /\ \A u \in Tasks \ {t} : loop'[u] = loop[u]
           /\ UNCHANGED <<handler, spawned>>
<1>1. loop[t] \in LoopState
  BY DEF TypeOK
<1>2. CASE FeeRequestDone(t)
  BY <1>1, <1>2 DEF FeeRequestDone, TypeOK, LoopState
<1>3. CASE StoreFees(t) \/ FeesLockAcquired(t)
  BY <1>1, <1>3 DEF StoreFees, FeesLockAcquired, WriteEstimatedFees, TypeOK,
                   LoopState
<1>4. CASE WaitFeesLock(t) \/ SleepDone(t) \/ AbortedPoll(t)
  BY <1>1, <1>4 DEF WaitFeesLock, SleepDone, AbortedPoll, TypeOK, LoopState
<1>5. QED
  BY <1>2, <1>3, <1>4 DEF TaskStep

(* The loop invariant holds before any fee_estimator_loop is spawned.   *)
LEMMA LoopInit == Init => LoopInv
BY SpawnsAssumption DEF Init, LoopInv, FreshSlots, SingleActiveLoop, Live, Tasks

(* Every start, stop and poll step preserves the loop invariant.        *)
LEMMA LoopStep == TypeOK /\ LoopInv /\ [Next]_vars => LoopInv'
<1> SUFFICES ASSUME TypeOK, LoopInv, [Next]_vars PROVE LoopInv'
  OBVIOUS
<1>0. /\ handler \in 0..MaxSpawns /\ spawned \in 0..MaxSpawns
      /\ loop \in [Tasks -> LoopState]
  BY DEF TypeOK
<1>1. CASE UNCHANGED <<handler, spawned, loop>>
  BY <1>1 DEF LoopInv, FreshSlots, SingleActiveLoop, Live
<1>2. ASSUME NEW r \in Callers, StartIfNotRunning(r) PROVE LoopInv'
  <2>1. CASE handler # 0 /\ UNCHANGED <<handler, spawned, loop>>
    BY <1>1, <2>1
  <2>2. CASE /\ handler = 0 /\ spawned < MaxSpawns
             /\ spawned' = spawned + 1 /\ handler' = spawned + 1
             /\ loop' = [loop EXCEPT ![spawned + 1].pc = "fetching",
                                     ![spawned + 1].coin = callers[r].coin]
    <3> DEFINE n == spawned + 1
    <3>1. n \in Tasks /\ n > spawned
      BY <1>0, <2>2, SpawnsAssumption DEF Tasks
    <3>2. loop[n].pc = "unspawned" /\ ~loop[n].aborted
      BY <3>1 DEF LoopInv, FreshSlots
    <3>3. loop'[n].pc = "fetching" /\ loop'[n].aborted = loop[n].aborted
      BY <1>0, <2>2, <3>1 DEF LoopState
    <3>4. \A u \in Tasks \ {n} : loop'[u] = loop[u]
      BY <1>0, <2>2
    <3>5. \A u \in Tasks : ~Live(u)
      BY <2>2 DEF LoopInv, SingleActiveLoop, Tasks
    <3>6. handler' <= spawned'
      BY <2>2, <1>0
    <3>7. FreshSlots'
      BY <2>2, <3>1, <3>4, <1>0 DEF LoopInv, FreshSlots, Tasks
    <3>8. SingleActiveLoop'
      BY <2>2, <3>2, <3>3, <3>4, <3>5 DEF SingleActiveLoop, Live
    <3>9. QED
      BY <3>6, <3>7, <3>8 DEF LoopInv
  <2>3. QED
    BY <1>2, <2>1, <2>2 DEF StartIfNotRunning
<1>3. ASSUME NEW r \in Callers, RequestToStop(r) PROVE LoopInv'
  <2>1. CASE handler = 0 /\ UNCHANGED <<handler, loop>>
    BY <1>1, <1>3, <2>1 DEF RequestToStop
  <2>2. CASE /\ handler # 0 /\ handler' = 0
             /\ loop' = [loop EXCEPT ![handler].aborted = TRUE]
    <3>1. handler \in Tasks /\ handler <= spawned
      BY <1>0, <2>2 DEF LoopInv, Tasks
    <3>2. UNCHANGED spawned
      BY <1>3 DEF RequestToStop
    <3>3. loop'[handler].aborted /\ loop'[handler].pc = loop[handler].pc
      BY <1>0, <2>2, <3>1 DEF LoopState
    <3>4. \A u \in Tasks \ {handler} : loop'[u] = loop[u]
      BY <1>0, <2>2
    <3>5. handler' <= spawned'
      BY <2>2, <3>2, <1>0
    <3>6. FreshSlots'
      BY <3>1, <3>2, <3>4, <1>0 DEF LoopInv, FreshSlots, Tasks
    <3>7. SingleActiveLoop'
      BY <2>2, <3>1, <3>3, <3>4, <1>0 DEF LoopInv, SingleActiveLoop, Live, Tasks
    <3>8. QED
      BY <3>5, <3>6, <3>7 DEF LoopInv
  <2>3. QED
    BY <1>3, <2>1, <2>2 DEF RequestToStop
<1>4. ASSUME NEW t \in Tasks, TaskStep(t) PROVE LoopInv'
  <2>1. /\ loop[t].pc # "unspawned" /\ loop'[t].pc # "unspawned"
        /\ loop'[t].aborted = loop[t].aborted
        /\ \A u \in Tasks \ {t} : loop'[u] = loop[u]
        /\ UNCHANGED <<handler, spawned>>
    BY <1>4, TaskFrame
  <2>2. t <= spawned
    BY <2>1, <1>0 DEF LoopInv, FreshSlots, Tasks
  <2>3. FreshSlots'
    BY <2>1, <2>2, <1>0 DEF LoopInv, FreshSlots, Tasks
  <2>4. SingleActiveLoop'
    BY <2>1 DEF LoopInv, SingleActiveLoop, Live
  <2>5. QED
    BY <2>1, <2>3, <2>4 DEF LoopInv
<1>5. QED
  <2>1. ASSUME NEW c \in Coins, EnableCoin(c) \/ DisableCoin(c)
        PROVE LoopInv'
    BY <1>1, <2>1 DEF EnableCoin, DisableCoin
  <2>2. ASSUME NEW r \in Callers,
               \/ \E op \in Ops, c \in Coins : CheckRequest(r, op, c)
               \/ LockEstimatedFees(r) \/ GetEstimatedFees(r)
        PROVE LoopInv'
    BY <1>1, <2>2 DEF CheckRequest, LockEstimatedFees, GetEstimatedFees
  <2>3. CASE UNCHANGED vars
    BY <1>1, <2>3 DEF vars
  <2>4. QED
    BY <1>2, <1>3, <1>4, <2>1, <2>2, <2>3 DEF Next, CallerStep

(* LateInv for one slot.                                                  *)
LateSlot(t) ==
    /\ loop[t].late <= 1
    /\ ~loop[t].aborted => loop[t].late = 0
    /\ loop[t].pc \in {"unspawned", "fetching", "writing", "lockwait"}
          => loop[t].late = 0

(* No late cache write is possible before a loop is spawned.            *)
LEMMA LateInit == Init => LateInv
BY DEF Init, LateInv

(* Every step preserves the bound on late cache writes.                 *)
LEMMA LateStep == TypeOK /\ LoopInv /\ LateInv /\ [Next]_vars => LateInv'
<1> SUFFICES ASSUME TypeOK, LoopInv, LateInv, [Next]_vars PROVE LateInv'
  OBVIOUS
<1>0. loop \in [Tasks -> LoopState] /\ handler \in 0..MaxSpawns
  BY DEF TypeOK
<1>1. \A t \in Tasks : LateSlot(t)
  BY DEF LateInv, LateSlot
<1>2. SUFFICES ASSUME NEW t \in Tasks PROVE LateSlot(t)'
  BY DEF LateInv, LateSlot
<1>3. CASE loop'[t] = loop[t]
  BY <1>1, <1>3 DEF LateSlot
<1>4. CASE /\ loop[t].pc = "unspawned"
           /\ loop'[t].late = loop[t].late
           /\ loop'[t].aborted = loop[t].aborted
  BY <1>1, <1>4 DEF LateSlot
<1>5. CASE loop'[t] = [loop[t] EXCEPT !.aborted = TRUE]
  BY <1>0, <1>1, <1>5 DEF LateSlot, LoopState
<1>6. CASE /\ ~loop[t].aborted
           /\ loop'[t].late = loop[t].late
           /\ loop'[t].aborted = loop[t].aborted
  BY <1>0, <1>1, <1>6 DEF LateSlot, LoopState
<1>7. CASE /\ loop[t].pc = "writing"
           /\ loop'[t] = [loop[t] EXCEPT !.pc = "sleeping",
                  !.late = IF loop[t].aborted THEN @ + 1 ELSE @]
  BY <1>0, <1>1, <1>7 DEF LateSlot, LoopState
<1>8. CASE /\ loop[t].pc = "writing"
           /\ loop'[t] = [loop[t] EXCEPT !.pc = "lockwait"]
  BY <1>0, <1>1, <1>8 DEF LateSlot, LoopState
<1>9. CASE loop'[t] = [loop[t] EXCEPT !.pc = "done"]
  BY <1>0, <1>1, <1>9 DEF LateSlot, LoopState
<1>10. ASSUME NEW u \in Tasks, TaskStep(u) PROVE LateSlot(t)'
  <2>1. CASE u # t
    BY <1>0, <1>3, <1>10, <2>1, TaskFrame
  <2>2. CASE u = t /\ FeeRequestDone(t)
    <3>1. PICK res \in {loop[t].coin, Zero} :
            loop' = [loop EXCEPT ![t].pc = "writing", ![t].fetched = res]
      BY <2>2 DEF FeeRequestDone
    <3>2. QED
      BY <1>0, <1>6, <2>2, <3>1 DEF FeeRequestDone, PollProceeds, LoopState
  <2>3. CASE u = t /\ StoreFees(t)
    BY <1>0, <1>7, <2>3 DEF StoreFees, WriteEstimatedFees
  <2>4. CASE u = t /\ FeesLockAcquired(t)
    BY <1>0, <1>6, <2>4 DEF FeesLockAcquired, PollProceeds, WriteEstimatedFees,
                           LoopState
  <2>5. CASE u = t /\ WaitFeesLock(t)
    BY <1>0, <1>8, <2>5 DEF WaitFeesLock
  <2>6. CASE u = t /\ SleepDone(t)
    BY <1>0, <1>6, <2>6 DEF SleepDone, PollProceeds, LoopState
  <2>7. CASE u = t /\ AbortedPoll(t)
    BY <1>0, <1>9, <2>7 DEF AbortedPoll
  <2>8. QED
    BY <1>10, <2>1, <2>2, <2>3, <2>4, <2>5, <2>6, <2>7 DEF TaskStep
<1>11. ASSUME NEW r \in Callers, StartIfNotRunning(r) PROVE LateSlot(t)'
  <2>1. CASE handler # 0 /\ UNCHANGED loop
    BY <1>3, <2>1
  <2>2. CASE /\ handler = 0 /\ spawned < MaxSpawns
             /\ loop' = [loop EXCEPT ![spawned + 1].pc = "fetching",
                                     ![spawned + 1].coin = callers[r].coin]
    <3>1. CASE t = spawned + 1
      <4>1. loop[t].pc = "unspawned"
        BY <3>1, <1>0, SpawnsAssumption DEF LoopInv, FreshSlots, TypeOK, Tasks
      <4>2. loop'[t].late = loop[t].late /\ loop'[t].aborted = loop[t].aborted
        BY <1>0, <2>2, <3>1, <4>1 DEF LoopState
      <4>3. QED
        BY <1>4, <4>1, <4>2
    <3>2. CASE t # spawned + 1
      BY <1>0, <1>3, <2>2, <3>2
    <3>3. QED
      BY <3>1, <3>2
  <2>3. QED
    BY <1>11, <2>1, <2>2 DEF StartIfNotRunning
<1>12. ASSUME NEW r \in Callers, RequestToStop(r) PROVE LateSlot(t)'
  <2>1. CASE handler = 0 /\ UNCHANGED loop
    BY <1>3, <2>1
  <2>2. CASE handler # 0 /\ loop' = [loop EXCEPT ![handler].aborted = TRUE]
    <3>1. CASE t = handler
      BY <1>0, <1>5, <2>2, <3>1 DEF LoopState
    <3>2. CASE t # handler
      BY <1>0, <1>3, <2>2, <3>2
    <3>3. QED
      BY <3>1, <3>2
  <2>3. QED
    BY <1>12, <2>1, <2>2 DEF RequestToStop
<1>13. CASE \/ \E c \in Coins : EnableCoin(c) \/ DisableCoin(c)
            \/ \E r \in Callers :
                 \/ \E op \in Ops, c \in Coins : CheckRequest(r, op, c)
                 \/ LockEstimatedFees(r) \/ GetEstimatedFees(r)
            \/ UNCHANGED vars
  BY <1>3, <1>13 DEF EnableCoin, DisableCoin, CheckRequest, LockEstimatedFees,
                    GetEstimatedFees, vars
<1>14. QED
  BY <1>10, <1>11, <1>12, <1>13 DEF Next, CallerStep

(* After request_to_stop drops the handle, the aborted loop task writes    *)
(* the cache at most once more (the poll already under way), for every    *)
(* number of coins, callers and spawns.                                   *)
THEOREM LateWriteBound == Spec => []LateWriteAtMostOnce
<1>1. TypeInv /\ LoopInv /\ LateInv /\ [Next]_vars
        => (TypeInv /\ LoopInv /\ LateInv)'
  BY TypeStep, LoopStep, LateStep DEF TypeInv
<1>2. Init => TypeInv /\ LoopInv /\ LateInv
  BY TypeInit, LoopInit, LateInit
<1>3. Spec => [](TypeInv /\ LoopInv /\ LateInv)
  BY <1>1, <1>2, PTL DEF Spec
<1>4. LateInv => LateWriteAtMostOnce
  BY DEF LateInv, LateWriteAtMostOnce
<1>5. QED
  BY <1>3, <1>4, PTL

(* Polling ticks never overlap (request_to_stop aborts the task it takes   *)
(* the handle of, start_if_not_running spawns only when the handle is     *)
(* None): at most the one task abort_handler holds is live, for every      *)
(* number of coins, callers and spawns.                                   *)
THEOREM SingleLoop == Spec => []SingleActiveLoop
<1>1. TypeInv /\ LoopInv /\ [Next]_vars => (TypeInv /\ LoopInv)'
  BY TypeStep, LoopStep DEF TypeInv
<1>2. Init => TypeInv /\ LoopInv
  BY TypeInit, LoopInit
<1>3. Spec => [](TypeInv /\ LoopInv)
  BY <1>1, <1>2, PTL DEF Spec
<1>4. QED
  BY <1>3, PTL DEF LoopInv

-----------------------------------------------------------------------------
(***************************************************************************)
(* The refinement: the fee estimator context of get_estimated_fees.rs     *)
(* implements the lifecycle of FeeEstimatorLifecycle under the mapping of *)
(* FeeEstimator: running is abort_handler.is_some(), pending counts the   *)
(* aborted tasks caught between their fee request and their cache write,   *)
(* and each caller's answer is its response.                              *)
(***************************************************************************)


(* The invariant the refinement rests on: types, and one live loop, the    *)
(* one abort_handler holds.                                                *)
RInv == TypeInv /\ LoopInv

RespOf == [q \in Callers |-> callers[q].resp]

Straggling(t) == loop[t].aborted /\ loop[t].pc = "writing"

-----------------------------------------------------------------------------
(* The set of stragglers is finite, before and after a step.               *)
LEMMA StragglersFinite == IsFiniteSet(Stragglers) /\ IsFiniteSet(Stragglers')
<1>1. IsFiniteSet(Tasks)
  BY FS_Interval, SpawnsAssumption DEF Tasks
<1>2. Stragglers \in SUBSET Tasks /\ Stragglers' \in SUBSET Tasks
  BY DEF Stragglers
<1> QED
  BY <1>1, <1>2, FS_Subset

(* A step that changes at most the slot of task t changes the stragglers   *)
(* at most by t.                                                           *)
LEMMA StragglersFrame ==
    ASSUME NEW t \in Tasks, \A u \in Tasks \ {t} : loop'[u] = loop[u]
    PROVE  /\ ~Straggling(t) /\ ~Straggling(t)' => Stragglers' = Stragglers
           /\ Straggling(t) /\ ~Straggling(t)' => Stragglers' = Stragglers \ {t}
           /\ ~Straggling(t) /\ Straggling(t)' => Stragglers' = Stragglers \cup {t}
BY DEF Stragglers, Straggling

(* What the frame does to the count Lifecycle's pending maps to.           *)
LEMMA StragglerCount ==
    ASSUME NEW t \in Tasks
    PROVE  /\ Straggling(t) /\ Stragglers' = Stragglers \ {t}
                => Cardinality(Stragglers') = Cardinality(Stragglers) - 1
           /\ ~Straggling(t) /\ Stragglers' = Stragglers \cup {t}
                => Cardinality(Stragglers') = Cardinality(Stragglers) + 1
           /\ Straggling(t) => Cardinality(Stragglers) > 0
<1>1. IsFiniteSet(Stragglers)
  BY StragglersFinite
<1>2. t \in Stragglers <=> Straggling(t)
  BY DEF Stragglers, Straggling
<1>3. Straggling(t) => Cardinality(Stragglers) > 0
  BY <1>1, <1>2, FS_EmptySet, FS_CardinalityType
<1> QED
  BY <1>1, <1>2, <1>3, FS_AddElement, FS_RemoveElement

(* The answers seen by the lifecycle after a caller's record is replaced, *)
(* and after Finish.                                                       *)
LEMMA RespReplace ==
    ASSUME callers \in [Callers -> CallerState], NEW r \in Callers, NEW x,
           callers' = [callers EXCEPT ![r] = x]
    PROVE  RespOf' = [RespOf EXCEPT ![r] = x.resp]
BY DEF RespOf

LEMMA FinishResp ==
    ASSUME callers \in [Callers -> CallerState], NEW r \in Callers, NEW x, Finish(r, x)
    PROVE  RespOf' = [RespOf EXCEPT ![r] = x]
BY DEF RespOf, Finish, CallerState

(* Every step of the context is a step of the lifecycle or leaves the    *)
(* lifecycle's state as it was.                                            *)
LEMMA RefineStep == RInv /\ [Next]_vars => [Lifecycle!LifecycleNext]_Lifecycle!avars
<1> SUFFICES ASSUME RInv, [Next]_vars PROVE [Lifecycle!LifecycleNext]_Lifecycle!avars
  OBVIOUS
<1>0. /\ TypeOK /\ SpawnedCoins /\ LoopInv
      /\ handler \in 0..MaxSpawns /\ spawned \in 0..MaxSpawns
      /\ loop \in [Tasks -> LoopState] /\ callers \in [Callers -> CallerState]
      /\ cache \in Snapshots
  BY DEF RInv, TypeInv, TypeOK
(* The live task is the one abort_handler holds.                          *)
<1>L. \A t \in Tasks : loop[t].pc # "unspawned" /\ ~loop[t].aborted => t = handler
  BY <1>0 DEF LoopInv, SingleActiveLoop, Live
<1>1. ASSUME UNCHANGED <<handler, loop, cache, callers>>
      PROVE  [Lifecycle!LifecycleNext]_Lifecycle!avars
  BY <1>1 DEF Stragglers, Lifecycle!avars
<1>2. ASSUME NEW r \in Callers, NEW op \in Ops, NEW c \in Coins, CheckRequest(r, op, c)
      PROVE  [Lifecycle!LifecycleNext]_Lifecycle!avars
  <2>0. UNCHANGED <<handler, loop, cache>>
    BY <1>2 DEF CheckRequest
  <2>1. CASE CheckIfCoinSupported(c) = "Ok"
    <3>0. callers' = [callers EXCEPT ![r] = [pc |-> "checked", op |-> op,
                                             coin |-> c, resp |-> "none"]]
      BY <1>2, <2>1 DEF CheckRequest
    <3>1. RespOf' = [RespOf EXCEPT ![r] = "none"]
      BY <1>0, <3>0 DEF RespOf
    <3>2. Lifecycle!Accept(r)
      BY <2>0, <3>1 DEF Lifecycle!Accept, Stragglers, RespOf
    <3> QED
      BY <3>2 DEF Lifecycle!LifecycleNext
  <2>2. CASE CheckIfCoinSupported(c) # "Ok"
    <3>1. CheckIfCoinSupported(c) \in {"CoinNotActivated", "CoinNotSupported", "ChainNotSupported"}
      BY <2>2 DEF CheckIfCoinSupported
    <3>2. callers' = [callers EXCEPT ![r] = [pc |-> "idle", op |-> op,
                                             coin |-> c, resp |-> CheckIfCoinSupported(c)]]
      BY <1>2, <2>2 DEF CheckRequest
    <3>3. RespOf' = [RespOf EXCEPT ![r] = CheckIfCoinSupported(c)]
      BY <1>0, <3>2 DEF RespOf
    <3>4. Lifecycle!Reject(r, CheckIfCoinSupported(c))
      BY <2>0, <3>3 DEF Lifecycle!Reject, Stragglers, RespOf
    <3>5. Lifecycle!LifecycleNext
      BY <3>1, <3>4 DEF Lifecycle!LifecycleNext, Lifecycle!Reject
    <3> QED
      BY <3>5
  <2> QED
    BY <2>1, <2>2
<1>3. ASSUME NEW r \in Callers, StartIfNotRunning(r)
      PROVE  [Lifecycle!LifecycleNext]_Lifecycle!avars
  <2>0. UNCHANGED cache
    BY <1>3 DEF StartIfNotRunning
  <2>1. CASE handler # 0 /\ Finish(r, "AlreadyStarted")
                         /\ UNCHANGED <<handler, spawned, loop>>
    <3>1. Lifecycle!Start(r)
      BY <1>0, <2>0, <2>1, FinishResp DEF Lifecycle!Start, Stragglers, RespOf
    <3> QED
      BY <3>1 DEF Lifecycle!LifecycleNext
  <2>2. CASE /\ handler = 0 /\ spawned < MaxSpawns
             /\ spawned' = spawned + 1 /\ handler' = spawned + 1
             /\ loop' = [loop EXCEPT ![spawned + 1].pc = "fetching",
                                     ![spawned + 1].coin = callers[r].coin]
             /\ Finish(r, "Success")
    <3> DEFINE n == spawned + 1
    <3>1. n \in Tasks /\ ~loop[n].aborted
      BY <1>0, <2>2, SpawnsAssumption DEF LoopInv, FreshSlots, Tasks
    <3>2. /\ \A u \in Tasks \ {n} : loop'[u] = loop[u]
          /\ loop'[n].aborted = loop[n].aborted
      BY <1>0, <2>2, <3>1 DEF LoopState
    <3>3. ~Straggling(n) /\ ~(loop'[n].aborted /\ loop'[n].pc = "writing")
      BY <3>1, <3>2 DEF Straggling
    <3>4. Stragglers' = Stragglers
      BY <3>1, <3>2, <3>3, StragglersFrame DEF Straggling
    <3>5. Lifecycle!Start(r)
      BY <1>0, <2>0, <2>2, <3>4, FinishResp DEF Lifecycle!Start, RespOf
    <3> QED
      BY <3>5 DEF Lifecycle!LifecycleNext
  <2> QED
    BY <1>3, <2>1, <2>2 DEF StartIfNotRunning
<1>4. ASSUME NEW r \in Callers, RequestToStop(r)
      PROVE  [Lifecycle!LifecycleNext]_Lifecycle!avars
  <2>0. UNCHANGED cache
    BY <1>4 DEF RequestToStop
  <2>1. CASE handler = 0 /\ Finish(r, "AlreadyStopping") /\ UNCHANGED <<handler, loop>>
    <3>1. Lifecycle!Stop(r)
      BY <1>0, <2>0, <2>1, FinishResp DEF Lifecycle!Stop, Stragglers, RespOf
    <3> QED
      BY <3>1 DEF Lifecycle!LifecycleNext
  <2>2. CASE /\ handler # 0 /\ handler' = 0
             /\ loop' = [loop EXCEPT ![handler].aborted = TRUE]
             /\ Finish(r, "Success")
    (* The dropped handle held the live loop, which was no straggler.    *)
    <3>1. PICK h \in Tasks : h = handler /\ ~loop[h].aborted
      BY <1>0, <2>2 DEF LoopInv, SingleActiveLoop, Live, Tasks
    <3>2. /\ \A u \in Tasks \ {h} : loop'[u] = loop[u]
          /\ loop'[h].aborted /\ loop'[h].pc = loop[h].pc
      BY <1>0, <2>2, <3>1 DEF LoopState
    <3>3. ~Straggling(h)
      BY <3>1 DEF Straggling
    <3>4. Cardinality(Stragglers') \in {Cardinality(Stragglers), Cardinality(Stragglers) + 1}
      <4>1. CASE loop[h].pc = "writing"
        <5>1. Stragglers' = Stragglers \cup {h}
          BY <3>2, <3>3, <4>1, StragglersFrame DEF Straggling
        <5> QED
          BY <3>3, <5>1, StragglerCount
      <4>2. CASE loop[h].pc # "writing"
        BY <3>2, <3>3, <4>2, StragglersFrame DEF Straggling
      <4> QED
        BY <4>1, <4>2
    <3>5. Lifecycle!Stop(r)
      BY <1>0, <2>0, <2>2, <3>4, FinishResp DEF Lifecycle!Stop, RespOf
    <3> QED
      BY <3>5 DEF Lifecycle!LifecycleNext
  <2> QED
    BY <1>4, <2>1, <2>2 DEF RequestToStop
<1>5. ASSUME NEW r \in Callers, LockEstimatedFees(r)
      PROVE  [Lifecycle!LifecycleNext]_Lifecycle!avars
  <2>1. UNCHANGED Lifecycle!avars
    BY <1>0, <1>5 DEF LockEstimatedFees, Stragglers, RespOf, Lifecycle!avars
  <2> QED
    BY <2>1
<1>6. ASSUME NEW r \in Callers, GetEstimatedFees(r)
      PROVE  [Lifecycle!LifecycleNext]_Lifecycle!avars
  <2>1. Lifecycle!Get(r)
    BY <1>0, <1>6, FinishResp DEF GetEstimatedFees, Lifecycle!Get, Stragglers, RespOf
  <2> QED
    BY <2>1 DEF Lifecycle!LifecycleNext
<1>7. ASSUME NEW t \in Tasks, TaskStep(t)
      PROVE  [Lifecycle!LifecycleNext]_Lifecycle!avars
  <2>0. /\ loop[t].pc # "unspawned" /\ loop'[t].aborted = loop[t].aborted
        /\ \A u \in Tasks \ {t} : loop'[u] = loop[u]
        /\ UNCHANGED <<handler, callers>>
    BY <1>0, <1>7, TaskFrame DEF TaskStep, FeeRequestDone, StoreFees, WaitFeesLock,
       FeesLockAcquired, WriteEstimatedFees, SleepDone, AbortedPoll
  (* A task that is not aborted is the one abort_handler holds.          *)
  <2>1. ~loop[t].aborted => t = handler /\ handler # 0
    BY <1>L, <2>0 DEF Tasks
  <2>2. loop[t] \in LoopState
    BY <1>0
  <2>3. CASE FeeRequestDone(t) \/ SleepDone(t) \/ AbortedPoll(t)
    <3>1. ~Straggling(t) /\ ~(loop'[t].aborted /\ loop'[t].pc = "writing")
      <4>1. CASE FeeRequestDone(t)
        BY <1>0, <2>0, <4>1 DEF FeeRequestDone, PollProceeds, Straggling
      <4>2. CASE SleepDone(t)
        BY <1>0, <2>0, <4>2 DEF SleepDone, PollProceeds, Straggling
      <4>3. CASE AbortedPoll(t)
        BY <1>0, <4>3 DEF AbortedPoll, Straggling
      <4> QED
        BY <2>3, <4>1, <4>2, <4>3
    <3>2. UNCHANGED Lifecycle!avars
      BY <2>0, <2>3, <3>1, StragglersFrame
      DEF Straggling, FeeRequestDone, SleepDone, AbortedPoll, RespOf, Lifecycle!avars
    <3> QED
      BY <3>2
  <2>4. CASE StoreFees(t)
    <3>0. /\ cache' = loop[t].fetched /\ loop[t].fetched \in Snapshots
          /\ loop[t].pc = "writing" /\ loop'[t].pc = "sleeping"
      BY <1>0, <2>2, <2>4 DEF StoreFees, WriteEstimatedFees, LoopState
    <3>1. CASE loop[t].aborted
      <4>1. Straggling(t) /\ ~(loop'[t].aborted /\ loop'[t].pc = "writing")
        BY <3>0, <3>1 DEF Straggling
      <4>2. Stragglers' = Stragglers \ {t}
        BY <2>0, <4>1, StragglersFrame DEF Straggling
      <4>3. Cardinality(Stragglers') = Cardinality(Stragglers) - 1
            /\ Cardinality(Stragglers) > 0
        BY <4>1, <4>2, StragglerCount
      <4>4. Lifecycle!WriteLate(loop[t].fetched)
        BY <2>0, <3>0, <4>3 DEF Lifecycle!WriteLate, RespOf
      <4> QED
        BY <3>0, <4>4 DEF Lifecycle!LifecycleNext
    <3>2. CASE ~loop[t].aborted
      <4>1. Stragglers' = Stragglers
        BY <2>0, <3>2, StragglersFrame DEF Straggling
      <4>2. Lifecycle!WriteLive(loop[t].fetched)
        BY <2>0, <2>1, <3>0, <3>2, <4>1 DEF Lifecycle!WriteLive, RespOf
      <4> QED
        BY <3>0, <4>2 DEF Lifecycle!LifecycleNext
    <3> QED
      BY <3>1, <3>2
  <2>5. CASE WaitFeesLock(t)
    <3>0. /\ UNCHANGED cache
          /\ loop[t].pc = "writing" /\ loop'[t].pc = "lockwait"
      BY <1>0, <2>2, <2>5 DEF WaitFeesLock, LoopState
    <3>1. CASE loop[t].aborted
      (* The straggler is parked on the mutex, where the abort drops it.   *)
      <4>1. Straggling(t) /\ ~(loop'[t].aborted /\ loop'[t].pc = "writing")
        BY <3>0, <3>1 DEF Straggling
      <4>2. Stragglers' = Stragglers \ {t}
        BY <2>0, <4>1, StragglersFrame DEF Straggling
      <4>3. Cardinality(Stragglers') = Cardinality(Stragglers) - 1
            /\ Cardinality(Stragglers) > 0
        BY <4>1, <4>2, StragglerCount
      <4>4. Lifecycle!Retire
        BY <2>0, <3>0, <4>3 DEF Lifecycle!Retire, RespOf
      <4> QED
        BY <4>4 DEF Lifecycle!LifecycleNext
    <3>2. CASE ~loop[t].aborted
      <4>1. Stragglers' = Stragglers
        BY <2>0, <3>2, StragglersFrame DEF Straggling
      <4> QED
        BY <2>0, <3>0, <4>1 DEF RespOf, Lifecycle!avars
    <3> QED
      BY <3>1, <3>2
  <2>6. CASE FeesLockAcquired(t)
    <3>0. /\ cache' = loop[t].fetched /\ loop[t].fetched \in Snapshots
          /\ ~loop[t].aborted /\ loop[t].pc = "lockwait"
      BY <1>0, <2>2, <2>6 DEF FeesLockAcquired, PollProceeds, WriteEstimatedFees, LoopState
    <3>1. Stragglers' = Stragglers
      BY <2>0, <3>0, StragglersFrame DEF Straggling
    <3>2. Lifecycle!WriteLive(loop[t].fetched)
      BY <2>0, <2>1, <3>0, <3>1 DEF Lifecycle!WriteLive, RespOf
    <3> QED
      BY <3>0, <3>2 DEF Lifecycle!LifecycleNext
  <2> QED
    BY <1>7, <2>3, <2>4, <2>5, <2>6 DEF TaskStep
<1>8. ASSUME NEW c \in Coins, EnableCoin(c) \/ DisableCoin(c)
      PROVE  [Lifecycle!LifecycleNext]_Lifecycle!avars
  BY <1>1, <1>8 DEF EnableCoin, DisableCoin
<1>9. ASSUME UNCHANGED vars PROVE [Lifecycle!LifecycleNext]_Lifecycle!avars
  BY <1>1, <1>9 DEF vars
<1> QED
  BY <1>2, <1>3, <1>4, <1>5, <1>6, <1>7, <1>8, <1>9 DEF Next, CallerStep

(* In the initial state no loop runs, no stopped loop is in flight, the    *)
(* cache holds the default estimate and no request has an answer.          *)
LEMMA RefineInit == Init => Lifecycle!LifecycleInit
<1> SUFFICES ASSUME Init PROVE Lifecycle!LifecycleInit
  OBVIOUS
<1>1. Stragglers = {}
  BY DEF Init, Stragglers
<1>2. Cardinality(Stragglers) = 0
  BY <1>1, FS_EmptySet
<1> QED
  BY <1>2 DEF Init, Lifecycle!LifecycleInit

(* The context of get_estimated_fees.rs, with every RPC handler split at   *)
(* its awaits and the loop polled step by step, behaves as the atomic      *)
(* lifecycle FeeEstimatorLifecycle promises (ImplementsLifecycle), for     *)
(* every set of coins and callers and every spawn bound.                  *)
THEOREM Refinement == Spec => ImplementsLifecycle
<1>1. Spec => []RInv
  BY TypeInit, TypeStep, LoopInit, LoopStep, PTL DEF Spec, RInv, TypeInv
<1> QED
  BY <1>1, RefineInit, RefineStep, PTL DEF Spec, ImplementsLifecycle, Lifecycle!LifecycleSpec

=============================================================================
