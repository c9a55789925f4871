------------------------ MODULE FeeEstimatorLifecycle ------------------------
(***************************************************************************)
(* What the gas fee estimator context promises its RPC callers, with every *)
(* RPC one atomic step (spec 4.2 and 5):                                   *)
(*   - start succeeds exactly when no loop runs, and a loop then runs;     *)
(*   - stop succeeds exactly when a loop runs, and then none runs;         *)
(*   - a get answers with the cached estimate as it is at that moment;     *)
(*   - the cache is written by the running loop, and otherwise only by a  *)
(*     loop that was stopped in the middle of its write: each stop leaves  *)
(*     at most one such straggler, and each straggler writes at most once.*)
(* A request may also be rejected by the coin check, or accepted by it.    *)
(***************************************************************************)
EXTENDS Naturals

CONSTANTS
    Callers,      \* concurrent RPC requests
    Values,       \* the estimates the cache may hold
    CheckErrors,  \* the errors of the coin check
    Zero          \* the estimate the cache starts with

VARIABLES
    running,   \* a fee_estimator_loop is running
    pending,   \* stopped loops that may still write the cache once
    cache,     \* the cached estimate
    resp       \* resp[r]: the last answer to request r, "none" while pending

avars == <<running, pending, cache, resp>>

LifecycleTypeOK ==
    /\ running \in BOOLEAN
    /\ pending \in Nat
    /\ cache \in Values
    /\ resp \in [Callers -> {"none", "Success", "AlreadyStarted", "AlreadyStopping"}
                              \cup CheckErrors \cup Values]

LifecycleInit ==
    /\ running = FALSE
    /\ pending = 0
    /\ cache = Zero
    /\ resp = [r \in Callers |-> "none"]

(* The coin check answers the request with an error, or lets it through.   *)
Reject(r, e) ==
    /\ resp' = [resp EXCEPT ![r] = e]
    /\ UNCHANGED <<running, pending, cache>>

Accept(r) ==
    /\ resp' = [resp EXCEPT ![r] = "none"]
    /\ UNCHANGED <<running, pending, cache>>

Start(r) ==
    /\ IF running
         THEN resp' = [resp EXCEPT ![r] = "AlreadyStarted"] /\ UNCHANGED running
         ELSE resp' = [resp EXCEPT ![r] = "Success"] /\ running' = TRUE
    /\ UNCHANGED <<pending, cache>>

(* A stop may leave the stopped loop's write in flight.                    *)
Stop(r) ==
    /\ IF running
         THEN /\ resp' = [resp EXCEPT ![r] = "Success"]
              /\ running' = FALSE
              /\ pending' \in {pending, pending + 1}
         ELSE /\ resp' = [resp EXCEPT ![r] = "AlreadyStopping"]
              /\ UNCHANGED <<running, pending>>
    /\ UNCHANGED cache

Get(r) ==
    /\ resp' = [resp EXCEPT ![r] = cache]
    /\ UNCHANGED <<running, pending, cache>>

WriteLive(v) ==
    /\ running
    /\ cache' = v
    /\ UNCHANGED <<running, pending, resp>>

WriteLate(v) ==
    /\ pending > 0
    /\ cache' = v
    /\ pending' = pending - 1
    /\ UNCHANGED <<running, resp>>

(* A straggler that is dropped before it writes.                           *)
Retire ==
    /\ pending > 0
    /\ pending' = pending - 1
    /\ UNCHANGED <<running, cache, resp>>

LifecycleNext ==
    \/ \E r \in Callers :
          \/ \E e \in CheckErrors : Reject(r, e)
          \/ Accept(r) \/ Start(r) \/ Stop(r) \/ Get(r)
    \/ \E v \in Values : WriteLive(v) \/ WriteLate(v)
    \/ Retire

LifecycleSpec == LifecycleInit /\ [][LifecycleNext]_avars

=============================================================================
