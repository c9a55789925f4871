---------------------------- MODULE FeeTickTiming ----------------------------
(***************************************************************************)
(* The tick of the two fee polling loops: fee_estimator_loop of            *)
(* coins/rpc_command/get_estimated_fees.rs and EthFeeEventStreamer::handle *)
(* of coins/eth/fee_estimation/eth_fee_events.rs.                          *)
(*                                                                         *)
(* A tick records its start, awaits the fee request (and, in the          *)
(* estimator, the cache mutex), hands the result on (cache write, or one  *)
(* fee or error event), then computes wait = interval - elapsed and       *)
(* sleeps:                                                                 *)
(*   estimator: wait < 0 is clamped to 0 and Timer::sleep(wait) is called; *)
(*   streamer:  Timer::sleep(wait) is called only when wait >= 0.1.        *)
(* Both are "IF wait >= min THEN sleep wait ELSE go on", with min 0 for   *)
(* the estimator and StreamerMinSleep (0.1 s) for the streamer; which     *)
(* loop runs is chosen at the start.  Time is counted in units of 0.05 s.  *)
(*                                                                         *)
(* The fee request's outcome is one of: an estimate, an estimate the      *)
(* TryFrom conversion rejects (streamer), or an error.                     *)
(***************************************************************************)
EXTENDS Naturals

CONSTANTS
    Interval,   \* refresh interval / estimate_every, in time units
    StreamerMinSleep, \* the smallest wait the streamer sleeps for
    Durations,  \* how long a tick's requests may take, in time units
    MaxTicks    \* bound: ticks

ASSUME TimingAssumption ==
    /\ Interval \in Nat /\ StreamerMinSleep \in Nat \ {0}
    /\ Durations \subseteq Nat /\ Durations # {}
    /\ MaxTicks \in Nat \ {0}

Outcomes == {"fee", "conversion_error", "request_error"}

Loops == {"estimator", "streamer"}

(* The smallest wait each loop sleeps for.                                 *)
MinSleep(l) == IF l = "streamer" THEN StreamerMinSleep ELSE 0

VARIABLES
    loop,          \* the loop that runs
    ticks,         \* ticks completed
    lastFetch,     \* how long the last tick's requests took
    lastInterval,  \* time from the last tick's start to the next one's
    lastEvent      \* what the last tick handed on: "fee" or "error"

vars == <<loop, ticks, lastFetch, lastInterval, lastEvent>>

TypeOK ==
    /\ loop \in Loops
    /\ ticks \in 0..MaxTicks
    /\ lastFetch \in Durations \cup {0}
    /\ lastInterval \in Nat
    /\ lastEvent \in {"none", "fee", "error"}

Init ==
    /\ loop \in Loops
    /\ ticks = 0
    /\ lastFetch = 0
    /\ lastInterval = 0
    /\ lastEvent = "none"

(* let wait = interval - elapsed, in integers (negative allowed).          *)
Wait(elapsed) == Interval - elapsed

(* Mutant: the sleep ignores the time the requests took.                   *)
SleepForUncorrected(l, elapsed) == Interval

(* Mutant: the estimator, too, skips a sleep below the streamer's 0.1 s.   *)
SleepForThresholdBoth(l, elapsed) ==
    IF elapsed <= Interval /\ Wait(elapsed) >= StreamerMinSleep THEN Wait(elapsed) ELSE 0

(* The sleep loop l takes after a tick whose requests took elapsed.        *)
SleepFor(l, elapsed) ==
    IF elapsed <= Interval /\ Wait(elapsed) >= MinSleep(l) THEN Wait(elapsed) ELSE 0

(* One whole tick: the requests take d, the outcome is handed on, the loop *)
(* sleeps and the next tick starts.                                        *)
Tick(d, o) ==
    /\ ticks < MaxTicks
    /\ ticks' = ticks + 1
    /\ lastFetch' = d
    /\ lastInterval' = d + SleepFor(loop, d)
    /\ lastEvent' = IF o = "fee" THEN "fee" ELSE "error"
    /\ UNCHANGED loop

Next == \E d \in Durations, o \in Outcomes : Tick(d, o)

Spec == Init /\ [][Next]_vars

-----------------------------------------------------------------------------
(* Properties.                                                             *)

TimingMax(a, b) == IF a >= b THEN a ELSE b

(* The sleep is skew-corrected: a tick never starts later than the        *)
(* interval after the previous one, or right after it when the requests   *)
(* took longer; and, in either loop, less than 0.1 s before the interval. *)
SkewCorrected ==
    ticks > 0 =>
        /\ lastInterval <= TimingMax(Interval, lastFetch)
        /\ lastInterval + StreamerMinSleep > Interval

(* Spec 4.2 step 5, for the estimator: remaining = interval - elapsed,     *)
(* clamped to >= 0, is slept, so the next tick starts exactly              *)
(* max(interval, elapsed) after the previous one.  (The streamer, which    *)
(* skips a sleep below 0.1 s, starts up to 0.1 s early instead.)           *)
EstimatorPeriodAsSpecified ==
    loop = "estimator" /\ ticks > 0 => lastInterval = TimingMax(Interval, lastFetch)

=============================================================================
