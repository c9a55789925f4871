----------------------- MODULE FeeTickTimingProofs -----------------------
(***************************************************************************)
(* Proofs about FeeTickTiming for every interval, threshold and set of     *)
(* request durations.                                                      *)
(***************************************************************************)
EXTENDS FeeTickTiming, TLAPS

(* What the sleep computed after a tick adds up to, for either loop: the   *)
(* next tick starts at most max(interval, elapsed) after the last one and  *)
(* less than the streamer's threshold before the interval, and exactly     *)
(* max(interval, elapsed) after it in the estimator, whose threshold is 0. *)
LEMMA SleepForBounds ==
    ASSUME NEW l \in Loops, NEW d \in Nat
    PROVE  /\ SleepFor(l, d) \in Nat
           /\ d + SleepFor(l, d) <= TimingMax(Interval, d)
           /\ d + SleepFor(l, d) + StreamerMinSleep > Interval
           /\ l = "estimator" => d + SleepFor(l, d) = TimingMax(Interval, d)
<1>1. MinSleep(l) \in 0..StreamerMinSleep
  BY TimingAssumption DEF MinSleep, Loops
<1> QED
  BY <1>1, TimingAssumption DEF SleepFor, Wait, TimingMax, MinSleep

(* The inductive invariant: once a tick was made, the last period is the   *)
(* request time of that tick plus the sleep the loop computed from it.     *)
TimingInv ==
    /\ TypeOK
    /\ ticks > 0 => /\ lastFetch \in Durations
                    /\ lastInterval = lastFetch + SleepFor(loop, lastFetch)

(* The tick invariant holds before the first tick of either loop.       *)
LEMMA TimingInit == Init => TimingInv
BY TimingAssumption DEF Init, TimingInv, TypeOK

(* One whole tick of either loop preserves the tick invariant.          *)
LEMMA TimingStep == TimingInv /\ [Next]_vars => TimingInv'
<1> SUFFICES ASSUME TimingInv, [Next]_vars PROVE TimingInv'
  OBVIOUS
<1>1. ASSUME NEW d \in Durations, NEW o \in Outcomes, Tick(d, o) PROVE TimingInv'
  <2>1. d \in Nat /\ loop \in Loops
    BY TimingAssumption DEF TimingInv, TypeOK
  <2>2. SleepFor(loop, d) \in Nat
    BY <2>1, SleepForBounds
  <2> QED
    BY <1>1, <2>1, <2>2, TimingAssumption DEF Tick, TimingInv, TypeOK
<1>2. CASE UNCHANGED vars
  BY <1>2 DEF TimingInv, TypeOK, vars
<1> QED
  BY <1>1, <1>2 DEF Next

(* The tick invariant gives both timing properties of the sleep.      *)
LEMMA TimingInvImplies == TimingInv => SkewCorrected /\ EstimatorPeriodAsSpecified
<1> SUFFICES ASSUME TimingInv, ticks > 0
             PROVE  SkewCorrected /\ EstimatorPeriodAsSpecified
  BY DEF SkewCorrected, EstimatorPeriodAsSpecified
<1>1. lastFetch \in Nat /\ loop \in Loops
  BY TimingAssumption DEF TimingInv, TypeOK
<1> QED
  BY <1>1, SleepForBounds DEF TimingInv, SkewCorrected, EstimatorPeriodAsSpecified

(* EthFeeEventStreamer::handle and fee_estimator_loop correct their sleep  *)
(* for the time the requests took: whatever the interval, the threshold    *)
(* and the request times, the period never exceeds max(interval, request   *)
(* time), never falls the streamer's 0.1 s short of the interval, and is   *)
(* exactly max(interval, request time) in the estimator.                   *)
THEOREM TimingCorrect == Spec => [](SkewCorrected /\ EstimatorPeriodAsSpecified)
<1>1. Init => TimingInv
  BY TimingInit
<1>2. TimingInv /\ [Next]_vars => TimingInv'
  BY TimingStep
<1>3. TimingInv => SkewCorrected /\ EstimatorPeriodAsSpecified
  BY TimingInvImplies
<1> QED
  BY <1>1, <1>2, <1>3, PTL DEF Spec

(* fee_estimator_loop sleeps for interval - elapsed clamped to 0, so the   *)
(* next tick starts exactly max(interval, request time) after the last    *)
(* one (spec 4.2 step 5), for every interval and request durations.       *)
THEOREM EstimatorPeriod == Spec => []EstimatorPeriodAsSpecified
<1>1. TimingInv => EstimatorPeriodAsSpecified
  BY TimingInvImplies
<1> QED
  BY TimingInit, TimingStep, <1>1, PTL DEF Spec
=============================================================================
