------------------------- MODULE MC_FeeTickTiming -------------------------
(* FeeTickTiming for TLC, in units of 0.05 s: both loops' interval is 15 s *)
(* (300 units); the request durations cover an instant answer and every   *)
(* duration from 0.5 s below the interval to 0.25 s above it, where the   *)
(* 0.1 s threshold and the clamp decide.                                   *)
EXTENDS FeeTickTiming, TLC

MCDurations == {0} \cup 290..305
=============================================================================
