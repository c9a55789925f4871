CONSTANTS
    Interval = 300
    StreamerMinSleep = 2
    Durations <- MCDurations
    MaxTicks = 3
SPECIFICATION Spec
INVARIANTS
    SkewCorrected
    EstimatorPeriodAsSpecified
CHECK_DEADLOCK FALSE
