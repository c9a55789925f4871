CONSTANTS
    Timeouts = {0, 1, 3}
    MaxDevices = 2
SPECIFICATION Spec
INVARIANTS
    CallbacksMatchOutcome
    ScansWithinTimeout
CHECK_DEADLOCK FALSE
