SPECIFICATION StatsSpec
CONSTANTS
    Connection = {k1, k2}
    MaxBytes = 2
    RingSize = 1
    MaxFail = 0
CHECK_DEADLOCK FALSE
INVARIANT CreditedOnce
