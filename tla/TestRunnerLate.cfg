SPECIFICATION TestsSpec
CONSTANTS
    Sweep = {s1, s2}
    MaxBatch = 1
    Boxed = "boxed"
    Alone = "alone"
    MaxStop = 0
    MaxTick = 1
    NoOne = "no one"
CHECK_DEADLOCK FALSE
INVARIANT LateTickLeavesNextSweep
