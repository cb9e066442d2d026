SPECIFICATION MonitorFairSpec
CONSTANTS
    Grace = 2
    BackoffMin = 3
    BackoffMax = 6
CHECK_DEADLOCK FALSE
PROPERTY RebuildsAreSpaced
