SPECIFICATION FairSpec
CONSTANTS
    c1 = c1
    c2 = c2
    i1 = i1
    i2 = i2
    Conn = {c1, c2}
    Instance = {i1, i2}
    NoInst = NoInst
CONSTRAINT InOrder
CHECK_DEADLOCK FALSE
INVARIANTS
    TypeOK
    OneOwner
    NothingRelayedAfterClose
    ActiveIsExact
PROPERTIES
    CutOnlyInsideSweepWindow
    CloseDrains
    IdleInstanceStops
