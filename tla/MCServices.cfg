SPECIFICATION ServicesSpec
CONSTANTS
    c1 = c1
    c2 = c2
    s1 = s1
    s2 = s2
    i1 = i1
    i2 = i2
    i3 = i3
    f1 = f1
    f2 = f2
    Call = {c1, c2}
    NoCall = NoCall
    MaxLink = 2
    Sweep = {s1, s2}
    MaxBatch = 2
    Boxed = "boxed"
    Alone = "alone"
    MaxStop = 1
    MaxTick = 1
    NoOne = "no one"
    Grace = 2
    BackoffMin = 3
    BackoffMax = 6
    Connection = {c1, c2}
    MaxBytes = 2
    RingSize = 1
    MaxFail = 1
    Outbound <- Outbounds
    Selector <- SelectorOutbound
    MaxRemote = 2
    MaxUpdate = 2
    MaxUser = 1
    NoId = 0
    Iface = {i1, i2, i3}
    Automatic = {i1}
    SixFirst = {i1}
    NoIface = "none"
    MaxEvent = 4
    Endpoint = {c1, c2}
    MaxChange <- Changes
    Tree <- TwoFiles
    MaxAttempt = 2
    MaxRun = 2
    Sing = {"s1", "s2", "s3", "vpn1", "vpn2"}
    Xray = {"x1", "x2"}
    Extra = {"extra"}
    FullXray = {"full"}
    Warp = "warp"
    NoHop = "none"
    Wanted <- Requests
CONSTRAINT InOrder
CHECK_DEADLOCK FALSE
INVARIANTS
    ServicesTypeOK
    AnswerIsOwn
    FramesInStep
    PendingIsWaiting
    WritesFollowTheSwap
    NothingLeftBehind
    
    NothingMissed
    CreditedOnceIfWhole
    NothingOrphaned
    RemoteIsMirrored
    DisturbedIsTold
    SameRemoteChangesNothing
    OverrideIsReversible
    NoLostWakeup
    NothingHalfDone
    NoTornFile
    ChainsAreCarried
PROPERTIES
    StoppedSweepEnds
    FinishFires
    RebuildsPaced
    DeadPoolIsGivenUp
    SettledIsAnswered
