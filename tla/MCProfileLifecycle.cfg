SPECIFICATION FairSpec
CONSTANTS
    NoProfile = NoProfile
    Profile = {p1, p2}
    MaxClicks = 3
    MaxCrashes = 2
    MaxLost = 1
CHECK_DEADLOCK FALSE
INVARIANTS
    TypeOK
    LocksHeld
    PoliteCalls
    DisconnectedIsDown
PROPERTY TransitionsEnd
