SPECIFICATION Spec
CONSTANTS
    None = None
    f1 = f1
    f2 = f2
    Req = {r1, r2, r3, r4}
    FullCfg <- MCFullCfg
    Config <- MCConfig
SYMMETRY Symmetry
CONSTRAINT PanicsCountTwice
CHECK_DEADLOCK FALSE
INVARIANTS
    TypeOK
    SlotsLive
    UpIsWhole
    DownIsClean
PROPERTY SessionSpec
