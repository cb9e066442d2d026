SPECIFICATION Spec
CONSTANTS
    None = None
    f1 = f1
    f2 = f2
    Req = {r1, r2, r3}
    FullCfg <- MCFullCfg
    Config <- MCConfig
SYMMETRY Symmetry
CHECK_DEADLOCK FALSE
INVARIANT TestsStayOffTheTun
