SPECIFICATION Spec
CONSTANTS
    Conn = {c1, c2}
    Instance = {i1, i2}
    c1 = c1
    c2 = c2
    i1 = i1
    i2 = i2
    NoInst = NoInst
CONSTRAINT InOrder
PROPERTY LiveConnectionKeepsInstance
CHECK_DEADLOCK FALSE
