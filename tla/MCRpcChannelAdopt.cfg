SPECIFICATION Spec
CONSTANTS
    Call = {c1, c2}
    NoCall = NoCall
    MaxLink = 2
SYMMETRY Symmetry
CHECK_DEADLOCK FALSE
INVARIANT AdoptedIsConnected
