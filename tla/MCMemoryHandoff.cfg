CONSTANTS
    Thread = {a, b, c}
    Mem = Mem
    Object = {o1, o2, o3, o4}
    Token = {k1, k2}
    Back = Back
    MaxSkipTimes = 2
    Null = Null
SPECIFICATION Spec
SYMMETRY Interchangeable
CHECK_DEADLOCK FALSE
INVARIANTS
    TypeOK
    HandoffSafe
    AllAccounted
