CONSTANTS
    Thread = {a, b}
    Mem = Mem
    Object = {o1, o2, o3}
    Token = {k1, k2}
    Back = Back
    MaxSkipTimes = 1
    Null = Null
SPECIFICATION Spec
CHECK_DEADLOCK FALSE
INVARIANTS
    TokenKeptInUse
