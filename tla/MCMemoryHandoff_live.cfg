CONSTANTS
    Thread = {a, b}
    Mem = Mem
    Object = {o1, o2, o3}
    Token = {k1, k2}
    Back = Back
    MaxSkipTimes = 2
    Null = Null
SPECIFICATION FairSpec
CHECK_DEADLOCK FALSE
PROPERTIES
    EverybodyLeaves
    OrphansAreFreed
