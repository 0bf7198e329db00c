SPECIFICATION FairSpec
CONSTANTS
    p = p  q = q  x = x  y = y
    Null = Null
    Thread = {p, q}
    Object = {x, y}
    Member <- OneChild
    Depth = 2
    FreeDepth = 2
    MaxPush = 3
PROPERTY MemoryGivenBack
CHECK_DEADLOCK FALSE
