CONSTANTS
    Mutator = {m1, m2}
    Shared = {s1}
    Node = {n1}
    NullRef = NullRef
    MaxPushed = 1
    CopyShared = TRUE
SPECIFICATION HandlesSpec
CHECK_DEADLOCK FALSE
INVARIANT CountsLiving
