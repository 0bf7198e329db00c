SPECIFICATION FairSpec
CONSTANTS
    Null = Null
    Node = {n1, n2, n3}
    Width = 1
    Thread = {t1}
    Local = {l1, l2}
    MaxAssign = 1
INVARIANTS TypeOK OwnersCover Exact
PROPERTY SearchEnds
CHECK_DEADLOCK FALSE
