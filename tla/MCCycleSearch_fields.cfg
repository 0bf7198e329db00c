SPECIFICATION Spec
CONSTANTS
    Null = Null
    Node = {n1, n2}
    Width = 2
    Thread = {t1}
    Local = {l1, l2}
    MaxAssign = 0
INVARIANT KeptWhileHeld
CHECK_DEADLOCK FALSE
