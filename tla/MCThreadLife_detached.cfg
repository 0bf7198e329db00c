CONSTANTS
    Block = {b1}
    Variable = {v1}
    Detaching = {TRUE, FALSE}
    MaxSuspend = 1
    MaxResume = 1
    Empty = Empty
    Failed = Failed
SPECIFICATION ThreadSpec
INVARIANT NoAccessAfterRelease
CHECK_DEADLOCK FALSE
