CONSTANTS
    Thread = {t1, t2, t3}
    Patient = {t1, t2}
    routing = routing
    push = push
    pop = pop
    clear = clear
    top_xr = top_xr
    Op = {routing, push, pop, clear, top_xr}
    Share <- StackShare
    Concurrency <- StackConcurrency
    GlobalMutex = GlobalMutex
    None = None
    Contender = {t1, t2, t3}
    Persistent = {t1, t2}
    Group = {1, 2, 3}
    Caller = {t1, t2, t3}
    Waiter = {t1, t2}
    GroupId = {1, 2, 3}
    GroupSize = 4
    OwnerSize = 4
    ActiveSize = 4
    Block = {b1}
    Variable = {v1, v2}
    Detaching = {TRUE, FALSE}
    MaxSuspend = 2
    MaxResume = 3
    Empty = Empty
    Failed = Failed
    HeapItem = {1, 2, 3, 10, 11, 20}
    HeapKey <- KeyOfItem
    MaxHeap = 6
SPECIFICATION SystemSpec
INVARIANTS
    SystemTypeOK
    LaneOwnership
    MutualExclusion
    CountersExact
    OneGroup
    BlockOutlivesUsers
    HeapFiled
PROPERTIES
    RefinesAdmission
    EntryIsGranted
    GroupChangesWhenUnused
    RefinesFields
    WakesAreEnough
    PopsLeast
CHECK_DEADLOCK FALSE
