CONSTANTS
    Parts = {"list", "heap", "rtos", "hash", "btree", "array", "bits", "handles", "hub"}
    User = {u1, u2, u3}
    Item = {1, 2}
    Null = Null
    Shape <- SafeShapes
    Page = {p1, p2}
    BlocksPerPage = 5
    Boundary = 2
    Region = {r1, r2}
    RegionBlocks = 6
    SlotCount = 3
    Request = {1, 2, 3, 5, 6}
    Key = {1, 2, 3, 4}
    Value = {v1, v2}
    Nothing = Nothing
    HashOf <- KeyHashes
    Multi = 2
    StartCapacity = 2
    MaxLines = 8
    Arity = 4
    GroupLengths = {1, 2}
    Groups = 2
    Nil = Nil
    MaxItems = 6
    Initial = {1, 2, 4}
    MaxLength = 34
    Missing = Missing
    BitWidth = 2
    TotalBits = {1, 2, 3, 5}
    Mutator = {m1, m2}
    Shared = {s1}
    Node = {n1, n2}
    NullRef = NullRef
    MaxPushed = 1
    CopyShared = FALSE
    FolderName <- HubFolder
    FileName <- HubFile
    NameHash <- HubHashes
    MaxFiles = 5
    MaxDepth = 2
SPECIFICATION ContainersSpec
INVARIANTS
    ContainersTypeOK
    HeapSound
    RtosPagesSound
    ReadersSafe
    ContentsExact
    HoldersCounted
PROPERTIES
    RefinesPromise
    HashIsMap
CHECK_DEADLOCK FALSE
