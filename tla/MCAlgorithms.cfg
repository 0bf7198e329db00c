CONSTANTS
    Parts = {"json", "text", "number", "codes", "tty", "sort", "view", "date", "file", "ops",
             "calls", "logic", "registers", "setup", "ph", "digest"}
    MaxTokens = 9
    JsonDepth = 6
    Char = {1, 2, 3}
    Needle <- SomeNeedles
    MaxText = 4
    BitsOfNumber = 6
    Bases = {2, 8, 10, 16}
    Mantissa <- SomeDigits
    MaxExponent = 3
    Precise = {0, 1, 2, 4}
    MaxTyped = 4
    Byte = {37, 65, 128, 255}
    Unit16 = {65, 128, 233, 2048, 65535}
    Unit32 = {127, 65536, 1114112, 67108863, 2147483647}
    Typed64 = {1, 63, 64, 65}
    TypedUri = {37, 48, 65, 103}
    MaxGiven = 4
    Typed <- SomeKeys
    MaxWaiting = 2
    Lengths = {0, 1, 2, 3, 4, 5, 7, 8, 9, 15, 16, 17}
    InitialLength = 4
    Base = 4
    Digits = 2
    Item = {0, 1, 3, 8, 9, 12}
    MaxList = 4
    Cells = 5
    GivenItems <- SomeValues
    Given <- SomeDays
    Steps <- SomeSteps
    Clocks <- SomeClocks
    System = {"linux", "windows"}
    Handle = {h1, h2}
    Path <- SomePaths
    Datum = {1}
    MaxContent = 1
    Descriptors = {1, 2}
    Contents = 2
    NoFile = NoFile
    Width = 8
    Nibble = 2
    Field = {0, 1, 3}
    Operand = {1, 128, 255}
    Offset = {1, 9}
    Opcode = {0, 1, 12, 15, 28, 31, 60, 61, 88, 110, 111, 114, 115, 126, 127, 159, 160, 192, 195, 196, 199, 203, 204, 240, 255}
    Holders <- SomeHolders
    Fmt <- SomeFmts
    Wide = {6, 11}
    PhTurns = 3
    WordBytes = 1
    Chunk = {1, 7, 16, 33}
    MaxMessage = 35
    Register = {"a"}
    Content = {1, 2}
    Junk = 0
    Area = {0, 1}
    Position = {1, 2}
    Calls <- SomeCalls
    PerGroup = 1
    Disciplined = TRUE
    MaxCalls = 3
    MaxSpilled = 1
    Nets <- SomeNets
    Again <- UsedAgain
    Pins = {15}
    MaxAccesses = 2
    Hse = 8
SPECIFICATION AlgorithmsSpec
INVARIANTS
    AlgorithmsTypeOK
    
    DatesExact
    Settled
PROPERTY MachinesInOrder
CHECK_DEADLOCK FALSE
