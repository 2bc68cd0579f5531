CONSTANTS
    Bytes = {"x", "y"}
    Capacity = 52
    MaxLen = 3
    Responses <- SomeResponses
    SizeOf <- SomeSizes
    NodeCapacity = 5
    NodeMaxLen = 3
    IniSections = {"a", "b"}
    IniKeys = {"k1", "k2", "v2"}
    IniVals = {"v1", "v2", ""}
    PlusTexts <- PlusFiles
    PlusRecords = 6
    PlusCalls = 4
    IniTexts <- IniFiles
    IniItems = 10
    IniCalls = 4
    CfgSections = {"a", "b"}
    CfgKeys = {"k1", "k2", "k3"}
    CfgTexts <- CfgFiles
    CfgCalls = 6
    Conns = {c1, c2, c3, c4}
    ServerSize = 6
    ServerListen = 3
    TreeRoot = "r"
    TreeParent <- Tree
    TreeDirs = {"d", "e"}
    TreeTooLong <- LongPaths
    TreeOthers = 2
    UuidBufs <- SomeBufs
    UuidNum = 2
    PackLengths = {1, 4}
    PackBodies = {0, 1, 9, 10, 99, 100}
SPECIFICATION AllSpec
INVARIANTS
    HttpPiecesAsSent HttpEndIsComplete NodeBytesInOrder
    PlusNoDangling PlusLookupsAnswer PlusTextKept
    IniTextIsDictionary CfgAnswersAreFirstRead
    SelectTableIsConnections RemoveRestIsExplained UuidOtherBitsRandom
    PackerFillsItsBlocks
SYMMETRY Symmetry
\* calls are bounded, programs crash or return, and peers have all left
CHECK_DEADLOCK FALSE
