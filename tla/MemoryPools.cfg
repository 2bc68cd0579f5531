\* SharePool: chunks of one to three words in a region of seven.
CONSTANTS
    memsize = 48
    SHARE_MAX_BYTES = 24
    RefillObjs = 3
    Requests <- ListedRequests
    MaxHeld = 5
    HeapMaxBytes = 24
    HeapRefillObjs = 2
    HeapRequests <- InsideSizes
    HeapMaxHeld = 2
    HeapCells = 46
    MallocMayFail = TRUE
    DbufRequested = 30
    PageSize = 20
    Overhead = 8
    ShortBits = 16
    DbufLengths <- MixedLengths
    First = first
    Dbufs = {d1, d2, d3}
    DbufMaxHeld = 3
SYMMETRY Symmetry
SPECIFICATION MemSpec
INVARIANTS PoolsTyped NothingLostOrShared HeapApart PiecesInPool PiecesCounted BlocksAllFreed
PROPERTIES ServesUntilRecycled HeapAllocates PiecesApart
\* crashed, destroyed and damaged pools may stop
CHECK_DEADLOCK FALSE
