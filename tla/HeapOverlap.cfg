\* Sizes just above a multiple of 8 are listed one cell too far.
CONSTANTS
    MAX_BYTES = 24
    RefillObjs = 2
    Requests = {8, 12}
    MaxHeld = 3
    HeapCells = 40
    MallocMayFail = FALSE
SPECIFICATION Spec
INVARIANT BlocksNeverOverlap
CHECK_DEADLOCK FALSE
