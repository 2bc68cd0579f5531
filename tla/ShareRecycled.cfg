\* A region of six words, which requests of different classes exhaust.
CONSTANTS
    memsize = 40
    SHARE_MAX_BYTES = 24
    RefillObjs = 3
    Requests = {4, 12, 20}
    MaxHeld = 6
SPECIFICATION Spec
PROPERTY ImplementsAllocator
CHECK_DEADLOCK FALSE
