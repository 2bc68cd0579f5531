\* Callers may free a piece again.
CONSTANTS
    requested = 30
    page_size = 20
    Overhead = 8
    ShortBits = 16
    Lengths = {0, 4, 20}
    First = first
    Dbufs = {d1, d2}
    MaxHeld = 3
    FreesTwice = TRUE
SPECIFICATION Spec
INVARIANT FreedAgainIsRefused
\* a destroyed pool takes no further step
CHECK_DEADLOCK FALSE
