\* A pool that grows and shrinks and two submitters that can both block.
\* pthread_kill may or may not find an exited thread that was not joined.
CONSTANTS
    min_thr_num = 1
    max_thr_num = 2
    queue_max_size = 2
    MIN_WAIT_TASK_NUM = 1
    DEFAULT_THREAD_NUM = 2
    ExitedAnswers <- MayLookDead
    Producers = {p1, p2}
    MaxTasks = 3
SYMMETRY Symmetry
SPECIFICATION Spec
INVARIANTS TypeOK LiveBounds LiveCount BusyCount BlockedOnlyWhenFull RingHoldsPending
PROPERTY ImplementsQueue
\* a destroyed pool takes no further step
CHECK_DEADLOCK FALSE
