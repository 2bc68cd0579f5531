\* A pool of fixed size with one submitter, under fairness; no symmetry, which
\* liveness does not allow.
CONSTANTS
    min_thr_num = 2
    max_thr_num = 2
    queue_max_size = 1
    MIN_WAIT_TASK_NUM = 1
    DEFAULT_THREAD_NUM = 1
    ExitedAnswers <- AlwaysAlive
    Producers = {p1}
    MaxTasks = 2
SPECIFICATION FairSpec
INVARIANTS NoLostWakeup FreedWhenQuiet
PROPERTIES EveryTaskTaken BlockedIsWoken DestroyReachesJoin
CHECK_DEADLOCK FALSE
