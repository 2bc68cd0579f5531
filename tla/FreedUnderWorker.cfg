\* Retired slots make threadpool_destroy skip a live worker.
CONSTANTS
    min_thr_num = 1
    max_thr_num = 2
    queue_max_size = 1
    MIN_WAIT_TASK_NUM = 1
    DEFAULT_THREAD_NUM = 1
    ExitedAnswers <- AlwaysAlive
    Producers = {p1}
    MaxTasks = 2
SPECIFICATION Spec
INVARIANT FreedWhenQuiet
CHECK_DEADLOCK FALSE
