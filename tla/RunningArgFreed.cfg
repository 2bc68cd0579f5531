\* One slot is reused while the task it held is running.
CONSTANTS
    min_thr_num = 1
    max_thr_num = 1
    queue_max_size = 1
    MIN_WAIT_TASK_NUM = 1
    DEFAULT_THREAD_NUM = 1
    ExitedAnswers <- AlwaysAlive
    Producers = {p1}
    MaxTasks = 2
SPECIFICATION Spec
INVARIANT RunningArgsNotFreed
CHECK_DEADLOCK FALSE
