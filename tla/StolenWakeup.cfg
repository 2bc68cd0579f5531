\* A woken worker retires although a task is queued.
CONSTANTS
    min_thr_num = 1
    max_thr_num = 2
    queue_max_size = 2
    MIN_WAIT_TASK_NUM = 2
    DEFAULT_THREAD_NUM = 2
    ExitedAnswers <- AlwaysAlive
    Producers = {p1}
    MaxTasks = 3
SPECIFICATION FairSpec
PROPERTY LastTaskTaken
CHECK_DEADLOCK FALSE
