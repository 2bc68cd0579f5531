\* The shutdown broadcast comes before a worker starts to wait.
CONSTANTS
    min_thr_num = 1
    max_thr_num = 1
    queue_max_size = 1
    MIN_WAIT_TASK_NUM = 1
    DEFAULT_THREAD_NUM = 1
    ExitedAnswers <- AlwaysAlive
    Producers = {p1}
    MaxTasks = 1
SPECIFICATION FairSpec
PROPERTY DestroyReturns
CHECK_DEADLOCK FALSE
