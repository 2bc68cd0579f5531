----------------------------- MODULE ThreadPool -----------------------------
(***************************************************************************)
(* The elastic thread pool of src/Cpp/unclassify/threadpool.c: workers,    *)
(* the administrator thread that grows and shrinks the pool, the threads   *)
(* that submit tasks and the thread that destroys the pool.                *)
(*                                                                         *)
(* A critical section of pool->lock is one step, enabled while nobody      *)
(* holds the lock across steps.  Only a worker on its way from the test    *)
(* of the loop condition into pthread_cond_wait does (state "deciding"):   *)
(* the destroyer writes shutdown and broadcasts without the lock, so these *)
(* steps fall between that test and the wait.                              *)
(***************************************************************************)
EXTENDS Integers, Sequences, FiniteSets

CONSTANTS
    min_thr_num,         \* fewest live workers
    max_thr_num,         \* number of slots of threads[]
    queue_max_size,      \* number of slots of task_queue[]
    MIN_WAIT_TASK_NUM,   \* backlog at which the administrator adds threads
    DEFAULT_THREAD_NUM,  \* threads added or retired at a time
    ExitedAnswers,       \* what is_thread_alive may say of an exited thread
    Producers,           \* threads that call threadpool_add_task
    MaxTasks             \* bound: how many tasks are ever accepted

ASSUME SizesAssumption ==
    /\ min_thr_num \in Nat
    /\ max_thr_num \in Nat \ {0}
    /\ min_thr_num <= max_thr_num
    /\ queue_max_size \in Nat \ {0}
    /\ MIN_WAIT_TASK_NUM \in Nat
    /\ DEFAULT_THREAD_NUM \in Nat \ {0}
    /\ MaxTasks \in Nat

ASSUME AnswersAssumption == ExitedAnswers \in (SUBSET BOOLEAN) \ {{}}

Threads == 0 .. max_thr_num - 1
Slots == 0 .. queue_max_size - 1
Tasks == 1 .. MaxTasks

NoArg == 0       \* a NULL arg
Garbage == -1    \* the arg of a slot malloc returned and nobody wrote

VARIABLES
    shutdown, live_thr_num, busy_thr_num, wait_exit_thr_num,
    queue_front, queue_rear, queue_size,
    task_queue,      \* the arg of each slot; the k-th accepted task has arg k
    worker,          \* state of the thread of each slot of threads[]
    task,            \* the arg a worker dequeued
    producer,        \* state of each submitting thread
    admin,           \* where the administrator is in its loop
    seen,            \* the queue_size, live and busy counts it copied
    signals,         \* pthread_cond_signal calls it still has to make
    destroyer,       \* where threadpool_destroy is
    di,              \* its loop index i
    freed,           \* the pool has been freed
    freedArgs,       \* every pointer threadpool_add_task passed to free()
    accepted,        \* history: number of tasks accepted so far
    taken            \* history: number of tasks dequeued so far

poolVars == <<live_thr_num, wait_exit_thr_num>>
queueVars == <<queue_front, queue_rear, queue_size, task_queue,
               freedArgs, accepted, taken>>
workerVars == <<worker, task, busy_thr_num>>
adminVars == <<admin, seen, signals>>
destroyVars == <<shutdown, destroyer, di, freed>>

vars == <<poolVars, queueVars, workerVars, producer, adminVars, destroyVars>>

(* The states of a worker.  "none" is a zero entry of threads[]; "reaped"  *)
(* and "quit" have left through the two pthread_exit calls.                *)
Exited == {"reaped", "quit"}
InTask == {"took", "run", "ran"}
WorkerStates ==
    {"none", "ready", "deciding", "waiting", "woken"} \cup InTask \cup Exited

Waiting == {w \in Threads : worker[w] = "waiting"}
Woken == {w \in Threads : worker[w] = "woken"}
Created == {w \in Threads : worker[w] # "none"}

LockFree == \A w \in Threads : worker[w] # "deciding"
-----------------------------------------------------------------------------
\* the slots whose threads threadpool_create starts
Started == 0 .. min_thr_num - 1

Init ==
    /\ shutdown = FALSE
    /\ live_thr_num = min_thr_num
    /\ busy_thr_num = 0
    /\ wait_exit_thr_num = 0
    /\ queue_front = 0
    /\ queue_rear = 0
    /\ queue_size = 0
    /\ task_queue \in [Slots -> {NoArg, Garbage}]
    /\ worker = [w \in Threads |-> IF w \in Started THEN "ready" ELSE "none"]
    /\ task = [w \in Threads |-> NoArg]
    /\ producer = [p \in Producers |-> "out"]
    /\ admin = "check"
    /\ seen = [size |-> 0, live |-> 0, busy |-> 0]
    /\ signals = 0
    /\ destroyer = "idle"
    /\ di = 0
    /\ freed = FALSE
    /\ freedArgs = {}
    /\ accepted = 0
    /\ taken = 0

(* pthread_cond_signal(&queue_not_empty): wakes one waiter if there is one. *)
MutSignalLost == UNCHANGED worker

SignalNotEmpty ==
    IF Waiting = {}
    THEN UNCHANGED worker
    ELSE \E w \in Waiting : worker' = [worker EXCEPT ![w] = "woken"]

(* pthread_cond_broadcast on each of the two condition variables.          *)
BroadcastNotEmpty ==
    worker' = [w \in Threads |->
                  IF worker[w] = "waiting" THEN "woken" ELSE worker[w]]

MutBroadcastAsSignal ==
    LET blocked == {p \in Producers : producer[p] = "waiting"}
    IN  IF blocked = {} THEN UNCHANGED producer
        ELSE \E p \in blocked : producer' = [producer EXCEPT ![p] = "woken"]

MutBroadcastLost == UNCHANGED producer

BroadcastNotFull ==
    producer' = [p \in Producers |->
                    IF producer[p] = "waiting" THEN "woken" ELSE producer[p]]
-----------------------------------------------------------------------------
(* threadpool_thread *)

(* What a worker w that holds the lock does at the head of the inner loop. *)
MutDequeueNoWrap(w) ==
    /\ queue_size > 0
    /\ ~shutdown
    /\ worker' = [worker EXCEPT ![w] = "took"]
    /\ task' = [task EXCEPT ![w] = task_queue[queue_front]]
    /\ queue_front' = queue_front + 1
    /\ queue_size' = queue_size - 1
    /\ taken' = taken + 1
    /\ BroadcastNotFull
    /\ UNCHANGED <<queue_rear, task_queue, freedArgs, accepted>>

MutDequeueSameFront(w) ==
    /\ queue_size > 0
    /\ ~shutdown
    /\ worker' = [worker EXCEPT ![w] = "took"]
    /\ task' = [task EXCEPT ![w] = task_queue[queue_front]]
    /\ queue_size' = queue_size - 1
    /\ taken' = taken + 1
    /\ BroadcastNotFull
    /\ UNCHANGED <<queue_front, queue_rear, task_queue, freedArgs, accepted>>

Dequeue(w) ==
    /\ queue_size > 0
    /\ ~shutdown
    /\ worker' = [worker EXCEPT ![w] = "took"]
    /\ task' = [task EXCEPT ![w] = task_queue[queue_front]]
    /\ queue_front' = (queue_front + 1) % queue_max_size
    /\ queue_size' = queue_size - 1
    /\ taken' = taken + 1
    /\ BroadcastNotFull
    /\ UNCHANGED <<queue_rear, task_queue, freedArgs, accepted>>

Quit(w) ==
    /\ shutdown
    /\ worker' = [worker EXCEPT ![w] = "quit"]
    /\ UNCHANGED <<queueVars, task, producer>>

Decide(w) ==
    /\ queue_size = 0
    /\ ~shutdown
    /\ worker' = [worker EXCEPT ![w] = "deciding"]
    /\ UNCHANGED <<queueVars, task, producer>>

TestQueue(w) == Dequeue(w) \/ Quit(w) \/ Decide(w)

(* A worker that starts, or comes back from a task, takes the lock.        *)
Enter(w) ==
    /\ ~freed
    /\ worker[w] = "ready"
    /\ LockFree
    /\ TestQueue(w)
    /\ UNCHANGED <<poolVars, busy_thr_num, adminVars, destroyVars>>

(* pthread_cond_wait releases the lock and joins the wait set at once.     *)
Wait(w) ==
    /\ ~freed
    /\ worker[w] = "deciding"
    /\ worker' = [worker EXCEPT ![w] = "waiting"]
    /\ UNCHANGED <<poolVars, queueVars, task, busy_thr_num, producer,
                   adminVars, destroyVars>>

(* pthread_cond_wait may return without a signal.                          *)
SpuriousWake(w) ==
    /\ ~freed
    /\ worker[w] = "waiting"
    /\ worker' = [worker EXCEPT ![w] = "woken"]
    /\ UNCHANGED <<poolVars, queueVars, task, busy_thr_num, producer,
                   adminVars, destroyVars>>

(* A woken worker has the lock again and is asked to retire.               *)
MutRetireAnyway == wait_exit_thr_num > 0

MustRetire == wait_exit_thr_num > 0 /\ live_thr_num > min_thr_num

MutRetireUncounted(w) ==
    /\ ~freed
    /\ worker[w] = "woken"
    /\ LockFree
    /\ MustRetire
    /\ wait_exit_thr_num' = wait_exit_thr_num - 1
    /\ worker' = [worker EXCEPT ![w] = "reaped"]
    /\ UNCHANGED <<live_thr_num, queueVars, task, busy_thr_num, producer,
                   adminVars, destroyVars>>

Retire(w) ==
    /\ ~freed
    /\ worker[w] = "woken"
    /\ LockFree
    /\ MustRetire
    /\ wait_exit_thr_num' = wait_exit_thr_num - 1
    /\ live_thr_num' = live_thr_num - 1
    /\ worker' = [worker EXCEPT ![w] = "reaped"]
    /\ UNCHANGED <<queueVars, task, busy_thr_num, producer, adminVars,
                   destroyVars>>

(* A woken worker goes on: the retirement request, if any, is used up.     *)
Resume(w) ==
    /\ ~freed
    /\ worker[w] = "woken"
    /\ LockFree
    /\ ~MustRetire
    /\ wait_exit_thr_num' =
          IF wait_exit_thr_num > 0 THEN wait_exit_thr_num - 1
                                   ELSE wait_exit_thr_num
    /\ TestQueue(w)
    /\ UNCHANGED <<live_thr_num, busy_thr_num, adminVars, destroyVars>>

(* busy_thr_num is changed under thread_counter, never across steps.       *)
StartTask(w) ==
    /\ ~freed
    /\ worker[w] = "took"
    /\ worker' = [worker EXCEPT ![w] = "run"]
    /\ busy_thr_num' = busy_thr_num + 1
    /\ UNCHANGED <<poolVars, queueVars, task, producer, adminVars, destroyVars>>

(* The task's function returns: its arg is not used any more.              *)
ReturnFromTask(w) ==
    /\ worker[w] = "run"
    /\ worker' = [worker EXCEPT ![w] = "ran"]
    /\ task' = [task EXCEPT ![w] = NoArg]
    /\ UNCHANGED <<poolVars, queueVars, busy_thr_num, producer, adminVars,
                   destroyVars>>

MutEndTaskStaysBusy(w) ==
    /\ ~freed
    /\ worker[w] = "ran"
    /\ worker' = [worker EXCEPT ![w] = "ready"]
    /\ UNCHANGED <<poolVars, queueVars, task, busy_thr_num, producer,
                   adminVars, destroyVars>>

EndTask(w) ==
    /\ ~freed
    /\ worker[w] = "ran"
    /\ worker' = [worker EXCEPT ![w] = "ready"]
    /\ busy_thr_num' = busy_thr_num - 1
    /\ UNCHANGED <<poolVars, queueVars, task, producer, adminVars, destroyVars>>

Worker(w) ==
    \/ Enter(w) \/ Wait(w) \/ Retire(w) \/ Resume(w)
    \/ StartTask(w) \/ ReturnFromTask(w) \/ EndTask(w)
-----------------------------------------------------------------------------
(* threadpool_add_task, from taking the lock, or taking it again after     *)
(* pthread_cond_wait, to releasing it.                                     *)

HoldsLock(p) ==
    /\ ~freed
    /\ producer[p] \in {"out", "woken"}
    /\ LockFree

Block(p) ==
    /\ HoldsLock(p)
    /\ queue_size = queue_max_size
    /\ ~shutdown
    /\ producer' = [producer EXCEPT ![p] = "waiting"]
    /\ UNCHANGED <<poolVars, queueVars, workerVars, adminVars, destroyVars>>

(* Return -1.  (A call that meets shutdown at once leaves no trace.)       *)
Refuse(p) ==
    /\ HoldsLock(p)
    /\ producer[p] = "woken"
    /\ shutdown
    /\ producer' = [producer EXCEPT ![p] = "out"]
    /\ UNCHANGED <<poolVars, queueVars, workerVars, adminVars, destroyVars>>

(* The arg the slot still holds from its previous use is freed.            *)
MutPutWhenFull(p) ==
    /\ HoldsLock(p)
    /\ ~shutdown
    /\ accepted < MaxTasks
    /\ freedArgs' = freedArgs \cup ({task_queue[queue_rear]} \ {NoArg})
    /\ task_queue' = [task_queue EXCEPT ![queue_rear] = accepted + 1]
    /\ accepted' = accepted + 1
    /\ queue_rear' = (queue_rear + 1) % queue_max_size
    /\ queue_size' = queue_size + 1
    /\ SignalNotEmpty
    /\ producer' = [producer EXCEPT ![p] = "out"]
    /\ UNCHANGED <<poolVars, queue_front, taken, task, busy_thr_num,
                   adminVars, destroyVars>>

Put(p) ==
    /\ HoldsLock(p)
    /\ queue_size # queue_max_size
    /\ ~shutdown
    /\ accepted < MaxTasks
    /\ freedArgs' = freedArgs \cup ({task_queue[queue_rear]} \ {NoArg})
    /\ task_queue' = [task_queue EXCEPT ![queue_rear] = accepted + 1]
    /\ accepted' = accepted + 1
    /\ queue_rear' = (queue_rear + 1) % queue_max_size
    /\ queue_size' = queue_size + 1
    /\ SignalNotEmpty
    /\ producer' = [producer EXCEPT ![p] = "out"]
    /\ UNCHANGED <<poolVars, queue_front, taken, task, busy_thr_num,
                   adminVars, destroyVars>>

SpuriousProducerWake(p) ==
    /\ ~freed
    /\ producer[p] = "waiting"
    /\ producer' = [producer EXCEPT ![p] = "woken"]
    /\ UNCHANGED <<poolVars, queueVars, workerVars, adminVars, destroyVars>>
-----------------------------------------------------------------------------
(* admin_thread *)

MutAdminNeverStops ==
    /\ admin = "check"
    /\ admin' = "read"
    /\ UNCHANGED <<poolVars, queueVars, workerVars, producer, seen, signals,
                   destroyVars>>

AdminCheck ==
    /\ admin = "check"
    /\ admin' = IF shutdown THEN "exited" ELSE "read"
    /\ UNCHANGED <<poolVars, queueVars, workerVars, producer, seen, signals,
                   destroyVars>>

AdminRead ==
    /\ admin = "read"
    /\ LockFree
    /\ seen' = [seen EXCEPT !.size = queue_size, !.live = live_thr_num]
    /\ admin' = "count"
    /\ UNCHANGED <<poolVars, queueVars, workerVars, producer, signals,
                   destroyVars>>

TooFew(s) == s.size >= MIN_WAIT_TASK_NUM /\ s.live <= max_thr_num
TooMany(s) == s.busy * 2 < s.live /\ s.live > min_thr_num

AdminCount ==
    /\ admin = "count"
    /\ seen' = [seen EXCEPT !.busy = busy_thr_num]
    /\ admin' = CASE TooFew(seen') -> "grow"
                  [] ~TooFew(seen') /\ TooMany(seen') -> "shrink"
                  [] OTHER -> "check"
    /\ UNCHANGED <<poolVars, queueVars, workerVars, producer, signals,
                   destroyVars>>

(* The first slots, in order, that are empty or whose thread looks dead    *)
(* get a new thread, until enough were added or the pool is full.          *)
(* is_thread_alive asks pthread_kill, whose answer for a thread that       *)
(* exited and was not joined depends on the C library.                     *)
Lower(a, b) == IF a < b THEN a ELSE b

Added(vacant, room) ==
    {w \in vacant : Cardinality({v \in vacant : v < w}) < room}

Grow ==
    /\ admin = "grow"
    /\ LockFree
    /\ \E alive \in [{w \in Threads : worker[w] \in Exited} -> ExitedAnswers] :
         LET vacant == (Threads \ Created) \cup
                       {w \in DOMAIN alive : ~alive[w]}
             room == Lower(DEFAULT_THREAD_NUM, max_thr_num - live_thr_num)
             new == Added(vacant, room)
         IN /\ worker' = [w \in Threads |->
                             IF w \in new THEN "ready" ELSE worker[w]]
            /\ live_thr_num' = live_thr_num + Cardinality(new)
    /\ admin' = IF TooMany(seen) THEN "shrink" ELSE "check"
    /\ UNCHANGED <<wait_exit_thr_num, queueVars, task, busy_thr_num, producer,
                   seen, signals, destroyVars>>

Shrink ==
    /\ admin = "shrink"
    /\ LockFree
    /\ wait_exit_thr_num' = DEFAULT_THREAD_NUM
    /\ signals' = DEFAULT_THREAD_NUM
    /\ admin' = "signal"
    /\ UNCHANGED <<live_thr_num, queueVars, workerVars, producer, seen,
                   destroyVars>>

(* The signals are sent without the lock.                                  *)
AdminSignal ==
    /\ admin = "signal"
    /\ SignalNotEmpty
    /\ signals' = signals - 1
    /\ admin' = IF signals = 1 THEN "check" ELSE "signal"
    /\ UNCHANGED <<poolVars, queueVars, task, busy_thr_num, producer, seen,
                   destroyVars>>

Admin ==
    AdminCheck \/ AdminRead \/ AdminCount \/ Grow \/ Shrink \/ AdminSignal
-----------------------------------------------------------------------------
(* threadpool_destroy, called at most once, and threadpool_free.           *)

Shutdown ==
    /\ destroyer = "idle"
    /\ shutdown' = TRUE
    /\ destroyer' = "joinAdmin"
    /\ UNCHANGED <<poolVars, queueVars, workerVars, producer, adminVars, di,
                   freed>>

JoinAdmin ==
    /\ destroyer = "joinAdmin"
    /\ admin = "exited"
    /\ destroyer' = "broadcast"
    /\ UNCHANGED <<poolVars, queueVars, workerVars, producer, adminVars,
                   shutdown, di, freed>>

(* Neither loop takes the lock; both read live_thr_num afresh each time.   *)
Broadcast ==
    /\ destroyer = "broadcast"
    /\ \/ /\ di < live_thr_num
          /\ BroadcastNotEmpty
          /\ di' = di + 1
          /\ UNCHANGED destroyer
       \/ /\ di >= live_thr_num
          /\ di' = 0
          /\ destroyer' = "join"
          /\ UNCHANGED worker
    /\ UNCHANGED <<poolVars, queueVars, task, busy_thr_num, producer,
                   adminVars, shutdown, freed>>

(* pthread_join of a zero thread id is undefined; it is not a step here.   *)
MutJoinOneShort ==
    /\ destroyer = "join"
    /\ \/ /\ di < live_thr_num - 1
          /\ worker[di] \in Exited
          /\ di' = di + 1
          /\ UNCHANGED destroyer
       \/ /\ di >= live_thr_num - 1
          /\ destroyer' = "free"
          /\ UNCHANGED di
    /\ UNCHANGED <<poolVars, queueVars, workerVars, producer, adminVars,
                   shutdown, freed>>

Join ==
    /\ destroyer = "join"
    /\ \/ /\ di < live_thr_num
          /\ worker[di] \in Exited
          /\ di' = di + 1
          /\ UNCHANGED destroyer
       \/ /\ di >= live_thr_num
          /\ destroyer' = "free"
          /\ UNCHANGED di
    /\ UNCHANGED <<poolVars, queueVars, workerVars, producer, adminVars,
                   shutdown, freed>>

(* threadpool_free takes the lock before it destroys it.                   *)
Free ==
    /\ destroyer = "free"
    /\ LockFree
    /\ freed' = TRUE
    /\ destroyer' = "done"
    /\ UNCHANGED <<poolVars, queueVars, workerVars, producer, adminVars,
                   shutdown, di>>

Destroy == Shutdown \/ JoinAdmin \/ Broadcast \/ Join \/ Free
-----------------------------------------------------------------------------
Next ==
    \/ \E w \in Threads : Worker(w) \/ SpuriousWake(w)
    \/ \E p \in Producers :
          Block(p) \/ Refuse(p) \/ Put(p) \/ SpuriousProducerWake(p)
    \/ Admin
    \/ Destroy

Spec == Init /\ [][Next]_vars

(* Each thread that keeps being runnable runs, and gets a lock it keeps    *)
(* asking for; a task's function returns.  Nobody is obliged to call       *)
(* threadpool_add_task or threadpool_destroy, nor a waiter to wake up      *)
(* without a signal.                                                       *)
Fairness ==
    /\ \A w \in Threads : SF_vars(Worker(w))
    /\ \A p \in Producers :
          SF_vars(producer[p] = "woken" /\ (Block(p) \/ Refuse(p) \/ Put(p)))
    /\ SF_vars(Admin)
    /\ SF_vars(JoinAdmin \/ Broadcast \/ Join \/ Free)

FairSpec == Spec /\ Fairness
-----------------------------------------------------------------------------
TypeOK ==
    /\ shutdown \in BOOLEAN
    /\ live_thr_num \in Nat
    /\ busy_thr_num \in Int
    /\ wait_exit_thr_num \in 0 .. DEFAULT_THREAD_NUM
    /\ queue_front \in Slots
    /\ queue_rear \in Slots
    /\ queue_size \in 0 .. queue_max_size
    /\ task_queue \in [Slots -> Tasks \cup {NoArg, Garbage}]
    /\ worker \in [Threads -> WorkerStates]
    /\ task \in [Threads -> Tasks \cup {NoArg, Garbage}]
    /\ producer \in [Producers -> {"out", "waiting", "woken"}]
    /\ admin \in {"check", "read", "count", "grow", "shrink", "signal", "exited"}
    /\ seen \in [size : Nat, live : Nat, busy : Int]
    /\ signals \in 0 .. DEFAULT_THREAD_NUM
    /\ destroyer \in {"idle", "joinAdmin", "broadcast", "join", "free", "done"}
    /\ di \in Nat
    /\ freed \in BOOLEAN
    /\ freedArgs \subseteq Tasks \cup {Garbage}
    /\ accepted \in 0 .. MaxTasks
    /\ taken \in 0 .. MaxTasks

(* The pool never shrinks below min_thr_num nor grows beyond max_thr_num,  *)
(* although the administrator decides from counts it read in an earlier    *)
(* critical section and workers retire on requests that may be stale       *)
(* (threadpool.c:225-242, 297-304).                                        *)
LiveBounds == live_thr_num \in min_thr_num .. max_thr_num

(* Until the shutdown live_thr_num is the number of threads that serve the *)
(* queue: those created and not retired (threadpool.c:35-38, 239, 304).    *)
LiveCount ==
    ~shutdown => live_thr_num =
        Cardinality({w \in Threads : worker[w] \notin {"none", "reaped"}})

(* busy_thr_num, kept under its own mutex, counts the workers inside a     *)
(* task whatever the other threads do (threadpool.c:334-344).              *)
BusyCount == busy_thr_num = Cardinality({w \in Threads : worker[w] \in {"run", "ran"}})

(* No submitter sleeps on queue_not_full while the queue has room: the     *)
(* worker that makes room wakes all of them (threadpool.c:327, 357-360).   *)
BlockedOnlyWhenFull ==
    (\E p \in Producers : producer[p] = "waiting") => queue_size = queue_max_size

(* The ring holds exactly the accepted tasks nobody took, oldest at        *)
(* queue_front, and none of their args has been freed although             *)
(* threadpool_add_task frees what it finds in a slot (threadpool.c:369).   *)
RingHoldsPending ==
    /\ queue_size = accepted - taken
    /\ \A i \in 0 .. queue_size - 1 :
          LET arg == task_queue[(queue_front + i) % queue_max_size]
          IN  arg = taken + 1 + i /\ arg \notin freedArgs

(* When the pool is freed, all its threads have left (threadpool.c:194).   *)
FreedWhenQuiet ==
    freed => /\ admin = "exited"
             /\ \A w \in Threads : worker[w] \in {"none"} \cup Exited

(* No worker sleeps on queue_not_empty while there are more queued tasks   *)
(* than workers already woken for them (threadpool.c:291-294, 381-382).    *)
NoLostWakeup ==
    ~shutdown /\ Waiting # {} => queue_size <= Cardinality(Woken)

(* The pool is a bounded first-in first-out queue that hands each accepted *)
(* task to one worker and nothing after the shutdown.                      *)
Fifo == INSTANCE TaskQueue WITH
    Capacity <- queue_max_size,
    pending <- [i \in 1 .. queue_size |->
                   task_queue[(queue_front + i - 1) % queue_max_size]],
    running <- {task[w] : w \in {x \in Threads : worker[x] \in {"took", "run"}}},
    sent <- accepted,
    closed <- shutdown

ImplementsQueue == Fifo!Spec

(* Every accepted task is taken by a worker, unless the pool is shut down  *)
(* (threadpool.c:290, 381).                                                *)
EveryTaskTaken ==
    \A k \in Tasks : accepted >= k ~> (taken >= k \/ shutdown)

(* A submitter asleep on a full queue is woken, unless the pool is shut    *)
(* down (threadpool.c:326-327, 356-360).                                   *)
BlockedIsWoken ==
    \A p \in Producers : producer[p] = "waiting" ~>
                             (producer[p] # "waiting" \/ shutdown)

(* threadpool_destroy gets past joining the administrator and telling the  *)
(* workers, wherever the administrator is in its loop (threadpool.c:186).  *)
DestroyReachesJoin == shutdown ~> destroyer \in {"join", "free", "done"}
-----------------------------------------------------------------------------
(* Statements of the source's comments that the code does not keep.        *)

(* "After adding a task the queue is not empty, wake one thread of the     *)
(* pool" (threadpool.c:381): the queue drains once nobody adds to it.      *)
LastTaskTaken ==
    accepted = MaxTasks ~> (taken = MaxTasks \/ shutdown)

(* "Tell every thread to kill itself" and "wait for the threads to end"    *)
(* (threadpool.c:188, 194): a started threadpool_destroy returns.          *)
DestroyReturns == shutdown ~> freed

(* The arg that threadpool_add_task frees is the one of a callback that    *)
(* has been run (threadpool.c:368), not of a task a worker is running.     *)
RunningArgsNotFreed ==
    \A w \in Threads : worker[w] \in {"took", "run"} => task[w] \notin freedArgs
=============================================================================
