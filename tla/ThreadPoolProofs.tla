-------------------------- MODULE ThreadPoolProofs --------------------------
(***************************************************************************)
(* Safety of ThreadPool for every size of the pool and of its queue; that  *)
(* its ring holds the pending tasks, and that it implements TaskQueue.     *)
(***************************************************************************)
EXTENDS ThreadPool, FiniteSetTheorems, TLAPS

(* There are finitely many threads.                                        *)
LEMMA ThreadsFinite == IsFiniteSet(Threads)
BY FS_Interval, SizesAssumption DEF Threads

(* The administrator never creates more threads than it has room for:      *)
(* counting the vacant slots before each slot it fills tells these slots   *)
(* apart, and the counts are below room.                                   *)
LEMMA AddedBounded ==
    ASSUME NEW vacant \in SUBSET Threads, NEW room \in Nat
    PROVE  /\ Added(vacant, room) \subseteq vacant
           /\ IsFiniteSet(Added(vacant, room))
           /\ Cardinality(Added(vacant, room)) \in 0 .. room
<1> DEFINE new == Added(vacant, room)
           before(w) == {v \in vacant : v < w}
           rank == [w \in new |-> Cardinality(before(w))]
<1>1. vacant \subseteq Int /\ IsFiniteSet(vacant)
  <2>1. vacant \subseteq Int
    BY SizesAssumption DEF Threads
  <2> QED BY <2>1, ThreadsFinite, FS_Subset
<1>2. new \subseteq vacant /\ IsFiniteSet(new) /\ Cardinality(new) \in Nat
  <2>1. new \subseteq vacant
    BY DEF Added
  <2> QED BY <2>1, <1>1, FS_Subset, FS_CardinalityType
<1>3. ASSUME NEW w \in vacant
      PROVE  IsFiniteSet(before(w)) /\ Cardinality(before(w)) \in Nat
  <2>1. before(w) \subseteq vacant
    OBVIOUS
  <2> QED BY <2>1, <1>1, FS_Subset, FS_CardinalityType
<1>4. rank \in [new -> 0 .. room - 1]
  <2>1. ASSUME NEW w \in new PROVE Cardinality(before(w)) \in 0 .. room - 1
    <3>1. Cardinality(before(w)) < room
      BY DEF Added
    <3> QED BY <3>1, <1>2, <1>3
  <2> QED BY <2>1
<1>5. ASSUME NEW v \in vacant, NEW w \in vacant, v < w
      PROVE  Cardinality(before(v)) < Cardinality(before(w))
  <2>1. before(v) \cup {v} \subseteq before(w)
    <3>1. \A x \in vacant : x < v => x < w
      BY <1>1, <1>5
    <3> QED BY <3>1, <1>5
  <2>2. Cardinality(before(v) \cup {v}) = Cardinality(before(v)) + 1
    <3>1. v \notin before(v)
      BY <1>1
    <3> QED BY <3>1, <1>3, FS_AddElement
  <2>3. Cardinality(before(v) \cup {v}) <= Cardinality(before(w))
    BY <2>1, <1>3, FS_Subset
  <2> QED BY <2>2, <2>3, <1>3
<1>6. \A v, w \in new : v # w => rank[v] # rank[w]
  <2> SUFFICES ASSUME NEW v \in new, NEW w \in new, v # w
               PROVE  rank[v] # rank[w]
    OBVIOUS
  <2>1. v \in vacant /\ w \in vacant
    BY <1>2
  <2>2. v < w \/ w < v
    BY <2>1, <1>1
  <2>3. Cardinality(before(v)) # Cardinality(before(w))
    BY <2>1, <2>2, <1>3, <1>5
  <2> QED BY <2>3
<1>7. IsFiniteSet(0 .. room - 1) /\ Cardinality(0 .. room - 1) = room
  BY FS_Interval
<1>8. ~(Cardinality(0 .. room - 1) < Cardinality(new))
  <2> HIDE DEF new, rank
  <2> QED BY <1>2, <1>4, <1>6, <1>7, FS_PigeonHole
<1> QED BY <1>2, <1>7, <1>8
-----------------------------------------------------------------------------
(* The typing part of the invariant is inductive with the bounds of        *)
(* live_thr_num, the balance of the queue's counters and the administrator *)
(* having signals left while it is signalling.                             *)
Counted == queue_size = accepted - taken
SignalsLeft == admin = "signal" => signals > 0

Typing == TypeOK /\ LiveBounds /\ Counted /\ SignalsLeft

(* The slot after a slot is a slot.                                        *)
LEMMA WrapTypes ==
    ASSUME NEW i \in Slots PROVE (i + 1) % queue_max_size \in Slots
BY SizesAssumption DEF Slots

(* A signal changes nothing but one waiter, which it wakes.                *)
LEMMA SignalTypes ==
    ASSUME worker \in [Threads -> WorkerStates], SignalNotEmpty
    PROVE  worker' \in [Threads -> WorkerStates]
BY DEF SignalNotEmpty, WorkerStates, Waiting

(* What the test of the queue leaves is of its type.                       *)
LEMMA TestQueueTypes ==
    ASSUME Typing, NEW w \in Threads, TestQueue(w)
    PROVE  /\ worker' \in [Threads -> WorkerStates]
           /\ task' \in [Threads -> Tasks \cup {NoArg, Garbage}]
           /\ producer' \in [Producers -> {"out", "waiting", "woken"}]
           /\ queue_front' \in Slots
           /\ queue_rear' = queue_rear
           /\ queue_size' \in 0 .. queue_max_size
           /\ task_queue' = task_queue
           /\ freedArgs' = freedArgs
           /\ accepted' = accepted
           /\ taken' \in 0 .. MaxTasks
           /\ Counted'
<1> USE DEF Typing, TypeOK, Counted
<1>1. CASE Dequeue(w)
  <2>1. task' \in [Threads -> Tasks \cup {NoArg, Garbage}]
    BY <1>1 DEF Dequeue
  <2>2. queue_front' \in Slots
    BY <1>1, WrapTypes DEF Dequeue
  <2>3. worker' \in [Threads -> WorkerStates]
    BY <1>1 DEF Dequeue, WorkerStates, InTask
  <2>4. producer' \in [Producers -> {"out", "waiting", "woken"}]
    BY <1>1 DEF Dequeue, BroadcastNotFull
  <2>5. /\ queue_size' \in 0 .. queue_max_size
        /\ taken' \in 0 .. MaxTasks
        /\ queue_size' = accepted' - taken'
    BY <1>1, SizesAssumption DEF Dequeue
  <2> QED BY <1>1, <2>1, <2>2, <2>3, <2>4, <2>5 DEF Dequeue
<1>2. CASE Quit(w)
  BY <1>2 DEF Quit, queueVars, WorkerStates, Exited
<1>3. CASE Decide(w)
  BY <1>3 DEF Decide, queueVars, WorkerStates
<1> QED BY <1>1, <1>2, <1>3 DEF TestQueue

(* However pthread_kill answers, the administrator starts threads in slots *)
(* that hold none or an exited one, and at most fills the pool.            *)
LEMMA GrowTypes ==
    ASSUME Typing, Grow
    PROVE  /\ worker' \in [Threads -> WorkerStates]
           /\ LiveBounds'
           /\ live_thr_num' \in Nat
           /\ \A w \in Threads :
                 \/ worker'[w] = worker[w]
                 \/ worker[w] \in {"none"} \cup Exited /\ worker'[w] = "ready"
           /\ \E new \in SUBSET Threads :
                 /\ \A w \in new : worker[w] \in {"none"} \cup Exited
                 /\ \A w \in Threads :
                       worker'[w] = IF w \in new THEN "ready" ELSE worker[w]
                 /\ IsFiniteSet(new)
                 /\ live_thr_num' = live_thr_num + Cardinality(new)
<1> USE DEF Typing, TypeOK
<1> DEFINE dead == {w \in Threads : worker[w] \in Exited}
           vacancies(alive) == (Threads \ Created) \cup {w \in DOMAIN alive : ~alive[w]}
           room == Lower(DEFAULT_THREAD_NUM, max_thr_num - live_thr_num)
           new(alive) == Added(vacancies(alive), room)
<1>1. PICK alive \in [dead -> ExitedAnswers] :
        /\ worker' = [w \in Threads |->
                        IF w \in new(alive) THEN "ready" ELSE worker[w]]
        /\ live_thr_num' = live_thr_num + Cardinality(new(alive))
  BY DEF Grow
<1>2. room \in Nat /\ live_thr_num + room <= max_thr_num
  BY SizesAssumption DEF Lower, LiveBounds
<1>3. /\ new(alive) \subseteq vacancies(alive)
      /\ IsFiniteSet(new(alive))
      /\ Cardinality(new(alive)) \in 0 .. room
  <2>1. vacancies(alive) \in SUBSET Threads
    BY DEF Created
  <2> QED BY <1>2, <2>1, AddedBounded
<1>4. worker' \in [Threads -> WorkerStates]
  BY <1>1 DEF WorkerStates
<1>5. \A w \in vacancies(alive) : worker[w] \in {"none"} \cup Exited
  BY DEF Created
<1>6. \A w \in Threads :
         \/ worker'[w] = worker[w]
         \/ worker[w] \in {"none"} \cup Exited /\ worker'[w] = "ready"
  BY <1>1, <1>3, <1>5
<1>7. LiveBounds' /\ live_thr_num' \in Nat
  BY <1>1, <1>2, <1>3, SizesAssumption DEF LiveBounds
<1>8. \E added \in SUBSET Threads :
         /\ \A w \in added : worker[w] \in {"none"} \cup Exited
         /\ \A w \in Threads :
               worker'[w] = IF w \in added THEN "ready" ELSE worker[w]
         /\ IsFiniteSet(added)
         /\ live_thr_num' = live_thr_num + Cardinality(added)
  <2>1. new(alive) \in SUBSET Threads
    BY <1>3 DEF Created
  <2>2. \A w \in new(alive) : worker[w] \in {"none"} \cup Exited
    BY <1>3, <1>5
  <2>3. \A w \in Threads :
           worker'[w] = IF w \in new(alive) THEN "ready" ELSE worker[w]
    BY <1>1
  <2> WITNESS new(alive) \in SUBSET Threads
  <2> QED BY <1>1, <1>3, <2>2, <2>3
<1> QED BY <1>4, <1>6, <1>7, <1>8

(* Everything is of its type at first.                                     *)
LEMMA TypingInit == Init => Typing
<1> SUFFICES ASSUME Init PROVE Typing
  OBVIOUS
<1> USE SizesAssumption DEF Init
<1>1. worker \in [Threads -> WorkerStates]
  BY DEF WorkerStates
<1>2. queue_front \in Slots /\ queue_rear \in Slots
  BY DEF Slots
<1>3. TypeOK
  <2>1. task_queue \in [Slots -> Tasks \cup {NoArg, Garbage}]
    OBVIOUS
  <2>2. seen \in [size : Nat, live : Nat, busy : Int]
    OBVIOUS
  <2>3. live_thr_num \in Nat /\ accepted \in 0 .. MaxTasks /\ taken \in 0 .. MaxTasks
    OBVIOUS
  <2>4. /\ task \in [Threads -> Tasks \cup {NoArg, Garbage}]
        /\ producer \in [Producers -> {"out", "waiting", "woken"}]
    OBVIOUS
  <2>5. /\ wait_exit_thr_num \in 0 .. DEFAULT_THREAD_NUM
        /\ signals \in 0 .. DEFAULT_THREAD_NUM
        /\ queue_size \in 0 .. queue_max_size
        /\ busy_thr_num \in Int /\ di \in Nat
    OBVIOUS
  <2> HIDE DEF Init
  <2>6. /\ shutdown \in BOOLEAN /\ freed \in BOOLEAN
        /\ admin = "check" /\ destroyer = "idle" /\ freedArgs = {}
    BY DEF Init
  <2> QED BY <1>1, <1>2, <2>1, <2>2, <2>3, <2>4, <2>5, <2>6 DEF TypeOK
<1>4. LiveBounds /\ Counted /\ SignalsLeft
  BY DEF LiveBounds, Counted, SignalsLeft
<1> QED BY <1>3, <1>4 DEF Typing

(* Every step keeps the types.                                             *)
LEMMA TypingStep == Typing /\ [Next]_vars => Typing'
<1> SUFFICES ASSUME Typing, [Next]_vars PROVE Typing'
  OBVIOUS
<1> USE SizesAssumption
        DEF Typing, TypeOK, LiveBounds, Counted, SignalsLeft,
            poolVars, queueVars, workerVars, adminVars, destroyVars
<1>1. ASSUME NEW w \in Threads, Enter(w) PROVE Typing'
  <2>1. TestQueue(w)
    BY <1>1 DEF Enter
  <2> QED BY <1>1, <2>1, TestQueueTypes DEF Enter
<1>2. ASSUME NEW w \in Threads, Wait(w) PROVE Typing'
  BY <1>2 DEF Wait, WorkerStates
<1>3. ASSUME NEW w \in Threads, SpuriousWake(w) PROVE Typing'
  BY <1>3 DEF SpuriousWake, WorkerStates
<1>4. ASSUME NEW w \in Threads, Retire(w) PROVE Typing'
  BY <1>4 DEF Retire, MustRetire, WorkerStates, Exited
<1>5. ASSUME NEW w \in Threads, Resume(w) PROVE Typing'
  <2>1. TestQueue(w)
    BY <1>5 DEF Resume
  <2>2. wait_exit_thr_num' \in 0 .. DEFAULT_THREAD_NUM
    BY <1>5 DEF Resume
  <2> QED BY <1>5, <2>1, <2>2, TestQueueTypes DEF Resume
<1>6. ASSUME NEW w \in Threads, StartTask(w) PROVE Typing'
  BY <1>6 DEF StartTask, WorkerStates, InTask
<1>7. ASSUME NEW w \in Threads, ReturnFromTask(w) PROVE Typing'
  BY <1>7 DEF ReturnFromTask, WorkerStates, InTask
<1>8. ASSUME NEW w \in Threads, EndTask(w) PROVE Typing'
  BY <1>8 DEF EndTask, WorkerStates
<1>9. ASSUME NEW p \in Producers, Block(p) PROVE Typing'
  BY <1>9 DEF Block
<1>10. ASSUME NEW p \in Producers, Refuse(p) PROVE Typing'
  BY <1>10 DEF Refuse
<1>11. ASSUME NEW p \in Producers, Put(p) PROVE Typing'
  <2>1. worker' \in [Threads -> WorkerStates]
    BY <1>11, SignalTypes DEF Put
  <2>2. queue_rear' \in Slots
    BY <1>11, WrapTypes DEF Put
  <2>3. /\ task_queue' \in [Slots -> Tasks \cup {NoArg, Garbage}]
        /\ freedArgs' \subseteq Tasks \cup {Garbage}
    <3>1. accepted + 1 \in Tasks
      BY <1>11 DEF Put, Tasks
    <3> QED BY <1>11, <3>1 DEF Put
  <2>4. /\ queue_size' \in 0 .. queue_max_size
        /\ accepted' \in 0 .. MaxTasks
        /\ queue_size' = accepted' - taken'
    BY <1>11 DEF Put
  <2> QED BY <1>11, <2>1, <2>2, <2>3, <2>4 DEF Put
<1>12. ASSUME NEW p \in Producers, SpuriousProducerWake(p) PROVE Typing'
  BY <1>12 DEF SpuriousProducerWake
<1>13. CASE AdminCheck
  BY <1>13 DEF AdminCheck
<1>14. CASE AdminRead
  <2>1. queue_size \in Nat /\ live_thr_num \in Nat
    OBVIOUS
  <2>2. seen' \in [size : Nat, live : Nat, busy : Int]
    BY <1>14, <2>1 DEF AdminRead
  <2> QED BY <1>14, <2>2 DEF AdminRead
<1>15. CASE AdminCount
  BY <1>15 DEF AdminCount
<1>16. CASE Grow
  BY <1>16, GrowTypes DEF Grow
<1>17. CASE Shrink
  BY <1>17 DEF Shrink
<1>18. CASE AdminSignal
  BY <1>18, SignalTypes DEF AdminSignal
<1>19. CASE Shutdown
  BY <1>19 DEF Shutdown
<1>20. CASE JoinAdmin
  BY <1>20 DEF JoinAdmin
<1>21. CASE Broadcast
  BY <1>21 DEF Broadcast, BroadcastNotEmpty, WorkerStates
<1>22. CASE Join
  BY <1>22 DEF Join
<1>23. CASE Free
  BY <1>23 DEF Free
<1>24. CASE UNCHANGED vars
  BY <1>24 DEF vars
<1> QED
  BY <1>1, <1>2, <1>3, <1>4, <1>5, <1>6, <1>7, <1>8, <1>9, <1>10, <1>11,
     <1>12, <1>13, <1>14, <1>15, <1>16, <1>17, <1>18, <1>19, <1>20, <1>21,
     <1>22, <1>23, <1>24
     DEF Next, Worker, Admin, Destroy

(* Every variable keeps its type, whatever the sizes of the pool.          *)
THEOREM TypeCorrect == Spec => []TypeOK
<1>1. Typing => TypeOK
  BY DEF Typing
<1> QED BY <1>1, TypingInit, TypingStep, PTL DEF Spec

(* The pool keeps between min_thr_num and max_thr_num live workers.        *)
THEOREM LiveWithinBounds == Spec => []LiveBounds
<1>1. Typing => LiveBounds
  BY DEF Typing
<1> QED BY <1>1, TypingInit, TypingStep, PTL DEF Spec
-----------------------------------------------------------------------------
(* A step that leaves the submitters and the queue alone.                  *)
LEMMA BlockedFrame ==
    ASSUME BlockedOnlyWhenFull, UNCHANGED <<producer, queue_size>>
    PROVE  BlockedOnlyWhenFull'
BY DEF BlockedOnlyWhenFull

(* The test of the queue lets no submitter sleep while the queue has room. *)
LEMMA BlockedTestQueue ==
    ASSUME BlockedOnlyWhenFull, NEW w \in Threads, TestQueue(w)
    PROVE  BlockedOnlyWhenFull'
<1>1. CASE Dequeue(w)
  BY <1>1 DEF Dequeue, BroadcastNotFull, BlockedOnlyWhenFull
<1>2. CASE Quit(w) \/ Decide(w)
  BY <1>2, BlockedFrame DEF Quit, Decide, queueVars
<1> QED BY <1>1, <1>2 DEF TestQueue

(* Every step lets no submitter sleep while the queue has room.            *)
LEMMA BlockedStep ==
    Typing /\ BlockedOnlyWhenFull /\ [Next]_vars => BlockedOnlyWhenFull'
<1> SUFFICES ASSUME Typing, BlockedOnlyWhenFull, [Next]_vars
             PROVE  BlockedOnlyWhenFull'
  OBVIOUS
<1>1. ASSUME NEW w \in Threads, Enter(w) \/ Resume(w)
      PROVE  BlockedOnlyWhenFull'
  BY <1>1, BlockedTestQueue DEF Enter, Resume
<1>2. ASSUME NEW w \in Threads,
             Wait(w) \/ SpuriousWake(w) \/ Retire(w) \/ StartTask(w)
                \/ ReturnFromTask(w) \/ EndTask(w)
      PROVE  BlockedOnlyWhenFull'
  BY <1>2, BlockedFrame
     DEF Wait, SpuriousWake, Retire, StartTask, ReturnFromTask, EndTask, queueVars
<1>3. ASSUME NEW p \in Producers, Block(p) PROVE BlockedOnlyWhenFull'
  BY <1>3 DEF Block, queueVars, BlockedOnlyWhenFull
<1>4. ASSUME NEW p \in Producers, Refuse(p) \/ SpuriousProducerWake(p)
      PROVE  BlockedOnlyWhenFull'
  <2>1. \A q \in Producers : producer'[q] = "waiting" => producer[q] = "waiting"
    BY <1>4 DEF Refuse, SpuriousProducerWake, Typing, TypeOK
  <2> QED BY <1>4, <2>1
          DEF Refuse, SpuriousProducerWake, queueVars, BlockedOnlyWhenFull
<1>5. ASSUME NEW p \in Producers, Put(p) PROVE BlockedOnlyWhenFull'
  <2>1. \A q \in Producers : producer[q] # "waiting"
    BY <1>5 DEF Put, BlockedOnlyWhenFull
  <2>2. \A q \in Producers : producer'[q] # "waiting"
    BY <1>5, <2>1 DEF Put, Typing, TypeOK
  <2> QED BY <2>2 DEF BlockedOnlyWhenFull
<1>6. CASE Admin
  BY <1>6, BlockedFrame
     DEF Admin, AdminCheck, AdminRead, AdminCount, Grow, Shrink, AdminSignal, queueVars
<1>7. CASE Destroy
  BY <1>7, BlockedFrame
     DEF Destroy, Shutdown, JoinAdmin, Broadcast, Join, Free, queueVars
<1>8. CASE UNCHANGED vars
  BY <1>8, BlockedFrame DEF vars, queueVars
<1> QED BY <1>1, <1>2, <1>3, <1>4, <1>5, <1>6, <1>7, <1>8 DEF Next, Worker

(* No submitter sleeps on queue_not_full while there is room in the queue. *)
THEOREM NobodyBlockedBesideRoom == Spec => []BlockedOnlyWhenFull
<1>1. Init => BlockedOnlyWhenFull
  BY DEF Init, BlockedOnlyWhenFull
<1> QED BY <1>1, TypingInit, TypingStep, BlockedStep, PTL DEF Spec
-----------------------------------------------------------------------------
(* In a pool whose size is fixed no woken worker retires, so whoever is    *)
(* woken for a task looks at the queue.  The inductive invariant adds that *)
(* a worker about to wait has just seen the queue empty: it holds the lock.*)
DecidingSawEmpty == (\E w \in Threads : worker[w] = "deciding") => queue_size = 0

Wakeups == NoLostWakeup /\ DecidingSawEmpty

(* Finitely many threads are woken.                                        *)
LEMMA WokenFinite == IsFiniteSet(Woken) /\ Cardinality(Woken) \in Nat
<1>1. Woken \subseteq Threads
  BY DEF Woken
<1> QED BY <1>1, ThreadsFinite, FS_Subset, FS_CardinalityType

(* Waking one waiter adds one to the woken workers.                        *)
LEMMA WakeOne ==
    ASSUME Typing, NEW w \in Waiting, worker' = [worker EXCEPT ![w] = "woken"]
    PROVE  /\ Cardinality(Woken') = Cardinality(Woken) + 1
           /\ Waiting' \subseteq Waiting
<1>1. w \in Threads /\ w \notin Woken
  BY DEF Waiting, Woken
<1>2. Woken' = Woken \cup {w}
  BY <1>1 DEF Woken, Waiting, Typing, TypeOK
<1>3. Waiting' \subseteq Waiting
  BY DEF Waiting, Typing, TypeOK
<1> QED BY <1>1, <1>2, <1>3, WokenFinite, FS_AddElement

(* A worker that leaves the woken ones takes one away.                     *)
LEMMA WokenLeaves ==
    ASSUME Typing, NEW w \in Woken, NEW s, s \notin {"woken", "waiting"},
           worker' = [worker EXCEPT ![w] = s]
    PROVE  /\ Cardinality(Woken') = Cardinality(Woken) - 1
           /\ Waiting' = Waiting
<1>1. w \in Threads
  BY DEF Woken
<1>2. Woken' = Woken \ {w}
  BY <1>1 DEF Woken, Typing, TypeOK
<1>3. Waiting' = Waiting
  BY <1>1 DEF Waiting, Woken, Typing, TypeOK
<1> QED BY <1>2, <1>3, WokenFinite, FS_RemoveElement

(* A worker that was neither waiting nor woken changes no set by moving.   *)
LEMMA OtherMoves ==
    ASSUME Typing, NEW w \in Threads, worker[w] \notin {"woken", "waiting"},
           NEW s, s \notin {"woken", "waiting"},
           worker' = [worker EXCEPT ![w] = s]
    PROVE  Woken' = Woken /\ Waiting' = Waiting
BY DEF Woken, Waiting, Typing, TypeOK

(* A step that leaves workers, the number of tasks and shutdown alone      *)
(* loses no wakeup.                                                        *)
LEMMA WakeupsFrame ==
    ASSUME Wakeups, UNCHANGED <<worker, queue_size, shutdown>>
    PROVE  Wakeups'
BY DEF Wakeups, NoLostWakeup, DecidingSawEmpty, Waiting, Woken

(* The test of the queue by a worker that holds the lock loses no wakeup.  *)
LEMMA WakeupsTestQueue ==
    ASSUME Typing, Wakeups, LockFree, NEW w \in Threads,
           worker[w] \in {"ready", "woken"}, TestQueue(w), shutdown' = shutdown
    PROVE  Wakeups'
<1> USE DEF Wakeups, NoLostWakeup
<1>1. PICK s \in {"took", "quit", "deciding"} :
        /\ worker' = [worker EXCEPT ![w] = s]
        /\ s = "deciding" => Decide(w)
        /\ s = "quit" => Quit(w)
        /\ s = "took" => Dequeue(w)
  BY DEF TestQueue, Dequeue, Quit, Decide
<1>2. DecidingSawEmpty'
  <2>1. CASE s = "deciding"
    BY <1>1, <2>1 DEF Decide, queueVars, DecidingSawEmpty
  <2>2. CASE s # "deciding"
    BY <1>1, <2>2 DEF LockFree, DecidingSawEmpty, Typing, TypeOK
  <2> QED BY <2>1, <2>2
<1>3. /\ Waiting' = Waiting
      /\ Cardinality(Woken') \in {Cardinality(Woken), Cardinality(Woken) - 1}
      /\ Cardinality(Woken') \in Nat
  <2>1. CASE worker[w] = "ready"
    BY <1>1, <2>1, OtherMoves, WokenFinite
  <2>2. CASE worker[w] = "woken"
    <3>1. w \in Woken
      BY <2>2 DEF Woken
    <3>2. Cardinality(Woken) # 0
      BY <3>1, WokenFinite, FS_EmptySet
    <3>3. s \notin {"woken", "waiting"}
      OBVIOUS
    <3>4. Waiting' = Waiting /\ Cardinality(Woken') = Cardinality(Woken) - 1
      BY <1>1, <3>1, <3>3, WokenLeaves
    <3> QED BY <3>2, <3>4, WokenFinite
  <2> QED BY <2>1, <2>2
<1>4. NoLostWakeup'
  <2>1. CASE s = "took"
    BY <1>1, <1>3, <2>1, WokenFinite DEF Dequeue, Typing, TypeOK
  <2>2. CASE s = "quit"
    BY <1>1, <2>2 DEF Quit
  <2>3. CASE s = "deciding"
    BY <1>1, <1>3, <2>3, WokenFinite DEF Decide, queueVars
  <2> QED BY <1>1, <2>1, <2>2, <2>3
<1> QED BY <1>2, <1>4

(* Steps of the other threads: a signal, a new thread, a broadcast.        *)
LEMMA WakeupsSignal ==
    ASSUME Typing, Wakeups, SignalNotEmpty, shutdown' = shutdown,
           \/ queue_size' = queue_size
           \/ queue_size' = queue_size + 1 /\ LockFree
    PROVE  Wakeups'
<1> USE DEF Wakeups, NoLostWakeup
<1>1. DecidingSawEmpty'
  <2>1. \A w \in Threads : worker'[w] = "deciding" => worker[w] = "deciding"
    BY DEF SignalNotEmpty, Waiting, Typing, TypeOK
  <2> QED BY <2>1 DEF DecidingSawEmpty, LockFree
<1>2. CASE Waiting = {}
  <2>1. Waiting' = {}
    BY <1>2 DEF SignalNotEmpty, Waiting
  <2> QED BY <1>1, <2>1
<1>3. CASE Waiting # {}
  <2>1. PICK w \in Waiting : worker' = [worker EXCEPT ![w] = "woken"]
    BY <1>3 DEF SignalNotEmpty
  <2>2. Cardinality(Woken') = Cardinality(Woken) + 1
    BY <2>1, WakeOne
  <2>3. NoLostWakeup'
    BY <1>3, <2>2, WokenFinite DEF Typing, TypeOK
  <2> QED BY <1>1, <2>3
<1> QED BY <1>2, <1>3

(* Threads that are added lose no wakeup.                                  *)
LEMMA WakeupsGrow == ASSUME Typing, Wakeups, Grow PROVE Wakeups'
<1>1. \A w \in Threads :
         \/ worker'[w] = worker[w]
         \/ worker[w] \in {"none"} \cup Exited /\ worker'[w] = "ready"
  BY GrowTypes
<1>2. Waiting' = Waiting /\ Woken' = Woken
  BY <1>1 DEF Waiting, Woken, Exited
<1>3. DecidingSawEmpty'
  BY <1>1 DEF Grow, queueVars, Wakeups, DecidingSawEmpty
<1> QED BY <1>2, <1>3 DEF Grow, queueVars, destroyVars, Wakeups, NoLostWakeup

(* No step of a fixed pool loses a wakeup.                                 *)
LEMMA WakeupsStep ==
    ASSUME min_thr_num = max_thr_num
    PROVE  Typing /\ Wakeups /\ [Next]_vars => Wakeups'
<1> SUFFICES ASSUME Typing, Wakeups, [Next]_vars PROVE Wakeups'
  OBVIOUS
<1> USE DEF queueVars, destroyVars
<1>1. ASSUME NEW w \in Threads, Enter(w) \/ Resume(w) PROVE Wakeups'
  BY <1>1, WakeupsTestQueue DEF Enter, Resume
<1>2. ASSUME NEW w \in Threads, Wait(w) PROVE Wakeups'
  <2>1. queue_size = 0 /\ queue_size' = 0
    BY <1>2 DEF Wait, Wakeups, DecidingSawEmpty
  <2>2. Woken' = Woken
    BY <1>2 DEF Wait, Woken, Typing, TypeOK
  <2> QED BY <2>1, <2>2, WokenFinite DEF Wakeups, NoLostWakeup, DecidingSawEmpty
<1>3. ASSUME NEW w \in Threads, SpuriousWake(w) PROVE Wakeups'
  <2>1. /\ Cardinality(Woken') = Cardinality(Woken) + 1
        /\ Waiting' \subseteq Waiting
    BY <1>3, WakeOne DEF SpuriousWake, Waiting
  <2>2. NoLostWakeup'
    BY <1>3, <2>1, WokenFinite
       DEF SpuriousWake, Wakeups, NoLostWakeup, Typing, TypeOK
  <2>3. DecidingSawEmpty'
    BY <1>3 DEF SpuriousWake, Wakeups, DecidingSawEmpty, Typing, TypeOK
  <2> QED BY <2>2, <2>3 DEF Wakeups
<1>4. ASSUME NEW w \in Threads, Retire(w) PROVE Wakeups'
  BY <1>4, SizesAssumption DEF Retire, MustRetire, Typing, LiveBounds
<1>5. ASSUME NEW w \in Threads, StartTask(w) \/ ReturnFromTask(w) \/ EndTask(w)
      PROVE  Wakeups'
  <2>1. PICK s \in {"run", "ran", "ready"} :
          worker[w] \in InTask /\ worker' = [worker EXCEPT ![w] = s]
    BY <1>5 DEF StartTask, ReturnFromTask, EndTask, InTask
  <2>2. Woken' = Woken /\ Waiting' = Waiting
    BY <2>1, OtherMoves DEF InTask
  <2>3. DecidingSawEmpty'
    BY <1>5, <2>1 DEF StartTask, ReturnFromTask, EndTask, Wakeups,
                      DecidingSawEmpty, Typing, TypeOK
  <2> QED BY <1>5, <2>2, <2>3
          DEF StartTask, ReturnFromTask, EndTask, Wakeups, NoLostWakeup
<1>6. ASSUME NEW p \in Producers,
             Block(p) \/ Refuse(p) \/ SpuriousProducerWake(p)
      PROVE  Wakeups'
  BY <1>6, WakeupsFrame DEF Block, Refuse, SpuriousProducerWake, workerVars
<1>7. ASSUME NEW p \in Producers, Put(p) PROVE Wakeups'
  BY <1>7, WakeupsSignal DEF Put, HoldsLock
<1>8. CASE AdminCheck \/ AdminRead \/ AdminCount \/ Shrink
  BY <1>8, WakeupsFrame DEF AdminCheck, AdminRead, AdminCount, Shrink, workerVars
<1>9. CASE Grow
  BY <1>9, WakeupsGrow
<1>10. CASE AdminSignal
  BY <1>10, WakeupsSignal DEF AdminSignal
<1>11. CASE Shutdown
  BY <1>11 DEF Shutdown, workerVars, Wakeups, NoLostWakeup, DecidingSawEmpty
<1>12. CASE JoinAdmin \/ Join \/ Free
  BY <1>12, WakeupsFrame DEF JoinAdmin, Join, Free, workerVars
<1>13. CASE Broadcast
  <2>1. UNCHANGED <<worker, queue_size, shutdown>> \/ BroadcastNotEmpty
    BY <1>13 DEF Broadcast
  <2>2. CASE BroadcastNotEmpty
    BY <1>13, <2>2 DEF Broadcast, BroadcastNotEmpty, Wakeups, NoLostWakeup,
                       DecidingSawEmpty, Waiting
  <2> QED BY <2>1, <2>2, WakeupsFrame
<1>14. CASE UNCHANGED vars
  BY <1>14, WakeupsFrame DEF vars, workerVars
<1> QED BY <1>1, <1>2, <1>3, <1>4, <1>5, <1>6, <1>7, <1>8, <1>9, <1>10, <1>11,
           <1>12, <1>13, <1>14 DEF Next, Worker, Admin, Destroy

(* A pool of fixed size loses no wakeup: while a worker sleeps, as many    *)
(* workers are awake and on their way to the queue as it holds tasks.      *)
THEOREM FixedPoolLosesNoWakeup ==
    ASSUME min_thr_num = max_thr_num
    PROVE  Spec => []NoLostWakeup
<1>1. Init => Wakeups
  BY SizesAssumption, WokenFinite DEF Init, Wakeups, NoLostWakeup, DecidingSawEmpty, Waiting
<1>2. Typing /\ Wakeups /\ [Next]_vars => Wakeups'
  BY WakeupsStep
<1>3. Wakeups => NoLostWakeup
  BY DEF Wakeups
<1> QED BY <1>1, <1>2, <1>3, TypingInit, TypingStep, PTL DEF Spec
-----------------------------------------------------------------------------
(* The counters of the pool against its threads.                           *)
In(S) == {w \in Threads : worker[w] \in S}

(* Finitely many threads are in the states S.                              *)
LEMMA InFinite ==
    ASSUME NEW S PROVE IsFiniteSet(In(S)) /\ Cardinality(In(S)) \in Nat
<1>1. In(S) \subseteq Threads
  BY DEF In
<1> QED BY <1>1, ThreadsFinite, FS_Subset, FS_CardinalityType

(* A thread that moves within S, or outside of it, leaves those in S as    *)
(* they are.                                                               *)
LEMMA MoveKeeps ==
    ASSUME Typing, NEW S, NEW w \in Threads, NEW s,
           worker' = [worker EXCEPT ![w] = s], worker[w] \in S <=> s \in S
    PROVE  In(S)' = In(S)
BY DEF In, Typing, TypeOK

(* A thread that moves into S is one more there.                           *)
LEMMA MoveIn ==
    ASSUME Typing, NEW S, NEW w \in Threads, NEW s \in S,
           worker' = [worker EXCEPT ![w] = s], worker[w] \notin S
    PROVE  Cardinality(In(S)') = Cardinality(In(S)) + 1
<1>1. In(S)' = In(S) \cup {w} /\ w \notin In(S)
  BY DEF In, Typing, TypeOK
<1> QED BY <1>1, InFinite, FS_AddElement

(* A thread that moves out of S is one less there.                         *)
LEMMA MoveOut ==
    ASSUME Typing, NEW S, NEW w \in Threads, NEW s, s \notin S,
           worker' = [worker EXCEPT ![w] = s], worker[w] \in S
    PROVE  Cardinality(In(S)') = Cardinality(In(S)) - 1
<1>1. In(S)' = In(S) \ {w} /\ w \in In(S)
  BY DEF In, Typing, TypeOK
<1> QED BY <1>1, InFinite, FS_RemoveElement

(* A signal moves threads from waiting to woken, and no others.            *)
LEMMA WakeMoves ==
    ASSUME Typing, SignalNotEmpty \/ BroadcastNotEmpty, NEW w \in Threads
    PROVE  worker'[w] = worker[w] \/ (worker[w] = "waiting" /\ worker'[w] = "woken")
<1>1. CASE SignalNotEmpty
  BY <1>1 DEF SignalNotEmpty, Waiting, Typing, TypeOK
<1>2. CASE BroadcastNotEmpty
  BY <1>2 DEF BroadcastNotEmpty
<1> QED BY <1>1, <1>2

(* A signal moves no worker into or out of S, if S holds both or neither   *)
(* of waiting and woken.                                                   *)
LEMMA SignalKeeps ==
    ASSUME Typing, NEW S, "waiting" \in S <=> "woken" \in S,
           SignalNotEmpty \/ BroadcastNotEmpty
    PROVE  In(S)' = In(S)
BY WakeMoves DEF In

(* What TestQueue does to the worker.                                      *)
LEMMA TestQueueMoves ==
    ASSUME NEW w \in Threads, TestQueue(w)
    PROVE  \/ worker' = [worker EXCEPT ![w] = "took"]
           \/ worker' = [worker EXCEPT ![w] = "quit"] /\ shutdown
           \/ worker' = [worker EXCEPT ![w] = "deciding"]
BY DEF TestQueue, Dequeue, Quit, Decide

Busy == {"run", "ran"}

(* Every step keeps the count of busy threads right.                       *)
LEMMA BusyStep == Typing /\ BusyCount /\ [Next]_vars => BusyCount'
<1> SUFFICES ASSUME Typing, BusyCount, [Next]_vars PROVE BusyCount'
  OBVIOUS
<1>1. BusyCount = (busy_thr_num = Cardinality(In(Busy)))
  BY DEF BusyCount, In, Busy
<1>2. BusyCount' = (busy_thr_num' = Cardinality(In(Busy)'))
  BY DEF BusyCount, In, Busy
<1>3. busy_thr_num' \in Int
  BY TypingStep DEF Typing, TypeOK
<1>4. Cardinality(In(Busy)') \in Int
  <2>1. In(Busy)' \subseteq Threads
    BY DEF In
  <2> QED BY <2>1, ThreadsFinite, FS_Subset, FS_CardinalityType
<1>5. SUFFICES busy_thr_num' - busy_thr_num
                  = Cardinality(In(Busy)') - Cardinality(In(Busy))
  BY <1>1, <1>2, <1>3, <1>4, InFinite DEF Typing, TypeOK
<1>6. ASSUME In(Busy)' = In(Busy), busy_thr_num' = busy_thr_num
      PROVE  busy_thr_num' - busy_thr_num
                = Cardinality(In(Busy)') - Cardinality(In(Busy))
  BY <1>4, <1>6, InFinite DEF Typing, TypeOK
<1> USE DEF workerVars, Busy
<1>7. ASSUME NEW w \in Threads, Enter(w) \/ Resume(w)
      PROVE  In(Busy)' = In(Busy) /\ busy_thr_num' = busy_thr_num
  <2>1. worker[w] \notin Busy
    BY <1>7 DEF Enter, Resume
  <2> QED BY <1>7, <2>1, TestQueueMoves, MoveKeeps DEF Enter, Resume
<1>8. ASSUME NEW w \in Threads,
             Wait(w) \/ SpuriousWake(w) \/ Retire(w) \/ ReturnFromTask(w)
      PROVE  In(Busy)' = In(Busy) /\ busy_thr_num' = busy_thr_num
  BY <1>8, MoveKeeps DEF Wait, SpuriousWake, Retire, ReturnFromTask
<1>9. ASSUME NEW w \in Threads, StartTask(w)
      PROVE  busy_thr_num' - busy_thr_num
                = Cardinality(In(Busy)') - Cardinality(In(Busy))
  <2>1. Cardinality(In(Busy)') = Cardinality(In(Busy)) + 1
    BY <1>9, MoveIn DEF StartTask
  <2> QED BY <1>9, <2>1, InFinite DEF StartTask, Typing, TypeOK
<1>10. ASSUME NEW w \in Threads, EndTask(w)
       PROVE  busy_thr_num' - busy_thr_num
                 = Cardinality(In(Busy)') - Cardinality(In(Busy))
  <2>1. Cardinality(In(Busy)') = Cardinality(In(Busy)) - 1
    BY <1>10, MoveOut DEF EndTask
  <2> QED BY <1>10, <2>1, InFinite DEF EndTask, Typing, TypeOK
<1>11. ASSUME NEW p \in Producers,
              Block(p) \/ Refuse(p) \/ Put(p) \/ SpuriousProducerWake(p)
       PROVE  In(Busy)' = In(Busy) /\ busy_thr_num' = busy_thr_num
  BY <1>11, SignalKeeps DEF Block, Refuse, Put, SpuriousProducerWake, In
<1>12. CASE Admin
  <2>1. busy_thr_num' = busy_thr_num
    BY <1>12 DEF Admin, AdminCheck, AdminRead, AdminCount, Grow, Shrink, AdminSignal
  <2>2. CASE AdminSignal
    BY <1>6, <2>1, <2>2, SignalKeeps DEF AdminSignal
  <2>3. CASE Grow
    BY <1>6, <2>1, <2>3, GrowTypes DEF In, Exited
  <2>4. CASE AdminCheck \/ AdminRead \/ AdminCount \/ Shrink
    BY <1>6, <2>1, <2>4 DEF AdminCheck, AdminRead, AdminCount, Shrink, In
  <2> QED BY <1>12, <2>2, <2>3, <2>4 DEF Admin
<1>13. CASE Destroy
  <2>1. busy_thr_num' = busy_thr_num
    BY <1>13 DEF Destroy, Shutdown, JoinAdmin, Broadcast, Join, Free
  <2>2. worker' = worker \/ BroadcastNotEmpty
    BY <1>13 DEF Destroy, Shutdown, JoinAdmin, Broadcast, Join, Free
  <2>3. In(Busy)' = In(Busy)
    BY <2>2, SignalKeeps DEF In
  <2> QED BY <1>6, <2>1, <2>3
<1>14. CASE UNCHANGED vars
  BY <1>6, <1>14 DEF vars, In
<1> QED BY <1>6, <1>7, <1>8, <1>9, <1>10, <1>11, <1>12, <1>13,
           <1>14 DEF Next, Worker

(* busy_thr_num is the number of workers inside a task.                    *)
THEOREM BusyCountsTasks == Spec => []BusyCount
<1>1. Init => BusyCount
  <2> SUFFICES ASSUME Init PROVE BusyCount
    OBVIOUS
  <2>1. {w \in Threads : worker[w] \in {"run", "ran"}} = {}
    BY DEF Init
  <2> QED BY <2>1, FS_EmptySet DEF BusyCount, Init
<1> QED BY <1>1, TypingInit, TypingStep, BusyStep, PTL DEF Spec
-----------------------------------------------------------------------------
(* live_thr_num: nobody quits before the shutdown, so a thread the         *)
(* administrator replaces is one that retired and was counted out.         *)
Serving == WorkerStates \ {"none", "reaped"}

LiveInv ==
    ~shutdown => /\ live_thr_num = Cardinality(In(Serving))
                 /\ \A w \in Threads : worker[w] # "quit"

(* The threads that were created and not reaped are those that serve.      *)
LEMMA ServingIsLive == Typing => {w \in Threads : worker[w] \notin {"none", "reaped"}} = In(Serving)
BY DEF In, Serving, Typing, TypeOK

(* A step that moves one worker between states that both count.            *)
LEMMA LiveMove ==
    ASSUME Typing, LiveInv, NEW w \in Threads, NEW s,
           worker' = [worker EXCEPT ![w] = s],
           worker[w] \in Serving, s \in Serving \ {"quit"},
           live_thr_num' = live_thr_num, shutdown' = shutdown
    PROVE  LiveInv'
<1>1. In(Serving)' = In(Serving)
  BY MoveKeeps
<1>2. ~shutdown => \A v \in Threads : worker'[v] # "quit"
  BY DEF LiveInv, Typing, TypeOK
<1> QED BY <1>1, <1>2 DEF LiveInv

(* What leaves threads and counts alone keeps the count of live threads.   *)
LEMMA LiveFrame ==
    ASSUME LiveInv, UNCHANGED <<worker, live_thr_num, shutdown>>
    PROVE  LiveInv'
BY DEF LiveInv, In

(* Waking threads keeps the count of live threads.                         *)
LEMMA LiveWake ==
    ASSUME Typing, LiveInv, SignalNotEmpty \/ BroadcastNotEmpty,
           live_thr_num' = live_thr_num, shutdown' = shutdown
    PROVE  LiveInv'
<1>1. "waiting" \in Serving /\ "woken" \in Serving
  BY DEF Serving, WorkerStates
<1>2. In(Serving)' = In(Serving)
  BY <1>1, SignalKeeps
<1>3. ~shutdown => \A w \in Threads : worker'[w] # "quit"
  BY WakeMoves DEF LiveInv
<1> QED BY <1>2, <1>3 DEF LiveInv

(* A thread that is added is counted.                                      *)
LEMMA LiveGrow == ASSUME Typing, LiveInv, Grow PROVE LiveInv'
<1> SUFFICES ASSUME ~shutdown'
             PROVE  /\ live_thr_num' = Cardinality(In(Serving)')
                    /\ \A w \in Threads : worker'[w] # "quit"
  BY DEF LiveInv
<1>1. ~shutdown
  BY DEF Grow, destroyVars
<1>2. PICK new \in SUBSET Threads :
        /\ \A w \in new : worker[w] \in {"none"} \cup Exited
        /\ \A w \in Threads :
              worker'[w] = IF w \in new THEN "ready" ELSE worker[w]
        /\ IsFiniteSet(new)
        /\ live_thr_num' = live_thr_num + Cardinality(new)
  BY GrowTypes
<1>3. \A w \in new : worker[w] \notin Serving
  BY <1>1, <1>2 DEF LiveInv, Exited, Serving
<1>4. In(Serving)' = In(Serving) \cup new
  BY <1>2 DEF In, Serving, WorkerStates
<1>5. In(Serving) \cap new = {}
  BY <1>3 DEF In
<1>6. Cardinality(In(Serving) \cup new)
         = Cardinality(In(Serving)) + Cardinality(new)
  <2>1. Cardinality(new) \in Nat
    BY <1>2, FS_CardinalityType
  <2>2. IsFiniteSet(In(Serving)) /\ Cardinality(In(Serving)) \in Nat
    BY InFinite
  <2>3. Cardinality(In(Serving) \cup new)
           = Cardinality(In(Serving)) + Cardinality(new)
                - Cardinality(In(Serving) \cap new)
    BY <1>2, <2>2, FS_Union
  <2>4. Cardinality(In(Serving) \cap new) = 0
    BY <1>5, FS_EmptySet
  <2> QED BY <2>1, <2>2, <2>3, <2>4
<1>7. \A w \in Threads : worker'[w] # "quit"
  BY <1>1, <1>2 DEF LiveInv
<1> QED BY <1>1, <1>2, <1>4, <1>6, <1>7 DEF LiveInv

(* Every step keeps the count of live threads right.                       *)
LEMMA LiveStep == Typing /\ LiveInv /\ [Next]_vars => LiveInv'
<1> SUFFICES ASSUME Typing, LiveInv, [Next]_vars PROVE LiveInv'
  OBVIOUS
<1> USE DEF poolVars, destroyVars, workerVars
<1>1. {"ready", "deciding", "waiting", "woken", "took", "run", "ran"}
         \subseteq Serving \ {"quit"}
  BY DEF Serving, WorkerStates, InTask
<1>2. ASSUME NEW w \in Threads, Enter(w) \/ Resume(w) PROVE LiveInv'
  <2>1. worker[w] \in Serving
    BY <1>1, <1>2 DEF Enter, Resume
  <2>2. live_thr_num' = live_thr_num /\ shutdown' = shutdown
    BY <1>2 DEF Enter, Resume
  <2>3. TestQueue(w)
    BY <1>2 DEF Enter, Resume
  <2>4. CASE shutdown
    BY <2>2, <2>4 DEF LiveInv
  <2>5. CASE ~shutdown
    BY <1>1, <2>1, <2>2, <2>3, <2>5, TestQueueMoves, LiveMove
  <2> QED BY <2>4, <2>5
<1>3. ASSUME NEW w \in Threads,
             Wait(w) \/ SpuriousWake(w) \/ StartTask(w) \/ ReturnFromTask(w)
                \/ EndTask(w)
      PROVE  LiveInv'
  <2>1. PICK s \in {"waiting", "woken", "run", "ran", "ready"} :
          worker' = [worker EXCEPT ![w] = s]
    BY <1>3 DEF Wait, SpuriousWake, StartTask, ReturnFromTask, EndTask
  <2>2. worker[w] \in Serving
    BY <1>1, <1>3 DEF Wait, SpuriousWake, StartTask, ReturnFromTask, EndTask
  <2>3. live_thr_num' = live_thr_num /\ shutdown' = shutdown
    BY <1>3 DEF Wait, SpuriousWake, StartTask, ReturnFromTask, EndTask
  <2>4. s \in Serving \ {"quit"}
    BY <1>1
  <2> QED BY <2>1, <2>2, <2>3, <2>4, LiveMove
<1>4. ASSUME NEW w \in Threads, Retire(w) PROVE LiveInv'
  <2>1. worker[w] \in Serving /\ "reaped" \notin Serving
    BY <1>1, <1>4 DEF Retire, Serving
  <2>2. Cardinality(In(Serving)') = Cardinality(In(Serving)) - 1
    BY <1>4, <2>1, MoveOut DEF Retire
  <2>3. ~shutdown => \A v \in Threads : worker'[v] # "quit"
    BY <1>4 DEF Retire, LiveInv, Typing, TypeOK
  <2> QED BY <1>4, <2>2, <2>3 DEF Retire, LiveInv
<1>5. ASSUME NEW p \in Producers,
             Block(p) \/ Refuse(p) \/ SpuriousProducerWake(p)
      PROVE  LiveInv'
  BY <1>5, LiveFrame DEF Block, Refuse, SpuriousProducerWake
<1>6. ASSUME NEW p \in Producers, Put(p) PROVE LiveInv'
  BY <1>6, LiveWake DEF Put
<1>7. CASE AdminCheck \/ AdminRead \/ AdminCount \/ Shrink
  BY <1>7, LiveFrame DEF AdminCheck, AdminRead, AdminCount, Shrink
<1>8. CASE Grow
  BY <1>8, LiveGrow
<1>9. CASE AdminSignal
  BY <1>9, LiveWake DEF AdminSignal
<1>10. CASE Shutdown
  BY <1>10 DEF Shutdown, LiveInv
<1>11. CASE JoinAdmin \/ Join \/ Free
  BY <1>11, LiveFrame DEF JoinAdmin, Join, Free
<1>12. CASE Broadcast
  BY <1>12, LiveFrame, LiveWake DEF Broadcast
<1>13. CASE UNCHANGED vars
  BY <1>13, LiveFrame DEF vars
<1> QED BY <1>2, <1>3, <1>4, <1>5, <1>6, <1>7, <1>8, <1>9, <1>10, <1>11, <1>12,
           <1>13 DEF Next, Worker, Admin, Destroy

(* Until the shutdown live_thr_num is the number of threads that serve the *)
(* queue, however often slots were emptied and filled again.               *)
THEOREM LiveCountsThreads == Spec => []LiveCount
<1>1. Init => LiveInv
  <2> SUFFICES ASSUME Init PROVE LiveInv
    OBVIOUS
  <2>1. In(Serving) = 0 .. min_thr_num - 1
    BY SizesAssumption DEF Init, In, Serving, WorkerStates, Threads, Started
  <2>2. Cardinality(0 .. min_thr_num - 1) = min_thr_num
    BY SizesAssumption, FS_Interval
  <2>3. \A w \in Threads : worker[w] # "quit"
    BY DEF Init
  <2> QED BY <2>1, <2>2, <2>3 DEF Init, LiveInv
<1>2. Typing /\ LiveInv => LiveCount
  BY ServingIsLive DEF LiveInv, LiveCount
<1> QED BY <1>1, <1>2, TypingInit, TypingStep, LiveStep, PTL DEF Spec
-----------------------------------------------------------------------------
(* The end of the pool.  In a pool of fixed size the destroyer joins the   *)
(* thread of every slot before it frees, and none comes back: threads that *)
(* left stay out once the administrator has been joined.                   *)
Left(w) == worker[w] \in {"none"} \cup Exited

EndInv ==
    /\ destroyer \in {"broadcast", "join", "free", "done"} => admin = "exited"
    /\ destroyer = "join" => \A w \in Threads : w < di => Left(w)
    /\ destroyer \in {"free", "done"} => \A w \in Threads : Left(w)
    /\ freed => destroyer = "done"

(* A step that takes no thread back that left keeps what was joined.       *)
LEMMA EndFrame ==
    ASSUME EndInv, UNCHANGED <<destroyer, di, freed>>,
           admin = "exited" => admin' = "exited" /\ \A w \in Threads : Left(w) => Left(w)'
    PROVE  EndInv'
BY DEF EndInv

(* A signal brings no thread back that left.                               *)
LEMMA EndWake ==
    ASSUME Typing, SignalNotEmpty \/ BroadcastNotEmpty, NEW w \in Threads, Left(w)
    PROVE  Left(w)'
BY DEF Left, SignalNotEmpty, BroadcastNotEmpty, Waiting, Exited, Typing, TypeOK

(* A step of a thread that has not left brings none back that left.        *)
LEMMA EndMove ==
    ASSUME Typing, NEW v \in Threads, ~Left(v), NEW s, worker' = [worker EXCEPT ![v] = s],
           NEW w \in Threads, Left(w)
    PROVE  Left(w)'
BY DEF Left, Typing, TypeOK

(* Every step of a fixed pool keeps what the end of the pool rests on.     *)
LEMMA EndStep ==
    ASSUME min_thr_num = max_thr_num
    PROVE  Typing /\ EndInv /\ [Next]_vars => EndInv'
<1> SUFFICES ASSUME Typing, EndInv, [Next]_vars PROVE EndInv'
  OBVIOUS
<1> USE DEF poolVars, destroyVars, workerVars, adminVars
<1>1. live_thr_num = max_thr_num
  BY SizesAssumption DEF Typing, TypeOK, LiveBounds
<1>2. ASSUME NEW w \in Threads, Worker(w) \/ SpuriousWake(w) PROVE EndInv'
  <2>1. ~Left(w)
    BY <1>2 DEF Worker, SpuriousWake, Enter, Wait, Retire, Resume, StartTask,
                ReturnFromTask, EndTask, Left, Exited
  <2>2. \E s : worker' = [worker EXCEPT ![w] = s]
    BY <1>2 DEF Worker, SpuriousWake, Enter, Wait, Retire, Resume, StartTask,
                ReturnFromTask, EndTask, TestQueue, Dequeue, Quit, Decide
  <2>3. UNCHANGED <<admin, destroyer, di, freed>>
    BY <1>2 DEF Worker, SpuriousWake, Enter, Wait, Retire, Resume, StartTask,
                ReturnFromTask, EndTask
  <2> QED BY <2>1, <2>2, <2>3, EndMove, EndFrame
<1>3. ASSUME NEW p \in Producers,
             Block(p) \/ Refuse(p) \/ SpuriousProducerWake(p)
      PROVE  EndInv'
  BY <1>3, EndFrame DEF Block, Refuse, SpuriousProducerWake, Left
<1>4. ASSUME NEW p \in Producers, Put(p) PROVE EndInv'
  <2>1. UNCHANGED <<admin, destroyer, di, freed>> /\ SignalNotEmpty
    BY <1>4 DEF Put
  <2> QED BY <2>1, EndWake, EndFrame
<1>5. CASE Admin
  <2>1. admin # "exited" /\ UNCHANGED <<destroyer, di, freed>>
    BY <1>5 DEF Admin, AdminCheck, AdminRead, AdminCount, Grow, Shrink, AdminSignal
  <2> QED BY <2>1, EndFrame
<1>6. CASE Shutdown
  BY <1>6 DEF Shutdown, EndInv
<1>7. CASE JoinAdmin
  BY <1>7 DEF JoinAdmin, EndInv
<1>8. CASE Broadcast
  <2>1. CASE di < live_thr_num
    <3>1. UNCHANGED <<admin, destroyer, freed>> /\ destroyer = "broadcast"
      BY <1>8, <2>1 DEF Broadcast, Typing, TypeOK
    <3> QED BY <3>1 DEF EndInv
  <2>2. CASE ~(di < live_thr_num)
    <3>1. di' = 0 /\ destroyer' = "join" /\ UNCHANGED <<worker, admin, freed>>
          /\ destroyer = "broadcast"
      BY <1>8, <2>2 DEF Broadcast
    <3>2. \A w \in Threads : ~(w < 0)
      BY SizesAssumption DEF Threads
    <3> QED BY <3>1, <3>2 DEF EndInv
  <2> QED BY <2>1, <2>2
<1>9. CASE Join
  <2>1. UNCHANGED <<admin, worker, freed>> /\ destroyer = "join"
    BY <1>9 DEF Join
  <2>2. CASE di < live_thr_num
    <3>1. worker[di] \in Exited /\ di' = di + 1 /\ destroyer' = "join"
      BY <1>9, <2>1, <2>2 DEF Join, Typing, TypeOK
    <3>2. \A w \in Threads : w < di + 1 => w < di \/ w = di
      BY SizesAssumption DEF Threads, Typing, TypeOK
    <3> QED BY <2>1, <3>1, <3>2 DEF EndInv, Left
  <2>3. CASE ~(di < live_thr_num)
    <3>1. destroyer' = "free" /\ di' = di
      BY <1>9, <2>3 DEF Join
    <3>2. \A w \in Threads : w < di
      BY <1>1, <2>3, SizesAssumption DEF Threads, Typing, TypeOK
    <3> QED BY <2>1, <3>1, <3>2 DEF EndInv, Left
  <2> QED BY <2>2, <2>3
<1>10. CASE Free
  BY <1>10 DEF Free, EndInv, Left
<1>11. CASE UNCHANGED vars
  BY <1>11, EndFrame DEF vars, Left
<1> QED BY <1>2, <1>3, <1>4, <1>5, <1>6, <1>7, <1>8, <1>9, <1>10, <1>11
        DEF Next, Destroy

(* A pool of fixed size is freed when the administrator and every worker   *)
(* have left, whatever the order they leave in.  (In a pool that shrinks   *)
(* the destroyer joins only as many slots as there are live threads.)      *)
THEOREM FixedPoolFreedWhenQuiet ==
    ASSUME min_thr_num = max_thr_num
    PROVE  Spec => []FreedWhenQuiet
<1>1. Init => EndInv
  BY DEF Init, EndInv
<1>2. EndInv => FreedWhenQuiet
  BY DEF EndInv, FreedWhenQuiet, Left
<1>3. Typing /\ EndInv /\ [Next]_vars => EndInv'
  BY EndStep
<1> QED BY <1>1, <1>2, <1>3, TypingInit, TypingStep, PTL DEF Spec
-----------------------------------------------------------------------------
(***************************************************************************)
(* The ring holds the pending tasks, and the pool implements TaskQueue.    *)
(***************************************************************************)
(* The slots of the ring, counted from queue_front; an offset is at most   *)
(* the size of the ring, so that the remainder is one subtraction.         *)
At(f, i) == (f + i) % queue_max_size
Wrap(n) == IF n < queue_max_size THEN n ELSE n - queue_max_size

(* The i-th slot behind f, going round the ring.                           *)
LEMMA AtSlot ==
    ASSUME NEW f \in Slots, NEW i \in 0 .. queue_max_size
    PROVE  At(f, i) = Wrap(f + i) /\ At(f, i) \in Slots
BY SizesAssumption DEF At, Wrap, Slots

(* Fewer steps than there are slots lead to different slots.               *)
LEMMA WrapInjective ==
    ASSUME NEW N \in Nat \ {0}, NEW f \in 0 .. N - 1,
           NEW i \in 0 .. N - 1, NEW j \in 0 .. N - 1,
           (IF f + i < N THEN f + i ELSE f + i - N)
               = (IF f + j < N THEN f + j ELSE f + j - N)
    PROVE  i = j
<1>1. CASE f + i < N /\ f + j < N
  BY <1>1
<1>2. CASE f + i < N /\ f + j >= N
  BY <1>2
<1>3. CASE f + i >= N /\ f + j < N
  BY <1>3
<1>4. CASE f + i >= N /\ f + j >= N
  BY <1>4
<1> QED BY <1>1, <1>2, <1>3, <1>4

(* Two offsets below the size of the ring are two slots.                   *)
LEMMA AtInjective ==
    ASSUME NEW f \in Slots, NEW i \in 0 .. queue_max_size - 1,
           NEW j \in 0 .. queue_max_size - 1, At(f, i) = At(f, j)
    PROVE  i = j
<1>1. i \in 0 .. queue_max_size /\ j \in 0 .. queue_max_size
  BY SizesAssumption
<1>2. At(f, i) = Wrap(f + i) /\ At(f, j) = Wrap(f + j)
  BY <1>1, AtSlot
<1>3. Wrap(f + i) = Wrap(f + j)
  BY <1>2
<1> QED BY <1>3, WrapInjective, SizesAssumption DEF Wrap, Slots

(* Moving the front by one shifts the offsets by one.                      *)
LEMMA AtNext ==
    ASSUME NEW f \in Slots, NEW i \in 0 .. queue_max_size - 1
    PROVE  /\ At(f, 1) \in Slots
           /\ At(At(f, 1), i) = At(f, i + 1)
           /\ At(At(f, i), 1) = At(f, i + 1)
<1>1. /\ i \in 0 .. queue_max_size
      /\ i + 1 \in 0 .. queue_max_size
      /\ 1 \in 0 .. queue_max_size
  BY SizesAssumption
<1>2. /\ At(f, 1) = Wrap(f + 1) /\ At(f, 1) \in Slots
      /\ At(f, i) = Wrap(f + i) /\ At(f, i) \in Slots
      /\ At(f, i + 1) = Wrap(f + (i + 1))
  BY <1>1, AtSlot
<1>3. /\ At(At(f, 1), i) = Wrap(At(f, 1) + i)
      /\ At(At(f, i), 1) = Wrap(At(f, i) + 1)
  BY <1>1, <1>2, AtSlot
<1>4. f \in Int /\ 0 <= f /\ f < queue_max_size
  BY SizesAssumption DEF Slots
<1>5. Wrap(Wrap(f + 1) + i) = Wrap(f + (i + 1))
  <2>1. CASE f + 1 < queue_max_size
    BY <2>1, <1>4, SizesAssumption DEF Wrap
  <2>2. CASE f + 1 >= queue_max_size
    BY <2>2, <1>4, SizesAssumption DEF Wrap
  <2> QED BY <2>1, <2>2, <1>4, SizesAssumption
<1>6. Wrap(Wrap(f + i) + 1) = Wrap(f + (i + 1))
  <2>1. CASE f + i < queue_max_size
    BY <2>1, <1>4, SizesAssumption DEF Wrap
  <2>2. CASE f + i >= queue_max_size
    BY <2>2, <1>4, SizesAssumption DEF Wrap
  <2> QED BY <2>1, <2>2, <1>4, SizesAssumption
<1> QED BY <1>2, <1>3, <1>5, <1>6
-----------------------------------------------------------------------------
(* A slot outside the pending window still holds the arg of a task that    *)
(* was taken, or what malloc left: this is what makes it safe to free, and *)
(* why the invariant has to speak of every slot.                           *)
RingSlots ==
    \A i \in 0 .. queue_max_size - 1 :
        LET arg == task_queue[At(queue_front, i)]
        IN  IF i < queue_size THEN arg = taken + 1 + i ELSE arg <= taken

RearFollows == queue_rear = At(queue_front, queue_size)

FreedWereTaken == \A a \in freedArgs : a <= taken

Ring == RingSlots /\ RearFollows /\ FreedWereTaken

(* What lies in the slots from queue_front on are the pending tasks.       *)
LEMMA RingImpliesPending == Typing /\ Ring => RingHoldsPending
<1> SUFFICES ASSUME Typing, Ring, NEW i \in 0 .. queue_size - 1
             PROVE  LET arg == task_queue[(queue_front + i) % queue_max_size]
                    IN  arg = taken + 1 + i /\ arg \notin freedArgs
  BY DEF RingHoldsPending, Typing, Counted
<1>1. i \in 0 .. queue_max_size - 1 /\ i < queue_size
  BY SizesAssumption DEF Typing, TypeOK
<1>2. task_queue[At(queue_front, i)] = taken + 1 + i
  BY <1>1 DEF Ring, RingSlots
<1>3. taken + 1 + i \notin freedArgs
  <2>1. ~(taken + 1 + i <= taken)
    BY DEF Typing, TypeOK
  <2> QED BY <2>1 DEF Ring, FreedWereTaken
<1> QED BY <1>2, <1>3 DEF At

(* What leaves the slots and the counters alone keeps the ring.            *)
LEMMA RingFrame ==
    ASSUME Ring,
           UNCHANGED <<queue_front, queue_rear, queue_size, task_queue, taken,
                       freedArgs>>
    PROVE  Ring'
BY DEF Ring, RingSlots, RearFollows, FreedWereTaken

(* Taking the first task keeps the ring.                                   *)
LEMMA RingDequeue ==
    ASSUME Typing, Ring, NEW w \in Threads, Dequeue(w)
    PROVE  Ring'
<1> USE SizesAssumption DEF Typing, TypeOK
<1>1. /\ queue_front \in Slots
      /\ queue_front' = At(queue_front, 1)
      /\ queue_size \in 1 .. queue_max_size
      /\ queue_size' = queue_size - 1
      /\ taken \in Nat /\ taken' = taken + 1
      /\ task_queue' = task_queue
  BY DEF Dequeue, At
<1>2. ASSUME NEW i \in 0 .. queue_max_size - 1
      PROVE  IF i < queue_size' THEN task_queue'[At(queue_front', i)] = taken' + 1 + i
                                ELSE task_queue'[At(queue_front', i)] <= taken'
  <2>1. At(queue_front', i) = At(queue_front, i + 1)
    BY <1>1, AtNext
  <2>2. CASE i = queue_max_size - 1
    <3>1. At(queue_front, i + 1) = At(queue_front, 0)
      <4>1. i + 1 \in 0 .. queue_max_size /\ 0 \in 0 .. queue_max_size
        BY <2>2
      <4>2. /\ At(queue_front, i + 1) = Wrap(queue_front + (i + 1))
            /\ At(queue_front, 0) = Wrap(queue_front + 0)
        BY <1>1, <4>1, AtSlot
      <4>3. Wrap(queue_front + (i + 1)) = Wrap(queue_front + 0)
        BY <1>1, <2>2 DEF Wrap, Slots
      <4> QED BY <4>2, <4>3
    <3>2. task_queue[At(queue_front, 0)] = taken + 1
      BY <1>1 DEF Ring, RingSlots
    <3> QED BY <1>1, <2>1, <2>2, <3>1, <3>2
  <2>3. CASE i # queue_max_size - 1
    <3>1. i + 1 \in 0 .. queue_max_size - 1
      BY <2>3
    <3>2. IF i + 1 < queue_size
          THEN task_queue[At(queue_front, i + 1)] = taken + 1 + (i + 1)
          ELSE task_queue[At(queue_front, i + 1)] <= taken
      BY <3>1 DEF Ring, RingSlots
    <3>3. task_queue[At(queue_front, i + 1)] \in Int
      BY <1>1, <3>1, AtSlot DEF Tasks, NoArg, Garbage
    <3> QED BY <1>1, <2>1, <3>2, <3>3
  <2> QED BY <2>2, <2>3
<1>3. RearFollows'
  <2>1. queue_size' \in 0 .. queue_max_size - 1
    BY <1>1
  <2>2. At(queue_front', queue_size') = At(queue_front, queue_size)
    BY <1>1, <2>1, AtNext
  <2> QED BY <2>2 DEF Dequeue, Ring, RearFollows
<1>4. FreedWereTaken'
  <2>1. \A a \in freedArgs : a \in Int
    BY DEF Tasks, Garbage
  <2> QED BY <1>1, <2>1 DEF Dequeue, Ring, FreedWereTaken
<1>5. RingSlots'
  BY <1>2 DEF RingSlots
<1> QED BY <1>3, <1>4, <1>5 DEF Ring

(* Putting a task behind the last keeps the ring.                          *)
LEMMA RingPut ==
    ASSUME Typing, Ring, NEW p \in Producers, Put(p)
    PROVE  Ring'
<1> USE SizesAssumption DEF Typing, TypeOK
<1>1. /\ queue_front \in Slots /\ queue_front' = queue_front
      /\ queue_size \in 0 .. queue_max_size - 1
      /\ queue_size' = queue_size + 1
      /\ taken \in Nat /\ taken' = taken
      /\ queue_rear \in Slots
      /\ queue_rear' = At(queue_rear, 1)
      /\ accepted + 1 = taken + 1 + queue_size
      /\ task_queue' = [task_queue EXCEPT ![queue_rear] = accepted + 1]
  BY DEF Put, At, Counted
<1>2. queue_rear = At(queue_front, queue_size)
  BY DEF Ring, RearFollows
<1>3. ASSUME NEW i \in 0 .. queue_max_size - 1
      PROVE  IF i < queue_size' THEN task_queue'[At(queue_front', i)] = taken' + 1 + i
                                ELSE task_queue'[At(queue_front', i)] <= taken'
  <2>1. CASE i = queue_size
    BY <1>1, <1>2, <2>1
  <2>2. CASE i # queue_size
    <3>1. At(queue_front, i) # queue_rear
      BY <1>1, <1>2, <2>2, AtInjective
    <3>2. task_queue'[At(queue_front, i)] = task_queue[At(queue_front, i)]
      BY <1>1, <3>1, AtSlot
    <3> QED BY <1>1, <2>2, <3>2 DEF Ring, RingSlots
  <2> QED BY <2>1, <2>2
<1>4. RearFollows'
  BY <1>1, <1>2, AtNext DEF RearFollows
<1>5. FreedWereTaken'
  <2>1. task_queue[queue_rear] <= taken
    BY <1>1, <1>2 DEF Ring, RingSlots
  <2>2. \A a \in freedArgs' : a \in freedArgs \/ a = task_queue[queue_rear]
    BY DEF Put
  <2> QED BY <1>1, <2>1, <2>2 DEF Ring, FreedWereTaken
<1>6. RingSlots'
  BY <1>3 DEF RingSlots
<1> QED BY <1>4, <1>5, <1>6 DEF Ring

(* The test of the queue keeps the ring, whether or not a task is taken.   *)
LEMMA RingTestQueue ==
    ASSUME Typing, Ring, NEW w \in Threads, TestQueue(w)
    PROVE  Ring'
<1>1. CASE Quit(w) \/ Decide(w)
  BY <1>1, RingFrame DEF Quit, Decide, queueVars
<1> QED BY <1>1, RingDequeue DEF TestQueue

(* The ring is empty at first.                                             *)
LEMMA RingInit == Init => Ring
<1> SUFFICES ASSUME Init PROVE Ring
  OBVIOUS
<1>1. 0 \in Slots /\ At(0, 0) = Wrap(0 + 0) /\ Wrap(0 + 0) = 0
  BY AtSlot, SizesAssumption DEF Slots, Wrap
<1>2. \A i \in 0 .. queue_max_size - 1 : At(0, i) \in Slots
  BY <1>1, AtSlot, SizesAssumption
<1>3. \A n \in Slots : task_queue[n] <= 0
  BY DEF Init, NoArg, Garbage
<1> QED BY <1>1, <1>2, <1>3, SizesAssumption
        DEF Init, Ring, RingSlots, RearFollows, FreedWereTaken

(* Every step keeps the ring.                                              *)
LEMMA RingStep == Typing /\ Ring /\ [Next]_vars => Ring'
<1> SUFFICES ASSUME Typing, Ring, [Next]_vars PROVE Ring'
  OBVIOUS
<1>1. ASSUME NEW w \in Threads, Enter(w) \/ Resume(w) PROVE Ring'
  BY <1>1, RingTestQueue DEF Enter, Resume
<1>2. ASSUME NEW w \in Threads,
             Wait(w) \/ SpuriousWake(w) \/ Retire(w) \/ StartTask(w)
                \/ ReturnFromTask(w) \/ EndTask(w)
      PROVE  Ring'
  BY <1>2, RingFrame
     DEF Wait, SpuriousWake, Retire, StartTask, ReturnFromTask, EndTask, queueVars
<1>3. ASSUME NEW p \in Producers, Put(p) PROVE Ring'
  BY <1>3, RingPut
<1>4. ASSUME NEW p \in Producers, Block(p) \/ Refuse(p) \/ SpuriousProducerWake(p)
      PROVE  Ring'
  BY <1>4, RingFrame DEF Block, Refuse, SpuriousProducerWake, queueVars
<1>5. CASE Admin
  BY <1>5, RingFrame
     DEF Admin, AdminCheck, AdminRead, AdminCount, Grow, Shrink, AdminSignal, queueVars
<1>6. CASE Destroy
  BY <1>6, RingFrame
     DEF Destroy, Shutdown, JoinAdmin, Broadcast, Join, Free, queueVars
<1>7. CASE UNCHANGED vars
  BY <1>7, RingFrame DEF vars, queueVars
<1> QED BY <1>1, <1>2, <1>3, <1>4, <1>5, <1>6, <1>7 DEF Next, Worker

(* The ring holds the accepted tasks that nobody took, in order, and no    *)
(* arg of theirs has been freed: threadpool_add_task, which frees what it  *)
(* finds at queue_rear, only ever finds there the arg of a taken task or   *)
(* what malloc left.                                                       *)
THEOREM RingIsPending == Spec => []RingHoldsPending
<1>1. Typing /\ Ring => RingHoldsPending
  BY RingImpliesPending
<1> QED BY <1>1, TypingInit, TypingStep, RingInit, RingStep, PTL DEF Spec
-----------------------------------------------------------------------------
(* The refinement: the pending tasks are counted from the last one taken.  *)
From(t, n) == [i \in 1 .. n |-> t + i]

(* From(t, n) is a queue: what appending to it and taking its head give.   *)
LEMMA FromIsQueue ==
    ASSUME NEW t \in Nat, NEW n \in Nat
    PROVE  /\ From(t, n) \in Seq(Nat)
           /\ Len(From(t, n)) = n
           /\ Append(From(t, n), t + n + 1) = From(t, n + 1)
           /\ n > 0 => /\ From(t, n) # << >>
                       /\ Head(From(t, n)) = t + 1
                       /\ Tail(From(t, n)) = From(t + 1, n - 1)
<1>1. From(t, n) \in Seq(Nat) /\ Len(From(t, n)) = n
  BY DEF From
<1>2. Append(From(t, n), t + n + 1) = From(t, n + 1)
  BY <1>1 DEF From
<1>3. ASSUME n > 0
      PROVE  /\ From(t, n) # << >>
             /\ Head(From(t, n)) = t + 1
             /\ Tail(From(t, n)) = From(t + 1, n - 1)
  <2>1. From(t, n) # << >> /\ Head(From(t, n)) = t + 1
    BY <1>1, <1>3 DEF From
  <2>2. Tail(From(t, n)) = From(t + 1, n - 1)
    BY <1>1, <1>3 DEF From
  <2> QED BY <2>1, <2>2
<1> QED BY <1>1, <1>2, <1>3

Pending == [i \in 1 .. queue_size |->
               task_queue[(queue_front + i - 1) % queue_max_size]]

(* The pending tasks are numbered from the last one taken.                 *)
LEMMA PendingIs == Typing /\ Ring => Pending = From(taken, queue_size)
<1> SUFFICES ASSUME Typing, Ring, NEW i \in 1 .. queue_size
             PROVE  task_queue[(queue_front + i - 1) % queue_max_size] = taken + i
  BY DEF Pending, From
<1>1. i - 1 \in 0 .. queue_max_size - 1 /\ i - 1 < queue_size
  BY SizesAssumption DEF Typing, TypeOK
<1>2. task_queue[At(queue_front, i - 1)] = taken + 1 + (i - 1)
  BY <1>1 DEF Ring, RingSlots
<1>3. queue_front + (i - 1) = queue_front + i - 1 /\ taken + 1 + (i - 1) = taken + i
  BY SizesAssumption DEF Typing, TypeOK, Slots
<1> QED BY <1>2, <1>3 DEF At
-----------------------------------------------------------------------------
(* The workers between taking a task and returning from it hold distinct   *)
(* tasks that were taken: the return of one finishes just that task.       *)
Holding == In({"took", "run"})

Hands ==
    /\ \A w \in Holding : task[w] \in 1 .. taken
    /\ \A v, w \in Holding : task[v] = task[w] => v = w

Running == {task[w] : w \in Holding}

(* What leaves the tasks in the hands of workers and the count of taken    *)
(* ones alone keeps which tasks run.                                       *)
LEMMA HandsFrame ==
    ASSUME Hands, Holding' = Holding,
           \A w \in Holding : task'[w] = task[w], taken' = taken
    PROVE  Hands' /\ Running' = Running
BY DEF Hands, Running

(* Nobody else's state or task is touched, and w held none.                *)
LEMMA HandsDequeue ==
    ASSUME Typing, Ring, Hands, NEW w \in Threads, Dequeue(w), w \notin Holding
    PROVE  /\ Hands'
           /\ Running' = Running \cup {taken + 1}
<1> USE SizesAssumption DEF Typing, TypeOK
<1>1. Holding' = Holding \cup {w}
  BY DEF Dequeue, Holding, In
<1>2. task'[w] = taken + 1
  <2>1. 0 \in 0 .. queue_max_size - 1 /\ 0 < queue_size /\ 0 \in 0 .. queue_max_size
    BY DEF Dequeue
  <2>2. task_queue[At(queue_front, 0)] = taken + 1 + 0
    BY <2>1 DEF Ring, RingSlots
  <2>3. At(queue_front, 0) = queue_front
    BY <2>1, AtSlot DEF Wrap, Slots
  <2> QED BY <2>2, <2>3 DEF Dequeue
<1>3. \A v \in Holding : task'[v] = task[v]
  BY DEF Dequeue, Holding, In
<1>4. taken \in Nat /\ taken' = taken + 1
  BY DEF Dequeue
<1>5. \A v \in Holding' : task'[v] \in 1 .. taken'
  <2>1. \A v \in Holding : task'[v] \in 1 .. taken + 1
    BY <1>3, <1>4 DEF Hands
  <2> QED BY <1>1, <1>2, <1>4, <2>1
<1>6. ASSUME NEW u \in Holding', NEW v \in Holding', task'[u] = task'[v]
      PROVE  u = v
  <2>1. \A x \in Holding : task'[x] # taken + 1
    BY <1>3, <1>4 DEF Hands
  <2>2. CASE u \in Holding /\ v \in Holding
    BY <2>2, <1>3, <1>6 DEF Hands
  <2>3. CASE u = w \/ v = w
    BY <2>1, <2>3, <1>1, <1>2, <1>6
  <2> QED BY <1>1, <2>2, <2>3
<1>7. Running' = Running \cup {taken + 1}
  BY <1>1, <1>2, <1>3 DEF Running
<1>8. Hands'
  BY <1>5, <1>6 DEF Hands
<1> QED BY <1>7, <1>8

(* A task that returns leaves the hands of its worker.                     *)
LEMMA HandsReturn ==
    ASSUME Typing, Hands, NEW w \in Threads, ReturnFromTask(w)
    PROVE  /\ Hands'
           /\ task[w] \in Running
           /\ Running' = Running \ {task[w]}
<1>1. w \in Holding /\ Holding' = Holding \ {w}
  BY DEF ReturnFromTask, Holding, In, Typing, TypeOK
<1>2. \A v \in Holding' : task'[v] = task[v]
  BY <1>1 DEF ReturnFromTask, Holding, In, Typing, TypeOK
<1>3. taken' = taken
  BY DEF ReturnFromTask, queueVars
<1>4. Hands'
  BY <1>1, <1>2, <1>3 DEF Hands
<1>5. \A v \in Holding : v # w => task[v] # task[w]
  BY <1>1 DEF Hands
<1>6. Running' = Running \ {task[w]}
  BY <1>1, <1>2, <1>5 DEF Running
<1> QED BY <1>1, <1>4, <1>6 DEF Running
-----------------------------------------------------------------------------
(* The steps of the pool, seen through the mapping: one lemma for each     *)
(* step of the abstract queue, one for the steps it does not see.          *)
LEMMA PendingIsNext == Typing' /\ Ring' => Pending' = From(taken', queue_size')
<1>1. (Typing /\ Ring => Pending = From(taken, queue_size))'
  BY PendingIs, PTL
<1> QED BY <1>1 DEF From

(* A worker that takes a task takes the first of the queue.                *)
LEMMA MapsToTake ==
    ASSUME Typing, Ring, Hands, Typing', NEW w \in Threads, Dequeue(w),
           w \notin Holding, shutdown' = shutdown
    PROVE  Ring' /\ Hands' /\ Fifo!Take
<1>1. Ring' /\ Hands' /\ Running' = Running \cup {taken + 1}
  BY RingDequeue, HandsDequeue
<1>2. Pending = From(taken, queue_size)
  BY PendingIs
<1>3. Pending' = From(taken + 1, queue_size - 1)
  BY <1>1, PendingIsNext DEF Dequeue
<1>4. taken \in Nat /\ queue_size \in Nat /\ queue_size > 0
  BY SizesAssumption DEF Dequeue, Typing, TypeOK
<1>5. Pending # << >> /\ Head(Pending) = taken + 1 /\ Pending' = Tail(Pending)
  BY <1>2, <1>3, <1>4, FromIsQueue
<1>6. ~shutdown /\ accepted' = accepted
  BY DEF Dequeue
<1>7. /\ ~shutdown
      /\ Pending # << >>
      /\ Running' = Running \cup {Head(Pending)}
      /\ Pending' = Tail(Pending)
      /\ accepted' = accepted
      /\ shutdown' = shutdown
  BY <1>1, <1>5, <1>6
<1>8. Fifo!Take
  BY <1>7 DEF Fifo!Take, Pending, Running, Holding, In
<1> QED BY <1>1, <1>8

(* A task that is put into the ring is submitted to the queue.             *)
LEMMA MapsToSubmit ==
    ASSUME Typing, Ring, Hands, Typing', NEW p \in Producers, Put(p)
    PROVE  Ring' /\ Hands' /\ Fifo!Submit
<1> USE DEF Typing, TypeOK
<1>1. Holding' = Holding /\ task' = task /\ taken' = taken /\ shutdown' = shutdown
  BY SignalKeeps DEF Put, Holding, destroyVars
<1>2. Ring' /\ Hands' /\ Running' = Running
  BY <1>1, RingPut, HandsFrame
<1>3. Pending = From(taken, queue_size) /\ Pending' = From(taken, queue_size + 1)
  BY <1>1, <1>2, PendingIs, PendingIsNext DEF Put
<1>4. taken \in Nat /\ queue_size \in Nat /\ accepted = taken + queue_size
  BY SizesAssumption DEF Counted
<1>5. Len(Pending) = queue_size /\ Pending' = Append(Pending, accepted + 1)
  BY <1>3, <1>4, FromIsQueue
<1>6. ~shutdown /\ queue_size < queue_max_size /\ accepted < MaxTasks
      /\ accepted' = accepted + 1
  BY SizesAssumption DEF Put
<1>7. /\ ~shutdown
      /\ Len(Pending) < queue_max_size
      /\ accepted < MaxTasks
      /\ accepted' = accepted + 1
      /\ Pending' = Append(Pending, accepted + 1)
      /\ Running' = Running
      /\ shutdown' = shutdown
  BY <1>1, <1>2, <1>5, <1>6
<1>8. Fifo!Submit
  BY <1>7 DEF Fifo!Submit, Pending, Running, Holding, In
<1> QED BY <1>2, <1>8

(* What the abstract queue sees of the ring and of the shutdown.           *)
queueSeen == <<queue_front, queue_rear, queue_size, task_queue, freedArgs,
               taken, accepted>>

(* A task that returns is finished.                                        *)
LEMMA MapsToFinish ==
    ASSUME Typing, Ring, Hands, NEW w \in Threads, ReturnFromTask(w)
    PROVE  Ring' /\ Hands' /\ Fifo!Finish
<1>1. UNCHANGED <<queueSeen, shutdown>>
  BY DEF ReturnFromTask, queueVars, destroyVars, queueSeen
<1>2. Hands' /\ task[w] \in Running /\ Running' = Running \ {task[w]}
  BY HandsReturn
<1>3. Ring'
  BY <1>1, RingFrame DEF queueSeen
<1>4. \E t \in Running :
         /\ Running' = Running \ {t}
         /\ Pending' = Pending
         /\ accepted' = accepted
         /\ shutdown' = shutdown
  BY <1>1, <1>2 DEF queueSeen, Pending
<1>5. Fifo!Finish
  BY <1>4 DEF Fifo!Finish, Pending, Running, Holding, In
<1> QED BY <1>2, <1>3, <1>5

(* Every other step leaves the queue as it was.                            *)
LEMMA MapsToStutter ==
    ASSUME Ring, Hands, Holding' = Holding, UNCHANGED <<queueSeen, shutdown>>,
           \A w \in Holding : task'[w] = task[w]
    PROVE  Ring' /\ Hands' /\ UNCHANGED Fifo!vars
<1>1. Ring'
  BY RingFrame DEF queueSeen
<1>2. Hands' /\ Running' = Running
  BY HandsFrame DEF queueSeen
<1>3. Pending' = Pending /\ accepted' = accepted /\ shutdown' = shutdown
  BY DEF queueSeen, Pending
<1>4. UNCHANGED Fifo!vars
  BY <1>2, <1>3 DEF Fifo!vars, Pending, Running, Holding, In
<1> QED BY <1>1, <1>2, <1>4

(* Initial states are initial states of the queue.                         *)
LEMMA RefinementInit == Init => Hands /\ Fifo!Init
<1> SUFFICES ASSUME Init PROVE Hands /\ Fifo!Init
  OBVIOUS
<1>1. Holding = {}
  BY DEF Init, Holding, In
<1>2. Running = {} /\ Hands
  BY <1>1 DEF Running, Hands
<1>3. Pending = << >>
  BY DEF Init, Pending
<1>4. accepted = 0 /\ shutdown = FALSE
  BY DEF Init
<1>5. Fifo!Init
  BY <1>2, <1>3, <1>4 DEF Fifo!Init, Pending, Running, Holding, In
<1> QED BY <1>2, <1>5

(* Every step is a step of the queue or leaves it alone.                   *)
LEMMA RefinementStep ==
    ASSUME Typing, Ring, Hands, Typing', [Next]_vars
    PROVE  Ring' /\ Hands' /\ [Fifo!Next]_Fifo!vars
<1> USE DEF queueSeen, queueVars, workerVars, destroyVars
<1>1. ASSUME NEW w \in Threads, Enter(w) \/ Resume(w)
      PROVE  Ring' /\ Hands' /\ [Fifo!Next]_Fifo!vars
  <2>1. TestQueue(w) /\ w \notin Holding /\ shutdown' = shutdown
    BY <1>1 DEF Enter, Resume, Holding, In
  <2>2. CASE Dequeue(w)
    BY <2>1, <2>2, MapsToTake DEF Fifo!Next
  <2>3. CASE Quit(w) \/ Decide(w)
    <3>1. Holding' = Holding
      BY <2>1, <2>3, MoveKeeps DEF Quit, Decide, Holding, In
    <3> QED BY <2>1, <2>3, <3>1, MapsToStutter DEF Quit, Decide
  <2> QED BY <2>1, <2>2, <2>3 DEF TestQueue
<1>2. ASSUME NEW w \in Threads,
             Wait(w) \/ SpuriousWake(w) \/ Retire(w) \/ StartTask(w) \/ EndTask(w)
      PROVE  Ring' /\ Hands' /\ [Fifo!Next]_Fifo!vars
  <2>1. Holding' = Holding
    BY <1>2, MoveKeeps
       DEF Wait, SpuriousWake, Retire, StartTask, EndTask, Holding
  <2> QED BY <1>2, <2>1, MapsToStutter
          DEF Wait, SpuriousWake, Retire, StartTask, EndTask
<1>3. ASSUME NEW w \in Threads, ReturnFromTask(w)
      PROVE  Ring' /\ Hands' /\ [Fifo!Next]_Fifo!vars
  BY <1>3, MapsToFinish DEF Fifo!Next
<1>4. ASSUME NEW p \in Producers, Put(p)
      PROVE  Ring' /\ Hands' /\ [Fifo!Next]_Fifo!vars
  BY <1>4, MapsToSubmit DEF Fifo!Next
<1>5. ASSUME NEW p \in Producers, Block(p) \/ Refuse(p) \/ SpuriousProducerWake(p)
      PROVE  Ring' /\ Hands' /\ [Fifo!Next]_Fifo!vars
  <2>1. Holding' = Holding
    BY <1>5 DEF Block, Refuse, SpuriousProducerWake, Holding, In
  <2> QED BY <1>5, <2>1, MapsToStutter DEF Block, Refuse, SpuriousProducerWake
<1>6. CASE Admin
  <2>1. Holding' = Holding
    <3>1. CASE Grow
      BY <3>1, GrowTypes DEF Holding, In, Exited
    <3>2. CASE AdminSignal
      BY <3>2, SignalKeeps DEF AdminSignal, Holding
    <3>3. CASE AdminCheck \/ AdminRead \/ AdminCount \/ Shrink
      BY <3>3 DEF AdminCheck, AdminRead, AdminCount, Shrink, Holding, In
    <3> QED BY <1>6, <3>1, <3>2, <3>3 DEF Admin
  <2>2. UNCHANGED <<queueSeen, shutdown, task>>
    BY <1>6 DEF Admin, AdminCheck, AdminRead, AdminCount, Grow, Shrink, AdminSignal
  <2> QED BY <2>1, <2>2, MapsToStutter
<1>7. CASE Shutdown
  <2>1. Holding' = Holding /\ UNCHANGED <<queueSeen, task>> /\ shutdown' = TRUE
    BY <1>7 DEF Shutdown, Holding, In
  <2>2. Ring'
    BY <2>1, RingFrame
  <2>3. Hands' /\ Running' = Running
    BY <2>1, HandsFrame
  <2>4. Pending' = Pending /\ accepted' = accepted /\ shutdown' = TRUE
    BY <2>1 DEF Pending
  <2>5. Fifo!Close
    BY <2>3, <2>4 DEF Fifo!Close, Pending, Running, Holding, In
  <2> QED BY <2>2, <2>3, <2>5 DEF Fifo!Next
<1>8. CASE JoinAdmin \/ Broadcast \/ Join \/ Free
  <2>1. UNCHANGED <<queueSeen, shutdown, task>> /\ (worker' = worker \/ BroadcastNotEmpty)
    BY <1>8 DEF JoinAdmin, Broadcast, Join, Free
  <2>2. Holding' = Holding
    BY <2>1, SignalKeeps DEF Holding, In
  <2> QED BY <2>1, <2>2, MapsToStutter
<1>9. CASE UNCHANGED vars
  BY <1>9, MapsToStutter DEF vars, Holding, In
<1> QED BY <1>1, <1>2, <1>3, <1>4, <1>5, <1>6, <1>7, <1>8, <1>9
        DEF Next, Worker, Destroy

(* The pool is a bounded first-in first-out queue: each accepted task is   *)
(* handed to one worker, once, in the order of acceptance, and nothing is  *)
(* accepted or handed out after the shutdown.                              *)
THEOREM PoolImplementsQueue == Spec => ImplementsQueue
<1>1. Typing /\ Ring /\ Hands /\ [Next]_vars
         => Typing' /\ Ring' /\ Hands' /\ [Fifo!Next]_Fifo!vars
  BY TypingStep, RefinementStep
<1> QED BY <1>1, TypingInit, RingInit, RefinementInit, PTL
        DEF Spec, ImplementsQueue, Fifo!Spec
=============================================================================
