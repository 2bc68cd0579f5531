# OpenSCL in TLA+

A verification project for the OpenSCL repository (`src/`): a C library of
containers and memory pools, a C++ library, and a set of unclassified programs,
among them a thread pool. The modules here are translated from the source
files; PROJECT.json maps every definition to the lines it stands for.

## Inventory

| component | state | operations | what is hard | what makes it correct |
|---|---|---|---|---|
| thread pool (`Cpp/unclassify/threadpool.c`) | ring of tasks, three thread counters, shutdown flag, `threads[]`, two condition variables | create, add_task, worker loop, administrator loop, destroy | threads interleave; unlocked shutdown; stale counts; slots reused | bounded FIFO, each task taken once, no lost wakeup, counters agree with threads, destroy waits for all threads |
| shared-memory pool (`C/source/memory/source/c_sharemem.c`) | region cursor, free list per size class | allocate, deallocate, refill, chunk alloc | exhaustion, boundary sizes, leftover fragments | live blocks are disjoint, inside the region, nothing handed out twice |
| heap pool (`c_mempool.c`) | same, grows with malloc | same | partial failure of malloc, size classes | same, and malloc failure leaves the pool usable |
| dbuf pool (`mempool.c`) | list of bump blocks with used counts | alloc, free | double free, rounding | a block is freed when its last allocation is |
| hash map (`scl_hashmap.c`) | bucket array, entries, free list, iterator | get, set, delete, iterate, clear, copy, merge, expand | expansion while iterating, entry reuse, pool exhaustion | behaves as a finite map, the iterator visits each entry once |
| skip list (`skiplist.c`) | lines of nodes | insert, remove, find | random levels, empty top lines | each line sorted and a sublist of the one below |
| chained map (`cmap.c`), lists, queue, stack, deque | linked nodes | insert, remove, get, clear, destroy | empty and one-element cases, ownership | behave as the sequence or map they implement |
| uuid (`uuid.c`) | bytes still to read | generate | a device that gives too little | only the bits of version and variant are not random |
| select servers (`C/unclassify/server.c`) | client table, fd sets | accept, receive, log out | descriptors that come again, close of the wrong one | table and descriptors agree |
| recursive directory removal (`rm_dir.c`) | the recursion | remove | entries made and removed meanwhile, each call that fails | what is left has a reason |
| INI reader plus (`IniReaderPlus.cpp`) | list of line records, dictionary of the same records, the file | scan, lookup, modify, add, remove, sync, reload | two views of shared records, a file that others edit, failed scans | lookups answer what the text said, the text keeps what was not changed |
| INI reader (`IniReader.cpp`), configuration reader (`cfg_reader.cpp`) | vector of lines and dictionary; dictionary and scan flag | parse, lookup, set, add section, write; lookup | scans that fail half-way and are repeated | text and dictionary agree; answers are the first values read |
| incremental HTTP response parser (`HttpResponseParse.cpp`, `DataNode.cpp`) | phase, position, headers, bodies, byte buffer | push, parse | a response cut at any byte, parsed at any time | the result does not depend on the cuts |
| HTTP packer (`HttpPacker.cpp`) | lines, body, packed block | set, pack, destroy | two passes that must agree, reuse, failed malloc | what is written fills the block that was counted for it |
| string copy, error numbers, TLV, process demos | none | formatting, I/O | - | not modelled |
| cJSON, http_parser | vendored | - | - | not modelled |

The components are nearly independent. The hash map allocates from the
shared-memory pool, the HTTP parser uses the data nodes, and the containers share
`dscommon.c`. Only the thread pool has threads; they
share one structure under two mutexes, and `threadpool_destroy` and part of the
administrator touch it without them. The server, the readers and the directory removal are concurrent
with what is outside: peers, and other programs that edit the same files.

## Plan

The project keeps to a dozen questions for TLC, so a run checks all that one instance can answer, and
components that share no state are composed into one run that starts each of them in turn.

1. **ThreadPool** (done), with `TaskQueue` as its abstract specification, and its proofs (done).
2. **SharePool**, **HeapPool**, **DbufPool** (done), with `Allocator`, a bag of disjoint blocks, as their
   abstract specification, and their proofs (done: every property of `memory_pools`).
3. **HashMap** against **FiniteMap**, **SkipList**, **Cmap**, **DoubleList**, **SingleList** (done, one run).
   Their proofs are done: every property of `containers`.
4. **HttpResponse** on **DataNode**, **HttpPacker**, **IniReaderPlus**, **IniReader**, **CfgReader**,
   **SelectServer**, **RmDir**, **Uuid** (done, one run). The proofs of the buffer, the configuration reader, both
   INI readers, the packer, the server, the removal, the identifiers and the response parser are done: every property of `readers_and_servers`.

## The thread pool

`ThreadPool.tla` models all of `threadpool.c` except the failure paths of creation (see Not modelled).

*State.* The variables keep the names of `threadpool_t`. `worker[w]` is the state of the
thread of slot `w` of `threads[]`: `none` (a zero id), `ready` (about to lock at line 288),
`deciding` (the lock held, between the test of line 291 and the wait of 294), `waiting`, `woken`,
`took`, `run`, `ran` (before, during and after the task), `reaped` (left at 306) and `quit` (left at
316). `producer[p]`, `admin` and `destroyer` are the program counters of the callers of
`threadpool_add_task`, of the administrator (with `seen`, the counts it copied, and `signals`, the
signals it still sends) and of `threadpool_destroy` (with `di`, its loop index). `task_queue` holds the
argument of each slot, which the code leaves there after the task is dequeued; the k-th accepted task has
argument k, every task its own, and a slot never written holds NULL or garbage, as malloc leaves
it. `freedArgs` collects what `add_task` passes to `free`; `accepted` and `taken` count.

*Steps.* A critical section is one step, enabled when no worker is `deciding`: that is the only
place where the lock is held while another thread can interfere, because `shutdown` is written, and
`queue_not_empty` is broadcast and signalled, without the lock. The administrator's two critical
sections, its decision and each of its signals are separate steps, and so are the steps of the
loops of `threadpool_destroy`, which read `live_thr_num` unlocked. Both waits may wake spuriously.
`is_thread_alive` of an exited thread that was not joined answers anything in `ExitedAnswers`: C
libraries differ on it. After `freed` no thread takes a step that touches the pool.

*Assumptions on callers.* `threadpool_destroy` is called once and no call of
`threadpool_add_task` starts after it returned; `min_thr_num <= max_thr_num`; a task returns. The
compiler does not cache the unlocked reads (each loop contains library calls).

*Scaled constants.* `MIN_WAIT_TASK_NUM` and `DEFAULT_THREAD_NUM` are 10 in the code and 1 or 2 in the runs.
What matters is whether they can be reached, and whether more retirements can be
requested than there are idle threads; 2 against at most 3 workers covers both. `MaxTasks` bounds submissions: 2
to 4 tasks over a ring of 1 or 2 slots wrap the ring and fill it.

### Runs

| run | question | result |
|---|---|---|
| `elastic_pool` | does a pool of 1 to 2 workers with two submitters and a destroyer implement `TaskQueue`, hold exactly the pending tasks in the ring with their arguments alive, leave nobody asleep beside free room, stay between its bounds and count its threads right while slots are retired and refilled, whatever pthread_kill says of exited threads? | holds (966,000 states) |
| `fixed_pool_live` | with min = max, are wakeups never lost and is the pool freed only when all threads left; under fairness, is every task taken, every blocked submitter woken, and does destroy get past the administrator? | holds |
| `stolen_wakeup` | line 381: a task wakes a worker that will serve it | violated: it may retire on a stale `wait_exit_thr_num` |
| `destroy_hangs` | lines 188, 194: destroy tells and awaits all threads | violated: the broadcast can come before the wait |
| `freed_under_worker` | line 194 | violated: `live_thr_num` is not the index of the last live slot |
| `running_arg_freed` | line 368 | violated: the freed argument may be in use |

CHECK_DEADLOCK is FALSE where the pool may be destroyed: everything then has stopped.

*Fairness.* Each thread that is runnable again and again runs, and a lock that is asked for again and
again is obtained (strong fairness per thread, since a mutex is free only now and then). There is none on
spurious wakeups, on submitting or on destroying. Liveness is checked on the fixed pool, where it
holds; on the elastic pool `stolen_wakeup` refutes it. `BlockedIsWoken` promises the wakeup and not
the success of the call: another submitter may fill the queue first.

### Proofs

`ThreadPoolProofs.tla` proves, for every size of pool and queue and every set of submitters, all the safety properties the two passing runs check:

| theorem | inductive invariant | why it is needed |
|---|---|---|
| `TypeCorrect`, `LiveWithinBounds` | `Typing`: types, the bounds of `live_thr_num`, `queue_size = accepted - taken`, a signalling administrator has signals left | the balance bounds `taken`; a retirement tests the lower bound under the lock, so that a stale request does no harm; growth needs `AddedBounded`, which shows by the pigeonhole principle that the scan of `threads[]` starts at most as many threads as there is room for |
| `NobodyBlockedBesideRoom` | `BlockedOnlyWhenFull` itself, with `Typing` | a dequeue wakes every submitter, so no waiter is left when `queue_size` drops |
| `FixedPoolLosesNoWakeup` | `NoLostWakeup` and `DecidingSawEmpty` | a worker that is about to wait holds the lock and has seen the queue empty; the theorem assumes `min_thr_num = max_thr_num`, without which `stolen_wakeup` refutes it |
| `FixedPoolFreedWhenQuiet` | `EndInv`: the destroyer is past the join of the administrator only when it exited; while it joins, every thread below `di` has left, and behind the loop all have | `di` runs to `live_thr_num`, which is the number of slots only if no worker retires: the theorem assumes `min_thr_num = max_thr_num`, without which `freed_under_worker` refutes it. No thread comes back: the administrator that could start one has exited |
| `BusyCountsTasks` | `BusyCount` itself | each step moves at most one thread into or out of its task, or wakes waiters |
| `LiveCountsThreads` | `LiveInv`: `LiveCount`, and no thread has `quit` before the shutdown | growth may reuse the slot of an exited thread; only a `reaped` one, which was counted out, can be there |
| `RingIsPending` | `Ring`: a slot outside the pending window holds the arg of a taken task or what malloc left, `queue_rear` follows from `queue_front` and `queue_size`, every freed arg was taken | `add_task` frees what it finds in the slot it fills: this slot is outside the window |
| `PoolImplementsQueue` | `Ring` and `Hands`: the workers inside a task hold distinct taken tasks | the return of one worker must finish one task of the abstract queue and no other; then dequeue maps to `Take`, put to `Submit`, the return of a task to `Finish`, the shutdown to `Close` and every other step to a stutter |

The assumptions are `SizesAssumption` and `AnswersAssumption` of `ThreadPool`. Only model-checked: the
liveness properties, which are out of TLAPS's reach.

## The memory pools

Three allocators of `C/source/memory`, each against `Allocator.tla`: the blocks callers hold are a
bag, an allocation adds a block that overlaps none of them, a deallocation removes one.

*SharePool* (`c_sharemem.c`). A region cut into chunks with a 4-byte head. Everything the pool
computes is a multiple of 8, so addresses and sizes are in words. `free_list` has one list per
number of words, and the links of the lists are kept in `link`, one per word of the free memory: a link is `Lost`
when a caller gets the word and writes there, as in the code. `size` is what the heads hold.
`Pop`, `Carve` and `Recycle` are the three ways through `ShareAllocate` (with `ShareRefill` and
`ShareChunkAlloc`). `recycled` is a history variable: from the first rest that is
recycled on, the pool hands out memory twice (`share_recycled`), so the properties of `memory_pools` speak of
the time before. The region of seven words (a page in practice) holds chunks of one to three
words with 3 chunks per refill (20 in the code), so that refills are cut whole, cut short and refused.

*HeapPool* (`c_mempool.c`). The same scheme over areas that malloc returns (`Grow`), but
`DeAllocate` lists the address the caller holds, 4 bytes into the chunk, in the class of the size the caller
gives. Memory is in cells of 4 bytes, a link fills two, and chunks of different lists may
overlap. `GrowFails` is a malloc that returns NULL, that of the area or that of its list node; the program then writes
through NULL and the model stops (`crashed`). 46 cells are room for two areas of a first request of 8 and a second one of 15
bytes, or more areas of the small one, and each area leaves a rest to recycle. The pool is an allocator only for sizes
of 5 to 8 bytes above a multiple of 8, and the passing run asks for 8 and 15;
`heap_overlap` asks for 12.

*DbufPool* (`mempool.c`). A list of blocks from which pieces are split; `used` counts the pieces of a block,
in a `short` whose width is a constant, and a block is freed when it becomes 0. `SplitHead` and `SplitNew` are the
ways through `scl_dbuf_pool_alloc`; `Refuse`, `Keep` and `Drop` are the results -1, 0 and 1 of
`scl_dbuf_pool_free`. Callers free what they hold or an address outside the pool, in `dbuf_freed_twice` also what
they freed before. Blocks of 12 bytes take pieces of 4 or 8 bytes or are too small (24), three addresses for malloc are
reused, and the pool's own block is never freed. Destroying the pool is the last step.

| run | question | result |
|---|---|---|
| `memory_pools` | do the three pools, within the conditions above, keep held, listed and uncut memory apart, lose none, count right, implement `Allocator`, and does a destroyed DbufPool leave no block behind? (`which` chooses the pool; the others stay as created) | holds (333,000 states) |
| `share_recycled` | c_sharemem.c:188: the rest is recycled to a free list | violated: it stays at `start_free` too |
| `heap_overlap` | c_mempool.c:61: the head makes giving back easy | violated: the list gets the wrong address and class, blocks overlap |
| `dbuf_freed_twice` | mempool.h:34: -1 for a piece freed several times | violated: only the count of the block is checked |

Allocation in `memory_pools` is bounded by `MaxHeld` chunks (5, 2 and 3), which is as many as fit, or one more
than the refill leaves on a list.

*Assumptions on callers.* They write all of a chunk and nothing else, give back what they hold and once (but
see above), and ask SharePool and HeapPool for sizes whose chunk has a list.

### Proofs

`MemoryProofs.tla` proves, for every size of memory, table, refill, page and block
and every set of requests within the conditions below, all the properties that `memory_pools` checks. Those of
HeapPool and DbufPool are stated of `MemSpec`, the composition the run checks; `ShareRuns` shows that a behaviour of
`MemSpec` is one of SharePool's own `Spec`.

| theorem | inductive invariant | why it is needed |
|---|---|---|
| `TypeCorrect` | `TypeOK` itself | holds even after a rest was recycled: what `Carve` cuts lies in the region because `Fits` counts whole chunks |
| `NothingLost`, `ServesAsAllocator` | `PoolInv`: there is one sequence of chunks per class such that head and links run through it and nothing twice (`Linked`), and held chunks and these tile the region up to `start_free` (`Tiles`) | `NothingLostOrShared` speaks of the lists as a walk along the links finds them; that the walk ends and finds each chunk once needs the sequence. It is not a variable: every step shows the next one (its tail, or a chunk before it, or the chain just cut). `recycled` is a disjunct of it, since from then on nothing of this holds (`share_recycled`) |
| `FreeChunksApart`, `HeapServesAsAllocator` | `HeapInv`: until the crash there is a set of chunks that heads and links do not leave, of which none has two predecessors (`HeapListed`), which are pairwise apart, apart from the chunks callers hold data of, and below `start_free` (`HeapTiles`); the rest is a whole number of pairs of cells | `DeAllocate` lists what begins one cell into the chunk and is a class smaller. With the sizes below, that lies inside the chunk that was cut, so the set is kept. `Whole` is the chunk behind held data: it is apart from the rest, the data alone would not be enough. The heap is an allocator even after a failed malloc, when the lists are no longer known: nothing is handed out any more |
| `HeldPiecesInPool`, `PoolCountsRight`, `DestroyedLeavesNone`, `PiecesNeverOverlap` | `DbufInv`: the list ends in the pool's own block (`DbufChain`), a block's fill is within its size (`DbufSized`), the pieces of a block are apart and below its fill (`DbufPieces`), and `used`, `off` and `huge` are the numbers of pieces, of bytes and of huge blocks (`DbufCounted`) | a block is freed when its count is 0: only with the exact count are there no pieces in it then, so that its address may come again. The own block is never dropped, since it is kept or is the last |
| `PoolsStayTyped` | the three invariants together | |

*Hypotheses.* `RequestsListed`: a request of SharePool is at most `SHARE_MAX_BYTES - 4`, so that its chunk has a
list (c_sharemem.c:58 indexes past the lists for larger ones). `RequestsInside`: the sizes asked of HeapPool are 5 to 8
above a multiple of 8, for which what `DeAllocate` lists is inside the chunk (c_mempool.c:99-101; with others
`heap_overlap` refutes the theorem). `CountsFit`: at most as many pieces are held as the signed `used` of a block
can count (mempool.c:11, 197). The run satisfies all three. The assumptions on constants are `PoolAssumption` of
`SharePool` and `DbufAssumption` and `HeapAssumption` of `MCMemory`; TLC evaluates them.

*Argument.* A sum over blocks or a number of pieces is the cardinality of a set of marks (`Marks` of
`DataLemmas.tla`), which avoids recursive sums; induction goes over the least number, or the least subset, that
fails (`LeastNumber`, `FiniteInduction`), since the library's induction theorems are out of the provers' reach.
The abstract allocator's steps follow from the invariants: a piece, a chunk or a block handed out is a member of the
bag that overlaps none, each area held is in the bag once, and giving back takes it out.

## The containers

The containers of `C/source/datastruct`, each a module of its own; `MCContainers` starts one per behaviour.

*HashMap* (`scl_hashmap.c`). A chain is the sequence of its entries, `table.free` that of the recycled
ones. An entry has an `id`, its address: an iterator holds the ids of the entry it is at and of the
next, so that it follows entries that move or are recycled. `Put` is `scl_hash_set` with `find_entry`
and `expand_array`; a copied or merged table is the one the caller goes on with. `view` is a history
variable: what the caller of an iteration may rely on. `PoolFails` is an `scl_palloc` that returns NULL
to any call that needs it, after which the program writes through NULL (`crashed`). The abstract
specification is `FiniteMap`; `Contents` maps a table to what `scl_hash_get` finds in the chain of each key.
Arrays begin with 2 chains (16 in the code) and three keys make them grow to 8 over a few calls or a merge; 1 and 5
share a chain of 2 and 4, so that chains have up to three entries. `Return` promises nothing of an iteration
that the table outgrew or that lost the very entry it was about to visit: the code promises neither.

*SkipList* (`skiplist.c`). A line is the sequence of its keys, `Update` the array of the path that a
search leaves. Columns have 1 to `MaxLevel` = 3 nodes (unbounded in the code, with falling
probability), over four keys, so that lines of every height come and go. `dict` is a history variable, the
map that the calls make.

*Cmap* (`cmap.c`). `cmap_insert` looks at the first node of a chain only and hangs on another key there
(`stopped = "hung"`); until then a chain has one node. A hash is an int, and `idx` has the sign C gives the
remainder: a call with a negative one indexes in front of `bucket_array`, and the model stops there (`Astray`,
`stopped = "astray"`). Its iterator runs beside insertions (`todo`, `seen`). Of the six keys, each its own hash, 1 and 5
share one of four buckets, -4 has the first and -3 has none.

*DoubleList*, *SingleList*. The links of each node, with `items`, the sequence that the calls
make. The queue, the stack and the deque are the ring of `dlist` under other names, and their calls are
actions of it. Four nodes suffice for a node with neighbours on both sides that are not the head. A node
taken out keeps its links.

| run | question | result |
|---|---|---|
| `containers` | does the hash map implement a finite map with sound chains and an iteration that misses and repeats nothing; is the skip list a sorted map in lines that thin out; is the chained map a map, with an iteration that gives every key once; are the lists sequences? | holds (24,000 states) |

*Assumptions on callers.* Values are not NULL; a node is in one list at a time; one iteration of a table at a
time, or the one inside the table. malloc succeeds in SkipList and Cmap.

### Proofs

`HashMapProofs.tla` and, for the skip list, the lists and the chained map, `ContainerProofs.tla` prove of the
composition that the run checks, for every set of nodes, keys and values, every number of buckets, every hash
function, every first size of the hash table and all tables merged into it, and every bound on a column:

| theorem | inductive invariant | why it is needed |
|---|---|---|
| `ListsStaySequences` | `RingInv` and `SingleInv`: `items` has no node twice, and the links of head and nodes follow it in both directions; the tail is its last node | the property compares `items` with what a walk along the links reads; the proof shows that a walk along links that follow a sequence without repetitions reads that sequence (`WalkIsPlaces`), by induction over the places. An operation writes two to four links, of which some are those of the header at both ends: the lemmas separate the empty, the one-element and the long list |
| `ChainedStaysMap` | `ChainsInv`: a chain has at most one node, of a key of the map whose index is the bucket, and every key has its chain; `IterInv`: the iterator is at a node, what is still to be given lies in later buckets, what was given in this one or earlier | an insertion between two steps of an iteration may fill a bucket in front of the iterator or behind it; it changes no chain that has a node, so that what the iteration owes (`todo`) stays ahead |
| `SkipStaysSortedMap` | `SkipInv`: each line is sorted and its keys are in the line below, the last line has the keys of the map, `level` and `count` are right, and the top line is empty only when it is the last | the property speaks of what a search answers, the invariant of where the keys are. The bridge is `PathFound`: in every line the search stops at the last key below the one it looks for, by induction over the lines, because a key it comes down from is in the next line too. From it follow that both searches find exactly the keys of the last line, and that a column put or taken at the path keeps every line sorted (`KeyPut`, `KeyTaken`), which takes the nesting to be kept line by line at the edge of the column |
| `HashStaysTyped`, `HashStaysSound`, `HashIsMap` | `HashInv`, of which `TableSound`: every chain is a list without repetitions of entries whose hash is its place, no two entries have a key or an address in common, the free list has each address once and none that is in a chain, `count` is the number of entries; and the table is not crowded unless memory ran out | `ChainsSound` compares counts, the invariant says what is where; the counts follow because the list of all chains, one behind the other, has every entry once (`WalkMeetsAll`, by induction over the chains). Each operation is shown to keep it and to leave a stated set of entries (`AddedSound`, `DeletedSound`, `ExpandedSound`, `RenumberedSound`, `MergedSound`); growth keeps the set because a hash has the same place in the array before and after doubling (`HalfHash`). That the table is not crowded after a merge, which starts with a larger array, is a property of the tables callers can make (`MadeFit`, by induction over the calls that made them). The refinement then compares sets of entries only: a search finds the entry of a key (`SearchedIs`), and each call is `Bind`, `Unbind`, an overlay or a stutter |
| `IterationStaysComplete` | `ViewSound`, within `HashInv`: while the iteration is calm, its iterator stands in the chain before `index` or behind all chains, what is to be given is `Ahead`, what was given is not | `Ahead` is the rest of the chain from the entry the iterator names as next, and the chains behind. A new entry goes to the end of a chain and a deleted one is not the next, so `Ahead` gains or loses one key only (`AddedAhead`, `DeletedAhead`), and a step takes exactly one key off it (`SteppedSound`); an end means that none is left |

The assumptions are `HashAssumption` of `HashMap` and `ListsAssumption`, `CmapAssumption` and `SkipAssumption` of
`MCContainers`: a table has finitely many keys, values are not NULL (setting NULL deletes) and the tables merged were
made by setting pairs; the header of a ring is
none of its nodes and NULL is no node; a key hashes to an integer of either sign, and there is a bucket; the keys of a skip list
are finitely many integers, and the number that stands for the node at the left of a line is none of them. No
property of the run is left to TLC alone.

## The readers, the parser, the packer, the server, the removal, the identifiers

`MCReaders` starts one of them per behaviour; the others are switched off (0).

*DataNode*, *HttpResponse* (`DataNode.cpp`, `HttpResponseParse.cpp`). The buffer has bytes and two
positions; `held` is what was accepted and not read. `Push` follows the space as the code counts it, and
`overrun` is the negative length that a buffer filled beyond its half makes of it. `HttpResponse` extends it: a response
is a record, its text a sequence of symbols, one for a line of the head and one per byte for line ends, chunk
lengths and bodies. `PushData` takes any number of the symbols that follow and `Parse` may be called at any
time, so every cut at these bytes happens. What `strtol`, the search for a colon and `cJSON_Parse`
make of a text is a table; a JSON text is copied without an end, so `cJSON` may read on (`beyond`).
Alone the buffer has 5 bytes and calls of up to 3; under the parser it has 52, twice the longest
text, so that `overrun` happens in `NodeBytesInOrder` of the first and not of the second. The eight responses have
chunks of one or two bytes with and without other headers, a negative length, bytes behind the last
chunk, a body with its length, JSON, JSON that is not, and no headers.

*IniText*, *IniReaderPlus*, *IniReader*, *CfgReader*. A line of a file is its kind, name and value. The three
readers share `IniText` and differ in what stops a scan and which of two values they keep. In each, others may put
another text in the file between two calls. `IniReaderPlus` names a line record by a number, its address, so that
the list and the dictionary may share or lose it; `Reload` leaves NULL in both, and the next step
crashes. Four texts have keys that two sections share, a key given twice, a wrong line, a value that is missing and a line
too long for `getline`; four calls (six for `CfgReader`) reach a scan, an edit and another on top of it, and a
written file read back. A file that cannot be opened leaves the members as they are, so that a call that meets one is a
stutter. Both INI readers are called with the sections, keys and values of
`IniSections`, `IniKeys` and `IniVals`; `v2` is a key and a value, because `IniReaderPlus` enters an added key in its
dictionary under its value, where a lookup finds it.
History variables say from when on a reader cannot answer: it scanned again (`again`), or an edit met another line
than the one meant (`strayed`): `Modify` or `Set` found the key in another section first, `Remove` took another line
that has the same number since lines were added, or a key was added with a value that is itself a key. `text` of `IniReaderPlus` has each added line in the section that the
call named; `misplaced` is set when the code put it into another (which it does whenever the section named is not the
first there is, or the first that has the key); from then on `PlusTextKept` promises nothing. An added key may be in the text already; it changes what the text says only where it is
in front. `IniVals` has the empty value: `Set` writes a line without one, lookups answer the default for it, and
the scans refuse it, so that a text with one cannot be read back.

*HttpPacker*. Texts count by their lengths. `calcTotalLen` counts and `Copied` is what `Pack` copies; body lengths 1, 9,
10, 99 and 100 are the boundaries of their digits. `heap` are the blocks that malloc gave and free did not take.

*SelectServer* (`server.c`). `desc` is the process's table of descriptors, `client` the server's. A turn of
the loop is `Select`, then `Accept`, then `Recv` of each descriptor found, the lowest first; peers step at any
time. `Recv` of an ended connection clears its entry and frees descriptor 1 (`close(1)`), which accept then gives to the next connection.
The server ends where select or accept fails (lines 46 and 53), which may happen at any time, and by SIGPIPE where `send`, or
`printf` into a connection that got descriptor 1, meets a peer that has closed (`BrokenPipe`, `Flush`); `stopped` says which.
Only `badfd`, a descriptor of the table that is not open, is the server's own doing, and the property says that it is
descriptor 1. CLIENTSIZE is 6 with the first free descriptor 4, and four connections, so that the table is filled, and
descriptors CLIENTSIZE (one behind the table) and above are given out.

*RmDir* (`rm_dir.c`). `stack` are the calls of `remove_dir_sub`. A tree of two directories, one in the
other, with a file in each and in the root, each of which may be there at first or not; `TooLong` are sets of nodes whose
paths do not fit. readdir gives entries in any order, and may or may not give those made meanwhile. lstat, opendir, readdir,
unlink and rmdir may each fail at any entry, for whatever reason, and an entry may be neither file nor directory. Others make
or remove up to two files or empty directories, the root included, and may remove a directory between the lstat and the opendir for it; a name
is that of a directory or of a file throughout. History variables say what failed: `closed` the directories that opendir did
not open, `refused` the nodes that lstat, unlink or rmdir failed for, `left` the directories not looked into or not to their end.
`RestIsExplained` gives what is there at the end one of these reasons; the caller hears of few.

*Uuid* (`uuid.c`). Short and failing reads, then the bytes of the buffer as they are after the mixing with
rand, unpacked, marked and packed. Four buffers with all bits set, none, and two patterns in which no two bytes agree. The reads decide how
long the loop goes on and nothing else: the property is of what is made of the buffer, whatever it holds.

| run | question | result |
|---|---|---|
| `readers_and_servers` | do chunks, headers and end of a response come out as sent, however it was cut; is the buffer a queue of bytes; do the readers answer what the texts said and keep them; does the server's table agree with the descriptors; is what a removal leaves explained; are identifiers random but for their marks; does a request fill its block? | holds (585,000 states) |

None of these has liveness: what would have to happen depends on peers, callers or other programs.

### Proofs

`ReaderProofs.tla`, with `HttpProofs.tla` (the phases of the response parser), and `IniProofs.tla` (texts and the two
INI readers) prove of the composition that the run checks, for every value of its constants:

| theorem | inductive invariant | why it is needed |
|---|---|---|
| `BuffersStayQueues` | `NodeInv`, and `PipeInv` under the parser: the bytes from `from` to `to` are `held`, and both positions are inside the memory (`Holds`) | the property is of what a read would return, the invariant of the memory byte by byte: `Push` moves what is held to the start of the memory, onto bytes that were read, before it writes behind it. What is held is all that was pushed, since the parser never reads from the buffer but looks into it |
| `ResponsesComeAsSent`, `ResponsesEndWhole` | `PipeInv`: what is held is the first `sent` symbols of the text (`Pushed`), and the members of the parser are right for these (`Good`): behind the first line it has the code, behind the head the first header of each name, and of the chunks it took the first so many, of which the last ends within what was pushed, and goes on behind that one (`Taken`); once all was pushed and parsed, the status is the end | the properties speak of what came out, the next call of `Parse` depends on the place it goes on from. That place is told by `Laid`, which says of a text, symbol by symbol, where its lines and chunks are (`TextLaid`); the searches find the first line end and the first empty line there (`FindsEnd`, `HeadEnds`). In the loop over the chunks a turn is at the end of a chunk, before the next, behind the line of the empty one or behind all of them (`Stands`), and each leads to another of these or takes one chunk (`TurnKeeps`). That the loop is over after one turn more than there is data, and none too early, needs that every turn passes a symbol (`LoopAt`) |
| `AnswersStayFirstRead` | `CfgInv`: of each key, the dictionary has it when some scan so far read a value, and then the value of the first such scan (`FirstRead`) | the property speaks of the last answer, a scan adds many keys at once, and a failed scan leaves half a text: `ScanKeepsFirst` shows that it adds the first value of a new key and changes no old one |
| `TextStaysDictionary` | `IniInv`, until an edit strayed: the dictionary has exactly the sections, keys and values of the fields of the text, the empty values too, none of which is there twice (`IsDictOf`); every section that has a name in the dictionary has its line; and the items are what their lines are | the property compares what a line says with an answer, key by key. The section of a line is the last header before it, so that a line put in moves all others and may change theirs: the lemmas show that lines moved in order keep their sections when texts are joined and when lines are put at the end of a section (`JoinedSections`, `GrownSections`), and that then the dictionary is right if it gains what the new lines say (`MovedIsDict`). That the place `EndOf` finds is in the section needs its header to be there |
| `LinesStayLive` | `PlusShape`: the list has each record once, list and dictionary have only records that were made | a key that is removed leaves the list and not the dictionary, and the record is not deleted |
| `LookupsStayRight`, `TextStaysKept` | `PlusFresh`: before a successful scan the dictionary is empty, and until a line is added or a second scan starts, the number of a line is its own; `PlusAgree`: the dictionary leads to a record that has the key and the value expected, and its line, if still listed, is in its section; the text says what it should, until a line was added to another section than the one named | `Remove` looks for a line by its number and `Modify` for a key in any section, so it takes the distinct numbers, and the place of the line in the text, to know which line changes. An addition shifts the sections of all lines behind it: `OneMoreSays` and `PutSays` tell what a text says with one more line, or another one, in it |
| `BlocksStayFilled` | `PackInv`: the property with the types of lengths and blocks | the two passes count digits and line ends in different ways; `PassesAgree` shows that they come to the same number, for all lengths. malloc gives none of the blocks in use, of which there are two at most (`NewBlock`) |
| `ServerTableStaysRight` | `SelectInv`: the table agrees, a connection has one descriptor (`Descriptors`), and one that is new or in the backlog has none, has not ended, and is there once (`Arrivals`) | the entry of a descriptor is overwritten when it is given out again: that the connection that gets it has no other, and has never ended, is known only from how connections arrive |
| `RestStaysExplained` | `RemovalInv`: what exists is in directories that exist (`TreeRight`); the calls are a path from the root, each for an entry that its caller was given (`CallsRight`); and whatever exists is explained or still to come: a directory of a call, or within an entry still to be given (`Covered`) | the property is of the end only. On the way a directory is returned from as soon as readdir has no entry left, and what is in it then is a node made by others, one that could not be looked at or removed, or a directory for which that is so further down; a directory whose readdir failed leaves its entries behind with itself as the reason: that each of these lies within the tree takes induction over the path, done by sets that are closed upwards (`Within`) |
| `IdentifiersStayRandom` | `UuidInv`: an identifier is what unpacking, marking and packing make of its buffer | the lemmas compute with bytes: unpacking and packing put every byte back to its place (`BytesApart`), and the marks change four bits of one byte and two of another (`VersionBits`, `VariantBits`) |

The assumptions are those of `MCReaders`, which TLC evaluates on the run: the byte that ends a text is no byte of the
buffer alone, and its sizes are natural numbers (`NodeAssumption`); the symbols of a response are those of lines
and bytes, with a number for each that `strtol` reads one from (`SymbolsAssumption`); the chunks of a response are
announced, only the last is empty, and nothing behind them reads as a length, and a response that is to be found to
end has a header that gives its length, an empty last chunk and nothing behind it, or one JSON text, announced before
any other type, which ends with its only closing brace (`ResponsesAssumption`, which says this of what servers
send and not of how it is cut); buffers of the random device have sixteen bytes (`BufsAssumption`); descriptors 0 to 2 are taken,
and connections are told from standard files, the listener and free descriptors (`ServerAssumption`); a field of a text
has a value, if an empty one (`CfgAssumption`); a text is a sequence of lines, in which a header has a name and the value of a field is one of
`IniVals`, and names and values are not the mark of a missing one (`IniAssumption`); lengths are numbers (`PackerAssumption`); every node of the tree is within
the root (`TreeAssumption`).

No safety property of the run is left to model checking alone. What a body whose length was given by a header should be is no
property: the parser neither waits for it nor keeps it.

## Other divergences met while modelling

These follow from the same models or from reading; no run is kept for them.

- threadpool.c:361: a submitter blocked on a full queue when the pool is destroyed is never told, since
  `queue_not_full` is not broadcast: it sleeps on in the freed pool.
- threadpool.c:239: an administrator that is growing the pool while it is shut down refills the slot of a worker that quit
  (316 does not lower `live_thr_num`); the count exceeds the threads and line 197 joins an id that is zero.
- threadpool.c:369: `task_queue` is not zeroed by `malloc`; the first use of a slot frees what it held.
- c_sharemem.c:58: from `SHARE_MAX_BYTES - 3` on the index of the chunk's list is `SHARE_NFREELISTS`,
  where `start_free` lies: it is taken for a list head and overwritten.
- c_mempool.c:99: what was allocated from 16-byte chunks is listed as 8 bytes, so a caller that takes and gives back one
  block of 8 bytes again and again makes the heap grow.
- c_mempool.c:116: `refill` does not test for the NULL that `ChunkAlloc` returns when malloc fails.
- mempool.c:148: freeing the last piece of a block returns 1, where mempool.h:34-35 promises 0.
- mempool.c:197: `used` is a short that is never checked; with 65537 pieces in a block (256 KB of 4-byte pieces), the
  next free finds 0 and frees the block.

- threadpool.c:105, 114, 123: when `threadpool_create` fails after its first malloc, `threadpool_free` frees a
  `task_queue` that holds what malloc left, or locks a mutex that was never initialised.
- threadpool.c:131: a `pthread_create` that fails leaves the worker counted as live.
- scl_hashmap.c:80: an array of more than 511 chains exceeds SHARE_MAX_BYTES; growing there writes through NULL.
- skiplist.c:174: destroying a skip list frees its nodes and not the pairs they share.
- cmap.c:83: `cur->next;` does not move on: inserting into a bucket of another key never returns; cmap.c:44: `cmap_get`
  finds nothing; cmap.c:179: the nodes are not freed.
- cmap.c:47, 61, 108: `hash_func` returns int (cmap.h:51), and the remainder of a negative hash is an index in front of
  `bucket_array`, unless the number of buckets divides it: with the hash of testcmap.c:22, which is the key, inserting or
  finding a negative key reads and writes memory outside the map.
- hash.c:71-104: `chash` stores nothing: a new node is linked to a local copy of the bucket.
- IniReaderPlus.cpp:91: `Reload` after anything was scanned follows NULL; :46: `Sync` does not cut off a longer
  file and writes "\r\n" behind lines that still have their "\r"; :274: `Modify` does not change the source that `Sync`
  writes; :261: a removed key is still answered; :363, 393: an added key enters the dictionary under its value;
  :285, 299: `AddBaseSection` and
  `AddBaseField` put a line into another section than the one named, against IniReaderPlus.h:55-58, and :325 runs past the end in the last; :392: an
  unknown section is used nevertheless; :173: a failed scan leaves its lines; :112: a line of 256 bytes ends the scan with success.
- IniReader.cpp:299: `Set` changes the last parameter of this key in any section; :324: a comment goes behind the
  parameter, and the iterator is used after the insertion; :236: `Set` with an
  empty value writes a line that lookups answer with the default (211) and the next parse refuses (116); :224: writing after a failed parse loses the rest of the file.
- cfg_reader.cpp:62, 81: a line of 128 bytes ends the scan with success; a failed scan keeps what it read.
- DataNode.cpp:87: the space is counted less the data twice: too little is accepted, and beyond the half a negative
  length goes to memcpy.
- HttpResponseParse.cpp:346: a cut that leaves two bytes behind the line end of a chunk ends the response early, although
  `HttpParse_End` says that all data was received (HttpResponseParse.h:24); more than two bytes there, or no
  headers, and it never ends; :297: a body with `Content-Length` is neither awaited nor kept; :277: JSON is parsed without an end.
- HttpPacker.cpp:199: `toUpper` drops the result of `toupper`; :211: an empty body leaves the old one in place.
- server.c:75: `close(1)` in place of `close(i)`: the descriptor leaks, and standard output, or the client that later got
  descriptor 1, is closed; select then fails on it and the server exits; :57: descriptor CLIENTSIZE is one behind the table.
- server.c:46, 53, 82: a signal during select, a connection that is gone before accept, or a peer that has closed before it is
  answered (SIGPIPE) ends the server and with it every other connection.
- server2.c: its test of `bind` is inverted.
- rm_dir.c:60, 71, 80, 93, 97: 0 is returned though a path was too long or readdir, lstat, `unlink` or `rmdir` failed,
  where rm_dir.c:43-44 promises success, and that what is below is removed.

## Not modelled

See the components of PROJECT.json with status `not_modelled`. `cJSON` and `http_parser` are third-party code
kept in the tree; `log4cpp` and the fork and process demonstrations only call the system; `chash` stores nothing and
`mempool.cpp` and the TLV packer are empty or unfinished, so that there is no behaviour to state a property of; error numbers and the string
copy have no state. The failure paths of `threadpool_create` and `pthread_create` are undefined behaviour from
their second step on. `server2.c` does not get past its start and `echo.c` serves one client with blocking calls.
