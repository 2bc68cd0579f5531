------------------------------ MODULE MCMemory -------------------------------
(* The three memory pools for TLC.  They share no state: a behaviour is one *)
(* of one pool, the other two stay as they were created.                    *)
EXTENDS SharePool, TLC

CONSTANTS
    \* of HeapPool
    HeapMaxBytes, HeapRefillObjs, HeapRequests, HeapMaxHeld, HeapCells, MallocMayFail,
    \* of DbufPool
    DbufRequested, PageSize, Overhead, ShortBits, DbufLengths, First, Dbufs, DbufMaxHeld

(* The page is larger than the header of a block, the pool's own block is  *)
(* none that malloc returns, and "used" is at least one bit wide.          *)
ASSUME DbufAssumption ==
    /\ DbufRequested \in Nat
    /\ PageSize \in Nat /\ Overhead \in Nat /\ Overhead < PageSize
    /\ DbufLengths \subseteq Nat /\ IsFiniteSet(DbufLengths)
    /\ First \notin Dbufs
    /\ DbufMaxHeld \in Nat
    /\ 2 ^ (ShortBits - 1) \in Nat \ {0}

(* At least two chunks are cut at a time (nobjs is 20), and the chunk of   *)
(* every request, head included, has a class.                              *)
ASSUME HeapAssumption ==
    /\ HeapMaxBytes \in Nat
    /\ HeapRefillObjs \in Nat \ {0, 1}
    /\ HeapRequests \subseteq 1 .. HeapMaxBytes - 4
    /\ HeapCells \in Nat

VARIABLES
    which,
    h_start_free, h_end_free, h_heap_size, h_free_list, h_link, h_live,
    h_crashed,
    d_blocks, d_used, d_size, d_fill, d_off, d_huge, d_live, d_old, d_answer,
    d_destroyed

\* one request for each class of SharePool: 0..4, 5..12 and 13..20 bytes
ListedRequests == {4, 12, 20}

\* sizes for which what DeAllocate of HeapPool lists stays inside the chunk
InsideSizes == {8, 15}

\* in DbufPool 0 takes 4 bytes, 4 takes 8, and 20 more than a block
MixedLengths == {0, 4, 20}

Heap == INSTANCE HeapPool WITH
    MAX_BYTES <- HeapMaxBytes, RefillObjs <- HeapRefillObjs,
    Requests <- HeapRequests, MaxHeld <- HeapMaxHeld,
    start_free <- h_start_free, end_free <- h_end_free,
    heap_size <- h_heap_size, free_list <- h_free_list, link <- h_link,
    live <- h_live, crashed <- h_crashed

\* callers free each piece once
Dbuf == INSTANCE DbufPool WITH
    requested <- DbufRequested, page_size <- PageSize,
    Lengths <- DbufLengths, MaxHeld <- DbufMaxHeld, FreesTwice <- FALSE,
    blocks <- d_blocks, used <- d_used, size <- d_size, fill <- d_fill,
    off <- d_off, huge <- d_huge, live <- d_live, old <- d_old,
    answer <- d_answer, destroyed <- d_destroyed

h_vars == <<h_start_free, h_end_free, h_heap_size, h_free_list, h_link, h_live,
            h_crashed>>
d_vars == <<d_blocks, d_used, d_size, d_fill, d_off, d_huge, d_live, d_old,
            d_answer, d_destroyed>>

MemInit == which \in {"share", "heap", "dbuf"} /\ Init /\ Heap!Init /\ Dbuf!Init

ShareStep == which = "share" /\ Next /\ UNCHANGED <<which, h_vars, d_vars>>
HeapStep == which = "heap" /\ Heap!Next /\ UNCHANGED <<which, vars, d_vars>>
DbufStep == which = "dbuf" /\ Dbuf!Next /\ UNCHANGED <<which, vars, h_vars>>

MemNext == ShareStep \/ HeapStep \/ DbufStep

MemSpec == MemInit /\ [][MemNext]_<<which, vars, h_vars, d_vars>>

Symmetry == Permutations(Dbufs)
-----------------------------------------------------------------------------
(* The type invariants of the pools.                                       *)
PoolsTyped == TypeOK /\ Heap!TypeOK /\ Dbuf!TypeOK

(* HeapPool: what is listed, held and left never meets.                    *)
HeapApart == which = "heap" => Heap!FreeApartFromHeld

(* HeapPool: what callers hold never overlaps.                             *)
HeapAllocates == Heap!ImplementsAllocator

(* DbufPool: what callers hold lies in blocks that were not freed.         *)
PiecesInPool == which = "dbuf" => Dbuf!HeldInPool

(* DbufPool: what the pool counts is what happened.                        *)
PiecesCounted == which = "dbuf" => Dbuf!Accounts

(* DbufPool: what callers hold never overlaps.                             *)
PiecesApart == Dbuf!ImplementsAllocator

(* DbufPool: scl_dbuf_pool_destroy leaves no block behind.                 *)
BlocksAllFreed == Dbuf!DestroyFreesAll
=============================================================================
