------------------------------ MODULE HeapPool -------------------------------
(***************************************************************************)
(* The heap pool of src/C/source/memory/source/c_mempool.c: chunks cut     *)
(* from areas that malloc returns, and one list of free chunks for each    *)
(* multiple of ALIGN bytes.                                                *)
(*                                                                         *)
(* Memory is counted in cells of 4 bytes, the size of a ChunkHead: chunks  *)
(* start at even cells, but DeAllocate lists the address the caller holds, *)
(* one cell further, in the class of the size the caller asked for.  A     *)
(* link fills two cells and is lost when anything is written to either.    *)
(***************************************************************************)
EXTENDS Integers, FiniteSets, Bags

CONSTANTS
    MAX_BYTES,      \* largest request that is served
    RefillObjs,     \* chunks cut at a time (nobjs)
    Requests,       \* bound: the sizes callers ask for
    MaxHeld,        \* bound: how many chunks callers hold at once
    HeapCells,      \* bound: the memory malloc may give to the pool
    MallocMayFail   \* whether malloc may return NULL

ALIGN == 8
Cell == 4
HeadBytes == 4      \* sizeof(ChunkHead)

(* Requests is within 1 .. MAX_BYTES - HeadBytes: a larger request, whose  *)
(* chunk has no class, indexes past free_list; SharePool, whose Allocate   *)
(* is the same, models what then happens.  RefillObjs is at least 2.       *)

ROUND_UP(bytes) == ((bytes + ALIGN - 1) \div ALIGN) * ALIGN

Cells == 1 .. HeapCells
NULL == 0
Lost == -1

\* FREELIST_INDEX(bytes) + 1, and the cells of a chunk of that class
Class(bytes) == (bytes + ALIGN - 1) \div ALIGN
CellsOf(c) == c * (ALIGN \div Cell)
Classes == 1 .. Class(MAX_BYTES)

VARIABLES
    start_free, end_free,   \* what is left of the last area
    heap_size,              \* bytes obtained from malloc
    free_list,              \* the first free chunk of each class
    link,                   \* the link that starts at each cell
    live,                   \* the bag of what callers hold
    crashed                 \* a NULL area was written to

vars == <<start_free, end_free, heap_size, free_list, link, live, crashed>>

Init ==
    /\ start_free = NULL
    /\ end_free = NULL
    /\ heap_size = 0
    /\ free_list = [c \in Classes |-> NULL]
    /\ link = [a \in Cells |-> NULL]
    /\ live = EmptyBag
    /\ crashed = FALSE

Held == BagToSet(live)
Data(x) == x.at .. x.at + (x.bytes + Cell - 1) \div Cell - 1

(* The links after the cells of S were written, and the links of chain.    *)
Relink(S, chain) ==
    [a \in Cells |->
        IF a \in DOMAIN chain THEN chain[a]
        ELSE IF a \in S \/ a + 1 \in S THEN Lost ELSE link[a]]

Both(S) == S \cup {a + 1 : a \in S}

(* The chunk at a is handed out for n bytes: its head is written, and the  *)
(* caller, who holds what follows it, fills the n bytes.                   *)
Give(a, n, chain) ==
    LET x == [at |-> a + 1, bytes |-> n]
    IN  /\ live' = live (+) SetToBag({x})
        /\ link' = Relink({a} \cup Data(x) \cup Both(DOMAIN chain), chain)

Pop(n) ==
    LET c == Class(n + HeadBytes)
        a == free_list[c]
    IN  /\ a # NULL
        /\ link[a] # Lost
        /\ free_list' = [free_list EXCEPT ![c] = link[a]]
        /\ Give(a, n, << >>)
        /\ UNCHANGED <<start_free, end_free, heap_size, crashed>>

(* ChunkAlloc and refill: k chunks of class c from the cells at s.         *)
Left == end_free - start_free

Fits(c, left) ==
    IF left >= RefillObjs * CellsOf(c) THEN RefillObjs ELSE left \div CellsOf(c)

Cut(n, s, k, lists, chain0) ==
    LET c == Class(n + HeadBytes)
        last == s + (k - 1) * CellsOf(c)
        chain == [a \in {s + i * CellsOf(c) : i \in 1 .. k - 1} |->
                     IF a = last THEN NULL ELSE a + CellsOf(c)]
    IN  /\ start_free' = s + k * CellsOf(c)
        /\ free_list' = IF k = 1 THEN lists
                        ELSE [lists EXCEPT ![c] = s + CellsOf(c)]
        /\ Give(s, n, [a \in DOMAIN chain \cup DOMAIN chain0 |->
                          IF a \in DOMAIN chain THEN chain[a] ELSE chain0[a]])

Carve(n) ==
    LET c == Class(n + HeadBytes)
    IN  /\ free_list[c] = NULL
        /\ Fits(c, Left) > 0
        /\ Cut(n, start_free, Fits(c, Left), free_list, << >>)
        /\ UNCHANGED <<end_free, heap_size, crashed>>

(* What is left of the area goes to the list of its size, malloc gives a   *)
(* new area, apart from the earlier ones, and ChunkAlloc starts again.     *)
BytesToGet(n) ==
    2 * RefillObjs * ROUND_UP(n + HeadBytes) + ROUND_UP(heap_size \div 16)

RecycledClass == Class(Left * Cell)

RestLists ==
    IF Left = 0 THEN free_list
    ELSE [free_list EXCEPT ![RecycledClass] = start_free]

RestChain ==
    IF Left = 0 THEN << >>
    ELSE [a \in {start_free} |-> free_list[RecycledClass]]

Grow(n) ==
    LET c == Class(n + HeadBytes)
        area == end_free + 2
        got == BytesToGet(n) \div Cell
    IN  /\ free_list[c] = NULL
        /\ Fits(c, Left) = 0
        /\ area + got <= HeapCells
        /\ end_free' = area + got
        /\ heap_size' = heap_size + BytesToGet(n)
        /\ Cut(n, area, Fits(c, got), RestLists, RestChain)
        /\ UNCHANGED crashed

(* malloc returns NULL, for the area, and refill does not look at what     *)
(* ChunkAlloc returned and writes the links of a chain at NULL + n, or for *)
(* the node that notes the area, which is written to, too.                 *)
GrowFails(n) ==
    LET c == Class(n + HeadBytes)
    IN  /\ MallocMayFail
        /\ free_list[c] = NULL
        /\ Fits(c, Left) = 0
        /\ start_free' \in {NULL} \cup (Cells \cap {end_free + 2})
        /\ free_list' = RestLists
        /\ link' = Relink(Both(DOMAIN RestChain), RestChain)
        /\ crashed' = TRUE
        /\ UNCHANGED <<end_free, heap_size, live>>

Allocate(n) ==
    /\ ~crashed
    /\ BagCardinality(live) < MaxHeld
    /\ Pop(n) \/ Carve(n) \/ Grow(n) \/ GrowFails(n)

(* DeAllocate is given the address and the size the caller knows.          *)
MutDeAllocateRounded(x) ==
    LET c == Class(x.bytes + HeadBytes)
    IN  /\ ~crashed
        /\ free_list' = [free_list EXCEPT ![c] = x.at]
        /\ link' = Relink(Both({x.at}), [a \in {x.at} |-> free_list[c]])
        /\ live' = live (-) SetToBag({x})
        /\ UNCHANGED <<start_free, end_free, heap_size, crashed>>

DeAllocate(x) ==
    LET c == Class(x.bytes)
    IN  /\ ~crashed
        /\ free_list' = [free_list EXCEPT ![c] = x.at]
        /\ link' = Relink(Both({x.at}), [a \in {x.at} |-> free_list[c]])
        /\ live' = live (-) SetToBag({x})
        /\ UNCHANGED <<start_free, end_free, heap_size, crashed>>

Next ==
    \/ \E n \in Requests : Allocate(n)
    \/ \E x \in Held : DeAllocate(x)

Spec == Init /\ [][Next]_vars
-----------------------------------------------------------------------------
(* The chunks on the list of class c; links that were not lost fill two    *)
(* cells each.                                                             *)
Listed(c) ==
    LET reach[k \in 0 .. HeapCells \div 2] ==
            IF k = 0 THEN {free_list[c]} \ {NULL, Lost}
            ELSE LET prev == reach[k - 1]
                 IN  prev \cup ({link[a] : a \in prev} \ {NULL, Lost})
    IN  {a .. a + CellsOf(c) - 1 : a \in reach[HeapCells \div 2]}

Free == UNION {Listed(c) : c \in Classes}

TypeOK ==
    /\ start_free \in {NULL} \cup Cells
    /\ end_free \in {NULL} \cup Cells
    /\ heap_size \in Nat
    /\ free_list \in [Classes -> Cells \cup {NULL}]
    /\ link \in [Cells -> Cells \cup {NULL, Lost}]
    /\ IsABag(live) /\ Held \subseteq [at : Cells, bytes : Requests]
    /\ crashed \in BOOLEAN

(* If callers only ask for sizes of 5 to 8 bytes above a multiple of 8,    *)
(* a chunk that was given back one cell late and one class down still      *)
(* lies in the chunk that was cut: what is listed, what is held and what   *)
(* is left never meet (c_mempool.c:99-101, 166-172).                       *)
FreeApartFromHeld ==
    LET free == Free
        rest == start_free .. end_free - 1
    IN  ~crashed =>
            /\ \A x \in Held, f \in free : ({x.at - 1} \cup Data(x)) \cap f = {}
            /\ \A f, g \in free : f # g => f \cap g = {}
            /\ \A f \in free \cup {Data(x) : x \in Held} : f \cap rest = {}

(* With such sizes the pool is an allocator: what callers hold never       *)
(* overlaps.                                                               *)
HeldBlocks ==
    [block \in {Data(x) : x \in Held} |->
        BagCardinality([x \in {y \in Held : Data(y) = block} |-> live[x]])]

Alloc == INSTANCE Allocator WITH Memory <- Cells, live <- HeldBlocks

ImplementsAllocator == Alloc!Spec
-----------------------------------------------------------------------------
(* A statement of the source that the code does not keep.                  *)

(* A head is added "to make giving the data back easy" (c_mempool.c:61),   *)
(* for any size that is served: blocks never overlap.  The property is     *)
(* ImplementsAllocator again, for all sizes.                               *)
BlocksNeverOverlap == \A x, y \in Held : x # y => Data(x) \cap Data(y) = {}
=============================================================================
