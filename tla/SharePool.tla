------------------------------ MODULE SharePool ------------------------------
(***************************************************************************)
(* The shared-memory pool of src/C/source/memory/source/c_sharemem.c: a    *)
(* fixed region cut into chunks, and one list of free chunks for each      *)
(* number of ALIGN-byte words.                                             *)
(*                                                                         *)
(* Every address and size the pool computes is a multiple of ALIGN, so     *)
(* both are counted in words; the region behind the pool's own header is   *)
(* 1 .. Region.  The links of the free lists are kept in the free memory   *)
(* itself, as in the code, and are lost when a caller writes there.        *)
(***************************************************************************)
EXTENDS Integers, FiniteSets, Bags

CONSTANTS
    memsize,            \* what the caller of ShareCreateMempool asks for
    SHARE_MAX_BYTES,    \* largest request that is served
    RefillObjs,         \* chunks cut at a time (nobjs)
    Requests,           \* bound: the sizes callers ask for
    MaxHeld             \* bound: how many chunks callers hold at once

ALIGN == 8
HeadBytes == 4          \* sizeof(ChunkHead)

ROUND_UP(bytes) == ((bytes + ALIGN - 1) \div ALIGN) * ALIGN

ASSUME PoolAssumption ==
    /\ memsize \in Nat
    /\ SHARE_MAX_BYTES \in Nat \ {0}
    /\ SHARE_MAX_BYTES % ALIGN = 0
    /\ RefillObjs \in Nat \ {0, 1}
    /\ Requests \subseteq 0 .. SHARE_MAX_BYTES
    /\ MaxHeld \in Nat

Region == ROUND_UP(ROUND_UP(memsize) + HeadBytes) \div ALIGN
Words == 1 .. Region
end_free == Region + 1

NULL == 0
Lost == -1              \* a word that no longer holds what the pool wrote

\* the words of a chunk, head included
Chunk(n) == ROUND_UP(n + HeadBytes) \div ALIGN

\* free_list[SHARE_FREELIST_INDEX(bytes)] is the list of Classes[bytes / ALIGN]
Classes == 1 .. SHARE_MAX_BYTES \div ALIGN

VARIABLES
    start_free,     \* the words from here to end_free were never cut
    free_list,      \* the first free chunk of each class
    link,           \* the link each word holds, if it holds one
    size,           \* the size in the head at each word, if there is one
    live,           \* the bag of chunks callers hold
    recycled        \* history: a rest too small for a request was listed

vars == <<start_free, free_list, link, size, live, recycled>>

Cells(chunk) == chunk.at .. chunk.at + chunk.words - 1
Held == BagToSet(live)

Init ==
    /\ start_free = 1
    /\ free_list = [c \in Classes |-> NULL]
    /\ link = [a \in Words |-> NULL]
    /\ size = [a \in Words |-> 0]
    /\ live = EmptyBag
    /\ recycled = FALSE

(* The index of the class above the last one is the size of free_list:     *)
(* there the code reads and writes the next field, which is start_free.    *)
ListHead(c) == IF c \in Classes THEN free_list[c] ELSE start_free

SetHead(c, a) ==
    IF c \in Classes
    THEN /\ free_list' = [free_list EXCEPT ![c] = a]
         /\ UNCHANGED start_free
    ELSE /\ start_free' = a
         /\ UNCHANGED free_list

(* A chunk of c words at a is handed out, its head written and its data    *)
(* filled by the caller; chain holds the links the pool wrote elsewhere.   *)
Give(a, c, chain) ==
    LET chunk == [at |-> a, words |-> c]
    IN  /\ live' = live (+) SetToBag({chunk})
        /\ link' = [x \in Words |->
                       IF x \in Cells(chunk) THEN Lost
                       ELSE IF x \in DOMAIN chain THEN chain[x] ELSE link[x]]
        /\ size' = [x \in Words |->
                       IF x = a THEN c
                       ELSE IF x \in Cells(chunk) \cup DOMAIN chain THEN 0
                       ELSE size[x]]

(* ShareAllocate from the list of the class.  A link that was overwritten  *)
(* is not followed: what it leads to is undefined.                         *)
Pop(n) ==
    LET c == Chunk(n)
    IN  /\ ListHead(c) \in Words
        /\ link[ListHead(c)] # Lost
        /\ SetHead(c, link[ListHead(c)])
        /\ Give(ListHead(c), c, << >>)
        /\ UNCHANGED recycled

(* How many chunks of c words ShareChunkAlloc cuts from the rest.          *)
Left == end_free - start_free

MutFits(c) ==
    IF Left >= RefillObjs * c THEN RefillObjs ELSE (Left + c - 1) \div c

Fits(c) == IF Left >= RefillObjs * c THEN RefillObjs ELSE Left \div c

(* ShareAllocate when the list is empty: ShareRefill cuts chunks, returns  *)
(* the first and chains the others.  With start_free lost it would write   *)
(* outside the region.                                                     *)
MutCarveKeepsLast(n) ==
    LET c == Chunk(n)
        k == Fits(c)
        last == start_free + (k - 1) * c
        rest == {start_free + i * c : i \in 1 .. k - 1}
        chain == [x \in rest |-> IF x = last THEN NULL ELSE x + c]
    IN  /\ start_free # NULL
        /\ ListHead(c) = NULL
        /\ k > 0
        /\ start_free' = last
        /\ free_list' = IF k = 1 THEN free_list
                        ELSE [free_list EXCEPT ![c] = start_free + c]
        /\ Give(start_free, c, chain)
        /\ UNCHANGED recycled

Carve(n) ==
    LET c == Chunk(n)
        k == Fits(c)
        last == start_free + (k - 1) * c
        rest == {start_free + i * c : i \in 1 .. k - 1}
        chain == [x \in rest |-> IF x = last THEN NULL ELSE x + c]
    IN  /\ start_free # NULL
        /\ ListHead(c) = NULL
        /\ k > 0
        /\ start_free' = start_free + k * c
        /\ free_list' = IF k = 1 THEN free_list
                        ELSE [free_list EXCEPT ![c] = start_free + c]
        /\ Give(start_free, c, chain)
        /\ UNCHANGED recycled

(* No chunk fits: NULL is returned, and what is left goes to the list of   *)
(* its size.  (With nothing left the call changes nothing.)                *)
Recycle(n) ==
    LET c == Chunk(n)
    IN  /\ start_free # NULL
        /\ ListHead(c) = NULL
        /\ Fits(c) = 0
        /\ Left > 0
        /\ free_list' = [free_list EXCEPT ![Left] = start_free]
        /\ link' = [link EXCEPT ![start_free] = free_list[Left]]
        /\ size' = [size EXCEPT ![start_free] = 0]
        /\ recycled' = TRUE
        /\ UNCHANGED <<start_free, live>>

ShareAllocate(n) ==
    /\ BagCardinality(live) < MaxHeld
    /\ Pop(n) \/ Carve(n) \/ Recycle(n)

(* The list is chosen by the size in the head.  If it was overwritten the  *)
(* index is undefined.                                                     *)
ShareDeAllocate(chunk) ==
    LET s == size[chunk.at]
    IN  /\ s # 0
        /\ SetHead(s, chunk.at)
        /\ link' = [link EXCEPT ![chunk.at] = ListHead(s)]
        /\ size' = [size EXCEPT ![chunk.at] = 0]
        /\ live' = live (-) SetToBag({chunk})
        /\ UNCHANGED recycled

Next ==
    \/ \E n \in Requests : ShareAllocate(n)
    \/ \E chunk \in Held : ShareDeAllocate(chunk)

Spec == Init /\ [][Next]_vars
-----------------------------------------------------------------------------
(* The chunks on the list of class c, found by following the links.        *)
Listed(c) ==
    LET reach[k \in 0 .. Region] ==
            IF k = 0 THEN {free_list[c]} \ {NULL, Lost}
            ELSE LET prev == reach[k - 1]
                 IN  prev \cup ({link[a] : a \in prev} \ {NULL, Lost})
    IN  {[at |-> a, words |-> c] : a \in reach[Region]}

Free == UNION {Listed(c) : c \in Classes}

TypeOK ==
    /\ start_free \in 1 .. end_free
    /\ free_list \in [Classes -> Words \cup {NULL}]
    /\ link \in [Words -> Words \cup {NULL, Lost}]
    /\ size \in [Words -> {0} \cup Classes]
    /\ IsABag(live) /\ Held \subseteq [at : Words, words : Classes]
    /\ recycled \in BOOLEAN

(* Until a rest is recycled, the chunks that were cut are either held by   *)
(* one caller or on one free list, once, and fill the region up to         *)
(* start_free without gap or overlap (c_sharemem.c:57-79, 129-153).        *)
NothingLostOrShared ==
    ~recycled =>
        /\ \A x \in Held : live[x] = 1
        /\ Held \cap Free = {}
        /\ \A x, y \in Held \cup Free : x # y => Cells(x) \cap Cells(y) = {}
        /\ UNION {Cells(x) : x \in Held \cup Free} = 1 .. start_free - 1

(* Until a rest is recycled, the pool is an allocator: what it hands out   *)
(* is in the region and overlaps nothing that is held.                     *)
HeldBlocks ==
    [block \in {Cells(x) : x \in Held} |->
        BagCardinality([x \in {y \in Held : Cells(y) = block} |-> live[x]])]

Alloc == INSTANCE Allocator WITH Memory <- Words, live <- HeldBlocks

ServesUntilRecycled == Alloc!Init /\ [][recycled \/ Alloc!Next]_HeldBlocks
-----------------------------------------------------------------------------
(* A statement of the source that the code does not keep.                  *)

(* "recycle span space to freelist" (c_sharemem.c:188): the space moves to *)
(* the list and is not handed out from both places.                        *)
ImplementsAllocator == Alloc!Spec
=============================================================================
