------------------------------ MODULE DbufPool -------------------------------
(***************************************************************************)
(* The dbuf pool of src/C/source/memory/source/mempool.c: blocks from      *)
(* which memory is split off and never given back piece by piece; a block  *)
(* is freed when as many pieces were freed as were split off.              *)
(***************************************************************************)
EXTENDS Integers, Sequences, FiniteSetsExt, Bags

CONSTANTS
    requested,      \* the block_size given to scl_dbuf_pool_create
    page_size,      \* more than Overhead
    Overhead,       \* 16 + sizeof(SCL_DBUF)
    ShortBits,      \* width of the member "used", a short
    Lengths,        \* bound: the lengths callers ask for
    First,          \* the block that is part of the pool itself, not in Dbufs
    Dbufs,          \* bound: the addresses malloc has for further blocks
    MaxHeld,        \* bound: how many pieces callers hold at once
    FreesTwice      \* whether callers free a piece again

VARIABLES
    blocks,     \* the list from pool->head on
    used, size, \* members of each block
    fill,       \* addr - buf of each block: the bytes split off
    off, huge,  \* members of the pool
    live,       \* the bag of pieces callers hold
    old,        \* the pieces callers freed and still know
    answer,     \* what the last scl_dbuf_pool_free returned, and for what
    destroyed

vars == <<blocks, used, size, fill, off, huge, live, old, answer, destroyed>>
list == <<blocks, size, fill, off, huge>>

All == Dbufs \cup {First}
Linked == {blocks[i] : i \in DOMAIN blocks}

\* the list without the block b
Unlinked(b) ==
    LET i == CHOOSE j \in DOMAIN blocks : blocks[j] = b
    IN  SubSeq(blocks, 1, i - 1) \o SubSeq(blocks, i + 1, Len(blocks))

Held == BagToSet(live)

block_size ==
    LET pages == (requested \div page_size) * page_size
    IN  (IF pages < page_size THEN page_size ELSE pages) - Overhead

Init ==
    /\ blocks = <<First>>
    /\ used = [b \in All |-> 0]
    /\ size = [b \in All |-> block_size]
    /\ fill = [b \in All |-> 0]
    /\ off = 0
    /\ huge = 0
    /\ live = EmptyBag
    /\ old = {}
    /\ answer = [of |-> "nothing", value |-> 0]
    /\ destroyed = FALSE

Short(n) ==
    LET top == 2 ^ (ShortBits - 1) IN ((n + top) % (2 * top)) - top
-----------------------------------------------------------------------------
(* scl_dbuf_pool_alloc *)

Rounded(length) == length + (4 - (length % 4))

Split(b, length) ==
    LET piece == [block |-> b, at |-> fill'[b] - length, bytes |-> length]
    IN  /\ live' = live (+) SetToBag({piece})
        /\ old' = old \ {piece}
        /\ off' = off + length

MutHasRoom(length) == fill[Head(blocks)] <= block_size

HasRoom(length) == fill[Head(blocks)] + length <= block_size

SplitHead(n) ==
    LET length == Rounded(n)
        b == Head(blocks)
    IN  /\ length <= block_size
        /\ blocks # << >>
        /\ HasRoom(length)
        /\ fill' = [fill EXCEPT ![b] = @ + length]
        /\ used' = [used EXCEPT ![b] = Short(@ + 1)]
        /\ Split(b, length)
        /\ UNCHANGED <<blocks, size, huge, answer>>

(* scl_dbuf_alloc puts a block in front, larger than the others if the     *)
(* piece is; malloc may give an address that had been freed.               *)
MutSplitNewLast(n) ==
    LET length == Rounded(n)
        large == length > block_size
    IN  /\ large \/ blocks = << >> \/ ~HasRoom(length)
        /\ \E b \in Dbufs \ Linked :
              /\ blocks' = Append(blocks, b)
              /\ size' = [size EXCEPT ![b] = IF large THEN length ELSE block_size]
              /\ fill' = [fill EXCEPT ![b] = length]
              /\ used' = [used EXCEPT ![b] = Short(1)]
              /\ Split(b, length)
        /\ huge' = IF large THEN huge + 1 ELSE huge
        /\ UNCHANGED answer

SplitNew(n) ==
    LET length == Rounded(n)
        large == length > block_size
    IN  /\ large \/ blocks = << >> \/ ~HasRoom(length)
        /\ \E b \in Dbufs \ Linked :
              /\ blocks' = <<b>> \o blocks
              /\ size' = [size EXCEPT ![b] = IF large THEN length ELSE block_size]
              /\ fill' = [fill EXCEPT ![b] = length]
              /\ used' = [used EXCEPT ![b] = Short(1)]
              /\ Split(b, length)
        /\ huge' = IF large THEN huge + 1 ELSE huge
        /\ UNCHANGED answer

Alloc(n) ==
    /\ ~destroyed
    /\ BagCardinality(live) < MaxHeld
    /\ SplitHead(n) \/ SplitNew(n)
    /\ UNCHANGED destroyed
-----------------------------------------------------------------------------
(* scl_dbuf_pool_free *)

Found(piece) == piece.block \in Linked /\ piece.at < fill[piece.block]

Answer(piece, value) ==
    answer' = [of |-> IF piece \in Held THEN "held" ELSE "not held",
               value |-> value]

(* -1: no block has the address, or "used" becomes negative, and stays so. *)
Refuse(piece) ==
    /\ \/ /\ ~Found(piece)
          /\ UNCHANGED used
       \/ /\ Found(piece)
          /\ Short(used[piece.block] - 1) < 0
          /\ used' = [used EXCEPT ![piece.block] = Short(@ - 1)]
    /\ Answer(piece, -1)
    /\ UNCHANGED list

(* 0: other pieces of the block are in use, or it is the pool's own.       *)
Keep(piece) ==
    /\ Found(piece)
    /\ LET u == Short(used[piece.block] - 1)
       IN  /\ u > 0 \/ (u = 0 /\ piece.block = First)
           /\ used' = [used EXCEPT ![piece.block] = u]
    /\ Answer(piece, 0)
    /\ UNCHANGED list

(* 1: the block is freed.                                                  *)
MutDropKeepsOff(piece) ==
    LET b == piece.block
    IN  /\ Found(piece)
        /\ b # First
        /\ Short(used[b] - 1) = 0
        /\ used' = [used EXCEPT ![b] = 0]
        /\ blocks' = Unlinked(b)
        /\ huge' = IF size[b] > block_size THEN huge - 1 ELSE huge
        /\ Answer(piece, 1)
        /\ UNCHANGED <<size, fill, off>>

MutDropAtOne(piece) ==
    LET b == piece.block
    IN  /\ Found(piece)
        /\ b # First
        /\ Short(used[b] - 1) <= 1
        /\ used' = [used EXCEPT ![b] = 0]
        /\ blocks' = Unlinked(b)
        /\ off' = off - fill[b]
        /\ huge' = IF size[b] > block_size THEN huge - 1 ELSE huge
        /\ Answer(piece, 1)
        /\ UNCHANGED <<size, fill>>

Drop(piece) ==
    LET b == piece.block
    IN  /\ Found(piece)
        /\ b # First
        /\ Short(used[b] - 1) = 0
        /\ used' = [used EXCEPT ![b] = 0]
        /\ blocks' = Unlinked(b)
        /\ off' = off - fill[b]
        /\ huge' = IF size[b] > block_size THEN huge - 1 ELSE huge
        /\ Answer(piece, 1)
        /\ UNCHANGED <<size, fill>>

(* Callers free what they hold, what they freed before, or an address that *)
(* lies in no block of the pool.                                           *)
Foreign == {[block |-> b, at |-> 0, bytes |-> 4] : b \in Dbufs \ Linked}

Free(piece) ==
    /\ ~destroyed
    /\ Refuse(piece) \/ Keep(piece) \/ Drop(piece)
    /\ live' = live (-) SetToBag({piece})
    /\ old' = IF FreesTwice THEN old \cup ({piece} \cap Held) ELSE {}
    /\ UNCHANGED destroyed

(* scl_dbuf_pool_destroy frees the blocks in front of the pool's own, and  *)
(* then the pool.                                                          *)
Destroy ==
    /\ ~destroyed
    /\ destroyed' = TRUE
    /\ LET own == CHOOSE i \in DOMAIN blocks : blocks[i] = First
           front == {blocks[i] : i \in 1 .. own - 1}
       IN  /\ blocks' = SubSeq(blocks, own + 1, Len(blocks))
           /\ huge' = huge - Quantify(front, LAMBDA b : size[b] > block_size)
    /\ live' = EmptyBag
    /\ old' = {}
    /\ UNCHANGED <<used, size, fill, off, answer>>

Next ==
    \/ \E n \in Lengths : Alloc(n)
    \/ \E piece \in Held \cup old \cup Foreign : Free(piece)
    \/ Destroy

Spec == Init /\ [][Next]_vars
-----------------------------------------------------------------------------
TypeOK ==
    /\ blocks \in Seq(All)
    /\ used \in [All -> Int]
    /\ size \in [All -> Nat]
    /\ fill \in [All -> Nat]
    /\ off \in Nat
    /\ huge \in Nat
    /\ IsABag(live) /\ Held \subseteq [block : All, at : Nat, bytes : Nat]
    /\ old \subseteq [block : All, at : Nat, bytes : Nat]
    /\ answer \in [of : {"nothing", "held", "not held"}, value : -1 .. 1]
    /\ destroyed \in BOOLEAN

(* A piece that is held lies in the memory of a block that has not been    *)
(* freed (mempool.c:109, 130-146).                                         *)
HeldInPool ==
    \A piece \in Held :
        /\ piece.block \in Linked
        /\ piece.at + piece.bytes <= fill[piece.block]
        /\ fill[piece.block] <= size[piece.block]

(* What the pool counts is what happened: each block its pieces, the pool  *)
(* the bytes split off its blocks and the blocks of more than block_size   *)
(* (mempool.c:110, 141-144, 168, 196).                                     *)
Accounts ==
    ~destroyed =>
        /\ \A b \in Linked :
              used[b] = BagCardinality([p \in {q \in Held : q.block = b} |-> live[p]])
        /\ off = MapThenSumSet(LAMBDA b : fill[b], Linked)
        /\ huge = Quantify(Linked, LAMBDA b : size[b] > block_size)

(* Pieces never overlap: the pool is an allocator.                         *)
Addresses(piece) == {piece.block} \X (piece.at .. piece.at + piece.bytes - 1)

HeldBlocks ==
    [a \in {Addresses(p) : p \in Held} |->
        BagCardinality([p \in {q \in Held : Addresses(q) = a} |-> live[p]])]

\* the size of the largest block
Largest == Max({block_size} \cup {Rounded(n) : n \in Lengths})

Pool == INSTANCE Allocator WITH
    Memory <- All \X (0 .. Largest - 1), live <- HeldBlocks

ImplementsAllocator == Pool!Init /\ [][destroyed' \/ Pool!Next]_HeldBlocks

(* scl_dbuf_pool_destroy frees every block: none is behind the pool's own, *)
(* where its loop stops (mempool.c:82-94).                                 *)
DestroyFreesAll == destroyed => blocks = << >> /\ huge = 0
-----------------------------------------------------------------------------
(* A statement of the source that the code does not keep.                  *)

(* "freed several times: -1 is returned" (mempool.h:35).                   *)
FreedAgainIsRefused == answer.of = "not held" => answer.value = -1
=============================================================================
