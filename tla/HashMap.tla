------------------------------- MODULE HashMap -------------------------------
(***************************************************************************)
(* The hash table of src/C/source/datastruct/source/scl_hashmap.c: chains  *)
(* of entries, a list of recycled entries, an array that doubles, and one  *)
(* iteration in progress.                                                  *)
(*                                                                         *)
(* A chain is the sequence of its entries; the member "next" of an entry   *)
(* is its successor there or on the free list, which the code updates      *)
(* whenever it moves the entry.  An iterator holds the address of an entry *)
(* (its id), so it sees the entry move.                                    *)
(***************************************************************************)
EXTENDS Integers, SequencesExt

CONSTANTS
    Keys, Vals,
    Hash,           \* the hash of each key
    INITIAL_MAX,    \* 2^n - 1
    Overlays,       \* bound: the contents of the tables merged, as sequences
    PoolMayFail     \* whether scl_palloc may return NULL

NULL == 0

ASSUME HashAssumption ==
    /\ IsFiniteSet(Keys)
    /\ Hash \in [Keys -> Nat]
    /\ INITIAL_MAX \in Nat
    /\ NULL \notin Vals
    /\ Overlays \subseteq Seq(Keys \X Vals)

VARIABLES
    table,      \* the table callers use: array, free, count and max
    it,         \* the iteration in progress
    view,       \* history: what its caller may rely on
    crashed     \* NULL was written to

vars == <<table, it, view, crashed>>

Indexes(max) == 0 .. max

\* scl_hash_make
Empty == [array |-> [i \in Indexes(INITIAL_MAX) |-> << >>],
          free |-> << >>, count |-> 0, max |-> INITIAL_MAX]

\* the entries in the order scl_hash_next finds them
Walk(t) == FlattenSeq([i \in 1 .. t.max + 1 |-> t.array[i - 1]])

Entries(t) == UNION {ToSet(t.array[i]) : i \in Indexes(t.max)}
SeqOfIds(list) == [j \in DOMAIN list |-> list[j].id]
Ids(t) == {e.id : e \in Entries(t)} \cup ToSet(t.free)
KeysOf(t) == {e.key : e \in Entries(t)}
EntryOf(t, k) == CHOOSE e \in Entries(t) : e.key = k

Bucket(t, k) == Hash[k] % (t.max + 1)

\* the entries of a list that are in S
Sifted(list, S) ==
    FoldLeft(LAMBDA kept, e : IF e \in S THEN Append(kept, e) ELSE kept, << >>, list)

\* those of a list that belong in chain i of an array
InChain(list, i, max) == Sifted(list, {e \in ToSet(list) : Hash[e.key] % (max + 1) = i})

\* a list without its entry of this key
Unlinked(list, k) == RemoveAt(list, CHOOSE j \in DOMAIN list : list[j].key = k)

NewId(t) == CHOOSE i \in 1 .. Cardinality(Keys) + 1 :
                i \notin Ids(t)
-----------------------------------------------------------------------------
(* expand_array: each entry is put in front of its new chain.              *)
MutExpanded(t) ==
    LET max == 2 * t.max + 1
    IN  [t EXCEPT !.max = max,
            !.array = [i \in Indexes(max) |->
                IF i <= t.max THEN Reverse(t.array[i]) ELSE << >>]]

Expanded(t) ==
    LET max == 2 * t.max + 1
    IN  [t EXCEPT !.max = max,
            !.array = [i \in Indexes(max) |->
                Reverse(InChain(t.array[i % (t.max + 1)], i, max))]]

(* find_entry with a value: the new entry is the first recycled one, or a  *)
(* new one, and goes behind its chain.                                     *)
Added(t, k, v) ==
    LET id == IF t.free = << >> THEN NewId(t) ELSE Head(t.free)
    IN  [t EXCEPT !.array[Bucket(t, k)] = Append(@, [id |-> id, key |-> k, val |-> v]),
                  !.free = IF t.free = << >> THEN @ ELSE Tail(@),
                  !.count = @ + 1]

MutReplaced(t, k, v) ==
    [t EXCEPT !.array[Bucket(t, k)] = [j \in DOMAIN @ |-> [@[j] EXCEPT !.val = v]]]

Replaced(t, k, v) ==
    [t EXCEPT !.array[Bucket(t, k)] =
        [j \in DOMAIN @ |-> IF @[j].key = k THEN [@[j] EXCEPT !.val = v] ELSE @[j]]]

(* scl_hash_set: whether the key was there or not, a crowded table grows.  *)
Put(t, k, v) ==
    LET s == IF k \in KeysOf(t) THEN Replaced(t, k, v) ELSE Added(t, k, v)
    IN  IF s.count > s.max THEN Expanded(s) ELSE s

MutDeleted(t, k) ==
    [t EXCEPT !.array[Bucket(t, k)] = Unlinked(@, k),
              !.free = <<EntryOf(t, k).id>> \o @]

Deleted(t, k) ==
    [t EXCEPT !.array[Bucket(t, k)] = Unlinked(@, k),
              !.free = <<EntryOf(t, k).id>> \o @,
              !.count = @ - 1]

(* scl_hash_clear deletes every entry it finds.                            *)
Cleared(t) ==
    [t EXCEPT !.array = [i \in Indexes(t.max) |-> << >>],
              !.free = Reverse(SeqOfIds(Walk(t))) \o @,
              !.count = 0]

(* The entries of a copied or merged table are one new array.              *)
Renumbered(t) ==
    LET order == Walk(t)
        place == [e \in ToSet(order) |-> CHOOSE j \in DOMAIN order : order[j] = e]
    IN  [t EXCEPT !.array = [i \in Indexes(t.max) |->
            [j \in DOMAIN @[i] |-> [@[i][j] EXCEPT !.id = place[t.array[i][j]]]]]]

\* scl_hash_copy
Copied(t) == Renumbered([t EXCEPT !.free = << >>])

(* scl_hash_merge: the entries of base and then those of overlay whose key *)
(* is not in base are put in front of their chains; where both have a key  *)
(* the value is the overlay's, or m, what a merger returns.                *)
MergedMax(base, overlay) ==
    LET max == IF overlay.max > base.max THEN overlay.max ELSE base.max
    IN  IF base.count + overlay.count > max THEN 2 * max + 1 ELSE max

Merged(base, overlay, m) ==
    LET max == MergedMax(base, overlay)
        old == Walk(base)
        olds == KeysOf(base)
        overs == KeysOf(overlay)
        Mix(e) == IF e.key \notin overs THEN e
                  ELSE [e EXCEPT !.val = IF m = NULL THEN EntryOf(overlay, e.key).val
                                         ELSE m]
        more == Sifted(Walk(overlay), {e \in Entries(overlay) : e.key \notin olds})
        all == [j \in DOMAIN old |-> Mix(old[j])] \o more
    IN  Renumbered(
            [array |-> [i \in Indexes(max) |-> Reverse(InChain(all, i, max))],
             free |-> << >>, max |-> max, count |-> base.count + Len(more)])

\* the table a caller made by setting these pairs in this order
Made(pairs) ==
    FoldLeft(LAMBDA t, pair : Put(t, pair[1], pair[2]), Empty, pairs)

MadeTables == {Made(pairs) : pairs \in Overlays}
-----------------------------------------------------------------------------
(* An iterator: the entry it is at, the one its member "next" names, the   *)
(* index of the next chain, whether it is the one inside the table, and    *)
(* whether its caller still uses it.                                       *)
NoIt == [on |-> FALSE, at |-> NULL, next |-> NULL, index |-> 0, internal |-> FALSE]

\* what the member "next" of an entry holds
Successor(t, id) ==
    LET lists == {SeqOfIds(t.array[i]) : i \in Indexes(t.max)}
        list == CHOOSE l \in lists \cup {t.free} : id \in ToSet(l)
        j == CHOOSE j \in DOMAIN list : list[j] = id
    IN  IF j < Len(list) THEN list[j + 1] ELSE NULL

\* scl_hash_next
At(t, i, id) == [i EXCEPT !.at = id, !.next = Successor(t, id)]

MutStepped(t, i) ==
    LET ahead == {x \in i.index .. t.max : t.array[x] # << >>}
        chain == CHOOSE x \in ahead : \A y \in ahead : x <= y
    IN  IF ahead = {} THEN [i EXCEPT !.at = NULL, !.on = FALSE, !.index = t.max + 1]
        ELSE At(t, [i EXCEPT !.index = chain + 1], t.array[chain][1].id)

Stepped(t, i) ==
    LET ahead == {x \in i.index .. t.max : t.array[x] # << >>}
        chain == CHOOSE x \in ahead : \A y \in ahead : x <= y
    IN  IF i.next # NULL THEN At(t, i, i.next)
        ELSE IF ahead = {} THEN [i EXCEPT !.at = NULL, !.on = FALSE, !.index = t.max + 1]
        ELSE At(t, [i EXCEPT !.index = chain + 1], t.array[chain][1].id)

(* expand_array and scl_hash_clear walk the table with its own iterator,   *)
(* which then stands behind the last chain.                                *)
Walked(t, i) ==
    IF i.internal THEN [i EXCEPT !.at = NULL, !.next = NULL, !.index = t.max + 1] ELSE i

(* What the caller of an iteration may rely on: todo, the keys it has not  *)
(* seen; seen, those it has; calm, whether the table neither grew nor was  *)
(* cleared nor lost the very next entry.  wrong: a calm iteration returned *)
(* a key twice or after it was deleted, or ended with some still to do.    *)
NoView == [todo |-> {}, seen |-> {}, calm |-> TRUE, wrong |-> FALSE]

Stirred(stirs) == IF stirs THEN [NoView EXCEPT !.calm = FALSE] ELSE view

Return(i, todo, seen) ==
    LET key == {e.key : e \in {x \in Entries(table) : x.id = i.at}}
    IN  /\ it' = IF i.on THEN i ELSE NoIt
        /\ view' = IF ~i.on THEN [NoView EXCEPT !.wrong = todo # {}]
                   ELSE IF ~view.calm THEN view
                   ELSE [todo |-> todo \ key, seen |-> seen \cup key, calm |-> TRUE,
                         wrong |-> key = {} \/ key \subseteq seen]
-----------------------------------------------------------------------------
Init ==
    /\ table = Empty
    /\ it = NoIt
    /\ view = NoView
    /\ crashed = FALSE

scl_hash_set(k, v) ==
    LET grows == table'.max # table.max
    IN  /\ table' = Put(table, k, v)
        /\ it' = IF grows THEN Walked(table, it) ELSE it
        /\ view' = Stirred(it.on /\ grows)

\* a value that is NULL deletes
scl_hash_delete(k) ==
    LET v == Stirred(it.on /\ EntryOf(table, k).id = it.next)
    IN  /\ k \in KeysOf(table)
        /\ table' = Deleted(table, k)
        /\ view' = [v EXCEPT !.todo = @ \ {k}, !.seen = @ \ {k}]
        /\ UNCHANGED it

scl_hash_clear ==
    /\ table' = Cleared(table)
    /\ it' = Walked(table, it)
    /\ view' = Stirred(it.on)

scl_hash_first(internal) ==
    /\ Return(Stepped(table, [NoIt EXCEPT !.on = TRUE, !.internal = internal]),
              KeysOf(table), {})
    /\ UNCHANGED table

scl_hash_next ==
    /\ it.on
    /\ Return(Stepped(table, it), view.todo, view.seen)
    /\ UNCHANGED table

\* a search goes through the chain of its hash only
scl_hash_get(k) ==
    LET chain == table.array[Bucket(table, k)]
        found == {j \in DOMAIN chain : chain[j].key = k}
    IN  IF found = {} THEN NULL ELSE chain[Min(found)].val

(* The caller goes on with the new table.                                  *)
scl_hash_copy ==
    /\ table' = Copied(table)
    /\ it' = NoIt
    /\ view' = NoView

scl_hash_merge ==
    /\ \E overlay \in MadeTables, m \in Vals \cup {NULL} :
          table' = Merged(table, overlay, m)
    /\ it' = NoIt
    /\ view' = NoView

(* scl_palloc returns NULL to a call that needs an entry, an array, an     *)
(* iterator or a table: the code writes there.  A new entry of a table     *)
(* that is about to grow is already linked then.                           *)
PoolFails ==
    /\ PoolMayFail
    /\ crashed' = TRUE
    /\ \/ UNCHANGED table
       \/ \E k \in Keys \ KeysOf(table), v \in Vals :
             /\ table.count = table.max
             /\ table' = Added(table, k, v)
    /\ it' = NoIt
    /\ view' = NoView

Served ==
    \/ \E k \in Keys, v \in Vals : scl_hash_set(k, v)
    \/ \E k \in Keys : scl_hash_delete(k)
    \/ scl_hash_clear
    \/ \E internal \in BOOLEAN : scl_hash_first(internal)
    \/ scl_hash_next
    \/ scl_hash_copy
    \/ scl_hash_merge

Next == ~crashed /\ ((Served /\ UNCHANGED crashed) \/ PoolFails)

Spec == Init /\ [][Next]_vars
-----------------------------------------------------------------------------
TypeOK ==
    /\ \A e \in Entries(table) : e.key \in Keys /\ e.val \in Vals
    /\ it.next # NULL => it.next \in Ids(table)
    /\ table.count \in 0 .. Cardinality(Keys)
    /\ crashed \in BOOLEAN

(* Every entry is in the chain of its hash, no key and no entry is twice   *)
(* in the table or both in it and on the free list, the count is right,    *)
(* and the chains are short (scl_hashmap.c:296-326, 383-408).              *)
ChainsSound ==
    /\ DOMAIN table.array = Indexes(table.max)
    /\ \A i \in Indexes(table.max) :
          \A e \in ToSet(table.array[i]) : Bucket(table, e.key) = i
    /\ Len(Walk(table)) = Cardinality(KeysOf(table))
    /\ Len(Walk(table) \o table.free) = Cardinality(Ids(table))
    /\ table.count = Len(Walk(table))
    /\ ~crashed => table.count <= table.max

(* The table is a map: copying changes nothing, and merging gives it the   *)
(* pairs of the other table, or what the callback makes of common keys     *)
(* (scl_hashmap.h:60-83, 205-240).                                         *)
Contents ==
    LET there == {k \in Keys : scl_hash_get(k) # NULL} IN [k \in there |-> scl_hash_get(k)]

Map == INSTANCE FiniteMap WITH dict <- Contents

Overlaid(overlay, m) ==
    [k \in DOMAIN Contents \cup KeysOf(overlay) |->
        IF k \notin KeysOf(overlay) THEN Contents[k]
        ELSE IF k \in DOMAIN Contents /\ m # NULL THEN m
        ELSE EntryOf(overlay, k).val]

Merge == \E overlay \in MadeTables, m \in Vals \cup {NULL} :
             Contents' = Overlaid(overlay, m)

ImplementsMap == Map!Init /\ [][Map!Next \/ Merge]_Contents

(* A caller that sets and deletes keys during an iteration still gets each *)
(* key that was there, and was not deleted, once, unless the table grows,  *)
(* is cleared or loses the very next entry (scl_hashmap.h:109-112).        *)
IterationComplete == ~view.wrong
=============================================================================
