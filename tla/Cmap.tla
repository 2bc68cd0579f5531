--------------------------------- MODULE Cmap ---------------------------------
(***************************************************************************)
(* The chained map of src/C/source/datastruct/source/cmap.c, with its      *)
(* iterator.  bucket_array[i] is the chain of nodes of bucket i.           *)
(***************************************************************************)
EXTENDS Integers, SequencesExt

CONSTANTS
    Keys, Vals,
    hash_func(_), bucket_size

VARIABLES
    bucket_array,
    pos,        \* the iterator: a bucket and a place in its chain, or NoPos
    stopped,    \* "hung": cmap_insert never returned, "astray": a call used
                \* an index before bucket_array, which is undefined
    gone,       \* the map was destroyed
    dict,       \* history: what a map would hold
    todo, seen  \* history: keys the iteration owes its caller, and gave

vars == <<bucket_array, pos, stopped, gone, dict, todo, seen>>

NoPos == <<0, 0>>

Buckets == 0 .. bucket_size - 1

(* The remainder of an int hash, with the sign that C gives it.            *)
idx(key) == LET hash_val == hash_func(key)
            IN  IF hash_val >= 0 THEN hash_val % bucket_size
                ELSE -((-hash_val) % bucket_size)

\* the chain of a key whose index is a bucket's
Chain(key) == bucket_array[idx(key)]

\* the places in front of a node whose keys compare equal
Places(key) == {j \in DOMAIN Chain(key) : Chain(key)[j].key = key}
cmap_find(key) == IF Places(key) = {} THEN 0 ELSE Min(Places(key))

\* cmap_create, cmap_init_with_size
Init ==
    /\ bucket_array = [i \in Buckets |-> << >>]
    /\ pos = NoPos
    /\ stopped = "no"
    /\ gone = FALSE
    /\ dict = << >>
    /\ todo = {}
    /\ seen = << >>

MutPut(key, value) == Append(Chain(key), [key |-> key, val |-> value])

\* a first node of the same key gets the value, an empty chain a first node
Put(key, value) == <<[key |-> key, val |-> value]>>

(* cmap_insert, cmap_find: a negative index, that of a negative hash, is   *)
(* used as it is.                                                          *)
Astray(key) ==
    /\ idx(key) < 0
    /\ stopped' = "astray"
    /\ UNCHANGED <<bucket_array, pos, gone, dict, todo, seen>>

(* The loop looks at the first node of the chain only: "cur->next;" does   *)
(* not go on, and with another key there it never ends.                    *)
cmap_insert(key, value) ==
    LET first == Chain(key) # << >>
    IN  /\ idx(key) >= 0
        /\ \/ /\ first => Chain(key)[1].key = key
              /\ bucket_array' = [bucket_array EXCEPT ![idx(key)] = Put(key, value)]
              /\ dict' = [k \in DOMAIN dict \cup {key} |-> IF k = key THEN value ELSE dict[k]]
              /\ UNCHANGED <<pos, stopped, gone, todo, seen>>
           \/ /\ first /\ Chain(key)[1].key # key
              /\ stopped' = "hung"
              /\ UNCHANGED <<bucket_array, pos, gone, dict, todo, seen>>

\* the first node of the first chain from bucket i on that has one
FirstFrom(i) ==
    LET chains == {b \in i .. bucket_size - 1 : bucket_array[b] # << >>}
    IN  IF chains = {} THEN NoPos ELSE <<Min(chains), 1>>

MutNext == IF pos[2] < Len(bucket_array[pos[1]]) THEN <<pos[1], pos[2] + 1>>
           ELSE FirstFrom(pos[1] + 2)

NextPos == IF pos[2] < Len(bucket_array[pos[1]]) THEN <<pos[1], pos[2] + 1>>
           ELSE FirstFrom(pos[1] + 1)

GoTo(p, owed, given) ==
    LET key == IF p = NoPos THEN << >> ELSE <<bucket_array[p[1]][p[2]].key>>
    IN  /\ pos' = p
        /\ todo' = owed \ ToSet(key)
        /\ seen' = given \o key
        /\ UNCHANGED <<bucket_array, stopped, gone, dict>>

cmap_get_start_pos == GoTo(FirstFrom(0), DOMAIN dict, << >>)

cmap_get_next == pos # NoPos /\ GoTo(NextPos, todo, seen)

(* The copies of keys and values are freed, the nodes are not.             *)
cmap_destroy ==
    /\ gone' = TRUE
    /\ bucket_array' = [i \in Buckets |-> << >>]
    /\ dict' = << >>
    /\ pos' = NoPos
    /\ todo' = {}
    /\ seen' = << >>
    /\ UNCHANGED stopped

Next ==
    /\ stopped = "no" /\ ~gone
    /\ \/ \E key \in Keys : Astray(key)
       \/ \E key \in Keys, value \in Vals : cmap_insert(key, value)
       \/ cmap_get_start_pos
       \/ cmap_get_next
       \/ cmap_destroy

Spec == Init /\ [][Next]_vars
-----------------------------------------------------------------------------
(* A search finds what a map would hold, for as long as insertions return: *)
(* colliding keys never displace or duplicate a pair (cmap.c:57-135).  It  *)
(* speaks of the keys that have a bucket: a key of a negative hash has one *)
(* only if bucket_size divides the hash.                                   *)
AnswersAsMap ==
    /\ \A key \in DOMAIN dict : idx(key) \in Buckets
    /\ \A key \in Keys : idx(key) \in Buckets =>
        /\ cmap_find(key) # 0 <=> key \in DOMAIN dict
        /\ key \in DOMAIN dict => Chain(key)[cmap_find(key)].val = dict[key]

(* An iteration gives each key at most once, and when it ends every key    *)
(* that was there when it began, whatever is inserted meanwhile            *)
(* (cmap.c:215-262).                                                       *)
IterationComplete ==
    /\ Len(seen) = Cardinality(ToSet(seen))
    /\ pos = NoPos => todo = {}
=============================================================================
