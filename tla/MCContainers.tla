----------------------------- MODULE MCContainers -----------------------------
(* The containers for TLC.  They share no state: a behaviour is one of one  *)
(* container, the others stay as they were created.                         *)
EXTENDS HashMap, TLC

CONSTANTS
    v1, v2,
    SkipKeys, SkipLevels,               \* of the skip list
    CmapKeys, CmapHash(_), CmapSize,    \* of the chained map
    RingNodes, ListNodes                \* of the rings and of the single list

(* The head of a ring is none of its nodes, and NULL is no node.           *)
ASSUME ListsAssumption ==
    /\ IsFiniteSet(RingNodes) /\ 0 \notin RingNodes
    /\ IsFiniteSet(ListNodes) /\ 0 \notin ListNodes

(* Left, the node in front of a line, is no key.                           *)
ASSUME SkipAssumption ==
    /\ SkipKeys \subseteq Int \ {0} /\ IsFiniteSet(SkipKeys)
    /\ SkipLevels \in Nat \ {0}

(* cmap_init_with_size makes at least one bucket, and a hash is an int.    *)
ASSUME CmapAssumption ==
    /\ CmapSize \in Nat \ {0}
    /\ \A key \in CmapKeys : CmapHash(key) \in Int

VARIABLES
    which,
    s_lines, s_data, s_level, s_count, s_gone, s_dict,
    c_bucket_array, c_pos, c_stopped, c_gone, c_dict, c_todo, c_seen,
    d_next, d_prev, d_items,
    l_next, l_head, l_tail, l_items

\* 1 and 5 meet in the arrays of 2 and 4, and 1 and 3 only in that of 2
Hashes == [k \in Keys |-> k]

SomeOverlays == {<<<<1, v1>>, <<2, v2>>>>, <<<<5, v1>>, <<2, v1>>, <<1, v2>>>>}

Symmetry == Permutations(Vals)

Skip == INSTANCE SkipList WITH
    Keys <- SkipKeys, Vals <- Vals, MaxLevel <- SkipLevels,
    lines <- s_lines, data <- s_data, level <- s_level, count <- s_count,
    gone <- s_gone, dict <- s_dict

\* the hash of an int key is the key: of 4 buckets, 1 and 5 share one, -4 has
\* the first and -3 none
hash_func_int(key) == key
IntKeys == {-4, -3, 1, 2, 3, 5}

Chained == INSTANCE Cmap WITH
    Keys <- CmapKeys, Vals <- Vals, hash_func <- CmapHash, bucket_size <- CmapSize,
    bucket_array <- c_bucket_array, pos <- c_pos, stopped <- c_stopped,
    gone <- c_gone, dict <- c_dict, todo <- c_todo, seen <- c_seen

Ring == INSTANCE DoubleList WITH
    Nodes <- RingNodes, next <- d_next, prev <- d_prev, items <- d_items

Single == INSTANCE SingleList WITH
    Nodes <- ListNodes, next <- l_next, head <- l_head, tail <- l_tail, items <- l_items

s_vars == <<s_lines, s_data, s_level, s_count, s_gone, s_dict>>
c_vars == <<c_bucket_array, c_pos, c_stopped, c_gone, c_dict, c_todo, c_seen>>
d_vars == <<d_next, d_prev, d_items>>
l_vars == <<l_next, l_head, l_tail, l_items>>

AllInit ==
    /\ which \in {"hash", "skip", "chained", "ring", "single"}
    /\ Init /\ Skip!Init /\ Chained!Init /\ Ring!Init /\ Single!Init

HashStep == which = "hash" /\ Next /\ UNCHANGED <<which, s_vars, c_vars, d_vars, l_vars>>
SkipStep == which = "skip" /\ Skip!Next /\ UNCHANGED <<which, vars, c_vars, d_vars, l_vars>>
ChainedStep == which = "chained" /\ Chained!Next /\ UNCHANGED <<which, vars, s_vars, d_vars, l_vars>>
RingStep == which = "ring" /\ Ring!Next /\ UNCHANGED <<which, vars, s_vars, c_vars, l_vars>>
SingleStep == which = "single" /\ Single!Next /\ UNCHANGED <<which, vars, s_vars, c_vars, d_vars>>

AllNext == HashStep \/ SkipStep \/ ChainedStep \/ RingStep \/ SingleStep

AllSpec == AllInit /\ [][AllNext]_<<which, vars, s_vars, c_vars, d_vars, l_vars>>
-----------------------------------------------------------------------------
(* SkipList: the lines are sorted, thin out upwards and are counted right, *)
(* and gets, removals and key sets answer as those of a sorted map.        *)
SkipIsSortedMap == which = "skip" => Skip!LinesSound /\ Skip!AnswersAsMap

(* Cmap: until a call uses an index before the buckets, a search finds     *)
(* what a map would hold, and an iteration gives every key once, beside    *)
(* insertions (cmap.c:57-135, 215-262).                                    *)
ChainedIsMap ==
    which = "chained" /\ c_stopped # "astray" =>
        Chained!AnswersAsMap /\ Chained!IterationComplete

(* DoubleList and SingleList: read from either end, a list is the sequence *)
(* that the calls made.                                                    *)
ListsAreSequences ==
    /\ which = "ring" => Ring!RingIsSequence
    /\ which = "single" => Single!ListIsSequence
=============================================================================
