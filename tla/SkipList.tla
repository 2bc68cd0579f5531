------------------------------- MODULE SkipList -------------------------------
(***************************************************************************)
(* The skip list of src/C/source/datastruct/source/skiplist.c.             *)
(*                                                                         *)
(* A line is the sequence of the keys of its nodes, the top line first.    *)
(* The nodes of one key share one data_s; data holds the value of each.    *)
(* A place in a line is the key of a node, or Left for the node at its     *)
(* start: the member "down" of a node is the node of this key below.       *)
(***************************************************************************)
EXTENDS Integers, SequencesExt

CONSTANTS
    Keys, Vals,     \* keys are integers other than Left
    MaxLevel        \* bound: the highest column rand_level gives

VARIABLES
    lines, data, level, count,
    gone,           \* the list was destroyed
    dict            \* history: what a map would hold

vars == <<lines, data, level, count, gone, dict>>

Left == 0
NULL == 0

Index(line, at) == SelectInSeq(line, LAMBDA x : x = at)

After(line, at) == SubSeq(line, Index(line, at) + 1, Len(line))

\* the inner loop of the searches: to the right while the key is larger
Walk(line, at, key) ==
    LET rest == After(line, at)
        steps == {j \in DOMAIN rest : \A i \in 1 .. j : key > rest[i]}
    IN  IF steps = {} THEN at ELSE rest[Cardinality(steps)]

\* where a search is when it leaves each line
Update(ls, key) ==
    LET path[i \in DOMAIN ls] ==
            Walk(ls[i], IF i = 1 THEN Left ELSE path[i - 1], key)
    IN  path

IsRight(line, at, key) ==
    LET rest == After(line, at) IN rest # << >> /\ rest[1] = key

\* search_data and search_data_update find the key or NULL
search_data(key) ==
    \E i \in DOMAIN lines : IsRight(lines[i], Update(lines, key)[i], key)

search_data_update(key) ==
    IsRight(Last(lines), Last(Update(lines, key)), key)

gain_empty_top_lines(ls, n) == [i \in 1 .. n |-> << >>] \o ls

\* the empty lines above the first one with a node, but not the last line
MutTops(ls) == {}

Tops(ls) == {i \in 1 .. Len(ls) - 1 : \A j \in 1 .. i : ls[j] = << >>}

clean_empty_top_lines(ls) == SubSeq(ls, Cardinality(Tops(ls)) + 1, Len(ls))

MutColumn(ls, key, height) ==
    [i \in DOMAIN ls |->
        IF i > height THEN ls[i]
        ELSE InsertAt(ls[i], Index(ls[i], Update(ls, key)[i]) + 1, key)]

add_key_column(ls, key, height) ==
    [i \in DOMAIN ls |->
        IF i <= Len(ls) - height THEN ls[i]
        ELSE InsertAt(ls[i], Index(ls[i], Update(ls, key)[i]) + 1, key)]

remove_key_column(ls, key) ==
    [i \in DOMAIN ls |->
        IF IsRight(ls[i], Update(ls, key)[i], key)
        THEN RemoveAt(ls[i], Index(ls[i], Update(ls, key)[i]) + 1)
        ELSE ls[i]]
-----------------------------------------------------------------------------
skip_list_get(key) == IF search_data(key) THEN data[key] ELSE NULL
skip_list_contains(key) == search_data(key)
skip_list_key_set(length) ==
    [i \in 1 .. IF length < Len(Last(lines)) THEN length ELSE Len(Last(lines)) |-> Last(lines)[i]]
skip_list_value_set(length) ==
    LET keys == skip_list_key_set(length) IN [i \in DOMAIN keys |-> data[keys[i]]]

\* skip_list_create
Init ==
    /\ lines = << << >> >>
    /\ data = << >>
    /\ level = 1
    /\ count = 0
    /\ gone = FALSE
    /\ dict = << >>

With(f, key, v) == [k \in DOMAIN f \cup {key} |-> IF k = key THEN v ELSE f[k]]
Without(f, key) == [k \in DOMAIN f \ {key} |-> f[k]]

skip_list_put(key, v) ==
    /\ data' = With(data, key, v)
    /\ dict' = With(dict, key, v)
    /\ \/ /\ search_data(key)
          /\ UNCHANGED <<lines, level, count>>
       \/ /\ ~search_data(key)
          /\ \E target_level \in 1 .. MaxLevel :
                LET more == IF target_level > level THEN target_level - level ELSE 0
                IN  /\ lines' = add_key_column(gain_empty_top_lines(lines, more),
                                               key, target_level)
                    /\ level' = level + more
          /\ count' = count + 1

skip_list_remove(key) ==
    /\ dict' = Without(dict, key)
    /\ \/ /\ search_data_update(key)
          /\ LET rest == remove_key_column(lines, key)
             IN  /\ lines' = clean_empty_top_lines(rest)
                 /\ level' = level - Cardinality(Tops(rest))
          /\ data' = Without(data, key)
          /\ count' = count - 1
       \/ /\ ~search_data_update(key)
          /\ UNCHANGED <<lines, data, level, count>>

(* The nodes of every line are freed, and the lines; no data_s is.         *)
skip_list_destroy ==
    /\ gone' = TRUE
    /\ lines' = << << >> >>
    /\ dict' = << >>
    /\ UNCHANGED <<data, level, count>>

Next ==
    /\ ~gone
    /\ \/ /\ \/ \E key \in Keys, v \in Vals : skip_list_put(key, v)
             \/ \E key \in Keys : skip_list_remove(key)
          /\ UNCHANGED gone
       \/ skip_list_destroy

Spec == Init /\ [][Next]_vars
-----------------------------------------------------------------------------
(* Each line is sorted and thins out the one below, the top line is only   *)
(* empty when it is the last, and level and count say how many lines and   *)
(* keys there are (skiplist.c:7-17, 100-115): the array of the path, which *)
(* has room for level lines, never overflows.                              *)
LinesSound ==
    /\ \A i \in DOMAIN lines :
          /\ \A j \in 1 .. Len(lines[i]) - 1 : lines[i][j] < lines[i][j + 1]
          /\ i < Len(lines) => ToSet(lines[i]) \subseteq ToSet(lines[i + 1])
    /\ Len(lines) > 1 => lines[1] # << >>
    /\ ~gone => level = Len(lines) /\ count = Cardinality(DOMAIN dict)

(* Every query answers as a map would, in whatever order the columns of    *)
(* whatever height were put and removed, and the key set comes sorted      *)
(* (skiplist.h:18-67).                                                     *)
AnswersAsMap ==
    /\ \A key \in Keys :
          /\ skip_list_contains(key) <=> key \in DOMAIN dict
          /\ skip_list_contains(key) <=> search_data_update(key)
          /\ key \in DOMAIN dict => skip_list_get(key) = dict[key]
    /\ \A length \in 0 .. Cardinality(Keys) :
          LET keys == skip_list_key_set(length)
          IN  /\ Len(keys) = IF length < Cardinality(DOMAIN dict) THEN length
                             ELSE Cardinality(DOMAIN dict)
              /\ \A k \in DOMAIN dict \ ToSet(keys), j \in DOMAIN keys : keys[j] < k
              /\ skip_list_value_set(length) = [j \in DOMAIN keys |-> dict[keys[j]]]
=============================================================================
