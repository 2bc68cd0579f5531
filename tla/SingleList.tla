------------------------------ MODULE SingleList ------------------------------
(* The singly linked list of src/C/source/datastruct/source/               *)
(* scl_single_list.c, with its two ends.                                   *)
EXTENDS Integers, SequencesExt

CONSTANT Nodes

VARIABLES
    next, head, tail,
    items           \* history: the nodes a sequence would hold

vars == <<next, head, tail, items>>

NULL == 0

\* slist_init; the member of a node that was never linked may hold anything
Init ==
    /\ next = [n \in Nodes |-> NULL]
    /\ head = NULL
    /\ tail = NULL
    /\ items = << >>

New == Nodes \ ToSet(items)

slist_add_tail(newnode) ==
    /\ next' = IF head = NULL THEN [next EXCEPT ![newnode] = NULL]
               ELSE [next EXCEPT ![newnode] = NULL, ![tail] = newnode]
    /\ head' = IF head = NULL THEN newnode ELSE head
    /\ tail' = newnode
    /\ items' = Append(items, newnode)

slist_add_head(newnode) ==
    /\ next' = [next EXCEPT ![newnode] = head]
    /\ tail' = IF tail = NULL THEN newnode ELSE tail
    /\ head' = newnode
    /\ items' = <<newnode>> \o items

MutAfterRemove == [head |-> next[head], tail |-> tail]

\* the ends after the first node is taken out
AfterRemove ==
    IF head = tail THEN [head |-> NULL, tail |-> NULL]
    ELSE [head |-> next[head], tail |-> tail]

slist_remove_head ==
    /\ head # NULL
    /\ head' = AfterRemove.head
    /\ tail' = AfterRemove.tail
    /\ items' = Tail(items)
    /\ UNCHANGED next

Next ==
    \/ \E n \in New : slist_add_tail(n) \/ slist_add_head(n)
    \/ slist_remove_head

Spec == Init /\ [][Next]_vars
-----------------------------------------------------------------------------
(* slist_for_each: the nodes met along the links before the end, or as far *)
(* as it goes when the links make a loop.                                  *)
Walk ==
    LET at[i \in 0 .. Cardinality(Nodes)] ==
            IF i = 0 THEN head ELSE IF at[i - 1] = NULL THEN NULL ELSE next[at[i - 1]]
        ends == {i \in 0 .. Cardinality(Nodes) : at[i] = NULL}
    IN  [i \in 1 .. (IF ends = {} THEN Cardinality(Nodes) + 1 ELSE Min(ends)) |-> at[i - 1]]

(* The list is the sequence its calls made of it, and tail its last node   *)
(* also after the list was emptied and filled from either end              *)
(* (scl_single_list.c:12-58).                                              *)
ListIsSequence ==
    /\ Walk = items
    /\ IF items = << >> THEN head = NULL /\ tail = NULL ELSE tail = Last(items)
=============================================================================
