------------------------------ MODULE DoubleList ------------------------------
(***************************************************************************)
(* The ring of nodes around a head (src/C/source/datastruct): the double   *)
(* list, and the queue, stack and deque, which are the same ring under     *)
(* other names.                                                            *)
(***************************************************************************)
EXTENDS Integers, SequencesExt

CONSTANT Nodes

VARIABLES
    next, prev,     \* the members of every node; Unset in one never linked
    items           \* history: the nodes a sequence would hold

vars == <<next, prev, items>>

head == 0
Unset == -1
NULL == -2
Linked == Nodes \cup {head}

(* dlist_init, squeue_init, stack_init, dqueue_init                        *)
Init ==
    /\ next = [n \in Linked |-> IF n = head THEN head ELSE Unset]
    /\ prev = next
    /\ items = << >>

MutAdd(before, after, newnode) ==
    /\ prev' = [prev EXCEPT ![newnode] = before]
    /\ next' = [next EXCEPT ![newnode] = after, ![before] = newnode]

dl_node_add(before, after, newnode) ==
    /\ prev' = [prev EXCEPT ![after] = newnode, ![newnode] = before]
    /\ next' = [next EXCEPT ![newnode] = after, ![before] = newnode]

dl_node_remove(before, after) ==
    /\ next' = [next EXCEPT ![before] = after]
    /\ prev' = [prev EXCEPT ![after] = before]

Empty == next[head] = head

(* dlist_for_each and dlist_reverse_for_each: the nodes met along one kind *)
(* of link before the head is met again.                                   *)
Walk(link) ==
    LET at[i \in 0 .. Cardinality(Linked)] == IF i = 0 THEN head ELSE link[at[i - 1]]
        back == {i \in 1 .. Cardinality(Linked) : at[i] = head}
    IN  [i \in 1 .. (IF back = {} THEN Cardinality(Linked) ELSE Min(back) - 1) |-> at[i]]

dlist_size == Len(Walk(next))
dlist_peek_head == IF Empty THEN NULL ELSE next[head]
dlist_peek_tail == IF Empty THEN NULL ELSE prev[head]
-----------------------------------------------------------------------------
\* a caller adds a node that is in no list
New == Nodes \ ToSet(items)

dlist_add_tail(newnode) ==
    /\ dl_node_add(prev[head], head, newnode)
    /\ items' = Append(items, newnode)

dlist_add_head(newnode) ==
    /\ dl_node_add(head, next[head], newnode)
    /\ items' = <<newnode>> \o items

dlist_remove_from_head ==
    /\ ~Empty
    /\ dl_node_remove(head, next[next[head]])
    /\ items' = Tail(items)

dlist_remove_from_tail ==
    /\ ~Empty
    /\ dl_node_remove(prev[prev[head]], head)
    /\ items' = Front(items)

\* the queue is pushed at the tail and popped at the head,
squeue_push(newnode) == dlist_add_tail(newnode)
squeue_pop == dlist_remove_from_head

\* the stack is pushed and popped at the head,
stack_push(newnode) == dlist_add_head(newnode)
stack_pop == dlist_remove_from_head

\* and the deque has both at both
dqueue_push(newnode) == dlist_add_tail(newnode) \/ dlist_add_head(newnode)
dqueue_pop == dlist_remove_from_tail \/ dlist_remove_from_head

Next ==
    \/ \E n \in New : \/ dlist_add_tail(n) \/ dlist_add_head(n)
                      \/ squeue_push(n) \/ stack_push(n) \/ dqueue_push(n)
    \/ dlist_remove_from_head \/ dlist_remove_from_tail
    \/ squeue_pop \/ stack_pop \/ dqueue_pop

Spec == Init /\ [][Next]_vars
-----------------------------------------------------------------------------
(* The ring read forwards and backwards is the sequence the calls made of  *)
(* it, though a node that was taken out keeps its old links and may be put *)
(* back in (dscommon.c:20-36); first, last and size follow.                *)
RingIsSequence ==
    /\ Walk(next) = items
    /\ Walk(prev) = Reverse(items)
    /\ dlist_size = Len(items)
    /\ dlist_peek_head = IF items = << >> THEN NULL ELSE Head(items)
    /\ dlist_peek_tail = IF items = << >> THEN NULL ELSE Last(items)
=============================================================================
