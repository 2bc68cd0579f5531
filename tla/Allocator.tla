------------------------------ MODULE Allocator ------------------------------
(***************************************************************************)
(* What a memory pool promises its callers: the blocks they hold at any    *)
(* time are inside the memory of the pool and never overlap.               *)
(***************************************************************************)
EXTENDS Integers, Bags

CONSTANT Memory     \* the addresses the pool may hand out

VARIABLE live       \* the bag of blocks callers hold, each a set of addresses

Init == live = EmptyBag

Allocate ==
    \E block \in BagToSet(live') :
        /\ block # {}
        /\ block \subseteq Memory
        /\ block \cap UNION BagToSet(live) = {}
        /\ live' = live (+) SetToBag({block})

Release ==
    \E block \in BagToSet(live) : live' = live (-) SetToBag({block})

Next == Allocate \/ Release

Spec == Init /\ [][Next]_live
=============================================================================
