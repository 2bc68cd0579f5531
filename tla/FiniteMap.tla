------------------------------ MODULE FiniteMap ------------------------------
(* What the tables of the library promise: a map from keys to values, of    *)
(* which at most one pair is set or removed by a call.                      *)
CONSTANTS Keys, Vals

VARIABLE dict

Maps == UNION {[D -> Vals] : D \in SUBSET Keys}

Init == dict = << >>

Bind(k, v) ==
    dict' = [x \in DOMAIN dict \cup {k} |-> IF x = k THEN v ELSE dict[x]]

Unbind(D) == dict' = [x \in DOMAIN dict \ D |-> dict[x]]

Next ==
    \/ \E k \in Keys, v \in Vals : Bind(k, v)
    \/ \E k \in Keys : Unbind({k})
    \/ Unbind(Keys)

Spec == Init /\ [][Next]_dict
=============================================================================
