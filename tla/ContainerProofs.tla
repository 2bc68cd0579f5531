---------------------------- MODULE ContainerProofs ----------------------------
(***************************************************************************)
(* Safety of the containers for all their nodes, keys and sizes.           *)
(***************************************************************************)
EXTENDS MCContainers, DataLemmas, SequenceTheorems, FiniteSetTheorems

(***************************************************************************)
(* The rings of DoubleList.  Behind the last node of a ring and in front   *)
(* of the first one is the head, which is 0, as Place has it there.        *)
(***************************************************************************)
RingInv ==
    /\ d_items \in Seq(RingNodes)
    /\ NoneTwice(d_items)
    /\ d_next \in [Ring!Linked -> Ring!Linked \cup {Ring!Unset}]
    /\ d_prev \in [Ring!Linked -> Ring!Linked \cup {Ring!Unset}]
    /\ \A i \in 0 .. Len(d_items) :
          /\ d_next[Place(d_items, i)] = Place(d_items, i + 1)
          /\ d_prev[Place(d_items, i + 1)] = Place(d_items, i)

(* An empty ring is the ring of the empty sequence.                        *)
LEMMA RingInitially == Ring!Init => RingInv
BY ListsAssumption DEF Ring!Init, RingInv, NoneTwice, Place, Ring!Linked, Ring!head, Ring!Unset

(* Every place of a sequence of nodes, the header at both ends included,   *)
(* is a linked one.                                                        *)
LEMMA PlaceLinked ==
    ASSUME NEW s \in Seq(RingNodes), NEW i
    PROVE  Place(s, i) \in Ring!Linked
BY DEF Place, Ring!Linked, Ring!head

(* Two places of a ring are one only if they are the same.                 *)
LEMMA PlacesApart ==
    ASSUME NEW s \in Seq(RingNodes), NoneTwice(s),
           NEW i \in 0 .. Len(s), NEW j \in 0 .. Len(s), Place(s, i) = Place(s, j)
    PROVE  i = j
BY ListsAssumption DEF Place, NoneTwice

(* dlist_add_tail puts a node at the end of the sequence.                  *)
LEMMA AddTailKeepsRing ==
    ASSUME RingInv, NEW n \in Ring!New, Ring!dlist_add_tail(n)
    PROVE  RingInv'
<1> DEFINE s == d_items
           t == Append(d_items, n)
           m == Len(d_items)
<1>1. /\ s \in Seq(RingNodes) /\ m \in Nat /\ NoneTwice(s) /\ n \in RingNodes /\ n # 0
      /\ \A i \in 1 .. m : s[i] # n
  BY ListsAssumption DEF RingInv, Ring!New, Ring!ToSet
<1>2. t \in Seq(RingNodes) /\ Len(t) = m + 1
  BY <1>1
<1>3. \A i \in 0 .. m : Place(t, i) = Place(s, i)
  BY <1>1 DEF Place
<1>4. Place(t, m + 1) = n /\ Place(t, m + 2) = 0 /\ Place(s, m + 1) = 0 /\ Place(s, 0) = 0
  BY <1>1, <1>2 DEF Place
<1>5. d_prev[0] = Place(s, m) /\ Place(s, m) \in Ring!Linked
  BY <1>1, <1>4, PlaceLinked DEF RingInv
<1>6. d_next' = [d_next EXCEPT ![n] = 0, ![Place(s, m)] = n]
      /\ d_prev' = [d_prev EXCEPT ![0] = n, ![n] = Place(s, m)]
      /\ d_items' = t
  BY <1>5 DEF Ring!dlist_add_tail, Ring!dl_node_add, Ring!head
<1>7. NoneTwice(t)
  BY <1>1, <1>2 DEF NoneTwice
<1>8. n \in Ring!Linked /\ 0 \in Ring!Linked
  BY <1>1 DEF Ring!Linked, Ring!head
<1>9. /\ d_next' \in [Ring!Linked -> Ring!Linked \cup {Ring!Unset}]
      /\ d_prev' \in [Ring!Linked -> Ring!Linked \cup {Ring!Unset}]
  BY <1>5, <1>6, <1>8 DEF RingInv
<1>10. ASSUME NEW i \in 0 .. m + 1
       PROVE  /\ d_next'[Place(t, i)] = Place(t, i + 1)
              /\ d_prev'[Place(t, i + 1)] = Place(t, i)
  <2>1. CASE i \in 0 .. m - 1
    <3>1. Place(s, i) # Place(s, m) /\ Place(s, i + 1) # 0
      BY <1>1, <2>1, ListsAssumption, PlacesApart DEF Place
    <3>2. Place(s, i) # n /\ Place(s, i + 1) # n
      BY <1>1, <2>1 DEF Place
    <3>3. d_next[Place(s, i)] = Place(s, i + 1) /\ d_prev[Place(s, i + 1)] = Place(s, i)
      BY <2>1 DEF RingInv
    <3>4. Place(s, i) \in Ring!Linked /\ Place(s, i + 1) \in Ring!Linked
      BY <1>1, PlaceLinked
    <3>5. Place(t, i) = Place(s, i) /\ Place(t, i + 1) = Place(s, i + 1)
      BY <1>3, <2>1
    <3> HIDE DEF s, t
    <3> QED BY <3>1, <3>2, <3>3, <3>4, <3>5, <1>6 DEF RingInv
  <2>2. CASE i = m
    <3>1. Place(s, m) # n
      BY <1>1 DEF Place
    <3> QED BY <2>2, <1>3, <1>4, <1>5, <1>6, <1>8, <3>1, <1>1 DEF RingInv
  <2>3. CASE i = m + 1
    <3>1. Place(s, m) # n
      BY <1>1 DEF Place
    <3> QED BY <2>3, <1>4, <1>5, <1>6, <1>8, <3>1, <1>1 DEF RingInv
  <2> QED BY <2>1, <2>2, <2>3, <1>1
<1> QED BY <1>2, <1>6, <1>7, <1>9, <1>10, <1>1 DEF RingInv

(* dlist_add_head puts a node before the sequence.                         *)
LEMMA AddHeadKeepsRing ==
    ASSUME RingInv, NEW n \in Ring!New, Ring!dlist_add_head(n)
    PROVE  RingInv'
<1> DEFINE s == d_items
           t == <<n>> \o d_items
           m == Len(d_items)
<1>1. /\ s \in Seq(RingNodes) /\ m \in Nat /\ NoneTwice(s) /\ n \in RingNodes /\ n # 0
      /\ \A i \in 1 .. m : s[i] # n
  BY ListsAssumption DEF RingInv, Ring!New, Ring!ToSet
<1>2. t \in Seq(RingNodes) /\ Len(t) = m + 1
  BY <1>1
<1>3. \A i \in 1 .. m + 1 : Place(t, i + 1) = Place(s, i)
  BY <1>1, <1>2 DEF Place
<1>4. Place(t, 0) = 0 /\ Place(t, 1) = n /\ Place(s, m + 1) = 0 /\ Place(s, 0) = 0
  BY <1>1, <1>2 DEF Place
<1>5. d_next[0] = Place(s, 1) /\ Place(s, 1) \in Ring!Linked
  BY <1>1, <1>4, PlaceLinked DEF RingInv
<1>6. d_next' = [d_next EXCEPT ![n] = Place(s, 1), ![0] = n]
      /\ d_prev' = [d_prev EXCEPT ![Place(s, 1)] = n, ![n] = 0]
      /\ d_items' = t
  BY <1>5 DEF Ring!dlist_add_head, Ring!dl_node_add, Ring!head
<1>7. NoneTwice(t)
  BY <1>1, <1>2 DEF NoneTwice
<1>8. n \in Ring!Linked /\ 0 \in Ring!Linked
  BY <1>1 DEF Ring!Linked, Ring!head
<1>9. /\ d_next' \in [Ring!Linked -> Ring!Linked \cup {Ring!Unset}]
      /\ d_prev' \in [Ring!Linked -> Ring!Linked \cup {Ring!Unset}]
  BY <1>5, <1>6, <1>8 DEF RingInv
<1>10. ASSUME NEW i \in 0 .. m + 1
       PROVE  /\ d_next'[Place(t, i)] = Place(t, i + 1)
              /\ d_prev'[Place(t, i + 1)] = Place(t, i)
  <2>1. CASE i = 0
    <3>1. Place(s, 1) # n
      BY <1>1 DEF Place
    <3> QED BY <2>1, <1>4, <1>5, <1>6, <1>8, <3>1, <1>1 DEF RingInv
  <2>2. CASE i = 1
    <3>1. Place(s, 1) # n
      BY <1>1 DEF Place
    <3>2. Place(t, 2) = Place(s, 1)
      BY <1>3, <1>1
    <3> QED BY <2>2, <1>4, <1>5, <1>6, <1>8, <3>1, <3>2, <1>1 DEF RingInv
  <2>3. CASE i \in 2 .. m + 1
    <3>1. PICK j \in 1 .. m : i = j + 1
      BY <2>3, <1>1
    <3>2. Place(s, j) # 0 /\ Place(s, j + 1) # Place(s, 1)
      <4>1. Place(s, j) # 0
        BY <1>1, ListsAssumption DEF Place
      <4>2. CASE j = m
        BY <4>2, <1>4, <1>1, ListsAssumption DEF Place
      <4>3. CASE j \in 1 .. m - 1
        <5>1. j + 1 \in 0 .. m /\ 1 \in 0 .. m /\ j + 1 # 1
          BY <4>3, <1>1
        <5> QED BY <5>1, <4>1, <1>1, PlacesApart
      <4> QED BY <4>1, <4>2, <4>3, <1>1
    <3>3. Place(s, j) # n /\ Place(s, j + 1) # n
      BY <1>1 DEF Place
    <3>4. d_next[Place(s, j)] = Place(s, j + 1) /\ d_prev[Place(s, j + 1)] = Place(s, j)
      BY <1>1 DEF RingInv
    <3>5. Place(s, j) \in Ring!Linked /\ Place(s, j + 1) \in Ring!Linked
      BY <1>1, PlaceLinked
    <3>6. Place(t, i) = Place(s, j) /\ Place(t, i + 1) = Place(s, j + 1)
      BY <1>3, <3>1, <1>1
    <3> HIDE DEF s, t
    <3> QED BY <3>2, <3>3, <3>4, <3>5, <3>6, <1>5, <1>6, <1>8 DEF RingInv
  <2> QED BY <2>1, <2>2, <2>3, <1>1
<1> QED BY <1>2, <1>6, <1>7, <1>9, <1>10, <1>1 DEF RingInv

(* What next[head] = head says.                                            *)
LEMMA EmptyRing ==
    ASSUME RingInv
    PROVE  Ring!Empty <=> Len(d_items) = 0
<1>1. d_next[0] = Place(d_items, 1)
  BY DEF RingInv, Place
<1>2. Len(d_items) \in Nat /\ (Len(d_items) # 0 => Place(d_items, 1) # 0)
  BY ListsAssumption DEF RingInv, Place
<1> QED BY <1>1, <1>2 DEF Ring!Empty, Ring!head, Place

(* dlist_remove_from_head takes the first node off.                        *)
LEMMA RemoveHeadKeepsRing ==
    ASSUME RingInv, Ring!dlist_remove_from_head
    PROVE  RingInv'
<1> DEFINE s == d_items
           t == Tail(d_items)
           m == Len(d_items)
<1>1. s \in Seq(RingNodes) /\ m \in Nat /\ m > 0 /\ NoneTwice(s)
  BY EmptyRing DEF RingInv, Ring!dlist_remove_from_head
<1>2. t \in Seq(RingNodes) /\ Len(t) = m - 1 /\ \A i \in 1 .. m - 1 : t[i] = s[i + 1]
  BY <1>1
<1>3. \A i \in 1 .. m : Place(t, i) = Place(s, i + 1)
  BY <1>1, <1>2 DEF Place
<1>4. Place(t, 0) = 0 /\ Place(s, m + 1) = 0 /\ Place(s, 0) = 0
  BY <1>1, <1>2 DEF Place
<1>5. d_next[d_next[0]] = Place(s, 2) /\ Place(s, 2) \in Ring!Linked /\ 0 \in Ring!Linked
  <2>1. d_next[Place(s, 0)] = Place(s, 1) /\ d_next[Place(s, 1)] = Place(s, 2)
    BY <1>1 DEF RingInv
  <2> QED BY <2>1, <1>1, <1>4, PlaceLinked DEF Ring!Linked, Ring!head
<1>6. d_next' = [d_next EXCEPT ![0] = Place(s, 2)]
      /\ d_prev' = [d_prev EXCEPT ![Place(s, 2)] = 0]
      /\ d_items' = t
  BY <1>5 DEF Ring!dlist_remove_from_head, Ring!dl_node_remove, Ring!head
<1>7. NoneTwice(t)
  <2> SUFFICES ASSUME NEW i \in 1 .. Len(t), NEW j \in 1 .. Len(t), t[i] = t[j] PROVE i = j
    BY DEF NoneTwice
  <2>1. s[i + 1] = s[j + 1] /\ i + 1 \in 1 .. m /\ j + 1 \in 1 .. m
    BY <1>1, <1>2
  <2>2. i + 1 = j + 1
    BY <2>1, <1>1 DEF NoneTwice
  <2> QED BY <2>2, <1>1, <1>2
<1>8. /\ d_next' \in [Ring!Linked -> Ring!Linked \cup {Ring!Unset}]
      /\ d_prev' \in [Ring!Linked -> Ring!Linked \cup {Ring!Unset}]
  BY <1>5, <1>6 DEF RingInv
<1>9. ASSUME NEW i \in 0 .. m - 1
      PROVE  /\ d_next'[Place(t, i)] = Place(t, i + 1)
             /\ d_prev'[Place(t, i + 1)] = Place(t, i)
  <2>1. CASE i = 0
    <3>1. Place(t, 1) = Place(s, 2)
      BY <1>1, <1>3
    <3> QED BY <2>1, <3>1, <1>4, <1>5, <1>6 DEF RingInv
  <2>2. CASE i \in 1 .. m - 1
    <3>1. Place(s, i + 1) # 0 /\ Place(s, i + 2) # Place(s, 2)
      <4>1. Place(s, i + 1) # 0
        BY <2>2, <1>1, ListsAssumption DEF Place
      <4>2. CASE i = m - 1
        BY <4>2, <2>2, <1>1, ListsAssumption DEF Place
      <4>3. CASE i \in 1 .. m - 2
        <5>1. i + 2 \in 0 .. m /\ 2 \in 0 .. m /\ i + 2 # 2
          BY <4>3, <1>1
        <5> QED BY <5>1, <4>1, <1>1, PlacesApart
      <4> QED BY <4>1, <4>2, <4>3, <2>2, <1>1
    <3>2. /\ d_next[Place(s, i + 1)] = Place(s, i + 1 + 1)
          /\ d_prev[Place(s, i + 1 + 1)] = Place(s, i + 1)
      BY <2>2, <1>1 DEF RingInv
    <3>3. i + 1 + 1 = i + 2 /\ i + 1 \in 1 .. m
      BY <2>2, <1>1
    <3>4. Place(s, i + 1) \in Ring!Linked /\ Place(s, i + 2) \in Ring!Linked
      BY <1>1, PlaceLinked
    <3>5. Place(t, i) = Place(s, i + 1) /\ Place(t, i + 1) = Place(s, i + 2)
      BY <1>3, <2>2, <3>3
    <3> HIDE DEF s, t
    <3> QED BY <3>1, <3>2, <3>3, <3>4, <3>5, <1>5, <1>6 DEF RingInv
  <2> QED BY <2>1, <2>2, <1>1
<1> QED BY <1>1, <1>2, <1>6, <1>7, <1>8, <1>9 DEF RingInv

(* dlist_remove_from_tail takes the last node off.                         *)
LEMMA RemoveTailKeepsRing ==
    ASSUME RingInv, Ring!dlist_remove_from_tail
    PROVE  RingInv'
<1> DEFINE s == d_items
           t == Ring!Front(d_items)
           m == Len(d_items)
<1>1. s \in Seq(RingNodes) /\ m \in Nat /\ m > 0 /\ NoneTwice(s)
  BY EmptyRing DEF RingInv, Ring!dlist_remove_from_tail
<1>2. t \in Seq(RingNodes) /\ Len(t) = m - 1 /\ \A i \in 1 .. m - 1 : t[i] = s[i]
  <2>1. t = SubSeq(s, 1, m - 1)
    BY DEF Ring!Front
  <2>2. \A i \in 1 .. m - 1 : s[i] \in RingNodes
    BY <1>1
  <2> HIDE DEF s, t, m
  <2>3. /\ SubSeq(s, 1, m - 1) \in Seq(RingNodes)
        /\ Len(SubSeq(s, 1, m - 1)) = IF 1 <= m - 1 THEN m - 1 - 1 + 1 ELSE 0
        /\ \A i \in 1 .. m - 1 - 1 + 1 : SubSeq(s, 1, m - 1)[i] = s[1 + i - 1]
    BY <2>2, <1>1, 1 \in Int, m - 1 \in Int, SubSeqProperties
  <2> QED BY <2>1, <2>3, <1>1
<1>3. \A i \in 0 .. m - 1 : Place(t, i) = Place(s, i)
  BY <1>1, <1>2 DEF Place
<1>4. Place(t, m) = 0 /\ Place(s, m + 1) = 0
  BY <1>1, <1>2 DEF Place
<1>5. /\ d_prev[d_prev[0]] = Place(s, m - 1)
      /\ Place(s, m - 1) \in Ring!Linked /\ 0 \in Ring!Linked
  <2>1. d_prev[Place(s, m + 1)] = Place(s, m) /\ d_prev[Place(s, m - 1 + 1)] = Place(s, m - 1)
    BY <1>1 DEF RingInv
  <2>2. m - 1 + 1 = m
    BY <1>1
  <2> QED BY <2>1, <2>2, <1>1, <1>4, PlaceLinked DEF Ring!Linked, Ring!head
<1>6. d_next' = [d_next EXCEPT ![Place(s, m - 1)] = 0]
      /\ d_prev' = [d_prev EXCEPT ![0] = Place(s, m - 1)]
      /\ d_items' = t
  BY <1>5 DEF Ring!dlist_remove_from_tail, Ring!dl_node_remove, Ring!head
<1>7. NoneTwice(t)
  BY <1>1, <1>2 DEF NoneTwice
<1>8. /\ d_next' \in [Ring!Linked -> Ring!Linked \cup {Ring!Unset}]
      /\ d_prev' \in [Ring!Linked -> Ring!Linked \cup {Ring!Unset}]
  BY <1>5, <1>6 DEF RingInv
<1>9. ASSUME NEW i \in 0 .. m - 1
      PROVE  /\ d_next'[Place(t, i)] = Place(t, i + 1)
             /\ d_prev'[Place(t, i + 1)] = Place(t, i)
  <2>1. CASE i = m - 1
    <3>1. Place(t, i) = Place(s, m - 1) /\ Place(t, i + 1) = 0
      BY <2>1, <1>1, <1>3, <1>4
    <3> HIDE DEF s, t
    <3> QED BY <3>1, <1>5, <1>6 DEF RingInv
  <2>2. CASE i \in 0 .. m - 2
    <3>1. Place(s, i + 1) # 0 /\ Place(s, i) # Place(s, m - 1)
      <4>1. Place(s, i + 1) # 0
        BY <2>2, <1>1, ListsAssumption DEF Place
      <4>2. i \in 0 .. m /\ m - 1 \in 0 .. m /\ i # m - 1
        BY <2>2, <1>1
      <4> QED BY <4>1, <4>2, <1>1, PlacesApart
    <3>2. d_next[Place(s, i)] = Place(s, i + 1) /\ d_prev[Place(s, i + 1)] = Place(s, i)
      BY <2>2, <1>1 DEF RingInv
    <3>3. Place(s, i) \in Ring!Linked /\ Place(s, i + 1) \in Ring!Linked
      BY <1>1, PlaceLinked
    <3>4. Place(t, i) = Place(s, i) /\ Place(t, i + 1) = Place(s, i + 1)
      BY <1>3, <2>2, <1>1
    <3> HIDE DEF s, t
    <3> QED BY <3>1, <3>2, <3>3, <3>4, <1>5, <1>6 DEF RingInv
  <2> QED BY <2>1, <2>2, <1>1
<1> QED BY <1>1, <1>2, <1>6, <1>7, <1>8, <1>9 DEF RingInv

(***************************************************************************)
(* A ring is read along a link that leads from each place to the next.     *)
(***************************************************************************)
LEMMA RingCardinality == \A S : Ring!Cardinality(S) = Cardinality(S)
BY DEF Ring!Cardinality, Cardinality

(* A walk along links that follow the places of a sequence reads that      *)
(* sequence.                                                               *)
LEMMA WalkIsPlaces ==
    ASSUME NEW s \in Seq(RingNodes), NoneTwice(s), NEW link,
           \A i \in 0 .. Len(s) : link[Place(s, i)] = Place(s, i + 1)
    PROVE  Ring!Walk(link) = s
<1> DEFINE m == Len(s)
           c == Ring!Cardinality(Ring!Linked)
           Along(at) == [i \in 0 .. c |-> IF i = 0 THEN 0 ELSE link[at[i - 1]]]
           at == CHOOSE g : g = Along(g)
           back == {i \in 1 .. c : at[i] = 0}
<1>1. m \in Nat /\ c \in Nat /\ m + 1 <= c
  <2>1. IsFiniteSet(RingNodes) /\ 0 \notin RingNodes
    BY ListsAssumption
  <2>2. Cardinality(RingNodes) \in Nat /\ c = Cardinality(RingNodes) + 1
    BY <2>1, RingCardinality, FS_AddElement, FS_CardinalityType DEF Ring!Linked, Ring!head
  <2>3. m <= Cardinality(RingNodes)
    BY <2>1, InjectiveSeqBounded DEF NoneTwice
  <2> QED BY <2>2, <2>3
<1>2. at = Along(at)
  <2>1. c \in Nat
    BY <1>1
  <2> HIDE DEF c
  <2> PICK Y : \E g \in [0 .. c -> Y] : Iterates(g, c, 0, link)
    BY <2>1, Iteration
  <2>2. PICK g \in [0 .. c -> Y] : g[0] = 0 /\ \A i \in 1 .. c : g[i] = link[g[i - 1]]
    BY DEF Iterates
  <2>3. ASSUME NEW i \in 0 .. c PROVE g[i] = IF i = 0 THEN 0 ELSE link[g[i - 1]]
    <3>1. i # 0 => i \in 1 .. c
      BY <2>1
    <3> QED BY <2>2, <3>1
  <2>4. g = Along(g)
    BY <2>2, <2>3
  <2> QED BY <2>4
<1>3. Ring!Walk(link) = [i \in 1 .. (IF back = {} THEN c ELSE Ring!Min(back) - 1) |-> at[i]]
  BY DEF Ring!Walk, Ring!head
<1> HIDE DEF at
<1>4. at[0] = 0 /\ \A i \in 1 .. c : at[i] = link[at[i - 1]]
  BY <1>1, <1>2
<1> DEFINE T == {i \in Nat : i <= m + 1 => at[i] = Place(s, i)}
<1>5. \A i \in 0 .. m + 1 : at[i] = Place(s, i)
  <2>1. 0 \in T
    BY <1>4 DEF Place
  <2>2. ASSUME NEW i \in T PROVE i + 1 \in T
    <3> SUFFICES ASSUME i + 1 <= m + 1 PROVE at[i + 1] = Place(s, i + 1)
      OBVIOUS
    <3>1. at[i] = Place(s, i) /\ i \in 0 .. m /\ i + 1 \in 1 .. c
      BY <1>1
    <3>2. at[i + 1] = link[at[i + 1 - 1]] /\ i + 1 - 1 = i
      BY <1>4, <3>1
    <3> QED BY <3>1, <3>2
  <2>3. T = Nat
    <3>1. T \in SUBSET Nat
      OBVIOUS
    <3> HIDE DEF T
    <3> QED BY <2>1, <2>2, <3>1, Induction
  <2> QED BY <2>3, <1>1
<1>6. m + 1 \in back /\ \A i \in back : m + 1 <= i
  <2>1. \A i \in 1 .. m : Place(s, i) # 0
    BY ListsAssumption DEF Place
  <2>2. Place(s, m + 1) = 0
    BY <1>1 DEF Place
  <2> QED BY <2>1, <2>2, <1>1, <1>5
<1>7. Ring!Min(back) = m + 1
  BY <1>1, <1>6 DEF Ring!Min
<1>8. Ring!Walk(link) = [i \in 1 .. m |-> at[i]]
  BY <1>1, <1>3, <1>6, <1>7
<1>9. \A i \in 1 .. m : at[i] = s[i]
  BY <1>1, <1>5 DEF Place
<1> QED BY <1>8, <1>9

(* Read forwards and backwards, a sound ring is its sequence.              *)
LEMMA RingReadsAsSequence ==
    ASSUME RingInv
    PROVE  Ring!RingIsSequence
<1> DEFINE s == d_items
           m == Len(d_items)
           r == Ring!Reverse(d_items)
<1>1. s \in Seq(RingNodes) /\ m \in Nat /\ NoneTwice(s)
  BY DEF RingInv
<1>2. r \in Seq(RingNodes) /\ Len(r) = m /\ \A i \in 1 .. m : r[i] = s[m - i + 1]
  <2>1. r = [i \in 1 .. m |-> s[m - i + 1]]
    BY <1>1 DEF Ring!Reverse
  <2>2. \A i \in 1 .. m : m - i + 1 \in 1 .. m /\ s[m - i + 1] \in RingNodes
    BY <1>1
  <2> HIDE DEF r
  <2> QED BY <1>1, <2>1, <2>2
<1>3. Ring!Walk(d_next) = s
  BY <1>1, WalkIsPlaces DEF RingInv
<1>4. Ring!Walk(d_prev) = r
  <2>1. NoneTwice(r)
    <3> SUFFICES ASSUME NEW i \in 1 .. m, NEW j \in 1 .. m, r[i] = r[j] PROVE i = j
      BY <1>2 DEF NoneTwice
    <3>1. s[m - i + 1] = s[m - j + 1] /\ m - i + 1 \in 1 .. m /\ m - j + 1 \in 1 .. m
      BY <1>1, <1>2
    <3>2. m - i + 1 = m - j + 1
      BY <1>1, <3>1 DEF NoneTwice
    <3> QED BY <3>2, <1>1
  <2>2. ASSUME NEW i \in 0 .. m PROVE d_prev[Place(r, i)] = Place(r, i + 1)
    <3>1. d_prev[Place(s, m - i + 1)] = Place(s, m - i)
      <4>1. m - i \in 0 .. m
        BY <1>1
      <4> QED BY <4>1, <1>1 DEF RingInv
    <3>2. Place(r, i) = Place(s, m - i + 1)
      BY <1>1, <1>2 DEF Place
    <3>3. Place(r, i + 1) = Place(s, m - i)
      BY <1>1, <1>2 DEF Place
    <3> QED BY <3>1, <3>2, <3>3
  <2> HIDE DEF r
  <2> QED BY <1>2, <2>1, <2>2, WalkIsPlaces
<1>5. d_next[0] = Place(s, 1) /\ d_prev[0] = Place(s, m)
  <2>1. d_next[Place(s, 0)] = Place(s, 1) /\ d_prev[Place(s, m + 1)] = Place(s, m)
    BY <1>1 DEF RingInv
  <2> QED BY <2>1, <1>1 DEF Place
<1>6. /\ Ring!dlist_peek_head = IF s = << >> THEN Ring!NULL ELSE Head(s)
      /\ Ring!dlist_peek_tail = IF s = << >> THEN Ring!NULL ELSE Ring!Last(s)
  <2>1. Ring!Empty <=> s = << >>
    BY <1>1, EmptyRing
  <2>2. s # << >> => d_next[0] = Head(s) /\ d_prev[0] = s[m]
    BY <1>1, <1>5 DEF Place
  <2> QED BY <2>1, <2>2 DEF Ring!dlist_peek_head, Ring!dlist_peek_tail, Ring!head, Ring!Last
<1> QED BY <1>3, <1>4, <1>6 DEF Ring!RingIsSequence, Ring!dlist_size

(* Every operation keeps the ring sound.                                   *)
LEMMA RingNextKeeps ==
    ASSUME RingInv, Ring!Next
    PROVE  RingInv'
<1>1. CASE \E n \in Ring!New : Ring!dlist_add_tail(n)
  BY <1>1, AddTailKeepsRing
<1>2. CASE \E n \in Ring!New : Ring!dlist_add_head(n)
  BY <1>2, AddHeadKeepsRing
<1>3. CASE Ring!dlist_remove_from_head
  BY <1>3, RemoveHeadKeepsRing
<1>4. CASE Ring!dlist_remove_from_tail
  BY <1>4, RemoveTailKeepsRing
<1> QED BY <1>1, <1>2, <1>3, <1>4
        DEF Ring!Next, Ring!squeue_push, Ring!squeue_pop, Ring!stack_push, Ring!stack_pop,
            Ring!dqueue_push, Ring!dqueue_pop

(* What leaves the ring alone keeps it sound.                              *)
LEMMA RingStays == RingInv /\ UNCHANGED d_vars => RingInv'
BY DEF RingInv, d_vars

(***************************************************************************)
(* The single list.  Its links lead from each node to the next and from    *)
(* the last to NULL, which is what Place gives before and behind them.     *)
(***************************************************************************)
SingleInv ==
    /\ l_items \in Seq(ListNodes)
    /\ NoneTwice(l_items)
    /\ l_next \in [ListNodes -> ListNodes \cup {0}]
    /\ l_head = Place(l_items, 1)
    /\ l_tail = Place(l_items, Len(l_items))
    /\ \A i \in 1 .. Len(l_items) : l_next[l_items[i]] = Place(l_items, i + 1)

(* An empty list is the list of the empty sequence.                        *)
LEMMA SingleInitially == Single!Init => SingleInv
BY ListsAssumption DEF Single!Init, Single!NULL, SingleInv, NoneTwice, Place

(* NULL is the first or the last node of the empty list only.              *)
LEMMA EndsOfSingle ==
    ASSUME SingleInv
    PROVE  /\ Len(l_items) \in Nat
           /\ l_head = 0 <=> Len(l_items) = 0
           /\ l_tail = 0 <=> Len(l_items) = 0
           /\ Len(l_items) # 0 => l_head = l_items[1] /\ l_tail = l_items[Len(l_items)]
<1>1. Len(l_items) \in Nat /\ \A i \in 1 .. Len(l_items) : l_items[i] # 0
  BY ListsAssumption DEF SingleInv
<1> QED BY <1>1 DEF SingleInv, Place

(* slist_add_tail puts a node at the end of the sequence.                  *)
LEMMA AddTailKeepsSingle ==
    ASSUME SingleInv, NEW n \in Single!New, Single!slist_add_tail(n)
    PROVE  SingleInv'
<1> DEFINE s == l_items
           t == Append(l_items, n)
           m == Len(l_items)
<1>1. /\ s \in Seq(ListNodes) /\ m \in Nat /\ NoneTwice(s) /\ n \in ListNodes /\ n # 0
      /\ \A i \in 1 .. m : s[i] # n
  BY ListsAssumption DEF SingleInv, Single!New, Single!ToSet
<1>2. /\ t \in Seq(ListNodes) /\ Len(t) = m + 1 /\ t[m + 1] = n
      /\ \A i \in 1 .. m : t[i] = s[i]
  BY <1>1
<1>3. NoneTwice(t)
  BY <1>1, <1>2 DEF NoneTwice
<1>4. l_items' = t /\ l_tail' = n /\ l_head' = t[1]
  BY <1>1, <1>2, EndsOfSingle DEF Single!slist_add_tail, Single!NULL
<1>5. CASE m = 0
  <2>1. l_next' = [l_next EXCEPT ![n] = 0]
    BY <1>5, EndsOfSingle DEF Single!slist_add_tail, Single!NULL
  <2>2. Len(t) = 1 /\ t[1] = n
    BY <1>2, <1>5
  <2> HIDE DEF t
  <2> QED BY <1>1, <1>2, <1>3, <1>4, <2>1, <2>2 DEF SingleInv, Place
<1>6. CASE m # 0
  <2>1. l_next' = [l_next EXCEPT ![n] = 0, ![s[m]] = n] /\ s[m] \in ListNodes
    <3>1. l_head # 0 /\ l_tail = s[m] /\ m \in 1 .. m
      BY <1>1, <1>6, EndsOfSingle
    <3> QED BY <3>1, <1>1 DEF Single!slist_add_tail, Single!NULL
  <2>2. ASSUME NEW i \in 1 .. m + 1 PROVE l_next'[t[i]] = Place(t, i + 1)
    <3>1. CASE i = m + 1
      BY <3>1, <2>1, <1>1, <1>2, <1>6 DEF SingleInv, Place
    <3>2. CASE i = m
      BY <3>2, <2>1, <1>1, <1>2, <1>6 DEF SingleInv, Place
    <3>3. CASE i \in 1 .. m - 1
      <4>1. s[i] # s[m] /\ s[i] # n /\ l_next[s[i]] = s[i + 1] /\ s[i] \in ListNodes
        BY <3>3, <1>1, <1>6 DEF SingleInv, Place, NoneTwice
      <4>2. t[i] = s[i] /\ Place(t, i + 1) = s[i + 1]
        BY <3>3, <1>1, <1>2 DEF Place
      <4> HIDE DEF s, t
      <4> QED BY <4>1, <4>2, <2>1 DEF SingleInv
    <3> QED BY <3>1, <3>2, <3>3, <1>1
  <2>3. l_next' \in [ListNodes -> ListNodes \cup {0}]
    BY <1>1, <2>1 DEF SingleInv
  <2> HIDE DEF t
  <2> QED BY <1>1, <1>2, <1>3, <1>4, <2>2, <2>3 DEF SingleInv, Place
<1> QED BY <1>5, <1>6

(* slist_add_head puts a node before the sequence.                         *)
LEMMA AddHeadKeepsSingle ==
    ASSUME SingleInv, NEW n \in Single!New, Single!slist_add_head(n)
    PROVE  SingleInv'
<1> DEFINE s == l_items
           t == <<n>> \o l_items
           m == Len(l_items)
<1>1. /\ s \in Seq(ListNodes) /\ m \in Nat /\ NoneTwice(s) /\ n \in ListNodes /\ n # 0
      /\ \A i \in 1 .. m : s[i] # n
  BY ListsAssumption DEF SingleInv, Single!New, Single!ToSet
<1>2. /\ t \in Seq(ListNodes) /\ Len(t) = m + 1 /\ t[1] = n
      /\ \A i \in 1 .. m : t[i + 1] = s[i]
  BY <1>1
<1>3. NoneTwice(t)
  BY <1>1, <1>2 DEF NoneTwice
<1>4. l_items' = t /\ l_tail' = t[m + 1] /\ l_head' = n /\ l_next' = [l_next EXCEPT ![n] = l_head]
  BY <1>1, <1>2, EndsOfSingle DEF Single!slist_add_head, Single!NULL
<1>5. Place(t, 2) = l_head
  BY <1>1, <1>2 DEF SingleInv, Place
<1>6. ASSUME NEW i \in 1 .. m + 1 PROVE l_next'[t[i]] = Place(t, i + 1)
  <2>1. CASE i = 1
    BY <2>1, <1>1, <1>2, <1>4, <1>5 DEF SingleInv
  <2>2. CASE i \in 2 .. m + 1
    <3>1. PICK j \in 1 .. m : i = j + 1
      BY <2>2, <1>1
    <3>2. l_next[s[j]] = Place(s, j + 1) /\ s[j] # n /\ s[j] \in ListNodes
      BY <1>1 DEF SingleInv
    <3>3. t[i] = s[j] /\ Place(t, i + 1) = Place(s, j + 1)
      BY <1>1, <1>2, <3>1 DEF Place
    <3> HIDE DEF s, t
    <3> QED BY <3>2, <3>3, <1>4 DEF SingleInv
  <2> QED BY <2>1, <2>2, <1>1
<1>7. l_next' \in [ListNodes -> ListNodes \cup {0}]
  BY <1>1, <1>4 DEF SingleInv, Place
<1> HIDE DEF t
<1> QED BY <1>1, <1>2, <1>3, <1>4, <1>6, <1>7 DEF SingleInv, Place

(* slist_remove_head takes the first node off, and the tail with the last  *)
(* one.                                                                    *)
LEMMA RemoveHeadKeepsSingle ==
    ASSUME SingleInv, Single!slist_remove_head
    PROVE  SingleInv'
<1> DEFINE s == l_items
           t == Tail(l_items)
           m == Len(l_items)
<1>1. s \in Seq(ListNodes) /\ m \in Nat /\ m > 0 /\ NoneTwice(s)
  BY EndsOfSingle DEF SingleInv, Single!slist_remove_head, Single!NULL
<1>2. t \in Seq(ListNodes) /\ Len(t) = m - 1 /\ \A i \in 1 .. m - 1 : t[i] = s[i + 1]
  BY <1>1
<1>3. NoneTwice(t)
  <2> SUFFICES ASSUME NEW i \in 1 .. Len(t), NEW j \in 1 .. Len(t), t[i] = t[j] PROVE i = j
    BY DEF NoneTwice
  <2>1. s[i + 1] = s[j + 1] /\ i + 1 \in 1 .. m /\ j + 1 \in 1 .. m
    BY <1>1, <1>2
  <2>2. i + 1 = j + 1
    BY <2>1, <1>1 DEF NoneTwice
  <2> QED BY <2>2, <1>1, <1>2
<1>4. l_head = s[1] /\ l_tail = s[m] /\ l_next[s[1]] = Place(s, 2)
  BY <1>1, EndsOfSingle DEF SingleInv
<1>5. l_head = l_tail <=> m = 1
  <2>1. 1 \in 1 .. m /\ m \in 1 .. m
    BY <1>1
  <2>2. s[1] = s[m] => 1 = m
    BY <1>1, <2>1 DEF NoneTwice
  <2> QED BY <2>2, <1>4
<1>6. l_items' = t /\ l_next' = l_next /\ l_head' = Place(t, 1) /\ l_tail' = Place(t, Len(t))
  <2>1. CASE m = 1
    BY <2>1, <1>1, <1>2, <1>5
       DEF Single!slist_remove_head, Single!AfterRemove, Single!NULL, Place
  <2>2. CASE m # 1
    <3>1. Place(t, 1) = Place(s, 2) /\ Place(t, Len(t)) = s[m]
      BY <2>2, <1>1, <1>2 DEF Place
    <3> QED BY <2>2, <3>1, <1>4, <1>5 DEF Single!slist_remove_head, Single!AfterRemove
  <2> QED BY <2>1, <2>2
<1>7. ASSUME NEW i \in 1 .. m - 1 PROVE l_next[t[i]] = Place(t, i + 1)
  <2>1. l_next[s[i + 1]] = Place(s, i + 1 + 1) /\ i + 1 \in 1 .. m
    BY <1>1 DEF SingleInv
  <2>2. Place(t, i + 1) = Place(s, i + 1 + 1)
    BY <1>1, <1>2 DEF Place
  <2> QED BY <1>2, <2>1, <2>2
<1> HIDE DEF t
<1> QED BY <1>1, <1>2, <1>3, <1>6, <1>7 DEF SingleInv

(* The cardinality SingleList takes from the library is the library's.     *)
LEMMA SingleCardinality == \A S : Single!Cardinality(S) = Cardinality(S)
BY DEF Single!Cardinality, Cardinality

(* Read from its head, a sound list is its sequence.                       *)
LEMMA SingleReadsAsSequence ==
    ASSUME SingleInv
    PROVE  Single!ListIsSequence
<1> DEFINE s == l_items
           m == Len(l_items)
           c == Single!Cardinality(ListNodes)
           Along(at) == [i \in 0 .. c |-> IF i = 0 THEN l_head
                                          ELSE IF at[i - 1] = 0 THEN 0 ELSE l_next[at[i - 1]]]
           at == CHOOSE g : g = Along(g)
           ends == {i \in 0 .. c : at[i] = 0}
<1>1. s \in Seq(ListNodes) /\ m \in Nat /\ c \in Nat /\ m <= c
  <2>1. s \in Seq(ListNodes) /\ NoneTwice(s) /\ IsFiniteSet(ListNodes)
    BY ListsAssumption DEF SingleInv
  <2>2. m <= Cardinality(ListNodes) /\ Cardinality(ListNodes) \in Nat
    BY <2>1, InjectiveSeqBounded, FS_CardinalityType DEF NoneTwice
  <2> QED BY <2>1, <2>2, SingleCardinality
<1>2. at = Along(at)
  <2> DEFINE g == [i \in 0 .. c |-> Place(s, i + 1)]
  <2>1. ASSUME NEW i \in 0 .. c PROVE g[i] = Along(g)[i]
    <3>1. CASE i = 0
      BY <3>1 DEF SingleInv
    <3>2. CASE i \in 1 .. m
      <4>1. g[i - 1] = s[i] /\ s[i] # 0 /\ l_next[s[i]] = Place(s, i + 1)
        BY <3>2, <1>1, ListsAssumption DEF SingleInv, Place
      <4> QED BY <3>2, <4>1, <1>1
    <3>3. CASE i > m /\ i # 0
      <4>1. g[i - 1] = 0 /\ g[i] = 0
        BY <3>3, <1>1 DEF Place
      <4> HIDE DEF g
      <4> QED BY <3>3, <4>1, <1>1
    <3> QED BY <3>1, <3>2, <3>3, <1>1
  <2>2. g = Along(g)
    <3>1. g = [i \in 0 .. c |-> g[i]]
      OBVIOUS
    <3>2. Along(g) = [i \in 0 .. c |-> Along(g)[i]]
      OBVIOUS
    <3> QED BY <2>1
  <2> HIDE DEF g
  <2> QED BY <2>2
<1>3. Single!Walk = [i \in 1 .. (IF ends = {} THEN c + 1 ELSE Single!Min(ends)) |-> at[i - 1]]
  BY DEF Single!Walk, Single!NULL
<1> HIDE DEF at
<1>4. at[0] = l_head /\ \A i \in 1 .. c : at[i] = IF at[i - 1] = 0 THEN 0 ELSE l_next[at[i - 1]]
  BY <1>1, <1>2
<1> DEFINE T == {i \in Nat : i <= m => at[i] = Place(s, i + 1)}
<1>5. \A i \in 0 .. m : at[i] = Place(s, i + 1)
  <2>1. 0 \in T
    BY <1>4 DEF SingleInv
  <2>2. ASSUME NEW i \in T PROVE i + 1 \in T
    <3> SUFFICES ASSUME i + 1 <= m PROVE at[i + 1] = Place(s, i + 1 + 1)
      OBVIOUS
    <3>1. at[i] = Place(s, i + 1) /\ i + 1 \in 1 .. m /\ i + 1 \in 1 .. c /\ i + 1 - 1 = i
      BY <1>1
    <3>2. Place(s, i + 1) = s[i + 1] /\ s[i + 1] # 0
      BY <3>1, <1>1, ListsAssumption DEF Place
    <3>3. at[i + 1] = l_next[s[i + 1]]
      BY <1>4, <3>1, <3>2
    <3> QED BY <3>1, <3>3 DEF SingleInv
  <2>3. T = Nat
    <3>1. T \in SUBSET Nat
      OBVIOUS
    <3> HIDE DEF T
    <3> QED BY <2>1, <2>2, <3>1, Induction
  <2> QED BY <2>3, <1>1
<1>6. m \in ends /\ \A i \in ends : m <= i
  <2>1. \A i \in 0 .. m - 1 : Place(s, i + 1) # 0
    BY <1>1, ListsAssumption DEF Place
  <2>2. Place(s, m + 1) = 0
    BY <1>1 DEF Place
  <2> QED BY <2>1, <2>2, <1>1, <1>5
<1>7. Single!Min(ends) = m
  BY <1>1, <1>6 DEF Single!Min
<1>8. Single!Walk = [i \in 1 .. m |-> at[i - 1]]
  BY <1>1, <1>3, <1>6, <1>7
<1>9. \A i \in 1 .. m : at[i - 1] = s[i]
  BY <1>1, <1>5 DEF Place
<1>10. Single!Walk = s
  BY <1>8, <1>9, <1>1
<1> QED BY <1>10, <1>1, EndsOfSingle DEF Single!ListIsSequence, Single!NULL, Single!Last

(* Every operation keeps the list sound.                                   *)
LEMMA SingleNextKeeps ==
    ASSUME SingleInv, Single!Next
    PROVE  SingleInv'
BY AddTailKeepsSingle, AddHeadKeepsSingle, RemoveHeadKeepsSingle DEF Single!Next

(* What leaves the list alone keeps it sound.                              *)
LEMMA SingleStays == SingleInv /\ UNCHANGED l_vars => SingleInv'
BY DEF SingleInv, l_vars

(***************************************************************************)
(* The lists of a behaviour are sequences, for any nodes.                  *)
(***************************************************************************)
LEMMA ListsInitially == AllInit => RingInv /\ SingleInv
BY RingInitially, SingleInitially DEF AllInit

(* A step of the containers keeps both lists sound.                        *)
LEMMA ListsStep ==
    ASSUME RingInv, SingleInv, [AllNext]_<<which, vars, s_vars, c_vars, d_vars, l_vars>>
    PROVE  RingInv' /\ SingleInv'
<1>1. UNCHANGED d_vars => RingInv'
  BY RingStays
<1>2. UNCHANGED l_vars => SingleInv'
  BY SingleStays
<1>3. CASE HashStep \/ SkipStep \/ ChainedStep
  BY <1>1, <1>2, <1>3 DEF HashStep, SkipStep, ChainedStep
<1>4. CASE RingStep
  BY <1>2, <1>4, RingNextKeeps DEF RingStep
<1>5. CASE SingleStep
  BY <1>1, <1>5, SingleNextKeeps DEF SingleStep
<1>6. CASE UNCHANGED <<which, vars, s_vars, c_vars, d_vars, l_vars>>
  BY <1>1, <1>2, <1>6
<1> QED BY <1>3, <1>4, <1>5, <1>6 DEF AllNext

(* Whatever nodes are added and removed at either end, a ring read         *)
(* forwards and backwards and a single list read forwards are the          *)
(* sequence the calls made of them (dscommon.c, scl_single_list.c).        *)
THEOREM ListsStaySequences == AllSpec => []ListsAreSequences
<1>1. RingInv /\ SingleInv => ListsAreSequences
  BY RingReadsAsSequence, SingleReadsAsSequence DEF ListsAreSequences
<1> QED BY <1>1, ListsInitially, ListsStep, PTL DEF AllSpec
-----------------------------------------------------------------------------
(***************************************************************************)
(* The chained map.  For as long as insertions return, a bucket has at     *)
(* most one node.  Home is the index of a key, which is a bucket unless    *)
(* the hash is negative and not divisible.                                 *)
(***************************************************************************)
Home(key) == Chained!idx(key)

Pairs == [key : CmapKeys, val : Vals]

ChainsInv ==
    /\ c_bucket_array \in [Chained!Buckets -> Seq(Pairs)]
    /\ \A b \in Chained!Buckets :
          /\ Len(c_bucket_array[b]) <= 1
          /\ c_bucket_array[b] # << >> =>
                /\ Home(c_bucket_array[b][1].key) = b
                /\ c_bucket_array[b][1].key \in DOMAIN c_dict
                /\ c_bucket_array[b][1].val = c_dict[c_bucket_array[b][1].key]
    /\ \A key \in DOMAIN c_dict :
          /\ key \in CmapKeys
          /\ Home(key) \in Chained!Buckets
          /\ c_bucket_array[Home(key)] # << >>
          /\ c_bucket_array[Home(key)][1].key = key

(* The iterator is at the node of a bucket, the keys it gave are from this *)
(* bucket and those before, and the keys it owes from those behind.        *)
IterInv ==
    /\ c_seen \in Seq(CmapKeys)
    /\ NoneTwice(c_seen)
    /\ c_todo \subseteq DOMAIN c_dict
    /\ \/ c_pos = Chained!NoPos /\ c_todo = {}
       \/ \E b \in Chained!Buckets :
             /\ c_pos = <<b, 1>>
             /\ c_bucket_array[b] # << >>
             /\ \A key \in c_todo : b < Home(key)
             /\ \A i \in 1 .. Len(c_seen) : Home(c_seen[i]) <= b

(* An index that is not negative is that of a bucket.                      *)
LEMMA HomeIsBucket ==
    \A key \in CmapKeys :
        Home(key) \in Int /\ (0 <= Home(key) => Home(key) \in Chained!Buckets)
<1> SUFFICES ASSUME NEW key \in CmapKeys
             PROVE  Home(key) \in Int /\ (0 <= Home(key) => Home(key) \in Chained!Buckets)
  OBVIOUS
<1> DEFINE h == CmapHash(key)
<1>1. h \in Int /\ CmapSize \in Nat \ {0}
  BY CmapAssumption
<1>2. Home(key) = IF h >= 0 THEN h % CmapSize ELSE -((-h) % CmapSize)
  BY DEF Home, Chained!idx
<1> HIDE DEF h
<1>3. \A n \in Int : n % CmapSize \in 0 .. CmapSize - 1
  BY <1>1
<1> QED BY <1>1, <1>2, <1>3 DEF Chained!Buckets

(* The empty map is sound.                                                 *)
LEMMA ChainedInitially == Chained!Init => ChainsInv /\ IterInv
BY DEF Chained!Init, ChainsInv, IterInv, NoneTwice

(* A search finds the node of the key, if its bucket has it.               *)
LEMMA ChainsAnswer ==
    ASSUME ChainsInv
    PROVE  Chained!AnswersAsMap
<1> SUFFICES ASSUME NEW key \in CmapKeys, Chained!idx(key) \in Chained!Buckets
             PROVE  /\ Chained!cmap_find(key) # 0 <=> key \in DOMAIN c_dict
                    /\ key \in DOMAIN c_dict =>
                          Chained!Chain(key)[Chained!cmap_find(key)].val = c_dict[key]
  BY DEF Chained!AnswersAsMap, ChainsInv, Home
<1> DEFINE chain == c_bucket_array[Home(key)]
<1>1. Home(key) \in Chained!Buckets /\ Chained!Chain(key) = chain
  BY DEF Chained!Chain, Home
<1>2. chain \in Seq(Pairs) /\ Len(chain) \in {0, 1} /\ DOMAIN chain = 1 .. Len(chain)
  <2>1. chain \in Seq(Pairs) /\ Len(chain) <= 1
    BY <1>1 DEF ChainsInv
  <2> HIDE DEF chain
  <2>2. Len(chain) \in Nat /\ DOMAIN chain = 1 .. Len(chain)
    BY <2>1
  <2> QED BY <2>1, <2>2
<1>3. Chained!Places(key) = {j \in 1 .. Len(chain) : chain[j].key = key}
  BY <1>1, <1>2 DEF Chained!Places
<1>4. CASE chain # << >> /\ chain[1].key = key
  <2>1. Chained!Places(key) = {1}
    BY <1>2, <1>3, <1>4
  <2>2. Chained!Min({1}) = 1
    BY DEF Chained!Min
  <2>3. Chained!cmap_find(key) = 1
    BY <2>1, <2>2 DEF Chained!cmap_find
  <2> QED BY <1>1, <1>4, <2>3 DEF ChainsInv
<1>5. CASE ~(chain # << >> /\ chain[1].key = key)
  <2>1. Chained!Places(key) = {}
    BY <1>2, <1>3, <1>5
  <2>2. key \notin DOMAIN c_dict
    BY <1>5 DEF ChainsInv
  <2> QED BY <2>1, <2>2 DEF Chained!cmap_find
<1> QED BY <1>4, <1>5

(* The cardinality Cmap takes from the library is the library's.           *)
LEMMA ChainedCardinality == \A S : Chained!Cardinality(S) = Cardinality(S)
BY DEF Chained!Cardinality, Cardinality

(* By the invariant, an iteration that ended met each key once.            *)
LEMMA IterAnswers ==
    ASSUME IterInv
    PROVE  Chained!IterationComplete
<1>1. Cardinality(Chained!ToSet(c_seen)) = Len(c_seen)
  <2>1. c_seen \in Seq(CmapKeys) /\ \A i, j \in 1 .. Len(c_seen) : c_seen[i] = c_seen[j] => i = j
    BY DEF IterInv, NoneTwice
  <2>2. Chained!ToSet(c_seen) = {c_seen[i] : i \in 1 .. Len(c_seen)}
    BY <2>1 DEF Chained!ToSet
  <2> QED BY <2>1, <2>2, InjectiveSeqCardinality
<1>2. c_pos = Chained!NoPos => c_todo = {}
  BY DEF IterInv, Chained!NoPos
<1> QED BY <1>1, <1>2, ChainedCardinality DEF Chained!IterationComplete

(* cmap_insert keeps the chains and the iterations sound.                  *)
LEMMA InsertKeepsChains ==
    ASSUME ChainsInv, IterInv, NEW key \in CmapKeys, NEW value \in Vals,
           Chained!cmap_insert(key, value)
    PROVE  ChainsInv' /\ IterInv'
<1> DEFINE h == Home(key)
           node == [key |-> key, val |-> value]
<1>1. h \in Chained!Buckets /\ Chained!Chain(key) = c_bucket_array[h] /\ node \in Pairs
  BY HomeIsBucket DEF Chained!cmap_insert, Chained!Chain, Home, Pairs
<1>2. CASE UNCHANGED <<c_bucket_array, c_pos, c_gone, c_dict, c_todo, c_seen>>
  BY <1>2 DEF ChainsInv, IterInv
<1>3. CASE /\ c_bucket_array[h] # << >> => c_bucket_array[h][1].key = key
           /\ c_bucket_array' = [c_bucket_array EXCEPT ![h] = <<node>>]
           /\ c_dict' = [k \in DOMAIN c_dict \cup {key} |-> IF k = key THEN value ELSE c_dict[k]]
           /\ UNCHANGED <<c_pos, c_stopped, c_gone, c_todo, c_seen>>
  <2>1. /\ c_bucket_array'[h] = <<node>>
        /\ \A b \in Chained!Buckets \ {h} : c_bucket_array'[b] = c_bucket_array[b]
        /\ c_bucket_array' \in [Chained!Buckets -> Seq(Pairs)]
    BY <1>1, <1>3 DEF ChainsInv
  <2>2. /\ <<node>> # << >> /\ Len(<<node>>) = 1
        /\ <<node>>[1].key = key /\ <<node>>[1].val = value
    OBVIOUS
  <2>3. /\ DOMAIN c_dict' = DOMAIN c_dict \cup {key}
        /\ c_dict'[key] = value
        /\ \A k \in DOMAIN c_dict \ {key} : c_dict'[k] = c_dict[k]
    BY <1>3
  <2> HIDE DEF node
  <2>4. ASSUME NEW b \in Chained!Buckets
        PROVE  /\ Len(c_bucket_array'[b]) <= 1
               /\ c_bucket_array'[b] # << >> =>
                     /\ Home(c_bucket_array'[b][1].key) = b
                     /\ c_bucket_array'[b][1].key \in DOMAIN c_dict'
                     /\ c_bucket_array'[b][1].val = c_dict'[c_bucket_array'[b][1].key]
    <3>1. CASE b = h
      BY <3>1, <2>1, <2>2, <2>3
    <3>2. CASE b # h
      BY <3>2, <2>1, <2>3 DEF ChainsInv
    <3> QED BY <3>1, <3>2
  <2>5. ASSUME NEW k \in DOMAIN c_dict'
        PROVE  /\ k \in CmapKeys
               /\ Home(k) \in Chained!Buckets
               /\ c_bucket_array'[Home(k)] # << >>
               /\ c_bucket_array'[Home(k)][1].key = k
    <3>1. CASE k = key
      BY <3>1, <1>1, <2>1, <2>2
    <3>2. CASE k # key
      <4>1. k \in DOMAIN c_dict /\ k \in CmapKeys
        BY <3>2, <2>3 DEF ChainsInv
      <4>2. Home(k) # h
        BY <3>2, <4>1, <1>3 DEF ChainsInv
      <4> QED BY <4>1, <4>2, <2>1, HomeIsBucket DEF ChainsInv
    <3> QED BY <3>1, <3>2
  <2>6. ChainsInv'
    BY <2>1, <2>4, <2>5 DEF ChainsInv
  <2>7. IterInv'
    <3>1. c_todo' \subseteq DOMAIN c_dict'
      BY <1>3, <2>3 DEF IterInv
    <3>2. \A b \in Chained!Buckets : c_bucket_array[b] # << >> => c_bucket_array'[b] # << >>
      BY <2>1, <2>2
    <3> QED BY <1>3, <3>1, <3>2 DEF IterInv
  <2> QED BY <2>6, <2>7
<1> QED BY <1>1, <1>2, <1>3 DEF Chained!cmap_insert, Chained!Put, Home

(* The iterator goes on to the next bucket with a node.  No key that it    *)
(* owes is passed over, since the bucket of each has a node.               *)
LEMMA GoingOnKeepsIter ==
    ASSUME ChainsInv, NEW i \in 0 .. CmapSize, NEW owed \in SUBSET DOMAIN c_dict,
           NEW given \in Seq(CmapKeys), NoneTwice(given),
           \A key \in owed : i <= Home(key),
           \A j \in 1 .. Len(given) : Home(given[j]) < i,
           Chained!GoTo(Chained!FirstFrom(i), owed, given)
    PROVE  ChainsInv' /\ IterInv'
<1> DEFINE chains == {b \in i .. CmapSize - 1 : c_bucket_array[b] # << >>}
           b0 == Chained!Min(chains)
<1>1. ChainsInv'
  BY DEF ChainsInv, Chained!GoTo
<1>2. /\ \A key \in owed : Home(key) \in chains
      /\ chains \subseteq Chained!Buckets
      /\ chains \subseteq Nat
  BY CmapAssumption, HomeIsBucket DEF ChainsInv, Chained!Buckets
<1>3. Chained!FirstFrom(i) = IF chains = {} THEN Chained!NoPos ELSE <<b0, 1>>
  BY DEF Chained!FirstFrom
<1>4. CASE chains = {}
  <2>1. Chained!FirstFrom(i) = Chained!NoPos /\ owed = {}
    BY <1>2, <1>3, <1>4
  <2>2. c_pos' = Chained!NoPos /\ c_todo' = {} /\ c_seen' = given \o << >> /\ c_dict' = c_dict
    BY <2>1 DEF Chained!GoTo
  <2>3. c_seen' = given
    BY <2>2
  <2> QED BY <1>1, <2>2, <2>3 DEF IterInv, Chained!NoPos
<1>5. CASE chains # {}
  <2>1. b0 \in chains /\ \A b \in chains : b0 <= b
    <3>1. \E n \in chains : \A m \in chains : n <= m
      BY <1>2, <1>5, LeastNumber
    <3> HIDE DEF chains
    <3> QED BY <3>1 DEF Chained!Min
  <2> DEFINE key == c_bucket_array[b0][1].key
  <2>2. key \in CmapKeys /\ Home(key) = b0 /\ b0 \in Chained!Buckets /\ c_bucket_array[b0] # << >>
    BY <1>2, <2>1 DEF ChainsInv
  <2>3. <<b0, 1>> # Chained!NoPos
    BY DEF Chained!NoPos
  <2> HIDE DEF b0
  <2>4. /\ c_pos' = <<b0, 1>>
        /\ c_todo' = owed \ Chained!ToSet(<<key>>)
        /\ c_seen' = given \o <<key>>
        /\ c_dict' = c_dict /\ c_bucket_array' = c_bucket_array
    <3> DEFINE p == <<b0, 1>>
    <3>1. p[1] = b0 /\ p[2] = 1 /\ p = Chained!FirstFrom(i)
      BY <1>3, <1>5
    <3> HIDE DEF p
    <3>2. /\ c_pos' = p
          /\ c_todo' = owed \ Chained!ToSet(<<key>>)
          /\ c_seen' = given \o <<key>>
          /\ UNCHANGED <<c_bucket_array, c_stopped, c_gone, c_dict>>
      BY <2>3, <3>1 DEF Chained!GoTo, p
    <3> QED BY <3>2 DEF p
  <2> HIDE DEF key
  <2>5. c_todo' = owed \ {key} /\ c_seen' = Append(given, key)
    BY <2>4 DEF Chained!ToSet
  <2>6. /\ c_seen' \in Seq(CmapKeys) /\ Len(c_seen') = Len(given) + 1
        /\ c_seen'[Len(given) + 1] = key
        /\ \A j \in 1 .. Len(given) : c_seen'[j] = given[j]
    BY <2>2, <2>5
  <2>7. i <= b0
    BY <2>1
  <2>8. \A j \in 1 .. Len(given) : given[j] # key
    BY <2>2, <2>7, CmapAssumption, HomeIsBucket DEF Chained!Buckets
  <2>9. NoneTwice(c_seen')
    BY <2>6, <2>8 DEF NoneTwice
  <2>10. \A j \in 1 .. Len(c_seen') : Home(c_seen'[j]) <= b0
    <3> SUFFICES ASSUME NEW j \in 1 .. Len(c_seen') PROVE Home(c_seen'[j]) <= b0
      OBVIOUS
    <3>1. CASE j = Len(given) + 1
      BY <3>1, <2>2, <2>6 DEF Chained!Buckets
    <3>2. CASE j \in 1 .. Len(given)
      <4>1. given[j] \in CmapKeys
        BY <3>2
      <4>2. Home(given[j]) \in Int /\ Home(given[j]) < i
        BY <3>2, <4>1, HomeIsBucket DEF Chained!Buckets
      <4> QED BY <3>2, <4>2, <2>2, <2>6, <2>7 DEF Chained!Buckets
    <3> QED BY <3>1, <3>2, <2>6
  <2>11. \A k \in c_todo' : b0 < Home(k)
    <3> SUFFICES ASSUME NEW k \in owed, k # key PROVE b0 < Home(k)
      BY <2>5
    <3>1. Home(k) # b0
      BY DEF ChainsInv, key
    <3>2. b0 <= Home(k) /\ b0 \in Nat /\ Home(k) \in Nat
      BY <1>2, <2>1
    <3> QED BY <3>1, <3>2
  <2> QED BY <1>1, <2>2, <2>4, <2>5, <2>6, <2>9, <2>10, <2>11 DEF IterInv
<1> QED BY <1>4, <1>5

(* Every operation keeps the chains sound.                                 *)
LEMMA ChainedNextKeeps ==
    ASSUME ChainsInv, IterInv, Chained!Next
    PROVE  ChainsInv' /\ IterInv'
<1>1. CASE \E key \in CmapKeys, value \in Vals : Chained!cmap_insert(key, value)
  BY <1>1, InsertKeepsChains
<1>5. CASE \E key \in CmapKeys : Chained!Astray(key)
  BY <1>5 DEF Chained!Astray, ChainsInv, IterInv
<1>2. CASE Chained!cmap_get_start_pos
  <2>1. Chained!GoTo(Chained!FirstFrom(0), DOMAIN c_dict, << >>)
    BY <1>2 DEF Chained!cmap_get_start_pos
  <2>2. \A key \in DOMAIN c_dict : 0 <= Home(key)
    BY CmapAssumption, HomeIsBucket DEF ChainsInv, Chained!Buckets
  <2>3. /\ 0 \in 0 .. CmapSize /\ << >> \in Seq(CmapKeys) /\ NoneTwice(<< >>)
        /\ DOMAIN c_dict \in SUBSET DOMAIN c_dict
        /\ \A j \in 1 .. Len(<< >>) : Home(<< >>[j]) < 0
    BY CmapAssumption DEF NoneTwice
  <2> QED BY <2>1, <2>2, <2>3, GoingOnKeepsIter
<1>3. CASE Chained!cmap_get_next
  <2>1. PICK b \in Chained!Buckets :
           /\ c_pos = <<b, 1>>
           /\ c_bucket_array[b] # << >>
           /\ \A key \in c_todo : b < Home(key)
           /\ \A i \in 1 .. Len(c_seen) : Home(c_seen[i]) <= b
    BY <1>3 DEF IterInv, Chained!cmap_get_next
  <2>2. Chained!NextPos = Chained!FirstFrom(b + 1)
    <3>1. c_pos[1] = b /\ c_pos[2] = 1 /\ ~(1 < Len(c_bucket_array[b]))
      BY <2>1 DEF ChainsInv
    <3> QED BY <3>1 DEF Chained!NextPos
  <2>3. Chained!GoTo(Chained!FirstFrom(b + 1), c_todo, c_seen)
    BY <1>3, <2>2 DEF Chained!cmap_get_next
  <2>4. /\ b + 1 \in 0 .. CmapSize
        /\ \A key \in c_todo : b + 1 <= Home(key)
        /\ \A i \in 1 .. Len(c_seen) : Home(c_seen[i]) < b + 1
    <3>1. b \in Nat /\ b + 1 \in 0 .. CmapSize
      BY CmapAssumption DEF Chained!Buckets
    <3>2. \A key \in c_todo : Home(key) \in Nat
      BY HomeIsBucket, CmapAssumption DEF ChainsInv, IterInv, Chained!Buckets
    <3>3. \A i \in 1 .. Len(c_seen) : Home(c_seen[i]) \in Int
      BY HomeIsBucket DEF IterInv
    <3> QED BY <2>1, <3>1, <3>2, <3>3
  <2> QED BY <2>3, <2>4, GoingOnKeepsIter DEF IterInv
<1>4. CASE Chained!cmap_destroy
  BY <1>4, HomeIsBucket DEF Chained!cmap_destroy, ChainsInv, IterInv, NoneTwice
<1> QED BY <1>1, <1>2, <1>3, <1>4, <1>5 DEF Chained!Next

(* What leaves the chained map alone keeps it sound.                       *)
LEMMA ChainedStays == ChainsInv /\ IterInv /\ UNCHANGED c_vars => ChainsInv' /\ IterInv'
BY DEF ChainsInv, IterInv, c_vars

(* A step of the containers keeps the chained map sound.                   *)
LEMMA ChainedStepKeeps ==
    ASSUME ChainsInv, IterInv, [AllNext]_<<which, vars, s_vars, c_vars, d_vars, l_vars>>
    PROVE  ChainsInv' /\ IterInv'
<1>1. CASE ChainedStep
  BY <1>1, ChainedNextKeeps DEF ChainedStep
<1>2. CASE HashStep \/ SkipStep \/ RingStep \/ SingleStep
           \/ UNCHANGED <<which, vars, s_vars, c_vars, d_vars, l_vars>>
  BY <1>2, ChainedStays DEF HashStep, SkipStep, RingStep, SingleStep
<1> QED BY <1>1, <1>2 DEF AllNext

(* For any keys, int hash function and number of buckets, until a call     *)
(* uses an index before the buckets: a search answers as a map would for   *)
(* the keys that have a bucket, and an iteration gives each key once and,  *)
(* when it ends, every key that was there when it began (cmap.c:57-135,    *)
(* 215-262).                                                               *)
THEOREM ChainedStaysMap == AllSpec => []ChainedIsMap
<1>1. AllInit => ChainsInv /\ IterInv
  BY ChainedInitially DEF AllInit
<1>2. ChainsInv /\ IterInv => ChainedIsMap
  BY ChainsAnswer, IterAnswers DEF ChainedIsMap
<1> QED BY <1>1, <1>2, ChainedStepKeeps, PTL DEF AllSpec

-----------------------------------------------------------------------------
(***************************************************************************)
(* The skip list of the containers answers as a sorted map: SkipInv is     *)
(* inductive and implies what Containers.cfg checks of it.  Each line is   *)
(* sorted and its keys are in the line below, so that a search leaves      *)
(* every line at the last key below the one it looks for, wherever it      *)
(* entered the line: PathFound, by induction over the lines.               *)
(***************************************************************************)
\* a line whose keys grow
Sorted(s) == \A i, j \in 1 .. Len(s) : i < j => s[i] < s[j]

\* the first m keys of a line are below key, the others are not
Splits(s, key, m) ==
    /\ m \in 0 .. Len(s)
    /\ \A i \in 1 .. m : s[i] < key
    /\ \A i \in m + 1 .. Len(s) : key <= s[i]

\* lines of a skip list of the keys D
SkipLines(ls, D) ==
    /\ ls \in Seq(Seq(SkipKeys)) /\ ls # << >>
    /\ \A i \in 1 .. Len(ls) : Sorted(ls[i])
    /\ \A i \in 1 .. Len(ls) - 1 : Elements(ls[i]) \subseteq Elements(ls[i + 1])
    /\ Elements(ls[Len(ls)]) = D

(* The inductive invariant: the lines are those of the keys of dict, with  *)
(* no empty one on top, the shared data_s hold its values, and level and   *)
(* count are right until the list is destroyed.                            *)
SkipInv ==
    /\ SkipLines(s_lines, DOMAIN s_dict)
    /\ Len(s_lines) > 1 => s_lines[1] # << >>
    /\ s_dict = [key \in DOMAIN s_dict |-> s_dict[key]]
    /\ ~s_gone => /\ s_data = s_dict
                  /\ s_level = Len(s_lines)
                  /\ s_count = Cardinality(DOMAIN s_dict)
    /\ s_gone => s_dict = << >>

(* The cardinality SkipList takes from the library is the library's.       *)
LEMMA SkipCardinality == \A S : Skip!Cardinality(S) = Cardinality(S)
BY DEF Skip!Cardinality, Cardinality

(* The keys of a line are positive numbers.                                *)
LEMMA LineKeys ==
    ASSUME NEW s \in Seq(SkipKeys)
    PROVE  Len(s) \in Nat /\ \A i \in 1 .. Len(s) : s[i] \in Int \ {0}
<1>1. \A i \in 1 .. Len(s) : s[i] \in SkipKeys
  OBVIOUS
<1>2. SkipKeys \subseteq Int \ {0}
  BY SkipAssumption
<1>3. \A i \in 1 .. Len(s) : s[i] \in Int \ {0}
  BY <1>1, <1>2
<1>4. Len(s) \in Nat
  OBVIOUS
<1> QED BY <1>3, <1>4

(* A sorted line has no key twice.                                         *)
LEMMA SortedOnce ==
    ASSUME NEW s \in Seq(SkipKeys), Sorted(s)
    PROVE  NoneTwice(s)
<1>1. ASSUME NEW i \in 1 .. Len(s), NEW j \in 1 .. Len(s), s[i] = s[j] PROVE i = j
  <2>1. s[i] \in Int /\ s[j] \in Int
    BY LineKeys
  <2>2. ~(s[i] < s[j]) /\ ~(s[j] < s[i])
    BY <1>1, <2>1
  <2>3. i \in Nat /\ j \in Nat
    BY LineKeys
  <2> QED BY <2>2, <2>3 DEF Sorted
<1> QED BY <1>1 DEF NoneTwice

(* Where a key is in a sorted line, Index finds it, and Left in front.     *)
LEMMA PlaceFound ==
    ASSUME NEW s \in Seq(SkipKeys), Sorted(s), NEW p \in 0 .. Len(s)
    PROVE  Skip!Index(s, Place(s, p)) = p
<1>0. Len(s) \in Nat /\ \A i \in 1 .. Len(s) : s[i] \in Int \ {0}
  BY LineKeys
<1> DEFINE I == {i \in 1 .. Len(s) : s[i] = Place(s, p)}
<1>1. Skip!Index(s, Place(s, p)) = IF I # {} THEN Skip!Min(I) ELSE 0
  BY DEF Skip!Index, Skip!SelectInSeq
<1>2. CASE p = 0
  <2>1. I = {}
    BY <1>0, <1>2 DEF Place
  <2> QED BY <2>1, <1>1, <1>2
<1>3. CASE p # 0
  <2>1. Place(s, p) = s[p] /\ p \in 1 .. Len(s)
    BY <1>0, <1>3 DEF Place
  <2>2. ASSUME NEW i \in 1 .. Len(s), s[i] = s[p] PROVE i = p
    <3>1. ~(s[i] < s[p]) /\ ~(s[p] < s[i])
      BY <1>0, <2>1, <2>2
    <3> QED BY <1>0, <2>1, <3>1 DEF Sorted
  <2>3. I = {p}
    BY <2>1, <2>2
  <2>4. Skip!Min({p}) = p
    BY <2>1 DEF Skip!Min
  <2> QED BY <2>3, <2>4, <1>1
<1> QED BY <1>2, <1>3

\* with a number, the ones below it
Initial(T) == \A j \in T : \A i \in 1 .. j : i \in T

(* A set of numbers from 1 on that leaves none out is an interval.         *)
LEMMA InitialSegment ==
    ASSUME NEW n \in Nat, NEW T \in SUBSET (1 .. n), Initial(T)
    PROVE  \E m \in 0 .. n : T = 1 .. m /\ IsFiniteSet(T) /\ Cardinality(T) = m
<1>1. \E m \in 0 .. n : T = 1 .. m
  <2>1. CASE T = 1 .. n
    BY <2>1
  <2>2. CASE T # 1 .. n
    <3> DEFINE Out == (1 .. n) \ T
    <3>1. Out \in SUBSET Nat /\ Out # {}
      <4>1. PICK k \in 1 .. n : k \notin T
        BY <2>2
      <4>2. k \in Out
        BY <4>1
      <4>3. 1 .. n \subseteq Nat
        OBVIOUS
      <4> QED BY <4>2, <4>3
    <3>2. PICK k \in Out : \A j \in Out : k <= j
      <4> HIDE DEF Out
      <4> QED BY <3>1, LeastNumber
    <3>3. k - 1 \in 0 .. n /\ k \in 1 .. n
      BY <3>2
    <3>4. \A i \in 1 .. k - 1 : i \in T
      BY <3>2, <3>3
    <3>5. \A i \in T : i \in 1 .. k - 1
      <4> SUFFICES ASSUME NEW i \in T, ~(i \in 1 .. k - 1) PROVE FALSE
        OBVIOUS
      <4>1. k \in 1 .. i
        BY <3>3
      <4> QED BY <4>1, <3>2 DEF Initial
    <3>6. T = 1 .. k - 1
      BY <3>4, <3>5
    <3> QED BY <3>3, <3>6
  <2> QED BY <2>1, <2>2
<1> QED BY <1>1, FS_Interval

(* A sorted line has a place where the keys below another one end.         *)
LEMMA LineSplits ==
    ASSUME NEW s \in Seq(SkipKeys), Sorted(s), NEW key \in SkipKeys
    PROVE  \E m : Splits(s, key, m)
<1> DEFINE T == {i \in 1 .. Len(s) : s[i] < key}
<1>0. /\ SkipKeys \subseteq Int /\ key \in Int /\ Len(s) \in Nat
      /\ \A i \in 1 .. Len(s) : s[i] \in Int
  <2>1. SkipKeys \subseteq Int
    BY SkipAssumption
  <2> QED BY <2>1, LineKeys
<1>1. ASSUME NEW j \in T, NEW i \in 1 .. j PROVE i \in T
  <2>1. i \in 1 .. Len(s) /\ (i < j => s[i] < s[j])
    BY <1>0 DEF Sorted
  <2> QED BY <1>0, <2>1
<1>2. PICK m \in 0 .. Len(s) : T = 1 .. m
  <2>1. T \in SUBSET (1 .. Len(s))
    OBVIOUS
  <2>2. Initial(T)
    BY <1>1 DEF Initial
  <2> HIDE DEF T
  <2> QED BY <1>0, <2>1, <2>2, InitialSegment
<1>3. Splits(s, key, m)
  <2>1. \A i \in 1 .. m : s[i] < key
    BY <1>2
  <2>2. \A i \in m + 1 .. Len(s) : key <= s[i]
    <3> SUFFICES ASSUME NEW i \in m + 1 .. Len(s) PROVE key <= s[i]
      OBVIOUS
    <3>1. i \in 1 .. Len(s) /\ i \notin T
      BY <1>0, <1>2
    <3> QED BY <1>0, <3>1
  <2> QED BY <2>1, <2>2 DEF Splits
<1> QED BY <1>3

(* A walk that enters a sorted line below a key, at its start or at one of *)
(* its keys, goes to the last key below it.                                *)
LEMMA WalkStops ==
    ASSUME NEW s \in Seq(SkipKeys), Sorted(s), NEW key \in SkipKeys, NEW m, Splits(s, key, m),
           NEW at, at = 0 \/ (at \in Elements(s) /\ at < key)
    PROVE  Skip!Walk(s, at, key) = Place(s, m)
<1>0. /\ key \in Int /\ Len(s) \in Nat /\ m \in 0 .. Len(s)
      /\ \A i \in 1 .. Len(s) : s[i] \in Int \ {0}
  <2>1. key \in Int
    BY SkipAssumption
  <2>2. m \in 0 .. Len(s)
    BY DEF Splits
  <2> QED BY <2>1, <2>2, LineKeys
<1>1. PICK p \in 0 .. m : at = Place(s, p)
  <2>1. CASE at = 0
    BY <2>1, <1>0 DEF Place
  <2>2. CASE at \in Elements(s) /\ at < key
    <3>1. PICK p \in 1 .. Len(s) : at = s[p]
      BY <2>2 DEF Elements
    <3>2. p \notin m + 1 .. Len(s)
      BY <3>1, <2>2, <1>0 DEF Splits
    <3>3. p \in 1 .. m
      BY <3>2, <1>0
    <3> QED BY <3>1, <3>3, <1>0 DEF Place
  <2> QED BY <2>1, <2>2
<1>2. Skip!Index(s, at) = p
  BY <1>0, <1>1, PlaceFound
<1> DEFINE rest == SubSeq(s, p + 1, Len(s))
           steps == {j \in DOMAIN rest : \A i \in 1 .. j : key > rest[i]}
<1>3. /\ Len(rest) = Len(s) - p /\ DOMAIN rest = 1 .. Len(s) - p
      /\ \A j \in 1 .. Len(s) - p : rest[j] = s[p + j]
  BY <1>0
<1>4. steps = 1 .. m - p
  <2>1. ASSUME NEW j \in 1 .. m - p PROVE j \in steps
    <3>1. j \in DOMAIN rest
      BY <1>0, <1>3
    <3>2. ASSUME NEW i \in 1 .. j PROVE key > rest[i]
      <4>1. p + i \in 1 .. m /\ i \in 1 .. Len(s) - p
        BY <1>0
      <4>2. s[p + i] < key
        BY <4>1 DEF Splits
      <4>3. s[p + i] \in Int
        BY <4>1, <1>0
      <4> QED BY <4>1, <4>2, <4>3, <1>0, <1>3
    <3> QED BY <3>1, <3>2
  <2>2. ASSUME NEW j \in steps PROVE j \in 1 .. m - p
    <3> SUFFICES ASSUME ~(j <= m - p) PROVE FALSE
      BY <1>0, <1>3
    <3>1. j \in Nat /\ m - p + 1 \in 1 .. j /\ m + 1 \in m + 1 .. Len(s) /\ p + (m - p + 1) = m + 1
      BY <1>0, <1>3
    <3>2. key <= s[m + 1]
      BY <3>1 DEF Splits
    <3>3. key > rest[m - p + 1]
      BY <3>1
    <3>4. m - p + 1 \in 1 .. Len(s) - p
      BY <3>1, <1>0, <1>3
    <3>5. rest[m - p + 1] = s[m + 1]
      <4> HIDE DEF rest, steps
      <4>1. PICK i \in 1 .. Len(s) - p : i = m - p + 1
        BY <3>4
      <4>2. rest[i] = s[p + i]
        BY <1>3
      <4>3. p + i = m + 1
        BY <4>1, <1>0
      <4> QED BY <4>1, <4>2, <4>3
    <3>6. s[m + 1] \in Int
      BY <3>4, <1>0
    <3> QED BY <3>2, <3>3, <3>5, <3>6, <1>0
  <2> QED BY <2>1, <2>2
<1>5. Skip!Walk(s, at, key) = IF steps = {} THEN at ELSE rest[Skip!Cardinality(steps)]
  BY <1>2 DEF Skip!Walk, Skip!After
<1>6. Skip!Cardinality(steps) = m - p
  <2>1. Cardinality(1 .. m - p) = m - p
    <3>1. m - p \in Nat
      BY <1>0
    <3> QED BY <3>1, FS_Interval
  <2> QED BY <2>1, <1>4, SkipCardinality
<1>7. CASE m = p
  <2>1. steps = {}
    BY <1>0, <1>4, <1>7
  <2> QED BY <2>1, <1>1, <1>5, <1>7
<1>8. CASE m # p
  <2>1. m - p \in 1 .. Len(s) - p /\ p + (m - p) = m /\ m - p \in 1 .. m - p
    BY <1>0, <1>8
  <2>2. Place(s, m) = s[m]
    BY <1>0, <1>8 DEF Place
  <2> HIDE DEF rest, steps
  <2> QED BY <2>1, <2>2, <1>3, <1>4, <1>5, <1>6
<1> QED BY <1>7, <1>8

(* In a line with m keys below key, key is the next one or not there.      *)
LEMMA NextIsKey ==
    ASSUME NEW s \in Seq(SkipKeys), Sorted(s), NEW key \in SkipKeys, NEW m, Splits(s, key, m)
    PROVE  /\ Skip!IsRight(s, Place(s, m), key) <=> key \in Elements(s)
           /\ key \in Elements(s) => m + 1 \in 1 .. Len(s) /\ s[m + 1] = key
<1>0. /\ key \in Int /\ Len(s) \in Nat /\ m \in 0 .. Len(s)
      /\ \A i \in 1 .. Len(s) : s[i] \in Int \ {0}
  <2>1. key \in Int
    BY SkipAssumption
  <2>2. m \in 0 .. Len(s)
    BY DEF Splits
  <2> QED BY <2>1, <2>2, LineKeys
<1>1. ASSUME key \in Elements(s) PROVE m + 1 \in 1 .. Len(s) /\ s[m + 1] = key
  <2>1. PICK p \in 1 .. Len(s) : s[p] = key
    BY <1>1 DEF Elements
  <2>2. p \notin 1 .. m
    BY <2>1, <1>0 DEF Splits
  <2>3. m + 1 \in 1 .. Len(s) /\ p >= m + 1
    BY <2>2, <1>0
  <2>4. m + 1 \in m + 1 .. Len(s)
    BY <2>3, <1>0
  <2>5. key <= s[m + 1]
    BY <2>4 DEF Splits
  <2>6. p = m + 1 \/ s[m + 1] < s[p]
    BY <2>3 DEF Sorted
  <2> QED BY <2>1, <2>3, <2>5, <2>6, <1>0
<1> DEFINE rest == SubSeq(s, m + 1, Len(s))
<1>2. Skip!IsRight(s, Place(s, m), key) <=> rest # << >> /\ rest[1] = key
  BY PlaceFound, <1>0 DEF Skip!IsRight, Skip!After
<1>3. m + 1 <= Len(s) => rest # << >> /\ rest[1] = s[m + 1]
  <2> HAVE m + 1 <= Len(s)
  <2>1. Len(rest) = Len(s) - m /\ 1 \in 1 .. Len(s) - m
    BY <1>0
  <2>2. rest[1] = s[m + 1 + 1 - 1]
    BY <2>1, <1>0
  <2>3. rest # << >>
    <3> HIDE DEF rest
    <3>1. Len(rest) # 0
      BY <2>1, <1>0
    <3> QED BY <3>1
  <2>4. m + 1 + 1 - 1 = m + 1
    BY <1>0
  <2> QED BY <2>2, <2>3, <2>4
<1>4. m = Len(s) => rest = << >>
  BY <1>0
<1>5. m + 1 <= Len(s) => s[m + 1] \in Elements(s)
  BY <1>0 DEF Elements
<1> QED BY <1>0, <1>1, <1>2, <1>3, <1>4, <1>5

(* The keys of a line are in every line below, and in the list.            *)
LEMMA LinesNest ==
    ASSUME NEW ls, NEW D, SkipLines(ls, D)
    PROVE  \A i \in 1 .. Len(ls) : Elements(ls[i]) \subseteq D
<1>0. Len(ls) \in Nat
  BY DEF SkipLines
<1> DEFINE n == Len(ls)
           T == {d \in Nat : d < n => Elements(ls[n - d]) \subseteq D}
<1>1. 0 \in T
  BY <1>0 DEF SkipLines
<1>2. ASSUME NEW d \in T PROVE d + 1 \in T
  <2> SUFFICES ASSUME d + 1 < n PROVE Elements(ls[n - (d + 1)]) \subseteq D
    OBVIOUS
  <2>1. n - (d + 1) \in 1 .. n - 1 /\ n - (d + 1) + 1 = n - d /\ d < n
    BY <1>0
  <2>2. Elements(ls[n - (d + 1)]) \subseteq Elements(ls[n - (d + 1) + 1])
    BY <2>1 DEF SkipLines
  <2>3. Elements(ls[n - d]) \subseteq D
    BY <2>1
  <2> QED BY <2>1, <2>2, <2>3
<1>3. T = Nat
  <2>1. T \in SUBSET Nat
    OBVIOUS
  <2> HIDE DEF T
  <2> QED BY <2>1, <1>1, <1>2, Induction
<1>4. ASSUME NEW i \in 1 .. n PROVE Elements(ls[i]) \subseteq D
  <2>1. n - i \in Nat /\ n - i < n /\ n - (n - i) = i
    BY <1>0
  <2>2. n - i \in T
    BY <1>3, <2>1
  <2> QED BY <2>1, <2>2
<1> QED BY <1>4

(* The array of the path that a search leaves: in each line the last key   *)
(* below the one that is looked for.                                       *)
LEMMA PathFound ==
    ASSUME NEW ls, NEW D, SkipLines(ls, D), NEW key \in SkipKeys
    PROVE  /\ Len(Skip!Update(ls, key)) = Len(ls)
           /\ \A i \in 1 .. Len(ls) :
                 \E m : Splits(ls[i], key, m) /\ Skip!Update(ls, key)[i] = Place(ls[i], m)
<1> DEFINE cut == [i \in 1 .. Len(ls) |-> CHOOSE m : Splits(ls[i], key, m)]
           Along(path) == [i \in DOMAIN ls |->
                              Skip!Walk(ls[i], IF i = 1 THEN Skip!Left ELSE path[i - 1], key)]
           path == CHOOSE p : p = Along(p)
           g == [i \in 1 .. Len(ls) |-> Place(ls[i], cut[i])]
<1>0. /\ Len(ls) \in Nat /\ DOMAIN ls = 1 .. Len(ls)
      /\ \A i \in 1 .. Len(ls) : ls[i] \in Seq(SkipKeys) /\ Sorted(ls[i])
  BY DEF SkipLines
<1>1. ASSUME NEW i \in 1 .. Len(ls) PROVE Splits(ls[i], key, cut[i])
  BY <1>0, LineSplits
<1>2. ASSUME NEW i \in 1 .. Len(ls)
      PROVE  Skip!Walk(ls[i], IF i = 1 THEN Skip!Left ELSE g[i - 1], key) = g[i]
  <2> DEFINE at == IF i = 1 THEN Skip!Left ELSE g[i - 1]
  <2>1. at = 0 \/ (at \in Elements(ls[i]) /\ at < key)
    <3>1. CASE i = 1
      BY <3>1 DEF Skip!Left
    <3>2. CASE i # 1
      <4>1. i - 1 \in 1 .. Len(ls) /\ i - 1 \in 1 .. Len(ls) - 1 /\ i - 1 + 1 = i
        BY <3>2, <1>0
      <4>2. PICK k : k = cut[i - 1]
        OBVIOUS
      <4>3. at = Place(ls[i - 1], k)
        BY <3>2, <4>1, <4>2
      <4>4. Splits(ls[i - 1], key, k)
        BY <1>1, <4>1, <4>2
      <4>5. Elements(ls[i - 1]) \subseteq Elements(ls[i])
        BY <4>1 DEF SkipLines
      <4>6. k \in 1 .. Len(ls[i - 1]) => ls[i - 1][k] < key /\ ls[i - 1][k] \in Elements(ls[i - 1])
        <5> HAVE k \in 1 .. Len(ls[i - 1])
        <5>1. Len(ls[i - 1]) \in Nat
          BY <4>1, <1>0
        <5>2. k \in 1 .. k
          BY <5>1
        <5> QED BY <5>2, <4>4 DEF Splits, Elements
      <4> HIDE DEF at
      <4> QED BY <4>3, <4>5, <4>6 DEF Place
    <3> QED BY <3>1, <3>2
  <2>2. ls[i] \in Seq(SkipKeys) /\ Sorted(ls[i])
    BY <1>0
  <2>3. PICK k : k = cut[i]
    OBVIOUS
  <2>4. Splits(ls[i], key, k) /\ g[i] = Place(ls[i], k)
    BY <1>1, <2>3
  <2> HIDE DEF at, g
  <2>5. Skip!Walk(ls[i], at, key) = Place(ls[i], k)
    BY <2>1, <2>2, <2>4, WalkStops
  <2> QED BY <2>4, <2>5 DEF at
<1>3. g = Along(g)
  BY <1>0, <1>2
<1>4. path = Along(path)
  <2> HIDE DEF g
  <2> QED BY <1>3
<1>10. Len(path) = Len(ls)
  <2> HIDE DEF path
  <2>1. path = [i \in 1 .. Len(ls) |->
                   Skip!Walk(ls[i], IF i = 1 THEN Skip!Left ELSE path[i - 1], key)]
    BY <1>0, <1>4
  <2> QED BY <1>0, <2>1
<1> HIDE DEF path, g, cut
<1>9. \A j \in 1 .. Len(ls) :
         path[j] = Skip!Walk(ls[j], IF j = 1 THEN Skip!Left ELSE path[j - 1], key)
  BY <1>0, <1>4
<1> DEFINE T == {i \in Nat : i \in 1 .. Len(ls) => path[i] = g[i]}
<1>5. T = Nat
  <2>1. 0 \in T
    BY <1>0
  <2>2. ASSUME NEW i \in T PROVE i + 1 \in T
    <3> SUFFICES ASSUME i + 1 \in 1 .. Len(ls) PROVE path[i + 1] = g[i + 1]
      OBVIOUS
    <3>1. path[i + 1] = Skip!Walk(ls[i + 1], IF i + 1 = 1 THEN Skip!Left ELSE path[i], key)
      <4>1. i + 1 - 1 = i
        OBVIOUS
      <4> QED BY <4>1, <1>9
    <3>2. g[i + 1] = Skip!Walk(ls[i + 1], IF i + 1 = 1 THEN Skip!Left ELSE g[i], key)
      <4>1. i + 1 - 1 = i
        OBVIOUS
      <4> QED BY <4>1, <1>2
    <3>3. i + 1 # 1 => path[i] = g[i]
      BY <1>0
    <3> QED BY <3>1, <3>2, <3>3
  <2>3. T \in SUBSET Nat
    OBVIOUS
  <2> HIDE DEF T
  <2> QED BY <2>1, <2>2, <2>3, Induction
<1>6. Skip!Update(ls, key) = path
  BY DEF Skip!Update, path
<1>7. ASSUME NEW i \in 1 .. Len(ls) PROVE path[i] = g[i]
  <2>1. i \in T
    BY <1>0, <1>5
  <2> QED BY <2>1
<1> SUFFICES ASSUME NEW i \in 1 .. Len(ls)
             PROVE  \E m : Splits(ls[i], key, m) /\ path[i] = Place(ls[i], m)
  BY <1>6, <1>10
<1>8. g[i] = Place(ls[i], cut[i])
  BY DEF g
<1> QED BY <1>1, <1>7, <1>8

(* In every line the search stands in front of the key, if it is there.    *)
LEMMA PathLeadsTo ==
    ASSUME NEW ls, NEW D, SkipLines(ls, D), NEW key \in SkipKeys, NEW i \in 1 .. Len(ls)
    PROVE  Skip!IsRight(ls[i], Skip!Update(ls, key)[i], key) <=> key \in Elements(ls[i])
<1>1. ls[i] \in Seq(SkipKeys) /\ Sorted(ls[i])
  BY DEF SkipLines
<1>2. PICK m : Splits(ls[i], key, m) /\ Skip!Update(ls, key)[i] = Place(ls[i], m)
  BY PathFound
<1> QED BY <1>1, <1>2, NextIsKey

\* t is a, then b
Joins(t, a, b) == t = a \o b

(* What is where in two sequences joined.                                  *)
LEMMA Joined ==
    ASSUME NEW S, NEW a \in Seq(S), NEW b \in Seq(S), NEW t, Joins(t, a, b)
    PROVE  /\ t \in Seq(S) /\ Len(t) = Len(a) + Len(b)
           /\ \A i \in 1 .. Len(a) + Len(b) : t[i] = IF i <= Len(a) THEN a[i] ELSE b[i - Len(a)]
BY ConcatProperties, Zenon DEF Joins

(* A key put behind the m keys below it keeps a line sorted.               *)
LEMMA KeyPut ==
    ASSUME NEW s \in Seq(SkipKeys), Sorted(s), NEW key \in SkipKeys, NEW m, Splits(s, key, m),
           key \notin Elements(s), NEW at, at = m + 1, NEW t, t = Skip!InsertAt(s, at, key)
    PROVE  t \in Seq(SkipKeys) /\ Sorted(t) /\ Elements(t) = Elements(s) \cup {key}
<1>0. /\ key \in Int /\ Len(s) \in Nat /\ m \in 0 .. Len(s)
      /\ \A i \in 1 .. Len(s) : s[i] \in Int \ {0}
  <2>1. key \in Int
    BY SkipAssumption
  <2>2. m \in 0 .. Len(s)
    BY DEF Splits
  <2> QED BY <2>1, <2>2, LineKeys
<1> DEFINE a == SubSeq(s, 1, m)
           b == SubSeq(s, at, Len(s))
<1>1. t = a \o <<key>> \o b
  <2>1. t = SubSeq(s, 1, at - 1) \o <<key>> \o SubSeq(s, at, Len(s))
    BY Zenon DEF Skip!InsertAt
  <2>2. at - 1 = m
    BY <1>0
  <2> QED BY <2>1, <2>2, Zenon
<1>2. /\ a \in Seq(SkipKeys) /\ Len(a) = m /\ \A i \in 1 .. m : a[i] = s[i]
      /\ b \in Seq(SkipKeys) /\ Len(b) = Len(s) - m
      /\ \A i \in 1 .. Len(s) - m : b[i] = s[m + i]
  BY <1>0
<1>3. /\ t \in Seq(SkipKeys) /\ Len(t) = Len(s) + 1
      /\ \A i \in 1 .. m : t[i] = s[i]
      /\ t[m + 1] = key
      /\ \A i \in m + 2 .. Len(s) + 1 : t[i] = s[i - 1]
  <2> HIDE DEF a, b
  <2> DEFINE c == a \o <<key>>
  <2>a. /\ c \in Seq(SkipKeys) /\ Len(c) = m + 1
        /\ \A i \in 1 .. m : c[i] = s[i]
        /\ c[m + 1] = key
    BY <1>0, <1>2
  <2> HIDE DEF c
  <2>b. Joins(t, c, b)
    BY <1>1 DEF c, Joins
  <2>c. /\ t \in Seq(SkipKeys) /\ Len(t) = Len(c) + Len(b)
        /\ \A i \in 1 .. Len(c) + Len(b) :
              t[i] = IF i <= Len(c) THEN c[i] ELSE b[i - Len(c)]
    <3>1. c \in Seq(SkipKeys) /\ b \in Seq(SkipKeys)
      BY <2>a, <1>2
    <3> QED BY <2>b, <3>1, Joined
  <2>1. t \in Seq(SkipKeys) /\ Len(t) = m + 1 + (Len(s) - m)
    BY <2>a, <2>c, <1>2
  <2>2. ASSUME NEW i \in 1 .. m + 1 PROVE t[i] = c[i]
    <3>1. i \in 1 .. Len(c) + Len(b) /\ i <= Len(c)
      BY <1>0, <1>2, <2>a
    <3> QED BY <3>1, <2>c
  <2>3. t[m + 1] = key /\ \A i \in 1 .. m : t[i] = s[i]
    <3>1. m + 1 \in 1 .. m + 1 /\ \A i \in 1 .. m : i \in 1 .. m + 1
      BY <1>0
    <3> QED BY <3>1, <2>2, <2>a
  <2>4. ASSUME NEW i \in m + 2 .. Len(s) + 1 PROVE t[i] = s[i - 1]
    <3>1. PICK j \in 1 .. Len(s) - m : i = m + 1 + j
      <4>1. i - m - 1 \in 1 .. Len(s) - m /\ i = m + 1 + (i - m - 1)
        BY <1>0
      <4> QED BY <4>1
    <3>2. t[m + 1 + j] = b[j]
      <4>1. m + 1 + j \in 1 .. Len(c) + Len(b) /\ ~(m + 1 + j <= Len(c)) /\ m + 1 + j - Len(c) = j
        BY <1>0, <1>2, <2>a
      <4>2. PICK k : k = m + 1 + j
        OBVIOUS
      <4>3. t[k] = b[k - Len(c)]
        BY <4>1, <4>2, <2>c
      <4> QED BY <4>1, <4>2, <4>3
    <3>3. m + j = i - 1
      BY <3>1, <1>0
    <3> QED BY <3>1, <3>2, <3>3, <1>2
  <2>5. m + 1 + (Len(s) - m) = Len(s) + 1
    BY <1>0
  <2> QED BY <2>1, <2>3, <2>4, <2>5
<1> HIDE DEF a, b
<1>4. /\ \A i \in 1 .. m : s[i] < key
      /\ \A i \in m + 1 .. Len(s) : key < s[i]
  <2>1. ASSUME NEW i \in m + 1 .. Len(s) PROVE key < s[i]
    <3>1. i \in 1 .. Len(s) /\ key <= s[i] /\ s[i] # key
      BY <1>0 DEF Splits, Elements
    <3> QED BY <3>1, <1>0
  <2> QED BY <2>1 DEF Splits
<1>5. Sorted(t)
  <2> SUFFICES ASSUME NEW i \in 1 .. Len(s) + 1, NEW j \in 1 .. Len(s) + 1, i < j
               PROVE  t[i] < t[j]
    BY <1>3 DEF Sorted
  <2>1. CASE j <= m
    <3>1. i \in 1 .. m /\ j \in 1 .. m /\ i \in 1 .. Len(s) /\ j \in 1 .. Len(s)
      BY <2>1, <1>0
    <3> QED BY <3>1, <1>3 DEF Sorted
  <2>2. CASE j = m + 1
    <3>1. i \in 1 .. m
      BY <2>2, <1>0
    <3> QED BY <3>1, <2>2, <1>3, <1>4
  <2>3. CASE j > m + 1 /\ i <= m
    <3>1. i \in 1 .. m /\ j \in m + 2 .. Len(s) + 1 /\ i \in 1 .. Len(s)
          /\ j - 1 \in 1 .. Len(s) /\ i < j - 1
      BY <2>3, <1>0
    <3>2. s[i] < s[j - 1]
      BY <3>1 DEF Sorted
    <3> QED BY <3>1, <3>2, <1>3
  <2>4. CASE j > m + 1 /\ i = m + 1
    <3>1. j \in m + 2 .. Len(s) + 1 /\ j - 1 \in m + 1 .. Len(s)
      BY <2>4, <1>0
    <3> QED BY <3>1, <2>4, <1>3, <1>4
  <2>5. CASE i > m + 1
    <3>1. i \in m + 2 .. Len(s) + 1 /\ j \in m + 2 .. Len(s) + 1
          /\ i - 1 \in 1 .. Len(s) /\ j - 1 \in 1 .. Len(s) /\ i - 1 < j - 1
      BY <2>5, <1>0
    <3>2. s[i - 1] < s[j - 1]
      BY <3>1 DEF Sorted
    <3> QED BY <3>1, <3>2, <1>3
  <2> QED BY <2>1, <2>2, <2>3, <2>4, <2>5, <1>0
<1>6. ASSUME NEW x PROVE x \in Elements(t) <=> x \in Elements(s) \/ x = key
  <2>1. ASSUME NEW i \in 1 .. Len(t) PROVE t[i] \in Elements(s) \/ t[i] = key
    <3>1. i \in 1 .. m \/ i = m + 1 \/ i \in m + 2 .. Len(s) + 1
      BY <1>0, <1>3
    <3>2. CASE i \in 1 .. m
      <4>1. i \in 1 .. Len(s)
        BY <3>2, <1>0
      <4> QED BY <4>1, <3>2, <1>3 DEF Elements
    <3>3. CASE i \in m + 2 .. Len(s) + 1
      <4>1. i - 1 \in 1 .. Len(s)
        BY <3>3, <1>0
      <4> QED BY <4>1, <3>3, <1>3 DEF Elements
    <3> QED BY <3>1, <3>2, <3>3, <1>3
  <2>2. ASSUME NEW i \in 1 .. Len(s) PROVE s[i] \in Elements(t)
    <3>1. CASE i <= m
      <4>1. i \in 1 .. m /\ i \in 1 .. Len(t)
        BY <3>1, <1>0, <1>3
      <4> QED BY <4>1, <1>3 DEF Elements
    <3>2. CASE i > m
      <4>1. i + 1 \in m + 2 .. Len(s) + 1 /\ i + 1 \in 1 .. Len(t) /\ i + 1 - 1 = i
        BY <3>2, <1>0, <1>3
      <4>2. t[i + 1] = s[i]
        BY <4>1, <1>3
      <4> QED BY <4>1, <4>2 DEF Elements
    <3> QED BY <3>1, <3>2, <1>0
  <2>3. key \in Elements(t)
    <3>1. m + 1 \in 1 .. Len(t)
      BY <1>0, <1>3
    <3> QED BY <3>1, <1>3 DEF Elements
  <2> QED BY <2>1, <2>2, <2>3 DEF Elements
<1> QED BY <1>3, <1>5, <1>6

(* A key taken out keeps a line sorted.                                    *)
LEMMA KeyTaken ==
    ASSUME NEW s \in Seq(SkipKeys), Sorted(s), NEW m \in Nat, NEW at \in 1 .. Len(s),
           at = m + 1, NEW t, t = Skip!RemoveAt(s, at)
    PROVE  t \in Seq(SkipKeys) /\ Sorted(t) /\ Elements(t) = Elements(s) \ {s[at]}
<1>0. Len(s) \in Nat /\ NoneTwice(s)
  BY SortedOnce
<1> DEFINE a == SubSeq(s, 1, m)
           b == SubSeq(s, at + 1, Len(s))
<1>1. t = a \o b /\ t = WithoutPlace(s, at)
  <2>1. t = SubSeq(s, 1, at - 1) \o SubSeq(s, at + 1, Len(s))
    BY Zenon DEF Skip!RemoveAt
  <2>2. at - 1 = m
    BY <1>0
  <2> QED BY <2>1, <2>2, Zenon DEF WithoutPlace
<1>2. t \in Seq(SkipKeys) /\ Len(t) = Len(s) - 1 /\ Elements(t) = Elements(s) \ {s[at]}
  BY <1>0, <1>1, TakeOut
<1>3. /\ a \in Seq(SkipKeys) /\ Len(a) = m /\ \A i \in 1 .. m : a[i] = s[i]
      /\ b \in Seq(SkipKeys) /\ Len(b) = Len(s) - m - 1
      /\ \A i \in 1 .. Len(s) - m - 1 : b[i] = s[m + 1 + i]
  BY <1>0
<1>4. /\ \A i \in 1 .. m : t[i] = s[i]
      /\ \A i \in m + 1 .. Len(s) - 1 : t[i] = s[i + 1]
  <2> HIDE DEF a, b
  <2>a. \A i \in 1 .. Len(a) + Len(b) : t[i] = IF i <= Len(a) THEN a[i] ELSE b[i - Len(a)]
    <3>1. Joins(t, a, b)
      BY <1>1 DEF Joins
    <3>2. a \in Seq(SkipKeys) /\ b \in Seq(SkipKeys)
      BY <1>3
    <3> QED BY <3>1, <3>2, Joined
  <2>1. ASSUME NEW i \in 1 .. m PROVE t[i] = s[i]
    <3>1. i \in 1 .. Len(a) + Len(b) /\ i <= Len(a)
      BY <1>0, <1>3
    <3> QED BY <3>1, <2>a, <1>3
  <2>2. ASSUME NEW i \in m + 1 .. Len(s) - 1 PROVE t[i] = s[i + 1]
    <3>1. PICK j \in 1 .. Len(s) - m - 1 : i = m + j
      <4>1. i - m \in 1 .. Len(s) - m - 1 /\ i = m + (i - m)
        BY <1>0
      <4> QED BY <4>1
    <3>2. t[m + j] = b[j]
      <4>1. m + j \in 1 .. Len(a) + Len(b) /\ ~(m + j <= Len(a)) /\ m + j - Len(a) = j
        BY <1>0, <1>3
      <4> QED BY <4>1, <2>a
    <3>3. m + 1 + j = i + 1
      BY <3>1, <1>0
    <3> QED BY <3>1, <3>2, <3>3, <1>3
  <2> QED BY <2>1, <2>2
<1> HIDE DEF a, b
<1>5. Sorted(t)
  <2> SUFFICES ASSUME NEW i \in 1 .. Len(s) - 1, NEW j \in 1 .. Len(s) - 1, i < j
               PROVE  t[i] < t[j]
    BY <1>2 DEF Sorted
  <2>1. CASE j <= m
    <3>1. i \in 1 .. m /\ j \in 1 .. m /\ i \in 1 .. Len(s) /\ j \in 1 .. Len(s)
      BY <2>1, <1>0
    <3> QED BY <3>1, <1>4 DEF Sorted
  <2>2. CASE j > m /\ i <= m
    <3>1. i \in 1 .. m /\ j \in m + 1 .. Len(s) - 1 /\ i \in 1 .. Len(s)
          /\ j + 1 \in 1 .. Len(s) /\ i < j + 1
      BY <2>2, <1>0
    <3>2. s[i] < s[j + 1]
      BY <3>1 DEF Sorted
    <3> QED BY <3>1, <3>2, <1>4
  <2>3. CASE i > m
    <3>1. i \in m + 1 .. Len(s) - 1 /\ j \in m + 1 .. Len(s) - 1
          /\ i + 1 \in 1 .. Len(s) /\ j + 1 \in 1 .. Len(s) /\ i + 1 < j + 1
      BY <2>3, <1>0
    <3>2. s[i + 1] < s[j + 1]
      BY <3>1 DEF Sorted
    <3> QED BY <3>1, <3>2, <1>4
  <2> QED BY <2>1, <2>2, <2>3, <1>0
<1> QED BY <1>2, <1>5

(* A function of the numbers from 1 to n is a list of lines.               *)
LEMMA LinesMade ==
    ASSUME NEW n \in Nat, NEW ls, DOMAIN ls = 1 .. n, ls = [i \in 1 .. n |-> ls[i]],
           \A i \in 1 .. n : ls[i] \in Seq(SkipKeys)
    PROVE  ls \in Seq(Seq(SkipKeys)) /\ Len(ls) = n
<1>1. ls \in [1 .. n -> Seq(SkipKeys)]
  OBVIOUS
<1> QED BY <1>1

(* A new key is put into the lower lines, up to the height of its column.  *)
LEMMA ColumnPut ==
    ASSUME NEW ls, NEW D, SkipLines(ls, D), NEW key \in SkipKeys, key \notin D,
           NEW height \in 1 .. Len(ls), NEW new, new = Skip!add_key_column(ls, key, height)
    PROVE  /\ SkipLines(new, D \cup {key}) /\ Len(new) = Len(ls)
           /\ ls[1] # << >> \/ height = Len(ls) => new[1] # << >>
<1> DEFINE n == Len(ls)
<1>0. /\ n \in Nat \ {0} /\ DOMAIN ls = 1 .. n
      /\ \A i \in 1 .. n : ls[i] \in Seq(SkipKeys) /\ Sorted(ls[i]) /\ key \notin Elements(ls[i])
  <2>1. \A i \in 1 .. n : key \notin Elements(ls[i])
    BY LinesNest
  <2> QED BY <2>1 DEF SkipLines
<1>1. ASSUME NEW i \in 1 .. n
      PROVE  /\ i <= n - height => new[i] = ls[i]
             /\ i > n - height => /\ new[i] \in Seq(SkipKeys) /\ Sorted(new[i])
                                  /\ Elements(new[i]) = Elements(ls[i]) \cup {key}
  <2>1. PICK m : Splits(ls[i], key, m) /\ Skip!Update(ls, key)[i] = Place(ls[i], m)
    BY PathFound
  <2>2. m \in 0 .. Len(ls[i])
    BY <2>1 DEF Splits
  <2>3. Skip!Index(ls[i], Place(ls[i], m)) = m
    BY <2>2, <1>0, PlaceFound
  <2>4. PICK at : at = m + 1
    OBVIOUS
  <2>5. new[i] = IF i <= n - height THEN ls[i] ELSE Skip!InsertAt(ls[i], at, key)
    BY <1>0, <2>1, <2>3, <2>4 DEF Skip!add_key_column
  <2>6. i > n - height => ~(i <= n - height)
    BY <1>0
  <2>7. PICK t : t = Skip!InsertAt(ls[i], at, key)
    OBVIOUS
  <2>8. t \in Seq(SkipKeys) /\ Sorted(t) /\ Elements(t) = Elements(ls[i]) \cup {key}
    BY <1>0, <2>1, <2>4, <2>7, KeyPut
  <2> QED BY <2>5, <2>6, <2>7, <2>8
<1>2. DOMAIN new = 1 .. n /\ new = [i \in 1 .. n |-> new[i]]
  BY <1>0 DEF Skip!add_key_column
<1>3. \A i \in 1 .. n : new[i] \in Seq(SkipKeys) /\ Sorted(new[i])
  <2> TAKE i \in 1 .. n
  <2>1. i <= n - height \/ i > n - height
    BY <1>0
  <2> QED BY <2>1, <1>0, <1>1
<1>4. new \in Seq(Seq(SkipKeys)) /\ Len(new) = n
  BY <1>0, <1>2, <1>3, LinesMade
<1>5. ASSUME NEW i \in 1 .. n - 1 PROVE Elements(new[i]) \subseteq Elements(new[i + 1])
  <2>1. Elements(ls[i]) \subseteq Elements(ls[i + 1])
    BY DEF SkipLines
  <2>2. i \in 1 .. n /\ i + 1 \in 1 .. n
    BY <1>0
  <2>3. CASE i > n - height
    <3>1. i + 1 > n - height
      BY <2>3, <1>0
    <3> QED BY <3>1, <2>1, <2>2, <2>3, <1>1
  <2>4. CASE i <= n - height
    <3>1. i + 1 <= n - height \/ i + 1 > n - height
      BY <1>0
    <3>2. Elements(ls[i + 1]) \subseteq Elements(new[i + 1])
      BY <3>1, <2>2, <1>1
    <3> QED BY <3>2, <2>1, <2>2, <2>4, <1>1
  <2> QED BY <2>3, <2>4, <1>0
<1>6. Elements(new[n]) = D \cup {key}
  <2>1. n \in 1 .. n /\ n > n - height
    BY <1>0
  <2> QED BY <2>1, <1>1 DEF SkipLines
<1>7. new # << >>
  BY <1>0, <1>4
<1>8. ASSUME ls[1] # << >> \/ height = n PROVE new[1] # << >>
  <2>1. 1 \in 1 .. n
    BY <1>0
  <2>2. CASE 1 <= n - height
    <3>0. height \in Int /\ n \in Int
      BY <1>0
    <3>1. height # n
      BY <2>2, <3>0
    <3> QED BY <3>1, <2>1, <2>2, <1>1, <1>8
  <2>3. CASE 1 > n - height
    <3>1. key \in Elements(new[1])
      BY <2>1, <2>3, <1>1
    <3>2. Elements(<< >>) = {}
      BY DEF Elements
    <3> QED BY <3>1, <3>2
  <2> QED BY <2>2, <2>3, <1>0
<1> QED BY <1>3, <1>4, <1>5, <1>6, <1>7, <1>8 DEF SkipLines

(* A key is taken out of every line.                                       *)
LEMMA ColumnTaken ==
    ASSUME NEW ls, NEW D, SkipLines(ls, D), NEW key \in SkipKeys,
           NEW new, new = Skip!remove_key_column(ls, key)
    PROVE  SkipLines(new, D \ {key}) /\ Len(new) = Len(ls)
<1> DEFINE n == Len(ls)
<1>0. /\ n \in Nat \ {0} /\ DOMAIN ls = 1 .. n
      /\ \A i \in 1 .. n : ls[i] \in Seq(SkipKeys) /\ Sorted(ls[i])
  BY DEF SkipLines
<1>1. ASSUME NEW i \in 1 .. n
      PROVE  /\ new[i] \in Seq(SkipKeys) /\ Sorted(new[i])
             /\ Elements(new[i]) = Elements(ls[i]) \ {key}
  <2>1. PICK m : Splits(ls[i], key, m) /\ Skip!Update(ls, key)[i] = Place(ls[i], m)
    BY PathFound
  <2>2. m \in 0 .. Len(ls[i]) /\ Len(ls[i]) \in Nat
    BY <2>1, <1>0 DEF Splits
  <2>3. Skip!Index(ls[i], Place(ls[i], m)) = m
    BY <2>2, <1>0, PlaceFound
  <2>4. PICK at : at = m + 1
    OBVIOUS
  <2>5. new[i] = IF Skip!IsRight(ls[i], Place(ls[i], m), key)
                 THEN Skip!RemoveAt(ls[i], at) ELSE ls[i]
    BY <1>0, <2>1, <2>3, <2>4 DEF Skip!remove_key_column
  <2>6. CASE key \in Elements(ls[i])
    <3>1. PICK t : t = Skip!RemoveAt(ls[i], at)
      OBVIOUS
    <3>2. /\ Skip!IsRight(ls[i], Place(ls[i], m), key)
          /\ at \in 1 .. Len(ls[i]) /\ ls[i][at] = key /\ m \in Nat
      BY <1>0, <2>1, <2>2, <2>4, <2>6, NextIsKey
    <3>3. t \in Seq(SkipKeys) /\ Sorted(t) /\ Elements(t) = Elements(ls[i]) \ {key}
      BY <1>0, <2>4, <3>1, <3>2, KeyTaken
    <3> QED BY <2>5, <3>1, <3>2, <3>3
  <2>7. CASE key \notin Elements(ls[i])
    <3>1. ~Skip!IsRight(ls[i], Place(ls[i], m), key)
      BY <1>0, <2>1, <2>7, NextIsKey
    <3> QED BY <1>0, <2>5, <2>7, <3>1
  <2> QED BY <2>6, <2>7
<1>2. DOMAIN new = 1 .. n /\ new = [i \in 1 .. n |-> new[i]]
  BY <1>0 DEF Skip!remove_key_column
<1>3. new \in Seq(Seq(SkipKeys)) /\ Len(new) = n
  BY <1>0, <1>1, <1>2, LinesMade
<1>4. ASSUME NEW i \in 1 .. n - 1 PROVE Elements(new[i]) \subseteq Elements(new[i + 1])
  <2>1. Elements(ls[i]) \subseteq Elements(ls[i + 1])
    BY DEF SkipLines
  <2>2. i \in 1 .. n /\ i + 1 \in 1 .. n
    BY <1>0
  <2> QED BY <2>1, <2>2, <1>1
<1>5. Elements(new[n]) = D \ {key}
  <2>1. n \in 1 .. n
    BY <1>0
  <2> QED BY <2>1, <1>1 DEF SkipLines
<1>6. new # << >>
  BY <1>0, <1>3
<1> QED BY <1>1, <1>3, <1>4, <1>5, <1>6 DEF SkipLines

(* Empty lines above the others.                                           *)
LEMMA LinesGained ==
    ASSUME NEW ls, NEW D, SkipLines(ls, D), NEW more \in Nat,
           NEW new, new = Skip!gain_empty_top_lines(ls, more)
    PROVE  /\ SkipLines(new, D) /\ Len(new) = more + Len(ls)
           /\ more = 0 => new[1] = ls[1]
<1> DEFINE n == Len(ls)
           top == [i \in 1 .. more |-> << >>]
<1>0. /\ n \in Nat \ {0} /\ ls \in Seq(Seq(SkipKeys))
      /\ \A i \in 1 .. n : ls[i] \in Seq(SkipKeys) /\ Sorted(ls[i])
  BY DEF SkipLines
<1>1. top \in Seq(Seq(SkipKeys)) /\ Len(top) = more /\ \A i \in 1 .. more : top[i] = << >>
  OBVIOUS
<1>2. Joins(new, top, ls)
  BY DEF Joins, Skip!gain_empty_top_lines
<1> HIDE DEF top
<1>3. /\ new \in Seq(Seq(SkipKeys)) /\ Len(new) = more + n
      /\ \A i \in 1 .. more + n : new[i] = IF i <= more THEN top[i] ELSE ls[i - more]
  <2>1. /\ new \in Seq(Seq(SkipKeys)) /\ Len(new) = Len(top) + Len(ls)
        /\ \A i \in 1 .. Len(top) + Len(ls) :
              new[i] = IF i <= Len(top) THEN top[i] ELSE ls[i - Len(top)]
    <3>1. PICK S : S = Seq(SkipKeys)
      OBVIOUS
    <3>2. top \in Seq(S) /\ ls \in Seq(S)
      BY <1>0, <1>1, <3>1
    <3>3. /\ new \in Seq(S) /\ Len(new) = Len(top) + Len(ls)
          /\ \A i \in 1 .. Len(top) + Len(ls) :
                new[i] = IF i <= Len(top) THEN top[i] ELSE ls[i - Len(top)]
      BY <1>2, <3>2, Joined
    <3> QED BY <3>1, <3>3
  <2> QED BY <2>1, <1>1
<1>4. ASSUME NEW i \in 1 .. more + n
      PROVE  /\ i <= more => new[i] = << >>
             /\ i > more => i - more \in 1 .. n /\ new[i] = ls[i - more]
  <2>1. i <= more => i \in 1 .. more
    OBVIOUS
  <2>2. i > more => i - more \in 1 .. n /\ ~(i <= more)
    BY <1>0
  <2> QED BY <2>1, <2>2, <1>1, <1>3
<1>5. /\ Elements(<< >>) = {} /\ Sorted(<< >>)
  BY DEF Elements, Sorted
<1>6. ASSUME NEW i \in 1 .. more + n PROVE Sorted(new[i])
  <2>1. i <= more \/ i > more
    BY <1>0
  <2> QED BY <2>1, <1>0, <1>4, <1>5
<1>7. ASSUME NEW i \in 1 .. (more + n) - 1 PROVE Elements(new[i]) \subseteq Elements(new[i + 1])
  <2>1. i \in 1 .. more + n /\ i + 1 \in 1 .. more + n
    BY <1>0
  <2>2. CASE i <= more
    BY <2>1, <2>2, <1>4, <1>5
  <2>3. CASE i > more
    <3>1. i + 1 > more /\ i + 1 - more = (i - more) + 1 /\ i - more \in 1 .. n - 1
      BY <2>3, <1>0
    <3>2. Elements(ls[i - more]) \subseteq Elements(ls[(i - more) + 1])
      BY <3>1 DEF SkipLines
    <3>3. new[i] = ls[i - more] /\ new[i + 1] = ls[i + 1 - more]
      BY <2>1, <2>3, <3>1, <1>4
    <3> QED BY <3>1, <3>2, <3>3
  <2> QED BY <2>2, <2>3, <1>0
<1>8. Elements(new[more + n]) = D
  <2>1. more + n \in 1 .. more + n /\ more + n > more /\ more + n - more = n
    BY <1>0
  <2>2. new[more + n] = ls[n]
    BY <2>1, <1>4
  <2> QED BY <2>2 DEF SkipLines
<1>9. new # << >>
  BY <1>0, <1>3
<1>10. ASSUME more = 0 PROVE new[1] = ls[1]
  <2>1. 1 \in 1 .. more + n /\ 1 > more /\ 1 - more = 1
    BY <1>0, <1>10
  <2> QED BY <2>1, <1>4
<1>11. Len(new) = more + n
  BY <1>3
<1> HIDE DEF n
<1>12. SkipLines(new, D)
  <2>1. /\ \A i \in 1 .. Len(new) : Sorted(new[i])
        /\ \A i \in 1 .. Len(new) - 1 : Elements(new[i]) \subseteq Elements(new[i + 1])
        /\ Elements(new[Len(new)]) = D
    <3>1. \A i \in 1 .. Len(new) : Sorted(new[i])
      BY Zenon, <1>6, <1>11
    <3>2. \A i \in 1 .. Len(new) - 1 : Elements(new[i]) \subseteq Elements(new[i + 1])
      BY Zenon, <1>7, <1>11
    <3> QED BY <3>1, <3>2, <1>8, <1>11
  <2> QED BY <2>1, <1>3, <1>9 DEF SkipLines
<1> QED BY <1>10, <1>11, <1>12 DEF n

(* Empty lines are taken from the top, but not the last line.              *)
LEMMA TopsCleaned ==
    ASSUME NEW ls, NEW D, SkipLines(ls, D), NEW new, new = Skip!clean_empty_top_lines(ls)
    PROVE  /\ SkipLines(new, D)
           /\ Len(new) = Len(ls) - Cardinality(Skip!Tops(ls))
           /\ Len(new) > 1 => new[1] # << >>
<1> DEFINE n == Len(ls)
<1>0. /\ n \in Nat \ {0} /\ ls \in Seq(Seq(SkipKeys))
      /\ \A i \in 1 .. n : ls[i] \in Seq(SkipKeys) /\ Sorted(ls[i])
  BY DEF SkipLines
<1>1. PICK t \in 0 .. n - 1 : Skip!Tops(ls) = 1 .. t /\ Cardinality(Skip!Tops(ls)) = t
  <2>1. Skip!Tops(ls) \in SUBSET (1 .. n - 1) /\ n - 1 \in Nat
    BY <1>0 DEF Skip!Tops
  <2>2. ASSUME NEW j \in Skip!Tops(ls), NEW i \in 1 .. j PROVE i \in Skip!Tops(ls)
    <3>1. j \in 1 .. n - 1 /\ \A k \in 1 .. j : ls[k] = << >>
      BY DEF Skip!Tops
    <3>2. i \in 1 .. n - 1 /\ \A k \in 1 .. i : k \in 1 .. j
      BY <1>0, <3>1
    <3> QED BY <3>1, <3>2 DEF Skip!Tops
  <2>3. PICK T : T = Skip!Tops(ls)
    OBVIOUS
  <2>4. PICK k \in Nat : k = n - 1
    BY <2>1
  <2>5. T \in SUBSET (1 .. k) /\ Initial(T)
    BY <2>1, <2>2, <2>3, <2>4 DEF Initial
  <2>6. \E m \in 0 .. k : T = 1 .. m /\ IsFiniteSet(T) /\ Cardinality(T) = m
    BY <2>5, InitialSegment, Zenon
  <2>7. PICK m \in 0 .. k : T = 1 .. m /\ Cardinality(T) = m
    BY <2>6
  <2> QED BY <2>3, <2>4, <2>7
<1>2. new = SubSeq(ls, t + 1, n)
  <2>1. Skip!Cardinality(Skip!Tops(ls)) = t
    BY <1>1, SkipCardinality
  <2> QED BY <2>1 DEF Skip!clean_empty_top_lines
<1>3. /\ new \in Seq(Seq(SkipKeys)) /\ Len(new) = n - t
      /\ \A i \in 1 .. n - t : new[i] = ls[t + i]
  BY <1>0, <1>2
<1>4. ASSUME NEW i \in 1 .. n - t PROVE t + i \in 1 .. n
  BY <1>0
<1>5. ASSUME NEW i \in 1 .. n - t - 1 PROVE Elements(new[i]) \subseteq Elements(new[i + 1])
  <2>1. i \in 1 .. n - t /\ i + 1 \in 1 .. n - t /\ t + i \in 1 .. n - 1 /\ t + (i + 1) = (t + i) + 1
    BY <1>0
  <2>2. Elements(ls[t + i]) \subseteq Elements(ls[(t + i) + 1])
    BY <2>1 DEF SkipLines
  <2>3. new[i] = ls[t + i] /\ new[i + 1] = ls[t + (i + 1)]
    BY <2>1, <1>3
  <2> QED BY <2>1, <2>2, <2>3
<1>6. Elements(new[n - t]) = D
  <2>1. n - t \in 1 .. n - t /\ t + (n - t) = n
    BY <1>0
  <2>2. new[n - t] = ls[n]
    BY <2>1, <1>3
  <2> QED BY <2>2 DEF SkipLines
<1>7. ASSUME n - t > 1 PROVE new[1] # << >>
  <2>1. t + 1 \in 1 .. n - 1 /\ t + 1 \notin 1 .. t /\ 1 \in 1 .. n - t
    BY <1>0, <1>7
  <2>2. PICK j \in 1 .. t + 1 : ls[j] # << >>
    BY <2>1, <1>1 DEF Skip!Tops
  <2>3. j \notin 1 .. t
    <3> SUFFICES ASSUME j \in 1 .. t PROVE FALSE
      OBVIOUS
    <3>1. j \in Skip!Tops(ls)
      BY <1>1
    <3>2. j \in 1 .. j
      BY <1>0
    <3> QED BY <2>2, <3>1, <3>2 DEF Skip!Tops
  <2>4. j = t + 1
    BY <2>3
  <2> QED BY <2>1, <2>2, <2>4, <1>3
<1>8. new # << >>
  <2>1. Len(new) # 0
    BY <1>0, <1>3
  <2> QED BY <2>1, <1>3
<1>9. \A i \in 1 .. n - t : Sorted(new[i])
  BY <1>0, <1>3, <1>4
<1> QED BY <1>1, <1>3, <1>5, <1>6, <1>7, <1>8, <1>9 DEF SkipLines
-----------------------------------------------------------------------------
(* The last line holds each key once.                                      *)
LEMMA LastLine ==
    ASSUME NEW ls, NEW D, SkipLines(ls, D), NEW s, s = ls[Len(ls)]
    PROVE  /\ s \in Seq(SkipKeys) /\ Sorted(s) /\ Elements(s) = D
           /\ D \subseteq SkipKeys /\ IsFiniteSet(D) /\ Cardinality(D) = Len(s)
<1>1. Len(ls) \in 1 .. Len(ls)
  BY DEF SkipLines
<1>2. s \in Seq(SkipKeys) /\ Sorted(s) /\ Elements(s) = D
  BY <1>1 DEF SkipLines
<1>3. IsFiniteSet(D) /\ Cardinality(D) = Len(s)
  BY <1>2, SortedOnce, ElementsFinite
<1>4. D \subseteq SkipKeys
  BY <1>2 DEF Elements
<1> QED BY <1>2, <1>3, <1>4

(* Both searches find the keys of the last line, and no other.             *)
LEMMA SearchesFind ==
    ASSUME SkipLines(s_lines, DOMAIN s_dict), NEW key \in SkipKeys
    PROVE  /\ Skip!search_data(key) <=> key \in DOMAIN s_dict
           /\ Skip!search_data_update(key) <=> key \in DOMAIN s_dict
<1> DEFINE n == Len(s_lines)
<1>1. DOMAIN s_lines = 1 .. n /\ n \in 1 .. n /\ Elements(s_lines[n]) = DOMAIN s_dict
  BY DEF SkipLines
<1>2. \A i \in 1 .. n :
         Skip!IsRight(s_lines[i], Skip!Update(s_lines, key)[i], key) <=> key \in Elements(s_lines[i])
  BY PathLeadsTo
<1>3. \A i \in 1 .. n : Elements(s_lines[i]) \subseteq DOMAIN s_dict
  BY LinesNest
<1>4. Skip!search_data(key) <=> key \in DOMAIN s_dict
  BY <1>1, <1>2, <1>3 DEF Skip!search_data
<1>5. /\ Skip!Last(s_lines) = s_lines[n]
      /\ Skip!Last(Skip!Update(s_lines, key)) = Skip!Update(s_lines, key)[n]
  BY PathFound DEF Skip!Last
<1>6. Skip!search_data_update(key) <=> key \in DOMAIN s_dict
  BY <1>1, <1>2, <1>5 DEF Skip!search_data_update
<1> QED BY <1>4, <1>6

(* skip_list_create makes one empty line.                                  *)
LEMMA SkipInitially == Skip!Init => SkipInv
<1> SUFFICES ASSUME Skip!Init PROVE SkipInv
  OBVIOUS
<1>1. /\ s_lines = << << >> >> /\ s_dict = << >> /\ s_data = << >>
      /\ s_level = 1 /\ s_count = 0 /\ s_gone = FALSE
  BY DEF Skip!Init
<1>2. SkipLines(<< << >> >>, {})
  BY DEF SkipLines, Sorted, Elements
<1>3. DOMAIN << >> = {} /\ Len(<< << >> >>) = 1
  OBVIOUS
<1> QED BY <1>1, <1>2, <1>3, FS_EmptySet DEF SkipInv

(* A put changes the value of a key that is there, or puts a column of     *)
(* some height, after adding the lines that are missing above.             *)
LEMMA PutKeeps ==
    ASSUME SkipInv, ~s_gone, NEW key \in SkipKeys, NEW v \in Vals,
           Skip!skip_list_put(key, v), UNCHANGED s_gone
    PROVE  SkipInv'
<1> DEFINE D == DOMAIN s_dict
<1>0. /\ SkipLines(s_lines, D) /\ Len(s_lines) \in Nat \ {0}
      /\ s_data = s_dict /\ s_level = Len(s_lines) /\ s_count = Cardinality(D)
      /\ Len(s_lines) > 1 => s_lines[1] # << >>
      /\ IsFiniteSet(D)
  <2>1. SkipLines(s_lines, D)
    BY DEF SkipInv
  <2>2. Len(s_lines) \in Nat \ {0}
    BY <2>1 DEF SkipLines
  <2>3. IsFiniteSet(D)
    BY <2>1, LastLine
  <2> QED BY <2>1, <2>2, <2>3 DEF SkipInv
<1>1. /\ s_dict' = Skip!With(s_dict, key, v) /\ s_data' = Skip!With(s_data, key, v)
      /\ DOMAIN s_dict' = D \cup {key}
  BY DEF Skip!skip_list_put, Skip!With
<1> DEFINE D2 == DOMAIN s_dict'
<1>2. CASE Skip!search_data(key) /\ UNCHANGED <<s_lines, s_level, s_count>>
  <2>1. D2 = D
    BY <1>0, <1>1, <1>2, SearchesFind
  <2> QED BY <1>0, <1>1, <1>2, <2>1 DEF SkipInv, Skip!With
<1>3. CASE /\ ~Skip!search_data(key)
           /\ \E target_level \in 1 .. SkipLevels :
                 LET more == IF target_level > s_level THEN target_level - s_level ELSE 0
                 IN  /\ s_lines' = Skip!add_key_column(Skip!gain_empty_top_lines(s_lines, more),
                                                      key, target_level)
                     /\ s_level' = s_level + more
           /\ s_count' = s_count + 1
  <2>1. key \notin D
    BY <1>0, <1>3, SearchesFind
  <2>2. PICK height \in 1 .. SkipLevels, more \in Nat :
           /\ more = IF height > s_level THEN height - s_level ELSE 0
           /\ s_lines' = Skip!add_key_column(Skip!gain_empty_top_lines(s_lines, more), key, height)
           /\ s_level' = s_level + more
    <3>1. \A height \in 1 .. SkipLevels :
             (IF height > s_level THEN height - s_level ELSE 0) \in Nat
      BY <1>0, SkipAssumption
    <3> QED BY <1>3, <3>1
  <2>3. PICK ls : ls = Skip!gain_empty_top_lines(s_lines, more)
    OBVIOUS
  <2>4. more \in Nat /\ height \in Nat \ {0}
    BY <1>0, <2>2, SkipAssumption
  <2>5. SkipLines(ls, D) /\ Len(ls) = more + Len(s_lines) /\ (more = 0 => ls[1] = s_lines[1])
    BY <1>0, <2>3, <2>4, LinesGained
  <2>6. height \in 1 .. Len(ls)
    BY <1>0, <2>2, <2>4, <2>5
  <2>7. PICK new : new = s_lines' /\ new = Skip!add_key_column(ls, key, height)
    BY <2>2, <2>3
  <2>8. /\ SkipLines(new, D \cup {key}) /\ Len(new) = Len(ls)
        /\ ls[1] # << >> \/ height = Len(ls) => new[1] # << >>
    <3>1. SkipLines(ls, D) /\ key \notin D /\ new = Skip!add_key_column(ls, key, height)
      BY <2>1, <2>5, <2>7
    <3> HIDE DEF D
    <3> QED BY <3>1, <2>6, ColumnPut
  <2>9. Len(new) > 1 => new[1] # << >>
    <3> SUFFICES ASSUME Len(new) > 1 PROVE ls[1] # << >> \/ height = Len(ls)
      BY <2>8
    <3>1. CASE more = 0
      BY <3>1, <1>0, <2>5, <2>8
    <3>2. CASE more # 0
      BY <3>2, <1>0, <2>2, <2>4, <2>5
    <3> QED BY <3>1, <3>2
  <2>10. s_level' = Len(new)
    BY <1>0, <2>2, <2>4, <2>5, <2>8
  <2>11. s_count' = Cardinality(D2)
    BY <1>0, <1>1, <1>3, <2>1, FS_AddElement
  <2>12. SkipLines(new, D2) /\ s_data' = s_dict' /\ ~s_gone'
    BY <1>0, <1>1, <2>8
  <2>13. s_dict' = [k \in D2 |-> s_dict'[k]]
    BY <1>1 DEF Skip!With
  <2> QED BY <2>7, <2>9, <2>10, <2>11, <2>12, <2>13 DEF SkipInv
<1> QED BY <1>2, <1>3 DEF Skip!skip_list_put

(* A removal takes the column out, and then the lines it leaves empty on   *)
(* top.                                                                    *)
LEMMA RemoveKeeps ==
    ASSUME SkipInv, ~s_gone, NEW key \in SkipKeys,
           Skip!skip_list_remove(key), UNCHANGED s_gone
    PROVE  SkipInv'
<1> DEFINE D == DOMAIN s_dict
           D2 == DOMAIN s_dict'
<1>0. /\ SkipLines(s_lines, D) /\ Len(s_lines) \in Nat \ {0}
      /\ s_data = s_dict /\ s_level = Len(s_lines) /\ s_count = Cardinality(D)
      /\ Len(s_lines) > 1 => s_lines[1] # << >>
      /\ IsFiniteSet(D)
  <2>1. SkipLines(s_lines, D)
    BY DEF SkipInv
  <2>2. Len(s_lines) \in Nat \ {0}
    BY <2>1 DEF SkipLines
  <2>3. IsFiniteSet(D)
    BY <2>1, LastLine
  <2> QED BY <2>1, <2>2, <2>3 DEF SkipInv
<1>1. s_dict' = Skip!Without(s_dict, key) /\ D2 = D \ {key}
  BY DEF Skip!skip_list_remove, Skip!Without
<1>2. CASE /\ ~Skip!search_data_update(key)
           /\ UNCHANGED <<s_lines, s_data, s_level, s_count>>
  <2>1. key \notin D
    BY <1>0, <1>2, SearchesFind
  <2>2. D2 = D
    BY <1>1, <2>1
  <2>3. s_dict' = s_dict
    <3>1. s_dict' = [k \in D |-> s_dict[k]]
      BY <1>1, <2>1 DEF Skip!Without
    <3>2. s_dict = [k \in D |-> s_dict[k]]
      BY DEF SkipInv
    <3> QED BY <3>1, <3>2, Zenon
  <2> QED BY <1>0, <1>2, <2>2, <2>3 DEF SkipInv
<1>3. CASE /\ Skip!search_data_update(key)
           /\ LET rest == Skip!remove_key_column(s_lines, key)
              IN  /\ s_lines' = Skip!clean_empty_top_lines(rest)
                  /\ s_level' = s_level - Skip!Cardinality(Skip!Tops(rest))
           /\ s_data' = Skip!Without(s_data, key)
           /\ s_count' = s_count - 1
  <2>1. key \in D
    BY <1>0, <1>3, SearchesFind
  <2>2. PICK rest : /\ rest = Skip!remove_key_column(s_lines, key)
                    /\ s_lines' = Skip!clean_empty_top_lines(rest)
                    /\ s_level' = s_level - Skip!Cardinality(Skip!Tops(rest))
    BY <1>3
  <2>3. SkipLines(rest, D \ {key}) /\ Len(rest) = Len(s_lines)
    BY <1>0, <2>2, ColumnTaken
  <2>4. PICK new : new = s_lines' /\ new = Skip!clean_empty_top_lines(rest)
    BY <2>2
  <2>5. /\ SkipLines(new, D \ {key})
        /\ Len(new) = Len(rest) - Cardinality(Skip!Tops(rest))
        /\ Len(new) > 1 => new[1] # << >>
    BY <2>3, <2>4, TopsCleaned
  <2>6. s_level' = Len(new)
    BY <1>0, <2>2, <2>3, <2>5, SkipCardinality
  <2>7. s_count' = Cardinality(D2)
    BY <1>0, <1>1, <1>3, <2>1, FS_RemoveElement
  <2>8. SkipLines(new, D2) /\ s_data' = s_dict' /\ ~s_gone'
    BY <1>0, <1>1, <1>3, <2>5
  <2>9. s_dict' = [k \in D2 |-> s_dict'[k]]
    BY <1>1 DEF Skip!Without
  <2> QED BY <2>4, <2>5, <2>6, <2>7, <2>8, <2>9 DEF SkipInv
<1> QED BY <1>2, <1>3 DEF Skip!skip_list_remove

(* A call to the skip list keeps its invariant.                            *)
LEMMA SkipNextKeeps == SkipInv /\ Skip!Next => SkipInv'
<1> SUFFICES ASSUME SkipInv, Skip!Next PROVE SkipInv'
  OBVIOUS
<1>0. ~s_gone
  BY DEF Skip!Next
<1>1. CASE \E key \in SkipKeys, v \in Vals : Skip!skip_list_put(key, v) /\ UNCHANGED s_gone
  BY <1>0, <1>1, PutKeeps
<1>2. CASE \E key \in SkipKeys : Skip!skip_list_remove(key) /\ UNCHANGED s_gone
  BY <1>0, <1>2, RemoveKeeps
<1>3. CASE Skip!skip_list_destroy
  <2>1. s_gone' /\ s_lines' = << << >> >> /\ s_dict' = << >>
    BY <1>3 DEF Skip!skip_list_destroy
  <2>2. SkipLines(<< << >> >>, {})
    BY DEF SkipLines, Sorted, Elements
  <2>3. DOMAIN << >> = {} /\ Len(<< << >> >>) = 1
    OBVIOUS
  <2> QED BY <2>1, <2>2, <2>3 DEF SkipInv
<1> QED BY <1>1, <1>2, <1>3 DEF Skip!Next

(* What leaves the skip list alone keeps it too.                           *)
LEMMA SkipStays == SkipInv /\ UNCHANGED s_vars => SkipInv'
BY DEF SkipInv, s_vars

(* A step of the containers keeps the skip list sound.                     *)
LEMMA SkipStepKeeps ==
    ASSUME SkipInv, [AllNext]_<<which, vars, s_vars, c_vars, d_vars, l_vars>>
    PROVE  SkipInv'
<1>1. CASE SkipStep
  BY <1>1, SkipNextKeeps DEF SkipStep
<1>2. CASE HashStep \/ ChainedStep \/ RingStep \/ SingleStep
           \/ UNCHANGED <<which, vars, s_vars, c_vars, d_vars, l_vars>>
  BY <1>2, SkipStays DEF HashStep, ChainedStep, RingStep, SingleStep
<1> QED BY <1>1, <1>2 DEF AllNext

(* The invariant gives the structure that Containers.cfg checks.           *)
LEMMA LinesAreSound == SkipInv => Skip!LinesSound
<1> SUFFICES ASSUME SkipInv PROVE Skip!LinesSound
  OBVIOUS
<1>0. SkipLines(s_lines, DOMAIN s_dict)
  BY DEF SkipInv
<1>1. /\ DOMAIN s_lines = 1 .. Len(s_lines) /\ Len(s_lines) \in Nat
      /\ \A i \in 1 .. Len(s_lines) : s_lines[i] \in Seq(SkipKeys) /\ Sorted(s_lines[i])
      /\ \A i \in 1 .. Len(s_lines) - 1 : Elements(s_lines[i]) \subseteq Elements(s_lines[i + 1])
  <2>1. /\ s_lines \in Seq(Seq(SkipKeys))
        /\ \A i \in 1 .. Len(s_lines) : Sorted(s_lines[i])
        /\ \A i \in 1 .. Len(s_lines) - 1 : Elements(s_lines[i]) \subseteq Elements(s_lines[i + 1])
    BY <1>0, Zenon DEF SkipLines
  <2>2. /\ DOMAIN s_lines = 1 .. Len(s_lines) /\ Len(s_lines) \in Nat
        /\ \A i \in 1 .. Len(s_lines) : s_lines[i] \in Seq(SkipKeys)
    BY <2>1
  <2> QED BY <2>1, <2>2, Zenon
<1>2. ASSUME NEW i \in DOMAIN s_lines
      PROVE  /\ \A j \in 1 .. Len(s_lines[i]) - 1 : s_lines[i][j] < s_lines[i][j + 1]
             /\ i < Len(s_lines) => Skip!ToSet(s_lines[i]) \subseteq Skip!ToSet(s_lines[i + 1])
  <2>1. s_lines[i] \in Seq(SkipKeys) /\ Sorted(s_lines[i]) /\ Len(s_lines[i]) \in Nat
    BY <1>1
  <2>2. ASSUME NEW j \in 1 .. Len(s_lines[i]) - 1 PROVE s_lines[i][j] < s_lines[i][j + 1]
    <3>1. j \in 1 .. Len(s_lines[i]) /\ j + 1 \in 1 .. Len(s_lines[i]) /\ j < j + 1
      BY <2>1
    <3> QED BY <2>1, <3>1 DEF Sorted
  <2>3. ASSUME i < Len(s_lines)
        PROVE  Skip!ToSet(s_lines[i]) \subseteq Skip!ToSet(s_lines[i + 1])
    <3>1. i \in 1 .. Len(s_lines) - 1 /\ i + 1 \in 1 .. Len(s_lines)
      BY <1>1, <2>3
    <3>2. Elements(s_lines[i]) \subseteq Elements(s_lines[i + 1])
      BY <1>1, <3>1
    <3>3. Skip!ToSet(s_lines[i]) = Elements(s_lines[i])
      BY <2>1 DEF Skip!ToSet, Elements
    <3>4. Skip!ToSet(s_lines[i + 1]) = Elements(s_lines[i + 1])
      BY <1>1, <3>1 DEF Skip!ToSet, Elements
    <3> QED BY <3>2, <3>3, <3>4
  <2> QED BY <2>2, <2>3
<1> QED BY <1>2, SkipCardinality DEF SkipInv, Skip!LinesSound

(* The invariant gives the answers that Containers.cfg checks.             *)
LEMMA SkipAnswers == SkipInv => Skip!AnswersAsMap
<1> SUFFICES ASSUME SkipInv PROVE Skip!AnswersAsMap
  OBVIOUS
<1> DEFINE D == DOMAIN s_dict
<1>0. SkipLines(s_lines, D)
  BY DEF SkipInv
<1>1. ASSUME NEW key \in SkipKeys
      PROVE  /\ Skip!skip_list_contains(key) <=> key \in D
             /\ Skip!skip_list_contains(key) <=> Skip!search_data_update(key)
             /\ key \in D => Skip!skip_list_get(key) = s_dict[key]
  <2>1. key \in D => s_data = s_dict
    BY DEF SkipInv
  <2> QED BY <1>0, <2>1, SearchesFind DEF Skip!skip_list_contains, Skip!skip_list_get
<1>2. ASSUME NEW length \in 0 .. Cardinality(SkipKeys), NEW keys, keys = Skip!skip_list_key_set(length)
      PROVE  /\ Len(keys) = IF length < Cardinality(D) THEN length ELSE Cardinality(D)
             /\ \A k \in D \ Skip!ToSet(keys), j \in DOMAIN keys : keys[j] < k
             /\ Skip!skip_list_value_set(length) = [j \in DOMAIN keys |-> s_dict[keys[j]]]
  <2>1. PICK s : s = s_lines[Len(s_lines)]
    OBVIOUS
  <2>2. /\ s \in Seq(SkipKeys) /\ Sorted(s) /\ Elements(s) = D
        /\ IsFiniteSet(D) /\ Cardinality(D) = Len(s)
    BY <1>0, <2>1, LastLine
  <2>3. Skip!Last(s_lines) = s
    BY <2>1 DEF Skip!Last
  <2>4. PICK m : m = IF length < Len(s) THEN length ELSE Len(s)
    OBVIOUS
  <2>5. Len(s) \in Nat /\ length \in Nat /\ m \in 0 .. Len(s)
    BY <2>2, <2>4
  <2>6. keys = [i \in 1 .. m |-> s[i]]
    BY <1>2, <2>3, <2>4 DEF Skip!skip_list_key_set
  <2>7. DOMAIN keys = 1 .. m /\ Len(keys) = m /\ \A i \in 1 .. m : keys[i] = s[i]
    BY <2>5, <2>6
  <2>8. ASSUME NEW k \in D \ Skip!ToSet(keys), NEW j \in DOMAIN keys PROVE keys[j] < k
    <3>1. PICK p \in 1 .. Len(s) : s[p] = k
      BY <2>2 DEF Elements
    <3>2. p \notin 1 .. m
      BY <2>7, <3>1 DEF Skip!ToSet
    <3>3. j \in 1 .. Len(s) /\ j < p /\ keys[j] = s[j]
      BY <2>5, <2>7, <3>2
    <3> QED BY <2>2, <3>1, <3>3 DEF Sorted
  <2>9. Skip!skip_list_value_set(length) = [j \in DOMAIN keys |-> s_dict[keys[j]]]
    <3>1. Skip!skip_list_value_set(length) = [j \in DOMAIN keys |-> s_data[keys[j]]]
      BY <1>2 DEF Skip!skip_list_value_set
    <3>2. CASE s_data = s_dict
      BY <3>1, <3>2
    <3>3. CASE s_gone
      <4>1. D = {}
        BY <3>3 DEF SkipInv
      <4>2. DOMAIN keys = {}
        <5>1. Len(s) = 0
          BY <4>1, <2>2, FS_EmptySet
        <5> QED BY <5>1, <2>5, <2>7
      <4> QED BY <3>1, <4>2
    <3> QED BY <3>2, <3>3 DEF SkipInv
  <2> QED BY <2>2, <2>4, <2>7, <2>8, <2>9
<1> HIDE DEF D
<1>3. ASSUME NEW length \in 0 .. Cardinality(SkipKeys)
      PROVE  LET keys == Skip!skip_list_key_set(length)
             IN  /\ Len(keys) = IF length < Cardinality(D) THEN length ELSE Cardinality(D)
                 /\ \A k \in D \ Skip!ToSet(keys), j \in DOMAIN keys : keys[j] < k
                 /\ Skip!skip_list_value_set(length) = [j \in DOMAIN keys |-> s_dict[keys[j]]]
  BY <1>2
<1> QED BY <1>1, <1>3, SkipCardinality DEF Skip!AnswersAsMap, D

(* For any finite set of keys, any values and any bound on the height of a *)
(* column: the lines stay sorted, nested and counted, and every query      *)
(* answers as a sorted map, whatever heights rand_level gives and in       *)
(* whatever order keys are put and removed (skiplist.c:38-147, 185-278).   *)
THEOREM SkipStaysSortedMap == AllSpec => []SkipIsSortedMap
<1>1. AllInit => SkipInv
  BY SkipInitially DEF AllInit
<1>2. SkipInv => SkipIsSortedMap
  BY LinesAreSound, SkipAnswers DEF SkipIsSortedMap
<1> QED BY <1>1, <1>2, SkipStepKeeps, PTL DEF AllSpec
================================================================================
