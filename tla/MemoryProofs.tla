----------------------------- MODULE MemoryProofs -----------------------------
(***************************************************************************)
(* Safety of the three pools, for every size of region, list and request:  *)
(* the shared-memory pool, the heap pool, the dbuf pool, and the three     *)
(* side by side, as MCMemory puts them.                                    *)
(***************************************************************************)
EXTENDS MCMemory, DataLemmas

-----------------------------------------------------------------------------
(***************************************************************************)
(* The shared-memory pool.                                                 *)
(***************************************************************************)
(* What callers ask for has a list: from SHARE_MAX_BYTES - 3 bytes on, the *)
(* head takes a chunk beyond the last class (c_sharemem.c:58).             *)
RequestsListed == Requests \subseteq 0 .. SHARE_MAX_BYTES - HeadBytes

(* The numbers of the pool: its region, its classes and what a request     *)
(* takes.                                                                  *)
LEMMA Sizes ==
    ASSUME RequestsListed
    PROVE  /\ Region \in Nat
           /\ Classes \subseteq Nat \ {0}
           /\ \A n \in Requests : Chunk(n) \in Classes
<1>1. \A n \in Nat : ROUND_UP(n) \in Nat
  BY DEF ROUND_UP, ALIGN
<1>2. Region \in Nat
  BY <1>1, PoolAssumption DEF Region, HeadBytes, ALIGN
<1>3. ASSUME NEW n \in Requests PROVE Chunk(n) \in Classes
  <2>1. PICK m \in Nat : SHARE_MAX_BYTES = 8 * m
    BY PoolAssumption DEF ALIGN
  <2>2. n \in Nat /\ n + 4 <= 8 * m
    BY <2>1, PoolAssumption DEF RequestsListed, HeadBytes
  <2>3. Chunk(n) = (n + 11) \div 8
    BY <2>2 DEF Chunk, ROUND_UP, HeadBytes, ALIGN
  <2>4. (n + 11) \div 8 \in 1 .. m
    BY <2>1, <2>2
  <2>5. Classes = 1 .. m
    BY <2>1 DEF Classes, ALIGN
  <2> QED BY <2>3, <2>4, <2>5
<1> QED BY <1>2, <1>3, PoolAssumption DEF Classes, ALIGN

(* How many chunks are cut, and that they fit.                             *)
LEMMA Cuts ==
    ASSUME RequestsListed, start_free \in 1 .. end_free, NEW c \in Classes
    PROVE  /\ Fits(c) \in Nat
           /\ Fits(c) * c <= Left
           /\ Left \in Nat
           /\ Fits(c) = 0 => Left < c
<1>1. c \in Nat \ {0} /\ Left \in Nat /\ RefillObjs \in Nat \ {0, 1}
  BY Sizes, PoolAssumption DEF Left, end_free
<1>2. Left \div c \in Nat /\ (Left \div c) * c <= Left /\ (Left \div c = 0 => Left < c)
  <2> DEFINE q == Left \div c
             r == Left % c
  <2>1. q \in Int /\ r \in 0 .. c - 1 /\ Left = c * q + r
    BY <1>1
  <2>2. q >= 0
    BY <1>1, <2>1
  <2> QED BY <1>1, <2>1, <2>2
<1> QED BY <1>1, <1>2 DEF Fits

(***************************************************************************)
(* Bags of chunks: what is added to them and taken from them.              *)
(***************************************************************************)
LEMMA BagPlusOne ==
    ASSUME NEW B, IsABag(B), NEW x
    PROVE  /\ IsABag(B (+) SetToBag({x}))
           /\ BagToSet(B (+) SetToBag({x})) = BagToSet(B) \cup {x}
           /\ \A y \in BagToSet(B) \cup {x} :
                 (B (+) SetToBag({x}))[y] = (IF y \in BagToSet(B) THEN B[y] ELSE 0)
                                            + (IF y = x THEN 1 ELSE 0)
BY DEF IsABag, (+), SetToBag, BagToSet

(* A bag with one member fewer.                                            *)
LEMMA BagMinusOne ==
    ASSUME NEW B, IsABag(B), NEW x \in BagToSet(B)
    PROVE  /\ IsABag(B (-) SetToBag({x}))
           /\ BagToSet(B (-) SetToBag({x})) \subseteq BagToSet(B)
           /\ B[x] = 1 => BagToSet(B (-) SetToBag({x})) = BagToSet(B) \ {x}
           /\ \A y \in BagToSet(B (-) SetToBag({x})) :
                 y # x => (B (-) SetToBag({x}))[y] = B[y]
BY DEF IsABag, (-), SetToBag, BagToSet

(* The empty bag is a bag of nothing.                                      *)
LEMMA BagOfNone == IsABag(EmptyBag) /\ BagToSet(EmptyBag) = {}
BY DEF EmptyBag, IsABag, SetToBag, BagToSet

(* The pool starts out with everything of its type.                        *)
LEMMA Initially == ASSUME RequestsListed, Init PROVE TypeOK
<1>1. IsABag(live) /\ Held = {}
  BY BagOfNone DEF Init, Held
<1>2. start_free \in 1 .. end_free
  BY Sizes DEF Init, end_free
<1> QED BY <1>1, <1>2 DEF Init, TypeOK

(* Handing a chunk out keeps the types of the links and of what is held.   *)
LEMMA GiveTyped ==
    ASSUME TypeOK, NEW a \in Words, NEW c \in Classes, NEW chain,
           \A x \in DOMAIN chain : chain[x] \in Words \cup {NULL},
           Give(a, c, chain)
    PROVE  /\ link' \in [Words -> Words \cup {NULL, Lost}]
           /\ size' \in [Words -> {0} \cup Classes]
           /\ IsABag(live') /\ Held' \subseteq [at : Words, words : Classes]
<1>1. link' \in [Words -> Words \cup {NULL, Lost}]
  BY DEF Give, TypeOK
<1>2. size' \in [Words -> {0} \cup Classes]
  BY DEF Give, TypeOK
<1>3. IsABag(live') /\ Held' \subseteq [at : Words, words : Classes]
  <2> DEFINE chunk == [at |-> a, words |-> c]
  <2>1. live' = live (+) SetToBag({chunk}) /\ IsABag(live) /\ chunk \in [at : Words, words : Classes]
    BY DEF Give, TypeOK
  <2> HIDE DEF chunk
  <2>2. /\ IsABag(live (+) SetToBag({chunk}))
        /\ BagToSet(live (+) SetToBag({chunk})) = BagToSet(live) \cup {chunk}
    BY <2>1, BagPlusOne
  <2> QED BY <2>1, <2>2 DEF TypeOK, Held
<1> QED BY <1>1, <1>2, <1>3

(* Taking the first chunk of a list keeps the types.                       *)
LEMMA PopTyped ==
    ASSUME RequestsListed, TypeOK, NEW n \in Requests, Pop(n)
    PROVE  TypeOK'
<1> DEFINE c == Chunk(n)
<1>1. c \in Classes /\ ListHead(c) = free_list[c] /\ ListHead(c) \in Words
  BY Sizes DEF Pop, ListHead
<1>2. /\ free_list' = [free_list EXCEPT ![c] = link[ListHead(c)]]
      /\ UNCHANGED <<start_free, recycled>>
      /\ link[ListHead(c)] \in Words \cup {NULL}
      /\ Give(ListHead(c), c, << >>)
  BY <1>1 DEF Pop, SetHead, TypeOK
<1>3. free_list' \in [Classes -> Words \cup {NULL}]
  BY <1>1, <1>2 DEF TypeOK
<1>4. \A x \in DOMAIN << >> : << >>[x] \in Words \cup {NULL}
  OBVIOUS
<1> HIDE DEF c
<1> QED BY <1>1, <1>2, <1>3, <1>4, GiveTyped DEF TypeOK, end_free

(* The chunks that Carve chains: each but the last leads to the next.      *)
Cut(c) == {start_free + i * c : i \in 1 .. Fits(c) - 1}

(* What Carve cuts lies in the region.                                     *)
LEMMA CutInRegion ==
    ASSUME RequestsListed, start_free \in 1 .. end_free, NEW c \in Classes, Fits(c) > 0
    PROVE  /\ start_free \in Words
           /\ \A i \in 0 .. Fits(c) - 1 : start_free + i * c \in Words
           /\ start_free + Fits(c) * c \in start_free + 1 .. end_free
           /\ Fits(c) > 1 => start_free + c \in Words
<1>1. /\ Fits(c) \in Nat /\ Left \in Nat /\ Fits(c) * c <= Left
      /\ c \in Nat \ {0} /\ Region \in Nat /\ start_free \in Nat \ {0}
      /\ Left = Region + 1 - start_free
  BY Cuts, Sizes DEF Left, end_free
<1> DEFINE k == Fits(c)
<1>2. \A i \in 0 .. k - 1 : i * c \in Nat /\ i * c + c <= k * c
  <2> SUFFICES ASSUME NEW i \in 0 .. k - 1 PROVE i * c \in Nat /\ i * c + c <= k * c
    OBVIOUS
  <2>1. PICK j \in Nat : k = i + 1 + j
    <3>1. k - i - 1 \in Nat /\ k = i + 1 + (k - i - 1)
      BY <1>1
    <3> QED BY <3>1
  <2>2. k * c = i * c + c + j * c /\ j * c \in Nat /\ i * c \in Nat
    BY <1>1, <2>1
  <2> HIDE DEF k
  <2> QED BY <2>2, <1>1
<1>3. 0 * c = 0 /\ 1 * c = c /\ k * c \in Nat /\ c <= k * c
  BY <1>1, <1>2
<1> HIDE DEF k
<1>4. \A i \in 0 .. k - 1 : start_free + i * c \in Words
  BY <1>1, <1>2, <1>3 DEF Words, k
<1> QED BY <1>1, <1>3, <1>4 DEF Words, k, end_free

(* Cutting chunks from the rest keeps the types.                           *)
LEMMA CarveTyped ==
    ASSUME RequestsListed, TypeOK, NEW n \in Requests, Carve(n)
    PROVE  TypeOK'
<1> DEFINE c == Chunk(n)
           last == start_free + (Fits(c) - 1) * c
           chain == [x \in Cut(c) |-> IF x = last THEN NULL ELSE x + c]
<1>1. c \in Classes /\ Fits(c) > 0 /\ start_free \in 1 .. end_free
  BY Sizes DEF Carve, TypeOK
<1>2. /\ start_free' = start_free + Fits(c) * c
      /\ free_list' = IF Fits(c) = 1 THEN free_list
                      ELSE [free_list EXCEPT ![c] = start_free + c]
      /\ Give(start_free, c, chain)
      /\ UNCHANGED recycled
  BY DEF Carve, Cut
<1> HIDE DEF c
<1>3. Fits(c) \in Nat /\ c \in Nat
  BY <1>1, Cuts, Sizes
<1>4. ASSUME NEW x \in DOMAIN chain PROVE chain[x] \in Words \cup {NULL}
  <2>1. PICK i \in 1 .. Fits(c) - 1 : x = start_free + i * c
    BY DEF Cut
  <2>2. CASE i = Fits(c) - 1
    BY <2>1, <2>2
  <2>3. CASE i \in 1 .. Fits(c) - 2
    <3>1. i + 1 \in 0 .. Fits(c) - 1 /\ x + c = start_free + (i + 1) * c
      BY <1>1, <1>3, <2>1, <2>3
    <3>2. x + c \in Words
      BY <3>1, <1>1, CutInRegion
    <3> QED BY <3>2
  <2> QED BY <1>3, <2>2, <2>3
<1>5. free_list' \in [Classes -> Words \cup {NULL}]
  BY <1>1, <1>2, <1>3, CutInRegion DEF TypeOK
<1>6. start_free' \in 1 .. end_free
  BY <1>1, <1>2, CutInRegion
<1> HIDE DEF chain
<1> QED BY <1>1, <1>2, <1>4, <1>5, <1>6, CutInRegion, GiveTyped DEF TypeOK, end_free

(* Listing what was left of the region keeps the types.                    *)
LEMMA RecycleTyped ==
    ASSUME RequestsListed, TypeOK, NEW n \in Requests, Recycle(n)
    PROVE  TypeOK'
<1> DEFINE c == Chunk(n)
<1>1. c \in Classes /\ Fits(c) = 0 /\ Left > 0 /\ start_free \in 1 .. end_free
  BY Sizes DEF Recycle, TypeOK
<1>2. Left \in Classes /\ start_free \in Words
  <2>1. Left \in Nat /\ Left < c
    BY <1>1, Cuts
  <2>2. Left \in Classes
    <3>1. PICK m \in Int : Classes = 1 .. m
      BY PoolAssumption DEF Classes, ALIGN
    <3> QED BY <2>1, <3>1, <1>1
  <2>3. start_free \in Words
    BY <2>1, <1>1, Sizes DEF Left, end_free, Words
  <2> QED BY <2>2, <2>3
<1>3. /\ free_list' = [free_list EXCEPT ![Left] = start_free]
      /\ link' = [link EXCEPT ![start_free] = free_list[Left]]
      /\ size' = [size EXCEPT ![start_free] = 0]
      /\ recycled' = TRUE
      /\ UNCHANGED <<start_free, live>>
  BY DEF Recycle
<1> QED BY <1>2, <1>3 DEF TypeOK, Held, end_free

(* Giving a chunk back keeps the types.                                    *)
LEMMA DeAllocateTyped ==
    ASSUME RequestsListed, TypeOK, NEW chunk \in Held, ShareDeAllocate(chunk)
    PROVE  TypeOK'
<1> DEFINE s == size[chunk.at]
<1>1. chunk.at \in Words /\ s \in Classes
  BY DEF TypeOK, ShareDeAllocate
<1>2. /\ free_list' = [free_list EXCEPT ![s] = chunk.at]
      /\ link' = [link EXCEPT ![chunk.at] = free_list[s]]
      /\ size' = [size EXCEPT ![chunk.at] = 0]
      /\ live' = live (-) SetToBag({chunk})
      /\ UNCHANGED <<start_free, recycled>>
  BY <1>1 DEF ShareDeAllocate, SetHead, ListHead
<1>3. IsABag(live') /\ Held' \subseteq Held
  BY <1>2, BagMinusOne DEF Held, TypeOK
<1> HIDE DEF s
<1> QED BY <1>1, <1>2, <1>3 DEF TypeOK, end_free

(* Every step keeps the types.                                             *)
LEMMA NextTyped ==
    ASSUME RequestsListed, TypeOK, [Next]_vars
    PROVE  TypeOK'
<1>1. CASE UNCHANGED vars
  BY <1>1 DEF vars, TypeOK, Held, end_free
<1>2. CASE Next
  BY <1>2, PopTyped, CarveTyped, RecycleTyped, DeAllocateTyped DEF Next, ShareAllocate
<1> QED BY <1>1, <1>2

(* Whatever is asked for and given back, also after a rest was recycled,   *)
(* heads and links stay inside the region and have a class.                *)
THEOREM TypeCorrect == RequestsListed => (Spec => []TypeOK)
<1> SUFFICES ASSUME RequestsListed PROVE Spec => []TypeOK
  OBVIOUS
<1> QED BY Initially, NextTyped, PTL DEF Spec
-----------------------------------------------------------------------------
(***************************************************************************)
(* What is held and listed.  The invariant says that there are lists, one  *)
(* for each class: the links lead along them, and their chunks with those  *)
(* held are the tiles of what was cut.                                     *)
(***************************************************************************)
ListOf(s, c) == {[at |-> s[i], words |-> c] : i \in 1 .. Len(s)}

OnLists(lists) == UNION {ListOf(lists[c], c) : c \in Classes}

Covered(chunks) == UNION {Cells(x) : x \in chunks}

Tiles(chunks, end) ==
    /\ \A x, y \in chunks : x # y => Cells(x) \cap Cells(y) = {}
    /\ Covered(chunks) = 1 .. end - 1

Linked(lists) ==
    /\ lists \in [Classes -> Seq(Words)]
    /\ \A c \in Classes :
          /\ NoneTwice(lists[c])
          /\ free_list[c] = Place(lists[c], 1)
          /\ \A i \in 1 .. Len(lists[c]) : link[lists[c][i]] = Place(lists[c], i + 1)

Sound(lists) ==
    /\ Linked(lists)
    /\ \A x \in Held : live[x] = 1 /\ size[x.at] = x.words
    /\ Held \cap OnLists(lists) = {}
    /\ Tiles(Held \cup OnLists(lists), start_free)

PoolInv == recycled \/ \E lists : Sound(lists)

(* Initially nothing is listed and nothing is held.                        *)
LEMMA InitiallySound == ASSUME RequestsListed, Init PROVE PoolInv
<1> DEFINE none == [c \in Classes |-> << >>]
<1>1. Held = {} /\ start_free = 1
  BY BagOfNone DEF Init, Held
<1>2. Linked(none)
  BY DEF Linked, Init, NoneTwice, Place, NULL
<1>3. OnLists(none) = {}
  BY DEF OnLists, ListOf
<1>4. Tiles({}, 1)
  BY DEF Tiles, Covered
<1>5. Sound(none)
  BY <1>1, <1>2, <1>3, <1>4 DEF Sound
<1> HIDE DEF none
<1> QED BY <1>5 DEF PoolInv

(* A chunk of a list is a place of the region and a class.                 *)
LEMMA ChunkTyped ==
    ASSUME RequestsListed, TypeOK, NEW lists, Linked(lists), NEW x \in Held \cup OnLists(lists)
    PROVE  /\ x \in [at : Words, words : Classes]
           /\ x.at \in Cells(x)
           /\ Cells(x) # {}
<1>1. x \in [at : Words, words : Classes]
  <2>1. CASE x \in Held
    BY <2>1 DEF TypeOK
  <2>2. CASE x \in OnLists(lists)
    <3>1. PICK c \in Classes : x \in ListOf(lists[c], c)
      BY <2>2 DEF OnLists
    <3>2. PICK i \in 1 .. Len(lists[c]) : x = [at |-> lists[c][i], words |-> c]
      BY <3>1 DEF ListOf
    <3>3. lists[c] \in Seq(Words)
      BY DEF Linked
    <3>4. lists[c][i] \in Words
      BY <3>3
    <3> QED BY <3>2, <3>4
  <2> QED BY <2>1, <2>2
<1>2. x.at \in Nat /\ x.words \in Nat \ {0}
  BY <1>1, Sizes DEF Words
<1> QED BY <1>1, <1>2 DEF Cells

(* What changes when one list does.                                        *)
LEMMA OneListChanged ==
    ASSUME NEW lists \in [Classes -> Seq(Words)], NEW c \in Classes, NEW t
    PROVE  OnLists([lists EXCEPT ![c] = t])
               = {x \in OnLists(lists) : x.words # c} \cup ListOf(t, c)
<1> DEFINE new == [lists EXCEPT ![c] = t]
<1>1. \A d \in Classes : new[d] = IF d = c THEN t ELSE lists[d]
  OBVIOUS
<1>2. \A d, s : \A x \in ListOf(s, d) : x.words = d
  BY DEF ListOf
<1> HIDE DEF new
<1>3. ASSUME NEW x \in OnLists(new)
      PROVE  x \in {y \in OnLists(lists) : y.words # c} \cup ListOf(t, c)
  <2>1. PICK d \in Classes : x \in ListOf(new[d], d)
    BY DEF OnLists
  <2> QED BY <2>1, <1>1, <1>2 DEF OnLists
<1>4. ASSUME NEW x \in ListOf(t, c) PROVE x \in OnLists(new)
  BY <1>1 DEF OnLists
<1>5. ASSUME NEW x \in OnLists(lists), x.words # c PROVE x \in OnLists(new)
  <2>1. PICK d \in Classes : x \in ListOf(lists[d], d)
    BY DEF OnLists
  <2> QED BY <2>1, <1>1, <1>2, <1>5 DEF OnLists
<1>6. OnLists(new) = {x \in OnLists(lists) : x.words # c} \cup ListOf(t, c)
  BY <1>3, <1>4, <1>5
<1> QED BY <1>6 DEF new

(* The list a chunk is on is that of its size.                             *)
LEMMA WordsOfList ==
    ASSUME NEW lists, NEW x \in OnLists(lists), NEW c \in Classes
    PROVE  x.words = c <=> x \in ListOf(lists[c], c)
BY DEF OnLists, ListOf

(* The first chunk of a list goes to the caller.                           *)
LEMMA PopSound ==
    ASSUME RequestsListed, TypeOK, PoolInv, NEW n \in Requests, Pop(n)
    PROVE  PoolInv'
<1> SUFFICES ASSUME NEW lists, Sound(lists), ~recycled PROVE \E new : Sound(new)'
  BY DEF PoolInv, Pop
<1> DEFINE c == Chunk(n)
           s == lists[c]
           t == Tail(s)
           m == Len(s)
           a == s[1]
           chunk == [at |-> a, words |-> c]
           new == [lists EXCEPT ![c] = t]
<1>1. c \in Classes /\ ListHead(c) = free_list[c] /\ ListHead(c) \in Words
  BY Sizes DEF Pop, ListHead
<1>2. s \in Seq(Words) /\ m \in Nat /\ NoneTwice(s) /\ free_list[c] = Place(s, 1)
      /\ \A i \in 1 .. m : link[s[i]] = Place(s, i + 1)
  BY <1>1 DEF Sound, Linked
<1>3. m > 0 /\ free_list[c] = a /\ link[a] = Place(s, 2)
  BY <1>1, <1>2, Sizes DEF Place, Words
<1>4. t \in Seq(Words) /\ Len(t) = m - 1 /\ \A i \in 1 .. m - 1 : t[i] = s[i + 1]
  BY <1>2, <1>3
<1>5. \A i \in 1 .. m : Place(t, i) = Place(s, i + 1)
  BY <1>2, <1>3, <1>4 DEF Place
<1>6. NoneTwice(t) /\ \A i \in 1 .. Len(t) : t[i] # a
  <2>1. ASSUME NEW i \in 1 .. Len(t), NEW j \in 1 .. Len(t), t[i] = t[j] PROVE i = j
    <3>1. s[i + 1] = s[j + 1] /\ i + 1 \in 1 .. m /\ j + 1 \in 1 .. m
      BY <1>2, <1>4, <2>1
    <3>2. i + 1 = j + 1
      BY <1>2, <3>1 DEF NoneTwice
    <3> QED BY <3>2, <1>2, <1>4
  <2>2. ASSUME NEW i \in 1 .. Len(t), t[i] = a PROVE FALSE
    <3>1. s[i + 1] = s[1] /\ i + 1 \in 1 .. m /\ 1 \in 1 .. m /\ i + 1 # 1
      BY <1>2, <1>3, <1>4, <2>2
    <3> QED BY <1>2, <3>1 DEF NoneTwice
  <2> QED BY <2>1, <2>2 DEF NoneTwice
<1>7. /\ free_list' = [free_list EXCEPT ![c] = link[a]]
      /\ UNCHANGED <<start_free, recycled>>
      /\ Give(a, c, << >>)
  BY <1>1, <1>3 DEF Pop, SetHead
<1>8. /\ live' = live (+) SetToBag({chunk})
      /\ \A x \in Words : link'[x] = IF x \in Cells(chunk) THEN Lost ELSE link[x]
      /\ \A x \in Words : size'[x] = IF x = a THEN c ELSE IF x \in Cells(chunk) THEN 0 ELSE size[x]
  BY <1>7 DEF Give
<1> HIDE DEF c, t, a, new
<1>9. ListOf(s, c) = ListOf(t, c) \cup {chunk} /\ chunk \notin ListOf(t, c)
  <2>1. ListOf(t, c) \subseteq ListOf(s, c)
    <3>1. \A i \in 1 .. Len(t) : i + 1 \in 1 .. m
      BY <1>2, <1>4
    <3> QED BY <1>4, <3>1 DEF ListOf
  <2>2. chunk \in ListOf(s, c)
    BY <1>2, <1>3 DEF ListOf, a
  <2>3. ASSUME NEW x \in ListOf(s, c), x # chunk PROVE x \in ListOf(t, c)
    <3>1. PICK i \in 1 .. m : x = [at |-> s[i], words |-> c]
      BY DEF ListOf
    <3>2. i # 1
      BY <2>3, <3>1 DEF a
    <3>3. PICK j \in 1 .. m - 1 : i = j + 1
      <4>1. i - 1 \in 1 .. m - 1 /\ i = (i - 1) + 1
        BY <1>2, <3>2
      <4> QED BY <4>1
    <3>4. j \in 1 .. Len(t) /\ x = [at |-> t[j], words |-> c]
      BY <1>4, <3>1, <3>3
    <3> QED BY <3>4 DEF ListOf
  <2>4. chunk \notin ListOf(t, c)
    BY <1>6 DEF ListOf
  <2> QED BY <2>1, <2>2, <2>3, <2>4
<1>10. OnLists(lists) = OnLists(new) \cup {chunk} /\ chunk \notin OnLists(new)
  <2>1. OnLists(new) = {x \in OnLists(lists) : x.words # c} \cup ListOf(t, c)
    BY <1>1, OneListChanged DEF new, Sound, Linked
  <2>2. ListOf(s, c) \subseteq OnLists(lists)
    BY <1>1 DEF OnLists
  <2>3. \A x \in OnLists(lists) : x.words = c <=> x \in ListOf(s, c)
    BY <1>1, WordsOfList
  <2> HIDE DEF s
  <2> QED BY <1>9, <2>1, <2>2, <2>3
<1> HIDE DEF s, chunk
<1>11. IsABag(live) /\ Held' = Held \cup {chunk} /\ chunk \notin Held
       /\ \A x \in Held' : live'[x] = 1
  <2>1. chunk \notin Held
    BY <1>10 DEF Sound
  <2>2. IsABag(live)
    BY DEF TypeOK
  <2>3. \A x \in Held : live[x] = 1
    BY DEF Sound
  <2>4. /\ BagToSet(live (+) SetToBag({chunk})) = BagToSet(live) \cup {chunk}
        /\ \A y \in BagToSet(live) \cup {chunk} :
              (live (+) SetToBag({chunk}))[y] = (IF y \in BagToSet(live) THEN live[y] ELSE 0)
                                            + (IF y = chunk THEN 1 ELSE 0)
    BY <2>2, BagPlusOne
  <2> QED BY <1>8, <2>1, <2>2, <2>3, <2>4 DEF Held
<1>12. Held' \cup OnLists(new) = Held \cup OnLists(lists) /\ Held' \cap OnLists(new) = {}
  BY <1>10, <1>11 DEF Sound
<1>13. \A x \in Held \cup OnLists(lists) :
          x # chunk => x.at \in Words /\ x.at \notin Cells(chunk) /\ x.at # a
  <2> SUFFICES ASSUME NEW x \in Held \cup OnLists(lists), x # chunk
               PROVE  x.at \in Words /\ x.at \notin Cells(chunk) /\ x.at # a
    OBVIOUS
  <2>1. chunk \in Held \cup OnLists(lists)
    BY <1>10
  <2>2. Cells(x) \cap Cells(chunk) = {}
    BY <2>1 DEF Sound, Tiles
  <2>3. x.at \in Words /\ x.at \in Cells(x) /\ chunk.at \in Cells(chunk) /\ chunk.at = a
    BY <2>1, ChunkTyped DEF Sound, chunk
  <2> QED BY <2>2, <2>3
<1>14. \A x \in Held' : size'[x.at] = x.words
  <2> SUFFICES ASSUME NEW x \in Held' PROVE size'[x.at] = x.words
    OBVIOUS
  <2>1. CASE x = chunk
    <3>1. chunk.at = a /\ chunk.words = c /\ a \in Words
      BY <1>1, <1>3 DEF chunk
    <3> QED BY <2>1, <3>1, <1>8
  <2>2. CASE x # chunk
    <3>1. x \in Held /\ size[x.at] = x.words
      BY <2>2, <1>11 DEF Sound
    <3> QED BY <2>2, <3>1, <1>8, <1>13
  <2> QED BY <2>1, <2>2
<1>15. new \in [Classes -> Seq(Words)] /\ new[c] = t /\ \A d \in Classes \ {c} : new[d] = lists[d]
  BY <1>1, <1>4 DEF new, Sound, Linked
<1>16. ASSUME NEW d \in Classes, NEW i \in 1 .. Len(new[d]) PROVE link'[new[d][i]] = link[new[d][i]]
  <2> DEFINE x == [at |-> new[d][i], words |-> d]
  <2>1. x \in ListOf(new[d], d)
    BY DEF ListOf
  <2>2. x \in OnLists(new)
    BY <2>1 DEF OnLists
  <2>3. x \in OnLists(lists) /\ x # chunk
    BY <2>2, <1>10
  <2>4. x.at = new[d][i]
    OBVIOUS
  <2> HIDE DEF x
  <2> QED BY <2>3, <2>4, <1>8, <1>13
<1>17. ASSUME NEW d \in Classes
       PROVE  /\ NoneTwice(new[d])
              /\ free_list'[d] = Place(new[d], 1)
              /\ \A i \in 1 .. Len(new[d]) : link'[new[d][i]] = Place(new[d], i + 1)
  <2>1. CASE d = c
    <3>1. free_list'[c] = Place(s, 2) /\ Place(t, 1) = Place(s, 2)
      BY <1>1, <1>2, <1>3, <1>5, <1>7 DEF TypeOK
    <3>2. ASSUME NEW i \in 1 .. Len(t) PROVE link'[t[i]] = Place(t, i + 1)
      <4>1. link'[t[i]] = link[t[i]]
        BY <1>15, <1>16, <1>1
      <4>2. i + 1 \in 1 .. m /\ t[i] = s[i + 1] /\ Place(t, i + 1) = Place(s, i + 1 + 1)
        BY <1>2, <1>4, <1>5
      <4> QED BY <4>1, <4>2, <1>2
    <3> QED BY <2>1, <3>1, <3>2, <1>6, <1>15, <1>1
  <2>2. CASE d # c
    <3>1. new[d] = lists[d] /\ free_list'[d] = free_list[d]
      BY <2>2, <1>7, <1>15 DEF TypeOK
    <3> QED BY <3>1, <1>16 DEF Sound, Linked
  <2> QED BY <2>1, <2>2
<1>18. Linked(new)'
  BY <1>15, <1>17 DEF Linked
<1>19. Sound(new)'
  BY <1>7, <1>11, <1>12, <1>14, <1>18 DEF Sound
<1> QED BY <1>19

(* The rest is cut: the first slice goes to the caller, the others become  *)
(* the list, which was empty.                                              *)
LEMMA CarveSound ==
    ASSUME RequestsListed, TypeOK, PoolInv, NEW n \in Requests, Carve(n)
    PROVE  PoolInv'
<1> SUFFICES ASSUME NEW lists, Sound(lists), ~recycled PROVE \E new : Sound(new)'
  BY DEF PoolInv, Carve
<1> DEFINE c == Chunk(n)
           k == Fits(c)
           a == start_free
           last == a + (k - 1) * c
           chain == [x \in Cut(c) |-> IF x = last THEN NULL ELSE x + c]
           t == [i \in 1 .. k - 1 |-> a + i * c]
           chunk == [at |-> a, words |-> c]
           piece(i) == [at |-> a + i * c, words |-> c]
           S == Held \cup OnLists(lists)
<1>1. /\ c \in Classes /\ c \in Nat \ {0} /\ ListHead(c) = NULL /\ ListHead(c) = free_list[c]
      /\ a \in Nat \ {0} /\ a \in 1 .. end_free /\ k \in Nat /\ k > 0
  <2>1. c \in Classes /\ a \in 1 .. end_free /\ ListHead(c) = NULL /\ k > 0
    BY Sizes DEF Carve, TypeOK
  <2>2. k \in Nat /\ c \in Nat \ {0}
    BY <2>1, Cuts, Sizes
  <2> QED BY <2>1, <2>2 DEF ListHead
<1>2. /\ start_free' = a + k * c
      /\ free_list' = IF k = 1 THEN free_list ELSE [free_list EXCEPT ![c] = a + c]
      /\ Give(a, c, chain)
      /\ UNCHANGED recycled
  BY DEF Carve, Cut
<1>3. /\ live' = live (+) SetToBag({chunk})
      /\ \A x \in Words : link'[x] = IF x \in Cells(chunk) THEN Lost
                                     ELSE IF x \in Cut(c) THEN chain[x] ELSE link[x]
      /\ \A x \in Words : size'[x] = IF x = a THEN c
                                     ELSE IF x \in Cells(chunk) \cup Cut(c) THEN 0 ELSE size[x]
  BY <1>2 DEF Give
<1> HIDE DEF c, k
<1>4. /\ \A i \in 0 .. k - 1 : a + i * c \in Words
      /\ a \in Words
      /\ k > 1 => a + c \in Words
  BY <1>1, CutInRegion DEF k
<1>5. /\ \A i, j \in 0 .. k - 1 : i # j => Slice(a, c, i) \cap Slice(a, c, j) = {}
      /\ \A i \in 0 .. k - 1 : Slice(a, c, i) \subseteq a .. a + k * c - 1
      /\ \A x \in a .. a + k * c - 1 : \E i \in 0 .. k - 1 : x \in Slice(a, c, i)
  BY <1>1, Slices
<1>6. \A i \in 0 .. k - 1 : /\ Cells(piece(i)) = Slice(a, c, i)
                            /\ a + i * c \in Slice(a, c, i)
                            /\ i * c \in Int
  BY <1>1 DEF Cells, Slice
<1>7. piece(0) = chunk /\ 0 \in 0 .. k - 1
  BY <1>1
<1>8. /\ t \in Seq(Words) /\ Len(t) = k - 1
      /\ \A i \in 1 .. k - 1 : t[i] = a + i * c
  <2>1. k - 1 \in Nat /\ \A i \in 1 .. k - 1 : a + i * c \in Words
    BY <1>1, <1>4
  <2> QED BY <2>1
<1>9. \A i, j \in 0 .. k - 1 : a + i * c = a + j * c => i = j
  BY <1>5, <1>6
<1>10. NoneTwice(t)
  <2> HIDE DEF t
  <2> QED BY <1>1, <1>8, <1>9 DEF NoneTwice
<1>11. lists[c] = << >>
  <2>1. lists[c] \in Seq(Words) /\ Place(lists[c], 1) = 0
    BY <1>1 DEF Sound, Linked, NULL
  <2> QED BY <2>1, Sizes DEF Place, Words
<1> DEFINE new == [lists EXCEPT ![c] = t]
<1>12. ListOf(t, c) = {piece(i) : i \in 1 .. k - 1}
  BY <1>8 DEF ListOf
<1>13. OnLists(new) = OnLists(lists) \cup {piece(i) : i \in 1 .. k - 1}
  <2>1. OnLists(new) = {x \in OnLists(lists) : x.words # c} \cup ListOf(t, c)
    BY <1>1, OneListChanged DEF Sound, Linked
  <2>2. \A x \in OnLists(lists) : x.words # c
    BY <1>1, <1>11, WordsOfList DEF ListOf
  <2> HIDE DEF new, t, piece
  <2> QED BY <1>12, <2>1, <2>2
<1>14. \A x \in S : /\ Cells(x) \cap a .. a + k * c - 1 = {}
                    /\ x.at \in Words /\ x.at \in Cells(x)
  <2> SUFFICES ASSUME NEW x \in S
               PROVE  Cells(x) \cap a .. a + k * c - 1 = {} /\ x.at \in Words /\ x.at \in Cells(x)
    OBVIOUS
  <2>1. Cells(x) \subseteq 1 .. a - 1
    BY DEF Sound, Tiles, Covered
  <2>2. x.at \in Words /\ x.at \in Cells(x)
    BY ChunkTyped DEF Sound
  <2> QED BY <1>1, <2>1, <2>2
<1>15. \A x \in S, i \in 0 .. k - 1 : Cells(x) \cap Cells(piece(i)) = {} /\ x # piece(i)
  <2> SUFFICES ASSUME NEW x \in S, NEW i \in 0 .. k - 1
               PROVE  Cells(x) \cap Cells(piece(i)) = {} /\ x # piece(i)
    OBVIOUS
  <2>1. Cells(piece(i)) \subseteq a .. a + k * c - 1 /\ Cells(piece(i)) # {}
    BY <1>5, <1>6
  <2> HIDE DEF piece, S
  <2> QED BY <2>1, <1>14
<1>16. \A i, j \in 0 .. k - 1 : piece(i) # piece(j) => Cells(piece(i)) \cap Cells(piece(j)) = {}
  BY <1>5, <1>6
<1> DEFINE P == {piece(i) : i \in 0 .. k - 1}
<1>17. Tiles(S \cup P, a + k * c)
  <2> HIDE DEF piece
  <2>1. ASSUME NEW x \in S \cup P, NEW y \in S \cup P, x # y PROVE Cells(x) \cap Cells(y) = {}
    <3>1. CASE x \in S /\ y \in S
      BY <2>1, <3>1 DEF Sound, Tiles
    <3>2. CASE x \in P /\ y \in S
      BY <1>15, <3>2
    <3>3. CASE x \in S /\ y \in P
      BY <1>15, <3>3
    <3>4. CASE x \in P /\ y \in P
      BY <1>16, <2>1, <3>4
    <3> QED BY <3>1, <3>2, <3>3, <3>4
  <2>2. Covered(S) = 1 .. a - 1
    BY DEF Sound, Tiles
  <2>3. Covered(P) = a .. a + k * c - 1
    BY <1>5, <1>6 DEF Covered
  <2>4. (1 .. a - 1) \cup (a .. a + k * c - 1) = 1 .. a + k * c - 1
    <3>1. k * c \in Nat
      BY <1>1
    <3> QED BY <1>1, <3>1
  <2>5. Covered(S \cup P) = Covered(S) \cup Covered(P)
    BY DEF Covered
  <2>6. \A x, y \in S \cup P : x # y => Cells(x) \cap Cells(y) = {}
    BY <2>1
  <2> HIDE DEF S, P
  <2>7. Covered(S \cup P) = 1 .. a + k * c - 1
    BY <2>2, <2>3, <2>4, <2>5
  <2>8. a + k * c - 1 = (a + k * c) - 1
    <3>1. k * c \in Nat
      BY <1>1
    <3> QED BY <1>1, <3>1
  <2>9. Covered(S \cup P) = 1 .. (a + k * c) - 1
    BY <2>7, <2>8
  <2> DEFINE e == a + k * c
  <2>10. Covered(S \cup P) = 1 .. e - 1
    BY <2>9
  <2> HIDE DEF e
  <2>11. Tiles(S \cup P, e)
    BY <2>6, <2>10 DEF Tiles
  <2> QED BY <2>11 DEF e
<1>18. chunk \notin Held /\ chunk \notin OnLists(new)
  <2>1. chunk \notin S
    BY <1>7, <1>15
  <2>2. \A i \in 1 .. k - 1 : piece(i) # chunk
    <3>1. \A i \in 1 .. k - 1 : a + i * c # a + 0 * c
      BY <1>9, <1>1
    <3> QED BY <3>1, <1>1
  <2> HIDE DEF chunk, piece, new
  <2> QED BY <2>1, <2>2, <1>13
<1>19. Held' = Held \cup {chunk} /\ \A x \in Held' : live'[x] = 1
  <2>1. IsABag(live) /\ \A x \in Held : live[x] = 1
    BY DEF TypeOK, Sound
  <2> HIDE DEF chunk
  <2>2. /\ BagToSet(live (+) SetToBag({chunk})) = BagToSet(live) \cup {chunk}
        /\ \A y \in BagToSet(live) \cup {chunk} :
              (live (+) SetToBag({chunk}))[y] = (IF y \in BagToSet(live) THEN live[y] ELSE 0)
                                            + (IF y = chunk THEN 1 ELSE 0)
    BY <2>1, BagPlusOne
  <2>3. live' = live (+) SetToBag({chunk}) /\ chunk \notin Held
    BY <1>3, <1>18
  <2>4. Held' = Held \cup {chunk}
    BY <2>2, <2>3 DEF Held
  <2>5. \A y \in Held \cup {chunk} :
           live'[y] = (IF y \in Held THEN live[y] ELSE 0) + (IF y = chunk THEN 1 ELSE 0)
    BY <2>2, <2>3 DEF Held
  <2> QED BY <2>1, <2>3, <2>4, <2>5
<1>20. Held' \cup OnLists(new) = S \cup P /\ Held' \cap OnLists(new) = {}
  <2>1. P = {piece(i) : i \in 1 .. k - 1} \cup {chunk}
    <3>1. 0 .. k - 1 = (1 .. k - 1) \cup {0}
      BY <1>1
    <3> HIDE DEF piece, chunk
    <3> QED BY <3>1, <1>7
  <2>2. Held \cap {piece(i) : i \in 1 .. k - 1} = {} /\ Held \cap OnLists(lists) = {}
    <3>1. \A i \in 1 .. k - 1 : i \in 0 .. k - 1
      BY <1>1
    <3> HIDE DEF piece
    <3> QED BY <1>15, <3>1 DEF Sound
  <2> HIDE DEF piece, chunk, new, P
  <2> QED BY <2>1, <2>2, <1>13, <1>18, <1>19
<1>21. \A x \in S : /\ x.at # a /\ x.at \notin Cells(chunk) /\ x.at \notin Cut(c)
                    /\ x.at \in Words
  <2> SUFFICES ASSUME NEW x \in S
               PROVE  x.at # a /\ x.at \notin Cells(chunk) /\ x.at \notin Cut(c) /\ x.at \in Words
    OBVIOUS
  <2>1. x.at \in Cells(x) /\ x.at \in Words
    BY <1>14
  <2>2. Cells(x) \cap Cells(chunk) = {} /\ a \in Cells(chunk)
    <3>1. a + 0 * c = a
      BY <1>1
    <3> QED BY <1>6, <1>7, <1>15, <3>1
  <2>3. ASSUME x.at \in Cut(c) PROVE FALSE
    <3>1. PICK i \in 1 .. k - 1 : x.at = a + i * c
      BY <2>3 DEF Cut, k
    <3>2. i \in 0 .. k - 1
      BY <1>1
    <3>3. x.at \in Cells(piece(i))
      <4>1. Cells(piece(i)) = Slice(a, c, i) /\ a + i * c \in Slice(a, c, i)
        BY <3>2, <1>6
      <4> QED BY <3>1, <4>1
    <3> HIDE DEF S, piece
    <3> QED BY <3>2, <3>3, <2>1, <1>15
  <2> QED BY <2>1, <2>2, <2>3
<1>22. \A x \in Held' : size'[x.at] = x.words
  <2> SUFFICES ASSUME NEW x \in Held' PROVE size'[x.at] = x.words
    OBVIOUS
  <2>1. CASE x = chunk
    BY <2>1, <1>3, <1>4
  <2>2. CASE x \in Held
    BY <2>2, <1>3, <1>21 DEF Sound
  <2> QED BY <2>1, <2>2, <1>19
<1>23. new \in [Classes -> Seq(Words)] /\ new[c] = t /\ \A d \in Classes \ {c} : new[d] = lists[d]
  <2> HIDE DEF t
  <2> QED BY <1>1, <1>8 DEF Sound, Linked
<1>24. ASSUME NEW d \in Classes \ {c}
       PROVE  /\ NoneTwice(new[d])
              /\ free_list'[d] = Place(new[d], 1)
              /\ \A i \in 1 .. Len(new[d]) : link'[new[d][i]] = Place(new[d], i + 1)
  <2>1. new[d] = lists[d] /\ free_list'[d] = free_list[d]
    BY <1>1, <1>2, <1>23 DEF TypeOK
  <2>2. ASSUME NEW i \in 1 .. Len(lists[d]) PROVE link'[lists[d][i]] = link[lists[d][i]]
    <3> DEFINE x == [at |-> lists[d][i], words |-> d]
    <3>1. x \in ListOf(lists[d], d)
      BY DEF ListOf
    <3>2. x \in S
      BY <3>1 DEF OnLists
    <3>3. x.at = lists[d][i]
      OBVIOUS
    <3> HIDE DEF x, S
    <3> QED BY <3>2, <3>3, <1>3, <1>21
  <2> HIDE DEF new
  <2> QED BY <2>1, <2>2 DEF Sound, Linked
<1>25. /\ free_list'[c] = Place(t, 1)
       /\ \A i \in 1 .. Len(t) : link'[t[i]] = Place(t, i + 1)
  <2>1. ASSUME NEW i \in 1 .. k - 1 PROVE link'[t[i]] = Place(t, i + 1)
    <3>1. t[i] = a + i * c /\ t[i] \in Words /\ t[i] \in Cut(c) /\ i \in 0 .. k - 1
      BY <1>1, <1>4, <1>8 DEF Cut, k
    <3>2. t[i] \notin Cells(chunk)
      <4>1. i # 0 /\ t[i] \in Slice(a, c, i)
        <5>1. a + i * c \in Slice(a, c, i)
          BY <3>1, <1>6
        <5> HIDE DEF t
        <5> QED BY <5>1, <3>1
      <4>2. Slice(a, c, i) \cap Slice(a, c, 0) = {} /\ Cells(chunk) = Slice(a, c, 0)
        BY <3>1, <4>1, <1>5, <1>6, <1>7
      <4> QED BY <4>1, <4>2
    <3>3. link'[t[i]] = IF a + i * c = last THEN NULL ELSE a + i * c + c
      <4>1. link'[t[i]] = chain[t[i]]
        BY <1>3, <3>1, <3>2
      <4> QED BY <4>1, <3>1
    <3>4. CASE i = k - 1
      <4>1. Place(t, i + 1) = 0
        BY <3>4, <1>1, <1>8 DEF Place
      <4> QED BY <3>3, <3>4, <4>1 DEF NULL
    <3>5. CASE i # k - 1
      <4>1. i + 1 \in 1 .. k - 1 /\ k - 1 \in 0 .. k - 1
        BY <3>5, <1>1
      <4>2. Place(t, i + 1) = a + (i + 1) * c
        BY <4>1, <1>8 DEF Place
      <4>3. a + i * c # last
        BY <3>1, <3>5, <4>1, <1>9
      <4>4. (i + 1) * c = i * c + c /\ i * c \in Int
        BY <1>1
      <4> HIDE DEF last, t
      <4> QED BY <3>3, <4>2, <4>3, <4>4, <1>1
    <3> QED BY <3>4, <3>5
  <2>2. free_list'[c] = Place(t, 1)
    <3>1. CASE k = 1
      <4>1. Place(t, 1) = 0
        BY <3>1, <1>8 DEF Place
      <4> QED BY <3>1, <4>1, <1>1, <1>2 DEF NULL
    <3>2. CASE k # 1
      <4>1. 1 \in 1 .. k - 1 /\ 1 * c = c
        BY <3>2, <1>1
      <4>2. Place(t, 1) = a + c
        BY <4>1, <1>8 DEF Place
      <4> QED BY <3>2, <4>2, <1>1, <1>2 DEF TypeOK
    <3> QED BY <3>1, <3>2
  <2> HIDE DEF t
  <2> QED BY <2>1, <2>2, <1>8
<1> HIDE DEF new, t
<1> PICK after : after = new
  OBVIOUS
<1>26. Linked(after)'
  <2>1. \A d \in Classes :
          /\ NoneTwice(new[d])
          /\ free_list'[d] = Place(new[d], 1)
          /\ \A i \in 1 .. Len(new[d]) : link'[new[d][i]] = Place(new[d], i + 1)
    BY <1>10, <1>23, <1>24, <1>25
  <2> QED BY <2>1, <1>23 DEF Linked
<1> HIDE DEF S, P
<1>27. Tiles(Held' \cup OnLists(after), start_free')
  BY <1>2, <1>17, <1>20
<1>28. Sound(after)'
  BY <1>19, <1>20, <1>22, <1>26, <1>27 DEF Sound
<1> QED BY <1>28

(* What is given back is the new first chunk of the list of its head.      *)
LEMMA DeAllocateSound ==
    ASSUME RequestsListed, TypeOK, PoolInv, NEW chunk \in Held, ShareDeAllocate(chunk)
    PROVE  PoolInv'
<1> SUFFICES ASSUME NEW lists, Sound(lists), ~recycled PROVE \E new : Sound(new)'
  BY DEF PoolInv, ShareDeAllocate
<1> DEFINE c == chunk.words
           a == chunk.at
           s == lists[c]
           m == Len(s)
           t == <<a>> \o s
           new == [lists EXCEPT ![c] = t]
<1>1. /\ chunk \in [at : Words, words : Classes] /\ c \in Classes /\ a \in Words
      /\ size[a] = c /\ chunk = [at |-> a, words |-> c]
  BY DEF TypeOK, Sound
<1>2. /\ free_list' = [free_list EXCEPT ![c] = a]
      /\ link' = [link EXCEPT ![a] = free_list[c]]
      /\ size' = [size EXCEPT ![a] = 0]
      /\ live' = live (-) SetToBag({chunk})
      /\ UNCHANGED <<start_free, recycled>>
  BY <1>1 DEF ShareDeAllocate, SetHead, ListHead
<1>3. s \in Seq(Words) /\ m \in Nat /\ NoneTwice(s) /\ free_list[c] = Place(s, 1)
      /\ \A i \in 1 .. m : link[s[i]] = Place(s, i + 1)
  BY <1>1 DEF Sound, Linked
<1>4. /\ t \in Seq(Words) /\ Len(t) = m + 1 /\ t[1] = a
      /\ \A i \in 1 .. m : t[i + 1] = s[i]
  BY <1>1, <1>3
<1>5. \A i \in 1 .. m + 1 : Place(t, i + 1) = Place(s, i)
  BY <1>3, <1>4 DEF Place
<1>6. ASSUME NEW d \in Classes, NEW i \in 1 .. Len(lists[d]) PROVE lists[d][i] # a
  <2> DEFINE x == [at |-> lists[d][i], words |-> d]
  <2>1. x \in ListOf(lists[d], d)
    BY DEF ListOf
  <2>2. x \in OnLists(lists)
    BY <2>1 DEF OnLists
  <2>3. x # chunk
    BY <2>2 DEF Sound
  <2>4. Cells(x) \cap Cells(chunk) = {}
    BY <2>2, <2>3 DEF Sound, Tiles
  <2>5. x.at \in Cells(x) /\ a \in Cells(chunk)
    BY <2>2, ChunkTyped DEF Sound
  <2> QED BY <2>4, <2>5
<1>7. NoneTwice(t)
  <2>1. \A i \in 1 .. m : s[i] # a
    BY <1>1, <1>6
  <2>2. ASSUME NEW i \in 1 .. m + 1, i # 1 PROVE t[i] = s[i - 1] /\ i - 1 \in 1 .. m
    <3>1. i - 1 \in 1 .. m /\ i = (i - 1) + 1
      BY <1>3, <2>2
    <3> HIDE DEF s, t
    <3> QED BY <3>1, <1>4
  <2> SUFFICES ASSUME NEW i \in 1 .. m + 1, NEW j \in 1 .. m + 1, t[i] = t[j] PROVE i = j
    <3> HIDE DEF s, t, m
    <3> QED BY <1>4 DEF NoneTwice
  <2>3. CASE i = 1 \/ j = 1
    <3> HIDE DEF s, t, m
    <3> QED BY <2>1, <2>2, <2>3, <1>4
  <2>4. CASE i # 1 /\ j # 1
    <3>1. s[i - 1] = s[j - 1] /\ i - 1 \in 1 .. m /\ j - 1 \in 1 .. m
      BY <2>2, <2>4
    <3>2. i - 1 = j - 1
      BY <3>1, <1>3 DEF NoneTwice
    <3> QED BY <3>2
  <2> QED BY <2>3, <2>4
<1>8. ListOf(t, c) = ListOf(s, c) \cup {chunk}
  <2>1. ASSUME NEW i \in 1 .. m + 1
        PROVE  [at |-> t[i], words |-> c] \in ListOf(s, c) \cup {chunk}
    <3>1. CASE i = 1
      BY <3>1, <1>1, <1>4
    <3>2. CASE i # 1
      <4>1. PICK j \in 1 .. m : i = j + 1
        <5>1. i - 1 \in 1 .. m /\ i = (i - 1) + 1
          BY <3>2, <1>3
        <5> QED BY <5>1
      <4>2. [at |-> t[i], words |-> c] = [at |-> s[j], words |-> c]
        BY <4>1, <1>4
      <4> QED BY <4>2 DEF ListOf
    <3> QED BY <3>1, <3>2
  <2>2. ASSUME NEW i \in 1 .. m PROVE [at |-> s[i], words |-> c] \in ListOf(t, c)
    <3>1. i + 1 \in 1 .. Len(t) /\ t[i + 1] = s[i]
      BY <1>3, <1>4
    <3> QED BY <3>1 DEF ListOf
  <2>3. chunk \in ListOf(t, c)
    <3>1. 1 \in 1 .. Len(t) /\ chunk = [at |-> t[1], words |-> c]
      BY <1>1, <1>3, <1>4
    <3> QED BY <3>1 DEF ListOf
  <2>4. ListOf(t, c) \subseteq ListOf(s, c) \cup {chunk}
    BY <2>1, <1>4 DEF ListOf
  <2>5. ListOf(s, c) \subseteq ListOf(t, c)
    BY <2>2 DEF ListOf
  <2> QED BY <2>3, <2>4, <2>5
<1>9. OnLists(new) = OnLists(lists) \cup {chunk}
  <2>1. lists \in [Classes -> Seq(Words)] /\ c \in Classes
    BY <1>1 DEF Sound, Linked
  <2> HIDE DEF c
  <2>2. OnLists(new) = {x \in OnLists(lists) : x.words # c} \cup ListOf(t, c)
    BY <2>1, OneListChanged
  <2>3. ListOf(s, c) \subseteq OnLists(lists)
    BY <2>1 DEF OnLists
  <2>4. \A x \in OnLists(lists) : x.words = c <=> x \in ListOf(s, c)
    BY <2>1, WordsOfList
  <2> HIDE DEF s, t, new
  <2> QED BY <1>8, <2>2, <2>3, <2>4
<1>10. Held' = Held \ {chunk} /\ \A x \in Held' : live'[x] = 1
  <2>1. IsABag(live) /\ live[chunk] = 1 /\ \A x \in Held : live[x] = 1 /\ chunk \in BagToSet(live)
    BY DEF TypeOK, Sound, Held
  <2>2. /\ BagToSet(live (-) SetToBag({chunk})) = BagToSet(live) \ {chunk}
        /\ \A y \in BagToSet(live (-) SetToBag({chunk})) :
              y # chunk => (live (-) SetToBag({chunk}))[y] = live[y]
    BY <2>1, BagMinusOne
  <2> QED BY <1>2, <2>1, <2>2 DEF Held
<1>11. Held' \cup OnLists(new) = Held \cup OnLists(lists) /\ Held' \cap OnLists(new) = {}
  BY <1>9, <1>10 DEF Sound
<1>12. \A x \in Held' : size'[x.at] = x.words
  <2> SUFFICES ASSUME NEW x \in Held, x # chunk PROVE size'[x.at] = x.words
    BY <1>10
  <2>1. Cells(x) \cap Cells(chunk) = {}
    BY DEF Sound, Tiles
  <2>2. x.at \in Cells(x) /\ a \in Cells(chunk) /\ x.at \in Words
    BY ChunkTyped DEF Sound
  <2> QED BY <2>1, <2>2, <1>2 DEF Sound, TypeOK
<1>13. new \in [Classes -> Seq(Words)] /\ new[c] = t /\ \A d \in Classes \ {c} : new[d] = lists[d]
  BY <1>1, <1>4 DEF Sound, Linked
<1> HIDE DEF new, t
<1>14. ASSUME NEW d \in Classes
       PROVE  /\ NoneTwice(new[d])
              /\ free_list'[d] = Place(new[d], 1)
              /\ \A i \in 1 .. Len(new[d]) : link'[new[d][i]] = Place(new[d], i + 1)
  <2>1. CASE d = c
    <3>1. free_list'[c] = a /\ Place(t, 1) = a
      BY <1>1, <1>2, <1>3, <1>4 DEF TypeOK, Place
    <3>2. ASSUME NEW i \in 1 .. m + 1 PROVE link'[t[i]] = Place(t, i + 1)
      <4>1. CASE i = 1
        BY <4>1, <1>1, <1>2, <1>3, <1>4, <1>5 DEF TypeOK
      <4>2. CASE i # 1
        <5>1. PICK j \in 1 .. m : i = j + 1
          <6>1. i - 1 \in 1 .. m /\ i = (i - 1) + 1
            BY <4>2, <1>3
          <6> QED BY <6>1
        <5>2. t[i] = s[j] /\ s[j] # a /\ s[j] \in Words
          BY <5>1, <1>1, <1>3, <1>4, <1>6
        <5>3. link'[s[j]] = Place(s, j + 1)
          BY <5>2, <1>2, <1>3 DEF TypeOK
        <5>4. Place(t, i + 1) = Place(s, i)
          BY <1>5
        <5> QED BY <5>1, <5>2, <5>3, <5>4
      <4> QED BY <4>1, <4>2
    <3> QED BY <2>1, <3>1, <3>2, <1>4, <1>7, <1>13
  <2>2. CASE d # c
    <3>1. new[d] = lists[d] /\ free_list'[d] = free_list[d]
      BY <2>2, <1>2, <1>13 DEF TypeOK
    <3>2. ASSUME NEW i \in 1 .. Len(lists[d]) PROVE link'[lists[d][i]] = link[lists[d][i]]
      <4>1. lists[d] \in Seq(Words)
        BY DEF Sound, Linked
      <4> QED BY <4>1, <1>2, <1>6 DEF TypeOK
    <3> QED BY <3>1, <3>2 DEF Sound, Linked
  <2> QED BY <2>1, <2>2
<1>15. Linked(new)'
  BY <1>13, <1>14 DEF Linked
<1>16. Sound(new)'
  BY <1>2, <1>10, <1>11, <1>12, <1>15 DEF Sound
<1> QED BY <1>16

(* Every step keeps the invariant.                                         *)
LEMMA StepSound ==
    ASSUME RequestsListed, TypeOK, PoolInv, [Next]_vars
    PROVE  PoolInv'
<1>1. CASE UNCHANGED vars
  BY <1>1 DEF vars, PoolInv, Sound, Linked, Held
<1>2. ASSUME NEW n \in Requests, Recycle(n) PROVE PoolInv'
  BY <1>2 DEF Recycle, PoolInv
<1>3. CASE Next
  BY <1>2, <1>3, PopSound, CarveSound, DeAllocateSound DEF Next, ShareAllocate
<1> QED BY <1>1, <1>3

(* Following the links from the head of a list reaches its chunks, all of  *)
(* them and no others.                                                     *)
LEMMA ListedIsList ==
    ASSUME RequestsListed, TypeOK, NEW lists, Linked(lists), NEW c \in Classes
    PROVE  Listed(c) = ListOf(lists[c], c)
<1> DEFINE s == lists[c]
           m == Len(s)
           R(k) == {s[j] : j \in {i \in 1 .. m : i <= k + 1}}
           Step(g) == [k \in 0 .. Region |->
                          IF k = 0 THEN {free_list[c]} \ {NULL, Lost}
                          ELSE g[k - 1] \cup ({link[a] : a \in g[k - 1]} \ {NULL, Lost})]
           sol == [k \in 0 .. Region |-> R(k)]
<1>1. /\ s \in Seq(Words) /\ m \in Nat /\ NoneTwice(s) /\ free_list[c] = Place(s, 1)
      /\ \A i \in 1 .. m : link[s[i]] = Place(s, i + 1)
      /\ \A i \in 1 .. m : s[i] \in Nat \ {0}
  BY Sizes DEF Linked, Words
<1>2. m <= Region /\ Region \in Nat
  <2>1. Region \in Nat
    BY Sizes
  <2>2. IsFiniteSet(Words) /\ Cardinality(Words) = Region
    BY <2>1, FS_Interval DEF Words
  <2> HIDE DEF s
  <2>3. Len(s) <= Cardinality(Words)
    BY <2>2, <1>1, InjectiveSeqBounded DEF NoneTwice
  <2> QED BY <2>1, <2>2, <2>3
<1> HIDE DEF s
<1>3. R(0) = {free_list[c]} \ {NULL, Lost}
  BY <1>1 DEF Place, NULL, Lost
<1>4. ASSUME NEW k \in Nat \ {0}
      PROVE  R(k) = R(k - 1) \cup ({link[a] : a \in R(k - 1)} \ {NULL, Lost})
  <2>1. ASSUME NEW x \in R(k) PROVE x \in R(k - 1) \cup ({link[a] : a \in R(k - 1)} \ {NULL, Lost})
    <3>1. PICK j \in 1 .. m : j <= k + 1 /\ x = s[j]
      OBVIOUS
    <3>2. CASE j <= k
      BY <3>1, <3>2
    <3>3. CASE j = k + 1
      <4>1. k \in 1 .. m /\ s[k] \in R(k - 1)
        BY <3>1, <3>3, <1>1
      <4>2. link[s[k]] = x /\ x \notin {NULL, Lost}
        BY <4>1, <3>1, <3>3, <1>1 DEF Place, NULL, Lost
      <4> QED BY <4>1, <4>2
    <3> QED BY <1>1, <3>1, <3>2, <3>3
  <2>2. R(k - 1) \subseteq R(k)
    <3> SUFFICES ASSUME NEW j \in {i \in 1 .. m : i <= (k - 1) + 1} PROVE j \in {i \in 1 .. m : i <= k + 1}
      OBVIOUS
    <3>1. j <= (k - 1) + 1 => j <= k + 1
      BY <1>1
    <3> QED BY <3>1
  <2>3. ASSUME NEW a \in R(k - 1), link[a] \notin {NULL, Lost} PROVE link[a] \in R(k)
    <3>1. PICK j \in 1 .. m : j <= k /\ a = s[j]
      OBVIOUS
    <3>2. link[a] = Place(s, j + 1)
      BY <3>1, <1>1
    <3>3. j + 1 \in 1 .. m /\ link[a] = s[j + 1]
      BY <3>1, <3>2, <2>3 DEF Place, NULL
    <3>4. j + 1 <= k + 1
      BY <3>1
    <3> HIDE DEF m
    <3> QED BY <3>3, <3>4
  <2> HIDE DEF R
  <2> QED BY <2>1, <2>2, <2>3
<1> HIDE DEF R
<1>5. sol = Step(sol)
  <2> SUFFICES ASSUME NEW k \in 0 .. Region PROVE sol[k] = Step(sol)[k]
    OBVIOUS
  <2>1. CASE k = 0
    BY <2>1, <1>3
  <2>2. CASE k # 0
    <3>1. k - 1 \in 0 .. Region /\ k \in Nat \ {0}
      BY <2>2, <1>2
    <3> QED BY <3>1, <2>2, <1>4
  <2> QED BY <2>1, <2>2
<1>6. ASSUME NEW g, g = Step(g) PROVE g = sol
  <2> DEFINE T == {k \in Nat : k \in 0 .. Region => g[k] = sol[k]}
  <2>1. \A k \in 0 .. Region : g[k] = Step(g)[k] /\ DOMAIN g = 0 .. Region
    BY <1>6
  <2>2. 0 \in T
    BY <2>1, <1>2, <1>3
  <2>3. ASSUME NEW k \in T PROVE k + 1 \in T
    <3> SUFFICES ASSUME k + 1 \in 0 .. Region PROVE g[k + 1] = sol[k + 1]
      OBVIOUS
    <3>1. k \in 0 .. Region /\ g[k] = sol[k] /\ k + 1 # 0 /\ (k + 1) - 1 = k /\ k \in Nat
      BY <1>2, <2>3
    <3>2. g[k + 1] = g[k] \cup ({link[a] : a \in g[k]} \ {NULL, Lost})
      BY <2>1, <3>1
    <3>3. sol[k + 1] = sol[k] \cup ({link[a] : a \in sol[k]} \ {NULL, Lost})
      BY <1>5, <3>1
    <3> HIDE DEF sol
    <3> QED BY <3>1, <3>2, <3>3
  <2> HIDE DEF T
  <2>4. T = Nat
    BY <2>2, <2>3, Induction DEF T
  <2> HIDE DEF sol, Step
  <2>5. ASSUME NEW k \in 0 .. Region PROVE g[k] = sol[k]
    <3>1. k \in T
      BY <2>4, <1>2
    <3> QED BY <3>1 DEF T
  <2>6. g = [k \in 0 .. Region |-> g[k]]
    BY <1>6 DEF Step
  <2> QED BY <2>5, <2>6 DEF sol
<1>7. sol = CHOOSE g : g = Step(g)
  <2> HIDE DEF sol, Step
  <2> QED BY <1>5, <1>6
<1>8. Listed(c) = {[at |-> a, words |-> c] : a \in (CHOOSE g : g = Step(g))[Region]}
  BY DEF Listed
<1>9. sol[Region] = {s[i] : i \in 1 .. m}
  BY <1>1, <1>2 DEF R
<1>10. Listed(c) = {[at |-> a, words |-> c] : a \in {s[i] : i \in 1 .. m}}
  <2> HIDE DEF Step, sol
  <2> QED BY <1>7, <1>8, <1>9
<1> HIDE DEF Step, sol
<1> QED BY <1>10 DEF ListOf, s

(* The lists of the invariant are the free chunks of the pool.             *)
LEMMA FreeIsOnLists ==
    ASSUME RequestsListed, TypeOK, NEW lists, Linked(lists)
    PROVE  Free = OnLists(lists)
BY ListedIsList DEF Free, OnLists

(* The invariant says that no word is lost or in two chunks.               *)
LEMMA NothingLostHolds ==
    ASSUME RequestsListed, TypeOK, PoolInv
    PROVE  NothingLostOrShared
<1> SUFFICES ASSUME ~recycled, NEW lists, Sound(lists)
             PROVE  /\ \A x \in Held : live[x] = 1
                    /\ Held \cap Free = {}
                    /\ \A x, y \in Held \cup Free : x # y => Cells(x) \cap Cells(y) = {}
                    /\ UNION {Cells(x) : x \in Held \cup Free} = 1 .. start_free - 1
  BY DEF PoolInv, NothingLostOrShared
<1>1. Free = OnLists(lists)
  BY FreeIsOnLists DEF Sound
<1> QED BY <1>1 DEF Sound, Tiles, Covered

(* The chunks of the region that were cut are held by one caller or listed *)
(* once, and fill what was cut, until a rest is recycled.                  *)
THEOREM NothingLost == RequestsListed => (Spec => []NothingLostOrShared)
<1> SUFFICES ASSUME RequestsListed PROVE Spec => []NothingLostOrShared
  OBVIOUS
<1>1. Init => TypeOK /\ PoolInv
  BY Initially, InitiallySound
<1>2. TypeOK /\ PoolInv /\ [Next]_vars => (TypeOK /\ PoolInv)'
  BY NextTyped, StepSound
<1>3. TypeOK /\ PoolInv => NothingLostOrShared
  BY NothingLostHolds
<1> QED BY <1>1, <1>2, <1>3, PTL DEF Spec

(* When each chunk is held once and no two meet, each block is held once.  *)
LEMMA SingleBlocks ==
    ASSUME NEW H, NEW L, \A x \in H : L[x] = 1,
           \A x, y \in H : x # y => Cells(x) # Cells(y)
    PROVE  [block \in {Cells(x) : x \in H} |->
               BagCardinality([x \in {y \in H : Cells(y) = block} |-> L[x]])]
           = [block \in {Cells(x) : x \in H} |-> 1]
<1> SUFFICES ASSUME NEW z \in H
             PROVE  BagCardinality([x \in {y \in H : Cells(y) = Cells(z)} |-> L[x]]) = 1
  OBVIOUS
<1> DEFINE f == [x \in {z} |-> L[x]]
<1>1. {y \in H : Cells(y) = Cells(z)} = {z}
  OBVIOUS
<1>2. DOMAIN f = {z} /\ \A x \in DOMAIN f : f[x] = 1
  OBVIOUS
<1>3. IsFiniteSet({z}) /\ Cardinality({z}) = 1
  BY FS_Singleton
<1>4. BagCardinality(f) = 1
  <2> HIDE DEF f
  <2> QED BY <1>2, <1>3, BagOfSingles
<1> QED BY <1>1, <1>4

(* What the invariant says of a state in which no rest was recycled.       *)
Apart ==
    /\ \A x \in Held : live[x] = 1
    /\ \A x \in Held : Cells(x) # {} /\ Cells(x) \subseteq Words
    /\ \A x, y \in Held : x # y => Cells(x) \cap Cells(y) = {}

(* By the invariant, what callers hold is apart until memory was recycled. *)
LEMMA HeldApart == ASSUME RequestsListed PROVE TypeOK /\ PoolInv => recycled \/ Apart
<1> SUFFICES ASSUME TypeOK, NEW lists, Sound(lists), NEW x \in Held
             PROVE  /\ live[x] = 1 /\ Cells(x) # {} /\ Cells(x) \subseteq Words
                    /\ \A y \in Held : x # y => Cells(x) \cap Cells(y) = {}
  BY DEF PoolInv, Apart
<1>1. Cells(x) # {}
  BY ChunkTyped DEF Sound
<1>2. Cells(x) \subseteq 1 .. start_free - 1
  BY DEF Sound, Tiles, Covered
<1>3. start_free \in 1 .. end_free /\ Region \in Nat
  BY Sizes DEF TypeOK
<1>4. Cells(x) \subseteq Words
  BY <1>2, <1>3 DEF Words, end_free
<1> QED BY <1>1, <1>4 DEF Sound, Tiles

(* Each block that is held is held once.                                   *)
LEMMA BlocksOf ==
    ASSUME RequestsListed
    PROVE  Apart => HeldBlocks = [block \in {Cells(x) : x \in Held} |-> 1]
<1> SUFFICES ASSUME Apart PROVE HeldBlocks = [block \in {Cells(x) : x \in Held} |-> 1]
  OBVIOUS
<1>1. \A x, y \in Held : x # y => Cells(x) # Cells(y)
  BY DEF Apart
<1>2. \A x \in Held : live[x] = 1
  BY DEF Apart
<1> QED BY <1>1, <1>2, SingleBlocks DEF HeldBlocks

(* A chunk that is handed out is an allocation.                            *)
LEMMA HandsOut ==
    ASSUME RequestsListed, IsABag(live), Apart, Apart', NEW chunk,
           live' = live (+) SetToBag({chunk}),
           HeldBlocks = [block \in {Cells(x) : x \in Held} |-> 1],
           HeldBlocks' = [block \in {Cells(x) : x \in Held'} |-> 1]
    PROVE  Alloc!Allocate
<1> DEFINE B == {Cells(x) : x \in Held}
           b == Cells(chunk)
<1>1. Held' = Held \cup {chunk}
  BY BagPlusOne DEF Held
<1>2. chunk \notin Held
  <2> SUFFICES ASSUME chunk \in Held PROVE FALSE
    OBVIOUS
  <2>1. live'[chunk] = live[chunk] + 1
    BY BagPlusOne DEF Held
  <2> QED BY <2>1, <1>1 DEF Apart
<1>3. b # {} /\ b \subseteq Words /\ \A x \in Held : Cells(x) \cap b = {}
  BY <1>1, <1>2 DEF Apart
<1> HIDE DEF b
<1>4. {Cells(x) : x \in Held'} = B \cup {b} /\ b \notin B
  BY <1>1, <1>3 DEF b
<1> HIDE DEF B
<1>5. Alloc!BagToSet(HeldBlocks') = B \cup {b} /\ Alloc!BagToSet(HeldBlocks) = B
  BY <1>4 DEF Alloc!BagToSet, B
<1>6. HeldBlocks' = Alloc!(+)(HeldBlocks, Alloc!SetToBag({b}))
  <2>1. HeldBlocks' = [x \in B \cup {b} |-> 1] /\ HeldBlocks = [x \in B |-> 1]
    BY <1>4 DEF B
  <2> QED BY <2>1, <1>4 DEF Alloc!(+), Alloc!SetToBag
<1>7. b \cap UNION B = {}
  BY <1>3 DEF B
<1> QED BY <1>3, <1>5, <1>6, <1>7 DEF Alloc!Allocate

(* A chunk that is given back is released.                                 *)
LEMMA GivesBack ==
    ASSUME RequestsListed, IsABag(live), Apart, NEW chunk \in Held,
           live' = live (-) SetToBag({chunk}),
           HeldBlocks = [block \in {Cells(x) : x \in Held} |-> 1],
           HeldBlocks' = [block \in {Cells(x) : x \in Held'} |-> 1]
    PROVE  Alloc!Release
<1> DEFINE B == {Cells(x) : x \in Held}
           b == Cells(chunk)
<1>1. Held' = Held \ {chunk}
  BY BagMinusOne DEF Held, Apart
<1>2. \A x \in Held : x # chunk => Cells(x) # b
  BY DEF Apart
<1> HIDE DEF b
<1>3. {Cells(x) : x \in Held'} = B \ {b} /\ b \in B
  BY <1>1, <1>2 DEF b
<1> HIDE DEF B
<1>4. Alloc!BagToSet(HeldBlocks) = B
  BY DEF Alloc!BagToSet, B
<1>5. HeldBlocks' = Alloc!(-)(HeldBlocks, Alloc!SetToBag({b}))
  <2>1. HeldBlocks' = [x \in B \ {b} |-> 1] /\ HeldBlocks = [x \in B |-> 1]
    BY <1>3 DEF B
  <2> DEFINE g == [x \in B |-> IF x = b THEN 0 ELSE 1]
  <2>2. {x \in B : g[x] > 0} = B \ {b} /\ \A x \in B \ {b} : g[x] = 1
    OBVIOUS
  <2>3. Alloc!(-)([x \in B |-> 1], Alloc!SetToBag({b})) = [x \in {y \in B : g[y] > 0} |-> g[x]]
    BY DEF Alloc!(-), Alloc!SetToBag
  <2> HIDE DEF g
  <2>4. [x \in {y \in B : g[y] > 0} |-> g[x]] = [x \in B \ {b} |-> 1]
    BY <2>2
  <2> QED BY <2>1, <2>3, <2>4
<1> QED BY <1>3, <1>4, <1>5 DEF Alloc!Release

(* Each step of the pool is a step of the allocator, or leaves what is     *)
(* held as it was.                                                         *)
LEMMA StepAllocates ==
    ASSUME RequestsListed, TypeOK, TypeOK', PoolInv, PoolInv', [Next]_vars,
           recycled \/ Apart, (recycled \/ Apart)',
           Apart => HeldBlocks = [block \in {Cells(x) : x \in Held} |-> 1],
           (Apart => HeldBlocks = [block \in {Cells(x) : x \in Held} |-> 1])'
    PROVE  recycled \/ Alloc!Next \/ UNCHANGED HeldBlocks
<1> SUFFICES ASSUME ~recycled PROVE Alloc!Next \/ UNCHANGED HeldBlocks
  OBVIOUS
<1>1. IsABag(live) /\ Apart
  BY DEF TypeOK
<1>2. CASE UNCHANGED live
  BY <1>2 DEF HeldBlocks, Held
<1>3. ASSUME NEW a, NEW c, NEW chain, Give(a, c, chain), UNCHANGED recycled
      PROVE  Alloc!Next
  <2> DEFINE chunk == [at |-> a, words |-> c]
  <2>1. live' = live (+) SetToBag({chunk}) /\ Apart'
    BY <1>3 DEF Give
  <2> HIDE DEF chunk
  <2> QED BY <2>1, <1>1, HandsOut DEF Alloc!Next
<1>4. ASSUME NEW chunk \in Held, ShareDeAllocate(chunk) PROVE Alloc!Next
  <2>1. live' = live (-) SetToBag({chunk}) /\ Apart'
    BY <1>4 DEF ShareDeAllocate
  <2> QED BY <2>1, <1>1, GivesBack DEF Alloc!Next
<1>5. CASE Next
  <2>1. ASSUME NEW n \in Requests, Pop(n) PROVE Alloc!Next
    BY <2>1, <1>3 DEF Pop
  <2>2. ASSUME NEW n \in Requests, Carve(n) PROVE Alloc!Next
    BY <2>2, <1>3 DEF Carve
  <2>3. ASSUME NEW n \in Requests, Recycle(n) PROVE UNCHANGED live
    BY <2>3 DEF Recycle
  <2> QED BY <1>2, <1>4, <1>5, <2>1, <2>2, <2>3 DEF Next, ShareAllocate
<1> QED BY <1>2, <1>5 DEF vars

(* Until a rest is recycled the pool implements the allocator: what it     *)
(* hands out is in the region and overlaps nothing that is held.           *)
THEOREM ServesAsAllocator == RequestsListed => (Spec => ServesUntilRecycled)
<1> SUFFICES ASSUME RequestsListed PROVE Spec => ServesUntilRecycled
  OBVIOUS
<1>1. Init => TypeOK /\ PoolInv /\ Alloc!Init
  <2> SUFFICES ASSUME Init PROVE Alloc!Init
    BY Initially, InitiallySound
  <2>1. Held = {}
    BY BagOfNone DEF Init, Held
  <2>2. HeldBlocks = [block \in {} |-> 1]
    BY <2>1, SingleBlocks DEF HeldBlocks
  <2> QED BY <2>2 DEF Alloc!Init, Alloc!EmptyBag, Alloc!SetToBag
<1>2. TypeOK /\ PoolInv /\ [Next]_vars => (TypeOK /\ PoolInv)'
  BY NextTyped, StepSound
<1> DEFINE A == recycled \/ Apart
           B == Apart => HeldBlocks = [block \in {Cells(x) : x \in Held} |-> 1]
<1>3. TypeOK /\ PoolInv => A /\ B
  BY HeldApart, BlocksOf
<1>4. TypeOK /\ TypeOK' /\ PoolInv /\ PoolInv' /\ A /\ A' /\ B /\ B' /\ [Next]_vars
          => [recycled \/ Alloc!Next]_HeldBlocks
  BY StepAllocates
<1> HIDE DEF A, B
<1> QED BY <1>1, <1>2, <1>3, <1>4, PTL DEF Spec, ServesUntilRecycled

-----------------------------------------------------------------------------
(***************************************************************************)
(* The heap pool, the dbuf pool, and the three together.                   *)
(***************************************************************************)
(* A block never has as many pieces as its 16-bit count can tell           *)
(* (mempool.c:11, 197).                                                    *)
CountsFit == DbufMaxHeld < 2 ^ (ShortBits - 1)

(* A bag of singles, with one more and with one less.                      *)
LEMMA BagGains ==
    ASSUME NEW B, IsABag(B), \A y \in BagToSet(B) : B[y] = 1,
           NEW x, x \notin BagToSet(B), NEW C, C = B (+) SetToBag({x})
    PROVE  /\ IsABag(C) /\ BagToSet(C) = BagToSet(B) \cup {x}
           /\ \A y \in BagToSet(C) : C[y] = 1
<1>1. IsABag(C) /\ BagToSet(C) = BagToSet(B) \cup {x}
  BY BagPlusOne
<1>2. ASSUME NEW y \in BagToSet(C) PROVE C[y] = 1
  BY <1>1, <1>2 DEF IsABag, (+), SetToBag, BagToSet
<1> QED BY <1>1, <1>2

(* A bag of singles that loses one.                                        *)
LEMMA BagLoses ==
    ASSUME NEW B, IsABag(B), \A y \in BagToSet(B) : B[y] = 1,
           NEW x, NEW C, C = B (-) SetToBag({x})
    PROVE  /\ IsABag(C) /\ BagToSet(C) = BagToSet(B) \ {x}
           /\ \A y \in BagToSet(C) : C[y] = 1
<1>1. BagToSet(C) = BagToSet(B) \ {x}
  BY DEF IsABag, (-), SetToBag, BagToSet
<1>2. ASSUME NEW y \in BagToSet(C) PROVE C[y] = 1
  BY <1>1, <1>2 DEF IsABag, (-), SetToBag, BagToSet
<1>3. IsABag(C)
  BY <1>1, <1>2 DEF IsABag, (-), SetToBag, BagToSet
<1> QED BY <1>1, <1>2, <1>3

(* The operators the dbuf pool takes from the library are the library's.   *)
LEMMA DbufBags ==
    /\ Dbuf!EmptyBag = EmptyBag
    /\ \A B : Dbuf!BagToSet(B) = BagToSet(B) /\ (Dbuf!IsABag(B) <=> IsABag(B))
    /\ \A S : Dbuf!SetToBag(S) = SetToBag(S)
    /\ \A S : Dbuf!Cardinality(S) = Cardinality(S)
<1>1. \A S : Dbuf!SetToBag(S) = SetToBag(S)
  BY DEF Dbuf!SetToBag, SetToBag
<1>2. \A B : Dbuf!BagToSet(B) = BagToSet(B) /\ (Dbuf!IsABag(B) <=> IsABag(B))
  BY DEF Dbuf!BagToSet, BagToSet, Dbuf!IsABag, IsABag
<1>3. \A S : Dbuf!Cardinality(S) = Cardinality(S)
  BY DEF Dbuf!Cardinality, Cardinality
<1> QED BY <1>1, <1>2, <1>3 DEF Dbuf!EmptyBag, EmptyBag

(* How DbufPool counts a bag is the library's way.                         *)
LEMMA DbufCounts == \A B : Dbuf!BagCardinality(B) = BagCardinality(B)
BY DEF Dbuf!BagCardinality, BagCardinality

(* How DbufPool sums is the library's way.                                 *)
LEMMA DbufSums == \A F, S : Dbuf!MapThenSumSet(LAMBDA b : F[b], S) = SumOver(F, S)
BY DEF Dbuf!MapThenSumSet, SumOver, MapThenSumSet, Dbuf!MapThenFoldSet, MapThenFoldSet

(* The sum of bags that DbufPool takes from the library.                   *)
LEMMA DbufAdds == \A B, C : Dbuf!(+)(B, C) = B (+) C
BY DEF Dbuf!(+), (+)

(* The difference of bags that DbufPool takes from the library.            *)
LEMMA DbufTakes == \A B, C : Dbuf!(-)(B, C) = B (-) C
BY DEF Dbuf!(-), (-)

(* What is held and what is linked, in the words of these proofs.          *)
LEMMA DbufParts ==
    /\ Dbuf!Held = BagToSet(d_live)
    /\ Dbuf!Linked = Elements(d_blocks)
BY DbufBags DEF Dbuf!Held, Dbuf!Linked, Elements

(* A count that fits the 16 bits is stored as it is.                       *)
LEMMA ShortKeeps ==
    ASSUME CountsFit, NEW n \in -1 .. DbufMaxHeld
    PROVE  Dbuf!Short(n) = n
<1> PICK top \in Nat \ {0} : top = 2 ^ (ShortBits - 1)
  BY DbufAssumption
<1>1. n + top \in 0 .. 2 * top - 1
  BY DbufAssumption DEF CountsFit
<1>2. (n + top) % (2 * top) = n + top
  BY <1>1
<1> QED BY <1>2 DEF Dbuf!Short

(* The sizes of blocks and pieces.                                         *)
LEMMA DbufSizes ==
    /\ Dbuf!block_size \in Nat \ {0}
    /\ \A n \in Nat : Dbuf!Rounded(n) \in Nat \ {0}
    /\ Dbuf!Largest \in Nat
    /\ Dbuf!block_size <= Dbuf!Largest
    /\ \A n \in DbufLengths : Dbuf!Rounded(n) <= Dbuf!Largest
    /\ First \in Dbuf!All /\ Dbufs \subseteq Dbuf!All
<1>1. Dbuf!block_size \in Nat \ {0}
  <2> DEFINE pages == (DbufRequested \div PageSize) * PageSize
  <2>1. pages \in Int
    <3>1. DbufRequested \div PageSize \in Int
      BY DbufAssumption
    <3> QED BY <3>1, DbufAssumption
  <2>2. Dbuf!block_size = (IF pages < PageSize THEN PageSize ELSE pages) - Overhead
    BY DEF Dbuf!block_size
  <2> HIDE DEF pages
  <2> QED BY <2>1, <2>2, DbufAssumption
<1>2. \A n \in Nat : Dbuf!Rounded(n) \in Nat \ {0}
  BY DEF Dbuf!Rounded
<1> DEFINE R == {Dbuf!Rounded(n) : n \in DbufLengths}
           S == {Dbuf!block_size} \cup R
<1>3. IsFiniteSet(S)
  <2> DEFINE f == [n \in DbufLengths |-> Dbuf!Rounded(n)]
  <2>1. f \in Surjection(DbufLengths, R)
    BY DEF Surjection
  <2> HIDE DEF f, R
  <2>2. IsFiniteSet(R)
    BY <2>1, FS_Surjection, DbufAssumption
  <2> QED BY <2>2, FS_AddElement
<1>4. S \in SUBSET Nat /\ S # {}
  BY <1>1, <1>2, DbufAssumption
<1>5. Dbuf!Largest = Max(S)
  BY DEF Dbuf!Largest, Dbuf!Max, Max
<1>6. Max(S) \in S /\ \A m \in S : m <= Max(S)
  <2> HIDE DEF S
  <2> QED BY <1>3, <1>4, FiniteMax
<1> QED BY <1>1, <1>2, <1>4, <1>5, <1>6 DEF Dbuf!All
-----------------------------------------------------------------------------
(* The dbuf pool.  What keeps a block from being freed under its pieces is *)
(* that its count is the number of pieces callers hold in it.              *)
DbufHeld == BagToSet(d_live)

PiecesOf(b) == {p \in DbufHeld : p.block = b}

DbufChain ==
    /\ d_blocks \in Seq(Dbuf!All)
    /\ ~d_destroyed => NoneTwice(d_blocks) /\ d_blocks # << >> /\ d_blocks[Len(d_blocks)] = First
    /\ d_destroyed => d_blocks = << >> /\ d_huge = 0 /\ DbufHeld = {}

DbufSized ==
    /\ d_size \in [Dbuf!All -> Nat] /\ d_fill \in [Dbuf!All -> Nat]
    /\ d_size[First] = Dbuf!block_size
    /\ \A b \in Elements(d_blocks) :
          d_fill[b] <= d_size[b] /\ Dbuf!block_size <= d_size[b] /\ d_size[b] <= Dbuf!Largest

DbufPieces ==
    /\ IsABag(d_live) /\ IsFiniteSet(DbufHeld) /\ Cardinality(DbufHeld) <= DbufMaxHeld
    /\ DbufHeld \subseteq [block : Dbuf!All, at : Nat, bytes : Nat \ {0}]
    /\ \A p \in DbufHeld :
          /\ d_live[p] = 1
          /\ p.block \in Elements(d_blocks)
          /\ p.at + p.bytes <= d_fill[p.block]
    /\ \A p, q \in DbufHeld :
          p # q /\ p.block = q.block => p.at + p.bytes <= q.at \/ q.at + q.bytes <= p.at

DbufCounted ==
    ~d_destroyed =>
        /\ \A b \in Elements(d_blocks) : d_used[b] = Cardinality(PiecesOf(b))
        /\ d_off = SumOver(d_fill, Elements(d_blocks))
        /\ d_huge = Cardinality({b \in Elements(d_blocks) : d_size[b] > Dbuf!block_size})

DbufRest ==
    /\ d_used \in [Dbuf!All -> Int] /\ d_off \in Nat /\ d_huge \in Nat
    /\ d_old = {} /\ d_destroyed \in BOOLEAN
    /\ d_answer \in [of : {"nothing", "held", "not held"}, value : -1 .. 1]

DbufInv == DbufChain /\ DbufSized /\ DbufPieces /\ DbufCounted /\ DbufRest

(* The pool is created with its own block, and nothing split off.          *)
LEMMA DbufInitially == ASSUME Dbuf!Init PROVE DbufInv
<1>1. /\ d_blocks = <<First>> /\ d_live = EmptyBag /\ d_off = 0 /\ d_huge = 0
      /\ d_used = [b \in Dbuf!All |-> 0] /\ d_size = [b \in Dbuf!All |-> Dbuf!block_size]
      /\ d_fill = [b \in Dbuf!All |-> 0] /\ d_old = {} /\ d_destroyed = FALSE
      /\ d_answer = [of |-> "nothing", value |-> 0]
  BY DbufBags DEF Dbuf!Init
<1>2. IsABag(d_live) /\ DbufHeld = {}
  BY <1>1, BagOfNone DEF DbufHeld
<1>3. Elements(d_blocks) = {First} /\ First \in Dbuf!All /\ d_blocks \in Seq(Dbuf!All)
  BY <1>1, DbufSizes DEF Elements
<1>4. IsFiniteSet({}) /\ Cardinality({}) = 0
  BY FS_EmptySet
<1>5. DbufChain
  BY <1>1, <1>3 DEF DbufChain, NoneTwice
<1>6. DbufSized
  BY <1>1, <1>3, DbufSizes DEF DbufSized
<1>7. DbufPieces
  BY <1>2, <1>4, DbufAssumption DEF DbufPieces
<1>8. DbufCounted
  <2>1. \A b : PiecesOf(b) = {}
    BY <1>2 DEF PiecesOf
  <2>2. {b \in Elements(d_blocks) : d_size[b] > Dbuf!block_size} = {}
    BY <1>1, <1>3, DbufSizes
  <2>3. SumOver(d_fill, {First}) = 0
    <3>1. \A y \in {} \cup {First} : d_fill[y] \in Nat
      BY <1>1, <1>3
    <3>2. SumOver(d_fill, {} \cup {First}) = d_fill[First] + SumOver(d_fill, {})
      BY <1>4, <3>1, SumAdded
    <3>3. {} \cup {First} = {First}
      OBVIOUS
    <3> QED BY <3>2, <3>3, <1>1, <1>3, SumOfNone
  <2> QED BY <1>1, <1>3, <1>4, <2>1, <2>2, <2>3 DEF DbufCounted
<1>9. DbufRest
  <2>1. d_used \in [Dbuf!All -> Int]
    BY <1>1
  <2>2. d_answer \in [of : {"nothing", "held", "not held"}, value : -1 .. 1]
    <3>1. 0 \in -1 .. 1
      OBVIOUS
    <3> QED BY <1>1, <3>1
  <2> QED BY <1>1, <2>1, <2>2 DEF DbufRest
<1> QED BY <1>5, <1>6, <1>7, <1>8, <1>9 DEF DbufInv

(* A piece that begins behind all others of its block is a new one.        *)
LEMMA DbufGainsPiece ==
    ASSUME DbufPieces, NEW b \in Dbuf!All, NEW length \in Nat \ {0}, NEW start \in Nat,
           BagCardinality(d_live) < DbufMaxHeld, Dbuf!Split(b, length),
           d_fill' \in [Dbuf!All -> Nat], d_fill'[b] = start + length,
           \A c \in Elements(d_blocks) : c # b => d_fill'[c] = d_fill[c],
           \A p \in DbufHeld : p.block = b => p.at + p.bytes <= start,
           Elements(d_blocks) \cup {b} = Elements(d_blocks)'
    PROVE  /\ DbufPieces'
           /\ Cardinality(PiecesOf(b)) \in 0 .. DbufMaxHeld - 1
           /\ Cardinality(PiecesOf(b)') = Cardinality(PiecesOf(b)) + 1
           /\ \A c : c # b => PiecesOf(c)' = PiecesOf(c)
           /\ d_off' = d_off + length /\ d_old' = d_old \ {[block |-> b, at |-> start, bytes |-> length]}
<1> DEFINE piece == [block |-> b, at |-> start, bytes |-> length]
<1>1. d_fill'[b] - length = start
  OBVIOUS
<1>2. /\ d_live' = d_live (+) SetToBag({piece})
      /\ d_off' = d_off + length /\ d_old' = d_old \ {piece}
  BY <1>1, DbufBags, DbufAdds DEF Dbuf!Split
<1>3. piece \notin DbufHeld
  OBVIOUS
<1>4. /\ piece.block = b /\ piece.at = start /\ piece.bytes = length
      /\ piece \in [block : Dbuf!All, at : Nat, bytes : Nat \ {0}]
  OBVIOUS
<1> HIDE DEF piece
<1>5. IsABag(d_live) /\ \A p \in DbufHeld : d_live[p] = 1
  BY DEF DbufPieces
<1>6. /\ IsABag(d_live') /\ DbufHeld' = DbufHeld \cup {piece}
      /\ \A p \in DbufHeld' : d_live'[p] = 1
  BY <1>2, <1>3, <1>5, BagGains DEF DbufHeld
<1>7. IsFiniteSet(DbufHeld) /\ Cardinality(DbufHeld) \in Nat
  BY FS_CardinalityType DEF DbufPieces
<1>8. Cardinality(DbufHeld) < DbufMaxHeld
  <2>1. DOMAIN d_live = DbufHeld
    BY DEF DbufHeld, BagToSet
  <2> QED BY <2>1, <1>5, <1>7, BagOfSingles
<1>9. IsFiniteSet(DbufHeld') /\ Cardinality(DbufHeld') <= DbufMaxHeld
  <2>1. IsFiniteSet(DbufHeld \cup {piece})
        /\ Cardinality(DbufHeld \cup {piece}) = Cardinality(DbufHeld) + 1
    BY <1>3, <1>7, FS_AddElement
  <2> QED BY <1>6, <1>7, <1>8, <2>1, DbufAssumption
<1>10. ASSUME NEW p \in DbufHeld'
       PROVE  p.block \in Elements(d_blocks)' /\ p.at + p.bytes <= d_fill'[p.block]
  <2>1. CASE p = piece
    BY <2>1, <1>4
  <2>2. CASE p \in DbufHeld /\ p.block # b
    BY <2>2 DEF DbufPieces
  <2>3. CASE p \in DbufHeld /\ p.block = b
    BY <2>3 DEF DbufPieces
  <2> QED BY <2>1, <2>2, <2>3, <1>6
<1>11. ASSUME NEW p \in DbufHeld', NEW q \in DbufHeld', p # q, p.block = q.block
       PROVE  p.at + p.bytes <= q.at \/ q.at + q.bytes <= p.at
  BY <1>4, <1>6, <1>11 DEF DbufPieces
<1>12. DbufHeld' \subseteq [block : Dbuf!All, at : Nat, bytes : Nat \ {0}]
  BY <1>4, <1>6 DEF DbufPieces
<1>13. DbufPieces'
  BY <1>6, <1>9, <1>10, <1>11, <1>12 DEF DbufPieces
<1>14. PiecesOf(b)' = PiecesOf(b) \cup {piece} /\ \A c : c # b => PiecesOf(c)' = PiecesOf(c)
  BY <1>4, <1>6 DEF PiecesOf
<1>15. IsFiniteSet(PiecesOf(b)) /\ piece \notin PiecesOf(b)
  BY <1>3, <1>7, FS_Subset DEF PiecesOf
<1>16. Cardinality(PiecesOf(b)) \in 0 .. DbufMaxHeld - 1
  <2>1. PiecesOf(b) \subseteq DbufHeld
    BY DEF PiecesOf
  <2>2. Cardinality(PiecesOf(b)) <= Cardinality(DbufHeld) /\ Cardinality(PiecesOf(b)) \in Nat
    BY <2>1, <1>7, <1>15, FS_Subset, FS_CardinalityType
  <2> QED BY <2>2, <1>7, <1>8, DbufAssumption
<1>17. Cardinality(PiecesOf(b) \cup {piece}) = Cardinality(PiecesOf(b)) + 1
  BY <1>15, FS_AddElement
<1> QED BY <1>2, <1>13, <1>14, <1>16, <1>17 DEF piece

(* The counts of a block and its pieces fit.                               *)
LEMMA PiecesCount ==
    ASSUME DbufPieces, NEW b
    PROVE  /\ IsFiniteSet(PiecesOf(b)) /\ Cardinality(PiecesOf(b)) \in 0 .. DbufMaxHeld
           /\ PiecesOf(b) # {} => Cardinality(PiecesOf(b)) > 0
<1>1. IsFiniteSet(DbufHeld) /\ Cardinality(DbufHeld) <= DbufMaxHeld /\ PiecesOf(b) \subseteq DbufHeld
  BY DEF DbufPieces, PiecesOf
<1> QED BY <1>1, FS_Subset, FS_CardinalityType, FS_EmptySet, DbufAssumption

(* From the head of the list.                                              *)
LEMMA DbufSplitHead ==
    ASSUME CountsFit, DbufInv, ~d_destroyed, BagCardinality(d_live) < DbufMaxHeld,
           NEW n \in DbufLengths, Dbuf!SplitHead(n), d_destroyed' = d_destroyed
    PROVE  DbufInv'
<1> DEFINE length == Dbuf!Rounded(n)
<1> PICK b : b = Head(d_blocks)
  OBVIOUS
<1>1. length \in Nat \ {0} /\ length <= Dbuf!block_size /\ Dbuf!block_size \in Nat
  BY DbufSizes, DbufAssumption DEF Dbuf!SplitHead
<1> HIDE DEF length
<1>2. /\ d_blocks \in Seq(Dbuf!All) /\ NoneTwice(d_blocks) /\ d_blocks # << >>
      /\ d_blocks[Len(d_blocks)] = First
  BY DEF DbufInv, DbufChain
<1>3. b = d_blocks[1] /\ b \in Elements(d_blocks) /\ b \in Dbuf!All
      /\ Elements(d_blocks) \subseteq Dbuf!All
  BY <1>2 DEF Elements
<1>4. /\ d_fill[b] + length <= Dbuf!block_size
      /\ d_fill' = [d_fill EXCEPT ![b] = @ + length]
      /\ d_used' = [d_used EXCEPT ![b] = Dbuf!Short(@ + 1)]
      /\ Dbuf!Split(b, length)
      /\ UNCHANGED <<d_blocks, d_size, d_huge, d_answer>>
  BY <1>2 DEF Dbuf!SplitHead, Dbuf!HasRoom, length
<1>5. d_fill \in [Dbuf!All -> Nat] /\ d_size \in [Dbuf!All -> Nat]
  BY DEF DbufInv, DbufSized
<1> PICK start \in Nat : start = d_fill[b]
  BY <1>3, <1>5
<1>6. d_fill' \in [Dbuf!All -> Nat] /\ d_fill'[b] = start + length
      /\ \A c \in Dbuf!All : c # b => d_fill'[c] = d_fill[c]
  BY <1>1, <1>3, <1>4, <1>5
<1>7. \A p \in DbufHeld : p.block = b => p.at + p.bytes <= start
  BY DEF DbufInv, DbufPieces
<1>8. DbufPieces
  BY DEF DbufInv
<1>9. Elements(d_blocks) \cup {b} = Elements(d_blocks)'
  BY <1>3, <1>4
<1>10. /\ DbufPieces'
       /\ Cardinality(PiecesOf(b)) \in 0 .. DbufMaxHeld - 1
       /\ Cardinality(PiecesOf(b)') = Cardinality(PiecesOf(b)) + 1
       /\ \A c : c # b => PiecesOf(c)' = PiecesOf(c)
       /\ d_off' = d_off + length
       /\ d_old' = d_old \ {[block |-> b, at |-> start, bytes |-> length]}
  BY <1>1, <1>3, <1>4, <1>6, <1>7, <1>8, <1>9, DbufGainsPiece
<1>11. DbufChain'
  BY <1>4 DEF DbufInv, DbufChain
<1>12. DbufSized'
  BY <1>1, <1>3, <1>4, <1>5, <1>6 DEF DbufInv, DbufSized
<1>13. DbufCounted'
  <2>1. ~d_destroyed'
    OBVIOUS
  <2>2. /\ \A c \in Elements(d_blocks) : d_used[c] = Cardinality(PiecesOf(c))
        /\ d_off = SumOver(d_fill, Elements(d_blocks))
        /\ d_huge = Cardinality({c \in Elements(d_blocks) : d_size[c] > Dbuf!block_size})
        /\ d_used \in [Dbuf!All -> Int]
    BY DEF DbufInv, DbufCounted, DbufRest
  <2>3. Cardinality(PiecesOf(b)) \in Nat /\ Cardinality(PiecesOf(b)) + 1 <= DbufMaxHeld
    BY <1>10, DbufAssumption
  <2>4. d_used'[b] = Cardinality(PiecesOf(b)')
    <3>1. d_used'[b] = Dbuf!Short(d_used[b] + 1)
      BY <1>3, <1>4, <2>2
    <3>2. d_used[b] = Cardinality(PiecesOf(b))
      BY <1>3, <2>2
    <3>3. d_used[b] + 1 \in -1 .. DbufMaxHeld
      BY <2>3, <3>2, DbufAssumption
    <3> QED BY <3>1, <3>2, <3>3, <1>10, ShortKeeps
  <2>5. \A c \in Elements(d_blocks)' : d_used'[c] = Cardinality(PiecesOf(c)')
    BY <1>3, <1>4, <1>10, <2>2, <2>4
  <2>6. d_off' = SumOver(d_fill', Elements(d_blocks)')
    <3> PICK rest : rest = Elements(d_blocks) \ {b}
      OBVIOUS
    <3>1. IsFiniteSet(rest) /\ b \notin rest /\ rest \cup {b} = Elements(d_blocks)
      BY <1>2, <1>3, ElementsFinite, FS_Subset
    <3>2. \A c \in rest \cup {b} : d_fill[c] \in Nat /\ d_fill'[c] \in Nat
      BY <1>3, <1>5, <1>6, <3>1
    <3>3. SumOver(d_fill, rest) \in Nat /\ SumOver(d_fill, rest \cup {b}) = d_fill[b] + SumOver(d_fill, rest)
      BY <3>1, <3>2, SumAdded
    <3>4. SumOver(d_fill', rest \cup {b}) = d_fill'[b] + SumOver(d_fill', rest)
      BY <3>1, <3>2, SumAdded
    <3>5. SumOver(d_fill, rest) = SumOver(d_fill', rest)
      <4>1. \A c \in rest : d_fill[c] \in Nat /\ d_fill[c] = d_fill'[c]
        BY <1>3, <1>6, <3>1, <3>2
      <4> QED BY <3>1, <4>1, SumSame
    <3>6. Elements(d_blocks)' = rest \cup {b} /\ d_off = SumOver(d_fill, rest \cup {b})
      BY <3>1, <1>4, <2>2
    <3>7. SumOver(d_fill', rest \cup {b}) = (start + length) + SumOver(d_fill, rest)
      BY <3>4, <3>5, <1>6
    <3>8. SumOver(d_fill', rest \cup {b}) = d_off + length
      BY <3>3, <3>6, <3>7, <1>1
    <3> QED BY <3>6, <3>8, <1>10
  <2>7. d_huge' = Cardinality({c \in Elements(d_blocks)' : d_size'[c] > Dbuf!block_size})
    BY <1>4, <2>2
  <2> QED BY <2>5, <2>6, <2>7 DEF DbufCounted
<1>14. DbufRest'
  <2>1. d_used \in [Dbuf!All -> Int] /\ d_off \in Nat /\ d_old = {}
    BY DEF DbufInv, DbufRest
  <2>2. d_used' \in [Dbuf!All -> Int]
    <3>1. \A m \in Int : Dbuf!Short(m) \in Int
      <4>1. TAKE m \in Int
      <4> PICK top \in Nat \ {0} : top = 2 ^ (ShortBits - 1)
        BY DbufAssumption
      <4>2. (m + top) % (2 * top) \in Int
        OBVIOUS
      <4> QED BY <4>2 DEF Dbuf!Short
    <3> QED BY <1>3, <1>4, <2>1, <3>1
  <2>3. d_off' \in Nat /\ d_old' = {}
    BY <1>1, <1>10, <2>1
  <2> QED BY <1>4, <2>2, <2>3 DEF DbufInv, DbufRest
<1> QED BY <1>10, <1>11, <1>12, <1>13, <1>14 DEF DbufInv

(* A short stays an integer.                                               *)
LEMMA ShortTyped == \A m \in Int : Dbuf!Short(m) \in Int
<1> TAKE m \in Int
<1> PICK top \in Nat \ {0} : top = 2 ^ (ShortBits - 1)
  BY DbufAssumption
<1>1. (m + top) % (2 * top) \in Int
  OBVIOUS
<1> QED BY <1>1 DEF Dbuf!Short

(* A new block before the list: the blocks, and the first and the last of  *)
(* them.                                                                   *)
LEMMA DbufPutBefore ==
    ASSUME d_blocks \in Seq(Dbuf!All), NoneTwice(d_blocks), d_blocks # << >>,
           NEW b \in Dbuf!All, b \notin Elements(d_blocks), d_blocks' = <<b>> \o d_blocks
    PROVE  /\ d_blocks' \in Seq(Dbuf!All) /\ d_blocks' # << >> /\ NoneTwice(d_blocks')
           /\ Elements(d_blocks') = Elements(d_blocks) \cup {b}
           /\ d_blocks'[Len(d_blocks')] = d_blocks[Len(d_blocks)]
<1> PICK t : t = Prefixed(b, d_blocks)
  OBVIOUS
<1>1. /\ t \in Seq(Dbuf!All) /\ t # << >> /\ NoneTwice(t)
      /\ Elements(t) = Elements(d_blocks) \cup {b}
      /\ d_blocks # << >> => t[Len(t)] = d_blocks[Len(d_blocks)]
  BY PutBefore
<1> QED BY <1>1 DEF Prefixed

(* From a block of its own, put in front.                                  *)
LEMMA DbufSplitNew ==
    ASSUME CountsFit, DbufInv, ~d_destroyed, BagCardinality(d_live) < DbufMaxHeld,
           NEW n \in DbufLengths, Dbuf!SplitNew(n), d_destroyed' = d_destroyed
    PROVE  DbufInv'
<1> DEFINE length == Dbuf!Rounded(n)
           bytes == IF length > Dbuf!block_size THEN length ELSE Dbuf!block_size
<1> PICK b \in Dbufs \ Elements(d_blocks) :
        /\ d_blocks' = <<b>> \o d_blocks
        /\ d_size' = [d_size EXCEPT ![b] = bytes]
        /\ d_fill' = [d_fill EXCEPT ![b] = length]
        /\ d_used' = [d_used EXCEPT ![b] = Dbuf!Short(1)]
        /\ Dbuf!Split(b, length)
  BY DbufParts DEF Dbuf!SplitNew
<1>1. /\ d_huge' = IF length > Dbuf!block_size THEN d_huge + 1 ELSE d_huge
      /\ d_answer' = d_answer
  BY DEF Dbuf!SplitNew
<1>2. /\ length \in Nat \ {0} /\ Dbuf!block_size \in Nat /\ Dbuf!Largest \in Nat
      /\ length <= Dbuf!Largest /\ Dbuf!block_size <= Dbuf!Largest
      /\ b \in Dbuf!All /\ b # First
  BY DbufSizes, DbufAssumption
<1> HIDE DEF length
<1>3. bytes \in Nat /\ bytes <= Dbuf!Largest /\ length <= bytes /\ Dbuf!block_size <= bytes
      /\ (bytes > Dbuf!block_size <=> length > Dbuf!block_size)
  BY <1>2
<1> HIDE DEF bytes
<1>4. /\ d_blocks \in Seq(Dbuf!All) /\ NoneTwice(d_blocks) /\ d_blocks # << >>
      /\ d_blocks[Len(d_blocks)] = First
  BY DEF DbufInv, DbufChain
<1>5. /\ d_blocks' \in Seq(Dbuf!All) /\ d_blocks' # << >> /\ NoneTwice(d_blocks')
      /\ Elements(d_blocks') = Elements(d_blocks) \cup {b}
      /\ d_blocks'[Len(d_blocks')] = First
  BY <1>2, <1>4, DbufPutBefore
<1>6. Elements(d_blocks)' = Elements(d_blocks')
  BY DEF Elements
<1>7. Elements(d_blocks) \subseteq Dbuf!All /\ IsFiniteSet(Elements(d_blocks))
  <2>1. Elements(d_blocks) \subseteq Dbuf!All
    BY <1>4 DEF Elements
  <2> QED BY <2>1, <1>4, ElementsFinite
<1>8. d_fill \in [Dbuf!All -> Nat] /\ d_size \in [Dbuf!All -> Nat]
  BY DEF DbufInv, DbufSized
<1>9. /\ d_fill' \in [Dbuf!All -> Nat] /\ d_fill'[b] = 0 + length
      /\ \A c \in Dbuf!All : c # b => d_fill'[c] = d_fill[c]
      /\ d_size' \in [Dbuf!All -> Nat] /\ d_size'[b] = bytes
      /\ \A c \in Dbuf!All : c # b => d_size'[c] = d_size[c]
  BY <1>2, <1>3, <1>8
<1>10. DbufPieces /\ \A p \in DbufHeld : p.block # b
  BY DEF DbufInv, DbufPieces
<1>11. PiecesOf(b) = {}
  BY <1>10 DEF PiecesOf
<1>12. /\ DbufPieces'
       /\ Cardinality(PiecesOf(b)) \in 0 .. DbufMaxHeld - 1
       /\ Cardinality(PiecesOf(b)') = Cardinality(PiecesOf(b)) + 1
       /\ \A c : c # b => PiecesOf(c)' = PiecesOf(c)
       /\ d_off' = d_off + length
       /\ d_old' = d_old \ {[block |-> b, at |-> 0, bytes |-> length]}
  <2>1. 0 \in Nat /\ \A p \in DbufHeld : p.block = b => p.at + p.bytes <= 0
    BY <1>10
  <2>3. Elements(d_blocks) \cup {b} = Elements(d_blocks)'
    BY <1>5, <1>6
  <2>2. \A c \in Elements(d_blocks) : c # b => d_fill'[c] = d_fill[c]
    BY <1>7, <1>9
  <2> QED BY <1>2, <1>9, <1>10, <2>1, <2>2, <2>3, DbufGainsPiece
<1>13. DbufChain'
  BY <1>5 DEF DbufInv, DbufChain
<1>14. DbufSized'
  <2>1. d_size'[First] = Dbuf!block_size
    BY <1>2, <1>9, DbufSizes DEF DbufInv, DbufSized
  <2>2. ASSUME NEW c \in Elements(d_blocks)'
        PROVE  /\ d_fill'[c] <= d_size'[c] /\ Dbuf!block_size <= d_size'[c]
               /\ d_size'[c] <= Dbuf!Largest
    <3>1. CASE c = b
      BY <3>1, <1>2, <1>3, <1>9
    <3>2. CASE c # b
      BY <3>2, <1>5, <1>6, <1>7, <1>9 DEF DbufInv, DbufSized
    <3> QED BY <3>1, <3>2
  <2> QED BY <1>9, <2>1, <2>2 DEF DbufSized
<1>15. DbufCounted'
  <2>1. /\ \A c \in Elements(d_blocks) : d_used[c] = Cardinality(PiecesOf(c))
        /\ d_off = SumOver(d_fill, Elements(d_blocks))
        /\ d_huge = Cardinality({c \in Elements(d_blocks) : d_size[c] > Dbuf!block_size})
        /\ d_used \in [Dbuf!All -> Int]
    BY DEF DbufInv, DbufCounted, DbufRest
  <2>2. d_used'[b] = Cardinality(PiecesOf(b)')
    <3>1. 1 \in -1 .. DbufMaxHeld
      BY <1>12, DbufAssumption
    <3>2. d_used'[b] = 1
      BY <3>1, <1>2, <2>1, ShortKeeps
    <3>3. Cardinality(PiecesOf(b)) = 0
      BY <1>11, FS_EmptySet
    <3> QED BY <3>2, <3>3, <1>12
  <2>3. \A c \in Elements(d_blocks)' : d_used'[c] = Cardinality(PiecesOf(c)')
    BY <1>2, <1>5, <1>6, <1>7, <1>12, <2>1, <2>2
  <2>4. d_off' = SumOver(d_fill', Elements(d_blocks)')
    <3> PICK E : E = Elements(d_blocks)
      OBVIOUS
    <3>1. \A c \in E : d_fill[c] \in Nat /\ d_fill[c] = d_fill'[c]
      BY <1>7, <1>8, <1>9
    <3>2. SumOver(d_fill, E) = SumOver(d_fill', E)
      BY <1>7, <3>1, SumSame
    <3>3. \A c \in E \cup {b} : d_fill'[c] \in Nat
      BY <1>2, <1>7, <1>9
    <3>4. SumOver(d_fill', E) \in Nat /\ SumOver(d_fill', E \cup {b}) = d_fill'[b] + SumOver(d_fill', E)
      BY <1>7, <3>3, SumAdded
    <3>5. Elements(d_blocks)' = E \cup {b} /\ d_off = SumOver(d_fill, E)
      BY <1>5, <1>6, <2>1
    <3>6. SumOver(d_fill', E \cup {b}) = d_off + length
      BY <1>2, <1>9, <3>2, <3>4, <3>5
    <3> QED BY <1>12, <3>5, <3>6
  <2>5. d_huge' = Cardinality({c \in Elements(d_blocks)' : d_size'[c] > Dbuf!block_size})
    <3> PICK L : L = {c \in Elements(d_blocks) : d_size[c] > Dbuf!block_size}
      OBVIOUS
    <3> PICK M : M = {c \in Elements(d_blocks)' : d_size'[c] > Dbuf!block_size}
      OBVIOUS
    <3>1. IsFiniteSet(L) /\ b \notin L /\ Cardinality(L) = d_huge
      BY <1>7, <2>1, FS_Subset
    <3>2. M = IF length > Dbuf!block_size THEN L \cup {b} ELSE L
      BY <1>3, <1>5, <1>6, <1>7, <1>9
    <3>3. Cardinality(M) = IF length > Dbuf!block_size THEN d_huge + 1 ELSE d_huge
      BY <3>1, <3>2, FS_AddElement
    <3> QED BY <1>1, <3>3
  <2> QED BY <2>3, <2>4, <2>5 DEF DbufCounted
<1>16. DbufRest'
  <2>1. d_used \in [Dbuf!All -> Int] /\ d_off \in Nat /\ d_old = {} /\ d_huge \in Nat
    BY DEF DbufInv, DbufRest
  <2>2. d_used' \in [Dbuf!All -> Int]
    <3>1. Dbuf!Short(1) \in Int
      BY ShortTyped
    <3> QED BY <2>1, <3>1
  <2>3. d_off' \in Nat /\ d_old' = {} /\ d_huge' \in Nat
    BY <1>1, <1>2, <1>12, <2>1
  <2> QED BY <1>1, <2>2, <2>3 DEF DbufInv, DbufRest
<1> QED BY <1>12, <1>13, <1>14, <1>15, <1>16 DEF DbufInv

(* A piece that is given back is held no longer, the others are.           *)
LEMMA DbufLosesPiece ==
    ASSUME DbufPieces, NEW piece, d_live' = Dbuf!(-)(d_live, Dbuf!SetToBag({piece})),
           d_fill' = d_fill,
           \A p \in DbufHeld \ {piece} : p.block \in Elements(d_blocks)'
    PROVE  /\ DbufPieces'
           /\ \A c : PiecesOf(c)' = PiecesOf(c) \ {piece}
           /\ piece \in DbufHeld =>
                 Cardinality(PiecesOf(piece.block)') = Cardinality(PiecesOf(piece.block)) - 1
<1>1. d_live' = d_live (-) SetToBag({piece})
  BY DbufBags, DbufTakes
<1>2. IsABag(d_live) /\ (\A p \in DbufHeld : d_live[p] = 1) /\ IsFiniteSet(DbufHeld)
  BY DEF DbufPieces
<1>3. /\ IsABag(d_live') /\ DbufHeld' = DbufHeld \ {piece}
      /\ \A p \in DbufHeld' : d_live'[p] = 1
  BY <1>1, <1>2, BagLoses DEF DbufHeld
<1>4. IsFiniteSet(DbufHeld') /\ Cardinality(DbufHeld') <= DbufMaxHeld
  <2>1. DbufHeld' \subseteq DbufHeld /\ Cardinality(DbufHeld) <= DbufMaxHeld
    BY <1>3 DEF DbufPieces
  <2> PICK few : few = DbufHeld'
    OBVIOUS
  <2>2. IsFiniteSet(few) /\ Cardinality(few) <= Cardinality(DbufHeld)
    BY <2>1, <1>2, FS_Subset
  <2> QED BY <2>1, <2>2, <1>2, FS_CardinalityType, DbufAssumption
<1>5. DbufPieces'
  BY <1>3, <1>4 DEF DbufPieces
<1>6. \A c : PiecesOf(c)' = PiecesOf(c) \ {piece}
  BY <1>3 DEF PiecesOf
<1>7. ASSUME piece \in DbufHeld
      PROVE  Cardinality(PiecesOf(piece.block)') = Cardinality(PiecesOf(piece.block)) - 1
  <2>1. piece \in PiecesOf(piece.block)
    BY <1>7 DEF PiecesOf
  <2>2. IsFiniteSet(PiecesOf(piece.block))
    BY PiecesCount
  <2> QED BY <2>1, <2>2, <1>6, FS_RemoveElement
<1> QED BY <1>5, <1>6, <1>7

(* A piece that is held is always found in its block, whose count stays    *)
(* that of the pieces.                                                     *)
LEMMA DbufHeldFound ==
    ASSUME CountsFit, DbufInv, ~d_destroyed, NEW piece \in DbufHeld
    PROVE  /\ Dbuf!Found(piece)
           /\ piece.block \in Elements(d_blocks)
           /\ d_used[piece.block] = Cardinality(PiecesOf(piece.block))
           /\ d_used[piece.block] - 1 \in Nat
           /\ Dbuf!Short(d_used[piece.block] - 1) = d_used[piece.block] - 1
<1>1. /\ piece.block \in Elements(d_blocks) /\ piece.at + piece.bytes <= d_fill[piece.block]
      /\ piece.at \in Nat /\ piece.bytes \in Nat \ {0} /\ piece.block \in Dbuf!All
      /\ DbufPieces
  BY DEF DbufInv, DbufPieces
<1>2. d_fill[piece.block] \in Nat
  BY <1>1 DEF DbufInv, DbufSized
<1>3. Dbuf!Found(piece)
  BY <1>1, <1>2, DbufParts DEF Dbuf!Found
<1>4. d_used[piece.block] = Cardinality(PiecesOf(piece.block))
  BY <1>1 DEF DbufInv, DbufCounted
<1>5. PiecesOf(piece.block) # {}
  BY DEF PiecesOf
<1>6. d_used[piece.block] - 1 \in 0 .. DbufMaxHeld
  BY <1>1, <1>4, <1>5, PiecesCount, DbufAssumption
<1>7. Dbuf!Short(d_used[piece.block] - 1) = d_used[piece.block] - 1
  BY <1>6, ShortKeeps, DbufAssumption
<1> QED BY <1>1, <1>3, <1>4, <1>6, <1>7

(* An address that lies in no block changes nothing.                       *)
LEMMA DbufFreeForeign ==
    ASSUME CountsFit, DbufInv, ~d_destroyed, NEW piece \in Dbuf!Foreign, Dbuf!Free(piece)
    PROVE  DbufInv'
<1>1. piece.block \notin Elements(d_blocks)
  BY DbufParts DEF Dbuf!Foreign
<1>2. ~Dbuf!Found(piece) /\ piece \notin DbufHeld
  BY <1>1, DbufParts DEF Dbuf!Found, DbufInv, DbufPieces
<1>3. /\ UNCHANGED <<d_used, d_blocks, d_size, d_fill, d_off, d_huge, d_destroyed>>
      /\ d_live' = Dbuf!(-)(d_live, Dbuf!SetToBag({piece}))
      /\ d_old' = {} /\ Dbuf!Answer(piece, -1)
  BY <1>2 DEF Dbuf!Free, Dbuf!Refuse, Dbuf!Keep, Dbuf!Drop, Dbuf!list
<1>4. /\ DbufPieces'
      /\ \A c : PiecesOf(c)' = PiecesOf(c) \ {piece}
  BY <1>3, DbufLosesPiece DEF DbufInv, DbufPieces
<1>5. \A c : PiecesOf(c)' = PiecesOf(c)
  BY <1>2, <1>4 DEF PiecesOf
<1>6. DbufChain' /\ DbufSized' /\ DbufCounted'
  BY <1>3, <1>5 DEF DbufInv, DbufChain, DbufSized, DbufCounted
<1>7. DbufRest'
  <2>1. -1 \in -1 .. 1
    OBVIOUS
  <2>2. d_answer' \in [of : {"nothing", "held", "not held"}, value : -1 .. 1]
    BY <1>3, <2>1 DEF Dbuf!Answer
  <2> QED BY <1>3, <2>2 DEF DbufInv, DbufRest
<1> QED BY <1>4, <1>6, <1>7 DEF DbufInv

(* The block keeps other pieces, or is the pool's own.                     *)
LEMMA DbufFreeKeeps ==
    ASSUME CountsFit, DbufInv, ~d_destroyed, NEW piece \in DbufHeld, Dbuf!Keep(piece),
           d_live' = Dbuf!(-)(d_live, Dbuf!SetToBag({piece})), d_old' = {},
           d_destroyed' = d_destroyed
    PROVE  DbufInv'
<1> PICK b : b = piece.block
  OBVIOUS
<1>1. /\ b \in Elements(d_blocks) /\ d_used[b] = Cardinality(PiecesOf(b))
      /\ Dbuf!Short(d_used[b] - 1) = d_used[b] - 1 /\ d_used[b] - 1 \in Nat
  BY DbufHeldFound
<1>2. /\ d_used' = [d_used EXCEPT ![b] = d_used[b] - 1]
      /\ Dbuf!Answer(piece, 0)
      /\ UNCHANGED <<d_blocks, d_size, d_fill, d_off, d_huge>>
  BY <1>1 DEF Dbuf!Keep, Dbuf!list
<1>3. /\ DbufPieces'
      /\ \A c : PiecesOf(c)' = PiecesOf(c) \ {piece}
      /\ Cardinality(PiecesOf(b)') = Cardinality(PiecesOf(b)) - 1
  BY <1>2, DbufLosesPiece DEF DbufInv, DbufPieces
<1>4. \A c : c # b => PiecesOf(c)' = PiecesOf(c)
  BY <1>3 DEF PiecesOf
<1>5. DbufChain' /\ DbufSized'
  BY <1>2 DEF DbufInv, DbufChain, DbufSized
<1>6. d_used \in [Dbuf!All -> Int] /\ Elements(d_blocks) \subseteq Dbuf!All
  <2>1. d_blocks \in Seq(Dbuf!All) /\ d_used \in [Dbuf!All -> Int]
    BY DEF DbufInv, DbufRest, DbufChain
  <2> QED BY <2>1 DEF Elements
<1>7. DbufCounted'
  <2>1. \A c \in Elements(d_blocks) : d_used'[c] = Cardinality(PiecesOf(c)')
    BY <1>1, <1>2, <1>3, <1>4, <1>6 DEF DbufInv, DbufCounted
  <2> QED BY <1>2, <2>1 DEF DbufInv, DbufCounted
<1>8. DbufRest'
  <2>1. 0 \in -1 .. 1
    OBVIOUS
  <2>2. d_answer' \in [of : {"nothing", "held", "not held"}, value : -1 .. 1]
    BY <1>2, <2>1 DEF Dbuf!Answer
  <2>3. d_used' \in [Dbuf!All -> Int]
    BY <1>1, <1>2, <1>6
  <2> QED BY <1>2, <2>2, <2>3 DEF DbufInv, DbufRest
<1> QED BY <1>3, <1>5, <1>7, <1>8 DEF DbufInv

(* A block is taken out of the list: the other blocks stay, the last is    *)
(* the last.                                                               *)
LEMMA DbufTakeOut ==
    ASSUME d_blocks \in Seq(Dbuf!All), NoneTwice(d_blocks), d_blocks # << >>,
           NEW b \in Elements(d_blocks), b # d_blocks[Len(d_blocks)],
           d_blocks' = Dbuf!Unlinked(b)
    PROVE  /\ d_blocks' \in Seq(Dbuf!All) /\ d_blocks' # << >> /\ NoneTwice(d_blocks')
           /\ Elements(d_blocks') = Elements(d_blocks) \ {b}
           /\ d_blocks'[Len(d_blocks')] = d_blocks[Len(d_blocks)]
<1> PICK i \in 1 .. Len(d_blocks) : d_blocks[i] = b
  BY DEF Elements
<1>1. DOMAIN d_blocks = 1 .. Len(d_blocks)
  OBVIOUS
<1>2. (CHOOSE j \in 1 .. Len(d_blocks) : d_blocks[j] = b) = i
  BY DEF NoneTwice
<1>3. d_blocks' = WithoutPlace(d_blocks, i)
  BY <1>1, <1>2 DEF Dbuf!Unlinked, WithoutPlace
<1>4. i # Len(d_blocks)
  OBVIOUS
<1> PICK t : t = WithoutPlace(d_blocks, i)
  OBVIOUS
<1>5. /\ t \in Seq(Dbuf!All) /\ NoneTwice(t) /\ Elements(t) = Elements(d_blocks) \ {d_blocks[i]}
      /\ i # Len(d_blocks) => t # << >> /\ t[Len(t)] = d_blocks[Len(d_blocks)]
  BY TakeOut
<1> QED BY <1>3, <1>4, <1>5

(* The last piece of a block goes, and the block with it.                  *)
LEMMA DbufFreeDrops ==
    ASSUME CountsFit, DbufInv, ~d_destroyed, NEW piece \in DbufHeld, Dbuf!Drop(piece),
           d_live' = Dbuf!(-)(d_live, Dbuf!SetToBag({piece})), d_old' = {},
           d_destroyed' = d_destroyed
    PROVE  DbufInv'
<1> PICK b : b = piece.block
  OBVIOUS
<1>1. /\ b \in Elements(d_blocks) /\ d_used[b] = Cardinality(PiecesOf(b))
      /\ Dbuf!Short(d_used[b] - 1) = d_used[b] - 1 /\ d_used[b] - 1 \in Nat
  BY DbufHeldFound
<1>2. /\ b # First /\ d_used[b] - 1 = 0
      /\ d_used' = [d_used EXCEPT ![b] = 0]
      /\ d_blocks' = Dbuf!Unlinked(b)
      /\ d_off' = d_off - d_fill[b]
      /\ d_huge' = IF d_size[b] > Dbuf!block_size THEN d_huge - 1 ELSE d_huge
      /\ Dbuf!Answer(piece, 1)
      /\ UNCHANGED <<d_size, d_fill>>
  BY <1>1 DEF Dbuf!Drop
<1>3. /\ d_blocks \in Seq(Dbuf!All) /\ NoneTwice(d_blocks) /\ d_blocks # << >>
      /\ d_blocks[Len(d_blocks)] = First
  BY DEF DbufInv, DbufChain
<1>4. /\ d_blocks' \in Seq(Dbuf!All) /\ d_blocks' # << >> /\ NoneTwice(d_blocks')
      /\ Elements(d_blocks') = Elements(d_blocks) \ {b}
      /\ d_blocks'[Len(d_blocks')] = First
  BY <1>1, <1>2, <1>3, DbufTakeOut
<1>5. Elements(d_blocks)' = Elements(d_blocks') /\ Elements(d_blocks) \subseteq Dbuf!All
      /\ IsFiniteSet(Elements(d_blocks))
  <2>1. Elements(d_blocks) \subseteq Dbuf!All
    BY <1>3 DEF Elements
  <2> QED BY <2>1, <1>3, ElementsFinite DEF Elements
<1>6. PiecesOf(b) \ {piece} = {}
  <2>1. IsFiniteSet(PiecesOf(b)) /\ piece \in PiecesOf(b)
    BY PiecesCount DEF DbufInv, PiecesOf
  <2>2. Cardinality(PiecesOf(b) \ {piece}) = Cardinality(PiecesOf(b)) - 1
    BY <2>1, FS_RemoveElement
  <2>3. IsFiniteSet(PiecesOf(b) \ {piece}) /\ Cardinality(PiecesOf(b) \ {piece}) = 0
    BY <2>1, <2>2, <1>1, <1>2, FS_RemoveElement
  <2> QED BY <2>3, FS_EmptySet
<1>7. /\ DbufPieces'
      /\ \A c : PiecesOf(c)' = PiecesOf(c) \ {piece}
  <2>1. \A p \in DbufHeld \ {piece} : p.block \in Elements(d_blocks)'
    BY <1>4, <1>5, <1>6 DEF DbufInv, DbufPieces, PiecesOf
  <2> QED BY <2>1, <1>2, DbufLosesPiece DEF DbufInv
<1>8. \A c : c # b => PiecesOf(c)' = PiecesOf(c)
  BY <1>7 DEF PiecesOf
<1>9. DbufChain'
  BY <1>4 DEF DbufInv, DbufChain
<1>10. DbufSized'
  BY <1>2, <1>4, <1>5 DEF DbufInv, DbufSized
<1>11. /\ \A c \in Elements(d_blocks) : d_used[c] = Cardinality(PiecesOf(c))
       /\ d_off = SumOver(d_fill, Elements(d_blocks))
       /\ d_huge = Cardinality({c \in Elements(d_blocks) : d_size[c] > Dbuf!block_size})
       /\ d_used \in [Dbuf!All -> Int] /\ d_fill \in [Dbuf!All -> Nat]
  BY DEF DbufInv, DbufCounted, DbufRest, DbufSized
<1> PICK rest : rest = Elements(d_blocks) \ {b}
  OBVIOUS
<1>12. IsFiniteSet(rest) /\ b \notin rest /\ rest \cup {b} = Elements(d_blocks)
       /\ Elements(d_blocks)' = rest
  BY <1>1, <1>4, <1>5, FS_Subset
<1>13. d_off' = SumOver(d_fill, rest) /\ d_off' \in Nat
  <2>1. \A c \in rest \cup {b} : d_fill[c] \in Nat
    BY <1>5, <1>11, <1>12
  <2>2. SumOver(d_fill, rest) \in Nat /\ SumOver(d_fill, rest \cup {b}) = d_fill[b] + SumOver(d_fill, rest)
    BY <1>12, <2>1, SumAdded
  <2> PICK k \in Nat, m \in Nat : k = SumOver(d_fill, rest) /\ m = d_fill[b]
    BY <2>1, <2>2
  <2>3. d_off = m + k /\ d_off' = d_off - m
    BY <1>2, <1>11, <1>12, <2>2
  <2> QED BY <2>3
<1>14. d_huge' = Cardinality({c \in rest : d_size[c] > Dbuf!block_size}) /\ d_huge' \in Nat
  <2> PICK L : L = {c \in rest : d_size[c] > Dbuf!block_size}
    OBVIOUS
  <2> PICK M : M = {c \in Elements(d_blocks) : d_size[c] > Dbuf!block_size}
    OBVIOUS
  <2>1. IsFiniteSet(L) /\ b \notin L /\ Cardinality(M) = d_huge
    BY <1>11, <1>12, FS_Subset
  <2>2. M = IF d_size[b] > Dbuf!block_size THEN L \cup {b} ELSE L
    BY <1>1, <1>12
  <2>3. Cardinality(L) \in Nat /\ Cardinality(L \cup {b}) = Cardinality(L) + 1
    BY <2>1, FS_AddElement, FS_CardinalityType
  <2>4. d_huge' = Cardinality(L)
    <3>1. d_huge' = IF d_size[b] > Dbuf!block_size THEN d_huge - 1 ELSE d_huge
      BY <1>2
    <3> PICK k \in Nat : k = Cardinality(L)
      BY <2>3
    <3>2. CASE d_size[b] > Dbuf!block_size
      <4>1. d_huge = k + 1
        BY <2>1, <2>2, <2>3, <3>2
      <4> QED BY <3>1, <3>2, <4>1
    <3>3. CASE ~(d_size[b] > Dbuf!block_size)
      <4>1. d_huge = k
        BY <2>1, <2>2, <3>3
      <4> QED BY <3>1, <3>3, <4>1
    <3> QED BY <3>2, <3>3
  <2> QED BY <2>3, <2>4
<1>15. DbufCounted'
  <2>1. \A c \in rest : d_used'[c] = Cardinality(PiecesOf(c)')
    BY <1>2, <1>5, <1>8, <1>11, <1>12
  <2> QED BY <1>2, <1>12, <1>13, <1>14, <2>1 DEF DbufCounted
<1>16. DbufRest'
  <2>1. 1 \in -1 .. 1
    OBVIOUS
  <2>2. d_answer' \in [of : {"nothing", "held", "not held"}, value : -1 .. 1]
    BY <1>2, <2>1 DEF Dbuf!Answer
  <2>3. d_used' \in [Dbuf!All -> Int]
    <3>1. d_used' = [d_used EXCEPT ![b] = 0]
      BY <1>2
    <3>2. d_used \in [Dbuf!All -> Int] /\ 0 \in Int
      BY <1>11
    <3> QED BY <3>1, <3>2, Zenon
  <2> QED BY <1>13, <1>14, <2>2, <2>3 DEF DbufInv, DbufRest
<1> QED BY <1>7, <1>9, <1>10, <1>15, <1>16 DEF DbufInv

(* The number of blocks above the usual size is the cardinality of their   *)
(* set.                                                                    *)
LEMMA DbufQuantifies ==
    \A S : Dbuf!Quantify(S, LAMBDA b : d_size[b] > Dbuf!block_size)
               = Cardinality({b \in S : d_size[b] > Dbuf!block_size})
BY DbufBags DEF Dbuf!Quantify

(* The pool's own block is the last one: all others are freed before it.   *)
LEMMA DbufDestroyed == ASSUME DbufInv, Dbuf!Destroy PROVE DbufInv'
<1>1. /\ d_blocks \in Seq(Dbuf!All) /\ NoneTwice(d_blocks) /\ d_blocks # << >>
      /\ d_blocks[Len(d_blocks)] = First
  BY DEF DbufInv, DbufChain, Dbuf!Destroy
<1> PICK m \in Nat \ {0} : m = Len(d_blocks)
  BY <1>1
<1>2. (CHOOSE i \in DOMAIN d_blocks : d_blocks[i] = First) = m
  <2>1. DOMAIN d_blocks = 1 .. m /\ m \in 1 .. m
    BY <1>1
  <2>2. \A i \in 1 .. m : d_blocks[i] = First => i = m
    BY <1>1, <2>1 DEF NoneTwice
  <2>3. d_blocks[m] = First
    BY <1>1
  <2> QED BY <2>1, <2>2, <2>3
<1> PICK front : front = {d_blocks[i] : i \in 1 .. m - 1}
  OBVIOUS
<1>3. /\ ~d_destroyed /\ d_destroyed' = TRUE /\ d_live' = Dbuf!EmptyBag /\ d_old' = {}
      /\ d_blocks' = SubSeq(d_blocks, m + 1, m)
      /\ d_huge' = d_huge - Dbuf!Quantify(front, LAMBDA b : d_size[b] > Dbuf!block_size)
      /\ UNCHANGED <<d_used, d_size, d_fill, d_off, d_answer>>
  BY <1>2 DEF Dbuf!Destroy
<1>4. d_blocks' = << >>
  BY <1>3
<1>5. d_huge' = 0
  <2>1. {b \in Elements(d_blocks) : d_size[b] > Dbuf!block_size}
           = {b \in front : d_size[b] > Dbuf!block_size}
    <3>1. Elements(d_blocks) = front \cup {First}
      <4>1. \A i \in 1 .. m : i \in 1 .. m - 1 \/ i = m
        OBVIOUS
      <4>2. 1 .. m - 1 \subseteq 1 .. m /\ m \in 1 .. m
        OBVIOUS
      <4> QED BY <1>1, <4>1, <4>2 DEF Elements
    <3>2. ~(d_size[First] > Dbuf!block_size)
      BY DbufSizes DEF DbufInv, DbufSized
    <3> QED BY <3>1, <3>2
  <2>2. d_huge' = d_huge - Cardinality({b \in front : d_size[b] > Dbuf!block_size})
    <3>1. d_huge' = d_huge - Dbuf!Quantify(front, LAMBDA b : d_size[b] > Dbuf!block_size)
      BY <1>3
    <3>2. Dbuf!Quantify(front, LAMBDA b : d_size[b] > Dbuf!block_size)
             = Cardinality({b \in front : d_size[b] > Dbuf!block_size})
      BY DbufQuantifies
    <3> QED BY <3>1, <3>2
  <2>3. d_huge = Cardinality({b \in front : d_size[b] > Dbuf!block_size}) /\ d_huge \in Nat
    BY <1>3, <2>1 DEF DbufInv, DbufCounted, DbufRest
  <2> QED BY <2>2, <2>3
<1>6. IsABag(d_live') /\ DbufHeld' = {} /\ DbufMaxHeld \in Nat
  BY <1>3, BagOfNone, DbufBags, DbufAssumption DEF DbufHeld
<1>7. Elements(d_blocks)' = {} /\ d_blocks' \in Seq(Dbuf!All)
  BY <1>4 DEF Elements
<1>8. DbufChain'
  BY <1>3, <1>4, <1>5, <1>6, <1>7 DEF DbufChain
<1>9. DbufSized'
  BY <1>3, <1>7 DEF DbufInv, DbufSized
<1>10. DbufPieces'
  <2>1. IsFiniteSet(DbufHeld') /\ Cardinality(DbufHeld') = 0
    BY <1>6, FS_EmptySet
  <2> QED BY <1>6, <2>1 DEF DbufPieces
<1>11. DbufCounted'
  BY <1>3 DEF DbufCounted
<1>12. DbufRest'
  <2>1. /\ d_used' = d_used /\ d_off' = d_off /\ d_huge' = 0 /\ d_old' = {}
        /\ d_destroyed' = TRUE /\ d_answer' = d_answer
    BY <1>3, <1>5
  <2>2. DbufRest
    BY DEF DbufInv
  <2> QED BY <2>1, <2>2 DEF DbufRest
<1> QED BY <1>8, <1>9, <1>10, <1>11, <1>12 DEF DbufInv

(* Every step of the pool, and of the others, keeps the invariant.         *)
LEMMA DbufStepKeeps ==
    ASSUME CountsFit, DbufInv, [MemNext]_<<which, vars, h_vars, d_vars>>
    PROVE  DbufInv'
<1>1. CASE UNCHANGED d_vars
  <2>1. /\ UNCHANGED <<d_blocks, d_used, d_size, d_fill, d_off>>
        /\ UNCHANGED <<d_huge, d_live, d_old, d_answer, d_destroyed>>
    BY <1>1 DEF d_vars
  <2>2. DbufChain'
    BY <2>1 DEF DbufInv, DbufChain, DbufHeld
  <2>3. DbufSized'
    BY <2>1 DEF DbufInv, DbufSized
  <2>4. DbufPieces'
    BY <2>1 DEF DbufInv, DbufPieces, DbufHeld
  <2>5. DbufCounted'
    BY <2>1 DEF DbufInv, DbufCounted, PiecesOf, DbufHeld
  <2>6. DbufRest'
    BY <2>1 DEF DbufInv, DbufRest
  <2> QED BY <2>2, <2>3, <2>4, <2>5, <2>6 DEF DbufInv
<1>2. ASSUME NEW n \in DbufLengths, Dbuf!Alloc(n) PROVE DbufInv'
  <2>1. ~d_destroyed /\ d_destroyed' = d_destroyed /\ BagCardinality(d_live) < DbufMaxHeld
    BY <1>2, DbufCounts DEF Dbuf!Alloc
  <2>2. Dbuf!SplitHead(n) \/ Dbuf!SplitNew(n)
    BY <1>2 DEF Dbuf!Alloc
  <2> QED BY <2>1, <2>2, DbufSplitHead, DbufSplitNew
<1>3. ASSUME NEW piece \in DbufHeld, Dbuf!Free(piece) PROVE DbufInv'
  <2>1. /\ ~d_destroyed /\ d_destroyed' = d_destroyed /\ d_old' = {}
        /\ d_live' = Dbuf!(-)(d_live, Dbuf!SetToBag({piece}))
    BY <1>3 DEF Dbuf!Free
  <2>2. ~Dbuf!Refuse(piece)
    <3>1. /\ Dbuf!Found(piece) /\ d_used[piece.block] - 1 \in Nat
          /\ Dbuf!Short(d_used[piece.block] - 1) = d_used[piece.block] - 1
      BY <2>1, DbufHeldFound
    <3> PICK k \in Nat : k = d_used[piece.block] - 1
      BY <3>1
    <3>2. ~(Dbuf!Short(d_used[piece.block] - 1) < 0)
      BY <3>1
    <3> QED BY <3>1, <3>2 DEF Dbuf!Refuse
  <2>3. Dbuf!Keep(piece) \/ Dbuf!Drop(piece)
    BY <1>3, <2>2 DEF Dbuf!Free
  <2> QED BY <2>1, <2>3, DbufFreeKeeps, DbufFreeDrops
<1>4. ASSUME NEW piece \in Dbuf!Foreign, Dbuf!Free(piece) PROVE DbufInv'
  BY <1>4, DbufFreeForeign DEF Dbuf!Free
<1>5. CASE Dbuf!Next
  <2>1. d_old = {}
    BY DEF DbufInv, DbufRest
  <2> QED BY <1>2, <1>3, <1>4, <1>5, <2>1, DbufDestroyed, DbufParts DEF Dbuf!Next, DbufHeld
<1> QED BY <1>1, <1>5 DEF MemNext, ShareStep, HeapStep, DbufStep

(* From the creation of the pool on the invariant holds.                   *)
LEMMA DbufInvariant == CountsFit => (MemSpec => []DbufInv)
<1> SUFFICES ASSUME CountsFit PROVE MemSpec => []DbufInv
  OBVIOUS
<1>1. MemInit => DbufInv
  BY DbufInitially DEF MemInit
<1>2. DbufInv /\ [MemNext]_<<which, vars, h_vars, d_vars>> => DbufInv'
  BY DbufStepKeeps
<1> QED BY <1>1, <1>2, PTL DEF MemSpec

(* What callers hold lies inside blocks that were not freed, as many       *)
(* pieces as are split off and given back (mempool.c:109, 130-146).        *)
THEOREM HeldPiecesInPool == CountsFit => (MemSpec => []PiecesInPool)
<1> SUFFICES ASSUME CountsFit PROVE MemSpec => []PiecesInPool
  OBVIOUS
<1>1. DbufInv => PiecesInPool
  <2> SUFFICES ASSUME DbufInv, NEW p \in Dbuf!Held
               PROVE  /\ p.block \in Dbuf!Linked
                      /\ p.at + p.bytes <= d_fill[p.block]
                      /\ d_fill[p.block] <= d_size[p.block]
    BY DEF PiecesInPool, Dbuf!HeldInPool
  <2> QED BY DbufParts DEF DbufInv, DbufPieces, DbufSized, DbufHeld
<1> QED BY <1>1, DbufInvariant, PTL

(* The counts of the blocks and of the pool are those of the pieces and    *)
(* blocks there are (mempool.c:110, 141-144, 168, 196).                    *)
THEOREM PoolCountsRight == CountsFit => (MemSpec => []PiecesCounted)
<1> SUFFICES ASSUME CountsFit PROVE MemSpec => []PiecesCounted
  OBVIOUS
<1>1. DbufInv => PiecesCounted
  <2> SUFFICES ASSUME DbufInv, ~d_destroyed PROVE Dbuf!Accounts
    BY DEF PiecesCounted, Dbuf!Accounts
  <2>1. ASSUME NEW b \in Dbuf!Linked
        PROVE  d_used[b] = Dbuf!BagCardinality([p \in {q \in Dbuf!Held : q.block = b} |-> d_live[p]])
    <3> PICK f : f = [p \in PiecesOf(b) |-> d_live[p]]
      OBVIOUS
    <3>1. {q \in Dbuf!Held : q.block = b} = PiecesOf(b)
      BY DbufParts DEF PiecesOf, DbufHeld
    <3>2. IsFiniteSet(PiecesOf(b)) /\ \A p \in PiecesOf(b) : d_live[p] = 1
      <4>1. DbufPieces
        BY DEF DbufInv
      <4> QED BY <4>1, PiecesCount DEF DbufPieces, PiecesOf
    <3>3. IsFiniteSet(DOMAIN f) /\ \A p \in DOMAIN f : f[p] = 1
      BY <3>2
    <3>4. BagCardinality(f) = Cardinality(PiecesOf(b))
      BY <3>3, BagOfSingles
    <3>5. d_used[b] = Cardinality(PiecesOf(b))
      BY DbufParts DEF DbufInv, DbufCounted
    <3> QED BY <3>1, <3>4, <3>5, DbufCounts
  <2>2. d_off = Dbuf!MapThenSumSet(LAMBDA b : d_fill[b], Dbuf!Linked)
    BY DbufParts, DbufSums DEF DbufInv, DbufCounted
  <2>3. d_huge = Dbuf!Quantify(Dbuf!Linked, LAMBDA b : d_size[b] > Dbuf!block_size)
    BY DbufParts, DbufQuantifies DEF DbufInv, DbufCounted
  <2> QED BY <2>1, <2>2, <2>3 DEF Dbuf!Accounts
<1> QED BY <1>1, DbufInvariant, PTL

(* scl_dbuf_pool_destroy leaves no block behind (mempool.c:82-94).         *)
THEOREM DestroyedLeavesNone == CountsFit => (MemSpec => []BlocksAllFreed)
<1> SUFFICES ASSUME CountsFit PROVE MemSpec => []BlocksAllFreed
  OBVIOUS
<1>1. DbufInv => BlocksAllFreed
  BY DEF DbufInv, DbufChain, BlocksAllFreed, Dbuf!DestroyFreesAll
<1> QED BY <1>1, DbufInvariant, PTL
-----------------------------------------------------------------------------
(***************************************************************************)
(* The dbuf pool as an allocator.                                          *)
(***************************************************************************)
(* When each piece is held once and no two have the same area, each block  *)
(* of the allocator is held once.                                          *)
HeldAs(a, H, L, A) == BagCardinality([x \in {y \in H : A[y] = a} |-> L[x]])

(* With different areas, the area of each piece is held as often as the    *)
(* piece: once.                                                            *)
LEMMA OneOfEach ==
    ASSUME NEW H, NEW L, NEW A, \A x \in H : L[x] = 1,
           \A x, y \in H : x # y => A[x] # A[y], NEW z \in H
    PROVE  HeldAs(A[z], H, L, A) = 1
<1> DEFINE f == [x \in {z} |-> L[x]]
<1>1. {y \in H : A[y] = A[z]} = {z}
  OBVIOUS
<1>2. DOMAIN f = {z} /\ \A x \in DOMAIN f : f[x] = 1
  OBVIOUS
<1>3. IsFiniteSet({z}) /\ Cardinality({z}) = 1
  BY FS_Singleton
<1>4. BagCardinality(f) = 1
  <2> HIDE DEF f
  <2> QED BY <1>2, <1>3, BagOfSingles
<1> QED BY <1>1, <1>4 DEF HeldAs

(* A bag that holds each member of a set once grows and shrinks with it.   *)
LEMMA SinglesGrow ==
    ASSUME NEW B, NEW b, b \notin B
    PROVE  [x \in B \cup {b} |-> 1] = [x \in B |-> 1] (+) SetToBag({b})
BY DEF (+), SetToBag

(* A bag that holds each member of a set once shrinks with the set.        *)
LEMMA SinglesShrink ==
    ASSUME NEW B, NEW b \in B
    PROVE  [x \in B \ {b} |-> 1] = [x \in B |-> 1] (-) SetToBag({b})
<1> DEFINE g == [x \in B |-> IF x = b THEN 0 ELSE 1]
<1>1. {x \in B : g[x] > 0} = B \ {b} /\ \A x \in B \ {b} : g[x] = 1
  OBVIOUS
<1>2. [x \in B |-> 1] (-) SetToBag({b}) = [x \in {y \in B : g[y] > 0} |-> g[x]]
  BY DEF (-), SetToBag
<1> HIDE DEF g
<1>3. [x \in {y \in B : g[y] > 0} |-> g[x]] = [x \in B \ {b} |-> 1]
  BY <1>1
<1> QED BY <1>2, <1>3

(* The operators the allocator takes from the library are the library's.   *)
LEMMA AllocatorBags ==
    /\ Dbuf!Pool!EmptyBag = EmptyBag
    /\ \A B : Dbuf!Pool!BagToSet(B) = BagToSet(B)
    /\ \A S : Dbuf!Pool!SetToBag(S) = SetToBag(S)
<1>1. \A S : Dbuf!Pool!SetToBag(S) = SetToBag(S)
  BY DEF Dbuf!Pool!SetToBag, SetToBag
<1>2. \A B : Dbuf!Pool!BagToSet(B) = BagToSet(B)
  BY DEF Dbuf!Pool!BagToSet, BagToSet
<1> QED BY <1>1, <1>2 DEF Dbuf!Pool!EmptyBag, EmptyBag

(* The sum of bags that the allocator takes from the library.              *)
LEMMA AllocatorAdds == \A B, C : Dbuf!Pool!(+)(B, C) = B (+) C
BY DEF Dbuf!Pool!(+), (+)

(* The difference of bags that the allocator takes from the library.       *)
LEMMA AllocatorTakes == \A B, C : Dbuf!Pool!(-)(B, C) = B (-) C
BY DEF Dbuf!Pool!(-), (-)

(* Where the pieces lie, and that they are apart.                          *)
DbufAreas == {Dbuf!Addresses(p) : p \in DbufHeld}

DbufApart ==
    /\ IsABag(d_live) /\ \A p \in DbufHeld : d_live[p] = 1
    /\ \A p \in DbufHeld :
          /\ Dbuf!Addresses(p) # {}
          /\ Dbuf!Addresses(p) \subseteq Dbuf!All \X (0 .. Dbuf!Largest - 1)
    /\ \A p, q \in DbufHeld : p # q => Dbuf!Addresses(p) \cap Dbuf!Addresses(q) = {}

(* By the invariant, what is held lies in the memory of the pool and       *)
(* apart.                                                                  *)
LEMMA DbufLiesApart == DbufInv => DbufApart
<1> SUFFICES ASSUME DbufInv PROVE DbufApart
  OBVIOUS
<1>1. IsABag(d_live) /\ \A p \in DbufHeld : d_live[p] = 1
  BY DEF DbufInv, DbufPieces
<1>2. ASSUME NEW p \in DbufHeld
      PROVE  /\ p.block \in Dbuf!All /\ p.at \in Nat /\ p.bytes \in Nat \ {0}
             /\ p.at + p.bytes <= Dbuf!Largest
  <2>1. /\ p.block \in Dbuf!All /\ p.at \in Nat /\ p.bytes \in Nat \ {0}
        /\ p.block \in Elements(d_blocks) /\ p.at + p.bytes <= d_fill[p.block]
    BY DEF DbufInv, DbufPieces
  <2>2. /\ d_fill[p.block] \in Nat /\ d_size[p.block] \in Nat
        /\ d_fill[p.block] <= d_size[p.block] /\ d_size[p.block] <= Dbuf!Largest
    BY <2>1 DEF DbufInv, DbufSized
  <2> QED BY <2>1, <2>2, DbufSizes
<1>3. ASSUME NEW p \in DbufHeld
      PROVE  /\ Dbuf!Addresses(p) # {}
             /\ Dbuf!Addresses(p) \subseteq Dbuf!All \X (0 .. Dbuf!Largest - 1)
  <2>1. p.at \in p.at .. p.at + p.bytes - 1
    BY <1>2
  <2>2. p.at .. p.at + p.bytes - 1 \subseteq 0 .. Dbuf!Largest - 1
    BY <1>2, DbufSizes
  <2>3. p.block \in {p.block} /\ {p.block} \subseteq Dbuf!All
    BY <1>2
  <2> PICK at : at = p.at .. p.at + p.bytes - 1
    OBVIOUS
  <2> PICK low : low = 0 .. Dbuf!Largest - 1
    OBVIOUS
  <2>4. {p.block} \X at # {} /\ {p.block} \X at \subseteq Dbuf!All \X low
    <3>1. p.at \in at /\ at \subseteq low
      BY <2>1, <2>2
    <3>2. <<p.block, p.at>> \in {p.block} \X at
      BY <3>1
    <3>3. \A S, T, U : S \subseteq U => S \X T \subseteq U \X T
      OBVIOUS
    <3>4. \A S, T, U : S \subseteq U => T \X S \subseteq T \X U
      OBVIOUS
    <3> QED BY <2>3, <3>1, <3>2, <3>3, <3>4, Zenon
  <2> QED BY <2>4 DEF Dbuf!Addresses
<1>4. ASSUME NEW p \in DbufHeld, NEW q \in DbufHeld, p # q
      PROVE  Dbuf!Addresses(p) \cap Dbuf!Addresses(q) = {}
  <2>1. CASE p.block # q.block
    BY <2>1 DEF Dbuf!Addresses
  <2>2. CASE p.block = q.block
    <3>1. p.at + p.bytes <= q.at \/ q.at + q.bytes <= p.at
      BY <1>4, <2>2 DEF DbufInv, DbufPieces
    <3>2. (p.at .. p.at + p.bytes - 1) \cap (q.at .. q.at + q.bytes - 1) = {}
      BY <3>1, <1>2
    <3> QED BY <3>2 DEF Dbuf!Addresses
  <2> QED BY <2>1, <2>2
<1> QED BY <1>1, <1>3, <1>4 DEF DbufApart

(* If what is held is apart, each area is held once.                       *)
LEMMA DbufHeldBlocks == DbufApart => Dbuf!HeldBlocks = [block \in DbufAreas |-> 1]
<1> SUFFICES ASSUME DbufApart PROVE Dbuf!HeldBlocks = [block \in DbufAreas |-> 1]
  OBVIOUS
<1> DEFINE A == [p \in DbufHeld |-> Dbuf!Addresses(p)]
<1>1. \A p, q \in DbufHeld : p # q => A[p] # A[q]
  BY DEF DbufApart
<1>2. DbufAreas = {A[p] : p \in DbufHeld}
  BY DEF DbufAreas
<1>3. Dbuf!HeldBlocks = [block \in DbufAreas |-> HeldAs(block, DbufHeld, d_live, A)]
  BY DbufParts, DbufCounts DEF Dbuf!HeldBlocks, DbufAreas, DbufHeld, HeldAs
<1> HIDE DEF A
<1> PICK H, L, area : H = DbufHeld /\ L = d_live /\ area = A
  OBVIOUS
<1>4. \A z \in H : HeldAs(area[z], H, L, area) = 1
  <2>1. (\A x \in H : L[x] = 1) /\ (\A x, y \in H : x # y => area[x] # area[y])
    BY <1>1 DEF DbufApart
  <2> QED BY <2>1, OneOfEach
<1> QED BY <1>2, <1>3, <1>4

(* A piece that is split off is an allocation.                             *)
LEMMA DbufHandsOut ==
    ASSUME DbufApart, DbufApart', NEW piece,
           d_live' = Dbuf!(+)(d_live, Dbuf!SetToBag({piece})),
           Dbuf!HeldBlocks = [block \in DbufAreas |-> 1],
           Dbuf!HeldBlocks' = [block \in DbufAreas' |-> 1]
    PROVE  Dbuf!Pool!Allocate
<1> PICK b : b = Dbuf!Addresses(piece)
  OBVIOUS
<1> PICK after : after = d_live (+) SetToBag({piece})
  OBVIOUS
<1>1. d_live' = after
  BY DbufBags, DbufAdds
<1>2. BagToSet(after) = BagToSet(d_live) \cup {piece} /\ DbufHeld' = DbufHeld \cup {piece}
  BY <1>1, BagPlusOne DEF DbufHeld, DbufApart
<1>3. piece \notin DbufHeld
  <2> SUFFICES ASSUME piece \in DbufHeld PROVE FALSE
    OBVIOUS
  <2>1. IsABag(d_live) /\ d_live[piece] = 1 /\ after[piece] = 1
    BY <1>1, <1>2 DEF DbufApart
  <2>2. after[piece] = 2
    BY <2>1 DEF IsABag, (+), SetToBag, BagToSet, DbufHeld
  <2> QED BY <2>1, <2>2
<1>4. /\ b # {} /\ b \subseteq Dbuf!All \X (0 .. Dbuf!Largest - 1)
      /\ \A p \in DbufHeld : Dbuf!Addresses(p) \cap b = {}
  BY <1>2, <1>3 DEF DbufApart, Dbuf!Addresses
<1>5. DbufAreas' = DbufAreas \cup {b}
  BY <1>2 DEF DbufAreas, Dbuf!Addresses
<1>6. b \notin DbufAreas /\ b \cap UNION DbufAreas = {}
  BY <1>4 DEF DbufAreas
<1>7. BagToSet(Dbuf!HeldBlocks) = DbufAreas /\ BagToSet(Dbuf!HeldBlocks') = DbufAreas \cup {b}
  BY <1>5 DEF BagToSet
<1>8. Dbuf!HeldBlocks' = Dbuf!HeldBlocks (+) SetToBag({b})
  BY <1>5, <1>6, SinglesGrow
<1>9. /\ b \in Dbuf!Pool!BagToSet(Dbuf!HeldBlocks')
      /\ b \cap UNION Dbuf!Pool!BagToSet(Dbuf!HeldBlocks) = {}
      /\ Dbuf!HeldBlocks' = Dbuf!Pool!(+)(Dbuf!HeldBlocks, Dbuf!Pool!SetToBag({b}))
  BY <1>6, <1>7, <1>8, AllocatorBags, AllocatorAdds
<1> QED BY <1>4, <1>9 DEF Dbuf!Pool!Allocate

(* A piece that is given back is released.                                 *)
LEMMA DbufGivesBack ==
    ASSUME DbufApart, NEW piece \in DbufHeld,
           d_live' = Dbuf!(-)(d_live, Dbuf!SetToBag({piece})),
           Dbuf!HeldBlocks = [block \in DbufAreas |-> 1],
           Dbuf!HeldBlocks' = [block \in DbufAreas' |-> 1]
    PROVE  Dbuf!Pool!Release
<1> PICK b : b = Dbuf!Addresses(piece)
  OBVIOUS
<1> PICK after : after = d_live (-) SetToBag({piece})
  OBVIOUS
<1>1. d_live' = after
  BY DbufBags, DbufTakes
<1>2. DbufHeld' = DbufHeld \ {piece}
  BY <1>1, BagLoses DEF DbufHeld, DbufApart
<1>3. \A p \in DbufHeld : p # piece => Dbuf!Addresses(p) # b
  BY DEF DbufApart
<1>4. DbufAreas' = DbufAreas \ {b} /\ b \in DbufAreas
  <2>1. DbufAreas' = {Dbuf!Addresses(p) : p \in DbufHeld'}
    BY DEF DbufAreas, Dbuf!Addresses
  <2> QED BY <2>1, <1>2, <1>3 DEF DbufAreas
<1>5. BagToSet(Dbuf!HeldBlocks) = DbufAreas
  BY DEF BagToSet
<1>6. Dbuf!HeldBlocks' = Dbuf!HeldBlocks (-) SetToBag({b})
  BY <1>4, SinglesShrink
<1>7. /\ b \in Dbuf!Pool!BagToSet(Dbuf!HeldBlocks)
      /\ Dbuf!HeldBlocks' = Dbuf!Pool!(-)(Dbuf!HeldBlocks, Dbuf!Pool!SetToBag({b}))
  BY <1>4, <1>5, <1>6, AllocatorBags, AllocatorTakes
<1> QED BY <1>7 DEF Dbuf!Pool!Release

(* Each step is one of the allocator, until the pool is destroyed.         *)
LEMMA DbufStepAllocates ==
    ASSUME DbufInv, DbufApart, DbufApart', [MemNext]_<<which, vars, h_vars, d_vars>>,
           Dbuf!HeldBlocks = [block \in DbufAreas |-> 1],
           Dbuf!HeldBlocks' = [block \in DbufAreas' |-> 1]
    PROVE  [d_destroyed' \/ Dbuf!Pool!Next]_(Dbuf!HeldBlocks)
<1>1. CASE UNCHANGED d_vars
  BY <1>1 DEF d_vars, DbufAreas, DbufHeld, Dbuf!Addresses
<1>2. ASSUME NEW n \in DbufLengths, Dbuf!Alloc(n) PROVE Dbuf!Pool!Next
  <2>1. \E b, length : Dbuf!Split(b, length)
    BY <1>2 DEF Dbuf!Alloc, Dbuf!SplitHead, Dbuf!SplitNew
  <2>2. \E piece : d_live' = Dbuf!(+)(d_live, Dbuf!SetToBag({piece}))
    BY <2>1 DEF Dbuf!Split
  <2> QED BY <2>2, DbufHandsOut DEF Dbuf!Pool!Next
<1>3. ASSUME NEW piece \in DbufHeld, Dbuf!Free(piece) PROVE Dbuf!Pool!Next
  BY <1>3, DbufGivesBack DEF Dbuf!Free, Dbuf!Pool!Next
<1>4. ASSUME NEW piece \in Dbuf!Foreign, Dbuf!Free(piece) PROVE UNCHANGED Dbuf!HeldBlocks
  <2>1. piece \notin DbufHeld
    BY DbufParts DEF Dbuf!Foreign, DbufInv, DbufPieces
  <2>2. d_live' = d_live (-) SetToBag({piece})
    BY <1>4, DbufBags, DbufTakes DEF Dbuf!Free
  <2> PICK after : after = d_live (-) SetToBag({piece})
    OBVIOUS
  <2>3. BagToSet(after) = BagToSet(d_live) \ {piece}
    <3>1. IsABag(d_live) /\ \A p \in BagToSet(d_live) : d_live[p] = 1
      BY DEF DbufApart, DbufHeld
    <3> QED BY <3>1, BagLoses
  <2>4. DbufHeld' = DbufHeld
    BY <2>1, <2>2, <2>3 DEF DbufHeld
  <2> QED BY <2>4 DEF DbufAreas, Dbuf!Addresses
<1>5. CASE Dbuf!Next
  <2>1. d_old = {}
    BY DEF DbufInv, DbufRest
  <2> QED BY <1>2, <1>3, <1>4, <1>5, <2>1, DbufParts DEF Dbuf!Next, Dbuf!Destroy, DbufHeld
<1> QED BY <1>1, <1>5 DEF MemNext, ShareStep, HeapStep, DbufStep

(* What the dbuf pool hands out is in its blocks and overlaps nothing that *)
(* is held: it implements the allocator until it is destroyed.             *)
THEOREM PiecesNeverOverlap == CountsFit => (MemSpec => PiecesApart)
<1> SUFFICES ASSUME CountsFit PROVE MemSpec => PiecesApart
  OBVIOUS
<1>1. MemInit => Dbuf!Pool!Init
  <2> SUFFICES ASSUME MemInit PROVE Dbuf!Pool!Init
    OBVIOUS
  <2>1. DbufApart /\ d_live = EmptyBag
    BY DbufInitially, DbufLiesApart, DbufBags DEF MemInit, Dbuf!Init
  <2>2. DbufAreas = {}
    BY <2>1, BagOfNone DEF DbufAreas, DbufHeld
  <2>3. Dbuf!HeldBlocks = EmptyBag
    BY <2>1, <2>2, DbufHeldBlocks DEF EmptyBag, SetToBag
  <2> QED BY <2>3, AllocatorBags DEF Dbuf!Pool!Init
<1> DEFINE Block == Dbuf!HeldBlocks = [block \in DbufAreas |-> 1]
<1>2. DbufInv => DbufApart /\ Block
  BY DbufLiesApart, DbufHeldBlocks
<1>3. DbufInv /\ DbufApart /\ DbufApart' /\ Block /\ Block' /\ [MemNext]_<<which, vars, h_vars, d_vars>>
          => [d_destroyed' \/ Dbuf!Pool!Next]_(Dbuf!HeldBlocks)
  BY DbufStepAllocates
<1>4. MemSpec => []DbufInv
  BY DbufInvariant
<1> HIDE DEF Block
<1> QED BY <1>1, <1>2, <1>3, <1>4, PTL DEF MemSpec, PiecesApart, Dbuf!ImplementsAllocator
-----------------------------------------------------------------------------
(***************************************************************************)
(* The heap pool.  Callers are given the address behind the head of a      *)
(* chunk and give that address back, in the class of the size they know;   *)
(* with these sizes what is listed then is the chunk without its first     *)
(* and its last cell.                                                      *)
(***************************************************************************)
RequestsInside == \A n \in HeapRequests : n % 8 \in {0, 5, 6, 7}

(* Classes are positive numbers, a chunk of class c has 2 * c cells.       *)
LEMMA HeapClasses ==
    /\ Heap!Classes \subseteq Nat \ {0}
    /\ \A c \in Nat : Heap!CellsOf(c) = 2 * c
    /\ \A c \in Heap!Classes, d \in Nat \ {0} : d <= c => d \in Heap!Classes
<1>1. Heap!Class(HeapMaxBytes) \in Int
  <2>1. HeapMaxBytes + 8 - 1 \in Int
    BY HeapAssumption
  <2>2. (HeapMaxBytes + 8 - 1) \div 8 \in Int
    BY <2>1
  <2> QED BY <2>2 DEF Heap!Class, Heap!ALIGN
<1>2. \A c \in Nat : c * (8 \div 4) = 2 * c
  OBVIOUS
<1> QED BY <1>1, <1>2 DEF Heap!Classes, Heap!CellsOf, Heap!ALIGN, Heap!Cell

(* A request takes a chunk of one class more than its own, whose data are  *)
(* all cells but the first and the last.                                   *)
LEMMA HeapSizes ==
    ASSUME RequestsInside, NEW n \in HeapRequests
    PROVE  /\ n \in Nat /\ Heap!HeadBytes = 4 /\ Heap!Cell = 4
           /\ Heap!Class(n) \in Heap!Classes
           /\ Heap!Class(n + Heap!HeadBytes) = Heap!Class(n) + 1
           /\ Heap!Class(n + Heap!HeadBytes) \in Heap!Classes
           /\ (n + Heap!Cell - 1) \div Heap!Cell = 2 * Heap!Class(n)
<1>1. n \in 1 .. HeapMaxBytes - 4 /\ HeapMaxBytes \in Nat /\ n % 8 \in {0, 5, 6, 7}
  BY HeapAssumption DEF RequestsInside
<1> PICK q \in Nat \ {0}, r \in 0 .. 3 : n = 8 * q - r
  <2> PICK d \in Nat, m \in {0, 5, 6, 7} : n = 8 * d + m
    <3>1. n = 8 * (n \div 8) + (n % 8) /\ n \div 8 \in Nat
      BY <1>1
    <3> QED BY <3>1, <1>1
  <2>1. CASE m = 0
    <3>1. d \in Nat \ {0} /\ n = 8 * d - 0
      BY <1>1, <2>1
    <3> QED BY <3>1
  <2>2. CASE m # 0
    <3>1. 8 - m \in 0 .. 3 /\ n = 8 * (d + 1) - (8 - m) /\ d + 1 \in Nat \ {0}
      BY <2>2
    <3> QED BY <3>1
  <2> QED BY <2>1, <2>2
<1>2. Heap!Class(n) = q
  <2>1. (8 * q - r + 8 - 1) \div 8 = q
    OBVIOUS
  <2> QED BY <2>1 DEF Heap!Class, Heap!ALIGN
<1>3. Heap!Class(n + 4) = q + 1
  <2>1. (8 * q - r + 4 + 8 - 1) \div 8 = q + 1
    OBVIOUS
  <2> QED BY <2>1 DEF Heap!Class, Heap!ALIGN
<1>4. (n + 4 - 1) \div 4 = 2 * q
  OBVIOUS
<1>5. q + 1 \in Heap!Classes
  <2>1. 8 * q + 1 <= HeapMaxBytes
    BY <1>1
  <2>2. (HeapMaxBytes + 8 - 1) \div 8 \in Nat /\ q + 1 <= (HeapMaxBytes + 8 - 1) \div 8
    BY <2>1, <1>1
  <2> QED BY <2>2 DEF Heap!Classes, Heap!Class, Heap!ALIGN
<1>6. q \in Heap!Classes
  BY <1>5, HeapClasses
<1> QED BY <1>1, <1>2, <1>3, <1>4, <1>5, <1>6 DEF Heap!HeadBytes, Heap!Cell

(***************************************************************************)
(* Lists of free chunks: F holds all chunks that are listed.               *)
(***************************************************************************)
Chunks == [at : Heap!Cells, class : Heap!Classes]

(* The place and the class of a chunk are positive numbers.                *)
LEMMA ChunksTyped ==
    \A f \in Chunks :
        /\ f.at \in Nat \ {0} /\ f.class \in Nat \ {0}
        /\ f.at \in Heap!Cells /\ f.class \in Heap!Classes
        /\ f = [at |-> f.at, class |-> f.class]
<1> SUFFICES ASSUME NEW f \in Chunks
             PROVE  /\ f.at \in Nat \ {0} /\ f.class \in Nat \ {0}
                    /\ f.at \in Heap!Cells /\ f.class \in Heap!Classes
                    /\ f = [at |-> f.at, class |-> f.class]
  OBVIOUS
<1>1. f.at \in Heap!Cells /\ f.class \in Heap!Classes /\ f = [at |-> f.at, class |-> f.class]
  BY DEF Chunks
<1>2. f.at \in Nat \ {0}
  BY <1>1, HeapAssumption DEF Heap!Cells
<1> QED BY <1>1, <1>2, HeapClasses

Clear(f, g) == f.at + 2 * f.class <= g.at \/ g.at + 2 * g.class <= f.at

HeapListed(F, heads, links) ==
    /\ F \subseteq Chunks
    /\ \A c \in Heap!Classes : heads[c] = 0 \/ [at |-> heads[c], class |-> c] \in F
    /\ \A f \in F :
          \/ links[f.at] = 0
          \/ /\ [at |-> links[f.at], class |-> f.class] \in F
             /\ links[f.at] # heads[f.class]
    /\ \A f, g \in F :
          f # g /\ f.class = g.class /\ links[f.at] = links[g.at] => links[f.at] = 0

(* The list of a class stays sound when its first chunk h is taken off.    *)
LEMMA TakesListed ==
    ASSUME NEW heads \in [Heap!Classes -> Int], NEW links, NEW after, NEW F,
           HeapListed(F, heads, links), NEW c \in Heap!Classes, heads[c] # 0,
           NEW h, h = [at |-> heads[c], class |-> c],
           \A f \in F : f # h => after[f.at] = links[f.at],
           NEW new, \A d \in Heap!Classes : new[d] = IF d = c THEN links[h.at] ELSE heads[d]
    PROVE  HeapListed(F \ {h}, new, after)
<1>1. h \in F /\ h.class = c /\ h.at = heads[c]
  BY DEF HeapListed
<1>2. \A d \in Heap!Classes : new[d] = IF d = c THEN links[h.at] ELSE heads[d]
  OBVIOUS
<1>3. F \ {h} \subseteq Chunks
  BY DEF HeapListed
<1>4. ASSUME NEW d \in Heap!Classes
      PROVE  new[d] = 0 \/ [at |-> new[d], class |-> d] \in F \ {h}
  <2>1. CASE d = c
    BY <2>1, <1>1, <1>2 DEF HeapListed
  <2>2. CASE d # c
    BY <2>2, <1>1, <1>2 DEF HeapListed
  <2> QED BY <2>1, <2>2
<1>5. ASSUME NEW f \in F \ {h}
      PROVE  \/ after[f.at] = 0
             \/ /\ [at |-> after[f.at], class |-> f.class] \in F \ {h}
                /\ after[f.at] # new[f.class]
  <2>1. after[f.at] = links[f.at] /\ f.class \in Heap!Classes
    BY <1>3 DEF Chunks
  <2> SUFFICES ASSUME links[f.at] # 0
               PROVE  /\ [at |-> links[f.at], class |-> f.class] \in F \ {h}
                      /\ links[f.at] # new[f.class]
    BY <2>1
  <2>2. [at |-> links[f.at], class |-> f.class] \in F /\ links[f.at] # heads[f.class]
    BY DEF HeapListed
  <2>3. [at |-> links[f.at], class |-> f.class] # h
    BY <1>1, <2>2
  <2>4. links[f.at] # new[f.class]
    BY <1>1, <1>2, <2>1, <2>2 DEF HeapListed
  <2> QED BY <2>2, <2>3, <2>4
<1>6. \A f, g \in F \ {h} :
          f # g /\ f.class = g.class /\ after[f.at] = after[g.at] => after[f.at] = 0
  BY DEF HeapListed
<1> QED BY <1>3, <1>4, <1>5, <1>6 DEF HeapListed

(* The list of a class stays sound when a chunk h is put before it.        *)
LEMMA PutsListed ==
    ASSUME NEW heads \in [Heap!Classes -> Int], NEW links, NEW after, NEW F,
           HeapListed(F, heads, links), NEW h \in Chunks, \A f \in F : f.at # h.at,
           \A f \in F : after[f.at] = links[f.at], after[h.at] = heads[h.class],
           NEW new, \A d \in Heap!Classes : new[d] = IF d = h.class THEN h.at ELSE heads[d]
    PROVE  HeapListed(F \cup {h}, new, after)
<1>1. h.class \in Heap!Classes /\ h = [at |-> h.at, class |-> h.class]
  BY DEF Chunks
<1>2. \A d \in Heap!Classes : new[d] = IF d = h.class THEN h.at ELSE heads[d]
  OBVIOUS
<1>3. F \cup {h} \subseteq Chunks
  BY DEF HeapListed
<1>4. \A d \in Heap!Classes : new[d] = 0 \/ [at |-> new[d], class |-> d] \in F \cup {h}
  BY <1>1, <1>2 DEF HeapListed
<1>5. ASSUME NEW f \in F \cup {h}
      PROVE  \/ after[f.at] = 0
             \/ /\ [at |-> after[f.at], class |-> f.class] \in F \cup {h}
                /\ after[f.at] # new[f.class]
  <2>1. CASE f = h
    <3>1. heads[h.class] = 0 \/ [at |-> heads[h.class], class |-> h.class] \in F
      BY <1>1 DEF HeapListed
    <3>2. new[h.class] = h.at
      BY <1>1, <1>2
    <3>3. [at |-> heads[h.class], class |-> h.class] \in F => heads[h.class] # h.at
      OBVIOUS
    <3> QED BY <2>1, <3>1, <3>2, <3>3
  <2>2. CASE f \in F
    <3>1. after[f.at] = links[f.at] /\ f.class \in Heap!Classes
      BY <2>2 DEF HeapListed, Chunks
    <3>2. \/ links[f.at] = 0
          \/ /\ [at |-> links[f.at], class |-> f.class] \in F
             /\ links[f.at] # heads[f.class]
      BY <2>2 DEF HeapListed
    <3>3. [at |-> links[f.at], class |-> f.class] \in F => links[f.at] # h.at
      OBVIOUS
    <3> QED BY <1>2, <3>1, <3>2, <3>3
  <2> QED BY <2>1, <2>2
<1>6. ASSUME NEW f \in F \cup {h}, NEW g \in F \cup {h},
             f # g, f.class = g.class, after[f.at] = after[g.at]
      PROVE  after[f.at] = 0
  <2>1. \A e \in F : e.class = h.class => links[e.at] = 0 \/ links[e.at] # heads[h.class]
    BY DEF HeapListed
  <2> QED BY <1>6, <2>1 DEF HeapListed
<1> QED BY <1>3, <1>4, <1>5, <1>6 DEF HeapListed

(* The chunks of N are linked through p, the first of them is the head.    *)
Chained(F, heads, links, c, k, p, N, new, after) ==
    /\ heads \in [Heap!Classes -> Int] /\ HeapListed(F, heads, links)
    /\ c \in Heap!Classes /\ k \in Nat /\ k >= 2
    /\ \A i \in 1 .. k - 1 : p[i] \in Heap!Cells
    /\ \A i, j \in 1 .. k - 1 : p[i] = p[j] => i = j
    /\ N = {[at |-> p[i], class |-> c] : i \in 1 .. k - 1}
    /\ \A f \in F, i \in 1 .. k - 1 : f.at # p[i]
    /\ \A f \in F : after[f.at] = links[f.at]
    /\ \A i \in 1 .. k - 1 : after[p[i]] = IF i = k - 1 THEN 0 ELSE p[i + 1]
    /\ \A d \in Heap!Classes : new[d] = IF d = c THEN p[1] ELSE heads[d]

(* The list of a class becomes the chain of chunks that were just cut.     *)
LEMMA ChainsListed ==
    ASSUME NEW F, NEW heads, NEW links, NEW c, NEW k, NEW p, NEW N, NEW new, NEW after,
           Chained(F, heads, links, c, k, p, N, new, after)
    PROVE  HeapListed(F \cup N, new, after)
<1> SUFFICES
      ASSUME heads \in [Heap!Classes -> Int], HeapListed(F, heads, links),
             c \in Heap!Classes, k \in Nat, k >= 2,
             \A i \in 1 .. k - 1 : p[i] \in Heap!Cells,
             \A i, j \in 1 .. k - 1 : p[i] = p[j] => i = j,
             N = {[at |-> p[i], class |-> c] : i \in 1 .. k - 1},
             \A f \in F, i \in 1 .. k - 1 : f.at # p[i],
             \A f \in F : after[f.at] = links[f.at],
             \A i \in 1 .. k - 1 : after[p[i]] = IF i = k - 1 THEN 0 ELSE p[i + 1],
             \A d \in Heap!Classes : new[d] = IF d = c THEN p[1] ELSE heads[d]
      PROVE  HeapListed(F \cup N, new, after)
  BY DEF Chained
<1>1. \A d \in Heap!Classes : new[d] = IF d = c THEN p[1] ELSE heads[d]
  OBVIOUS
<1>2. N \subseteq Chunks
  BY DEF Chunks
<1>3. F \cup N \subseteq Chunks
  BY <1>2 DEF HeapListed
<1>4. 1 \in 1 .. k - 1 /\ \A i \in 1 .. k - 1 : i # k - 1 => i + 1 \in 1 .. k - 1 /\ i + 1 # 1
  OBVIOUS
<1>5. \A d \in Heap!Classes : new[d] = 0 \/ [at |-> new[d], class |-> d] \in F \cup N
  BY <1>1, <1>4 DEF HeapListed
<1>6. ASSUME NEW f \in F \cup N
      PROVE  \/ after[f.at] = 0
             \/ /\ [at |-> after[f.at], class |-> f.class] \in F \cup N
                /\ after[f.at] # new[f.class]
  <2>1. CASE f \in F
    <3>1. after[f.at] = links[f.at] /\ f.class \in Heap!Classes
      BY <2>1 DEF HeapListed, Chunks
    <3>2. \/ links[f.at] = 0
          \/ /\ [at |-> links[f.at], class |-> f.class] \in F
             /\ links[f.at] # heads[f.class]
      BY <2>1 DEF HeapListed
    <3>3. [at |-> links[f.at], class |-> f.class] \in F => links[f.at] # p[1]
      BY <1>4
    <3> QED BY <1>1, <3>1, <3>2, <3>3
  <2>2. CASE f \in N
    <3> PICK i \in 1 .. k - 1 : f = [at |-> p[i], class |-> c]
      BY <2>2
    <3>1. f.at = p[i] /\ f.class = c /\ new[c] = p[1]
      BY <1>1
    <3>2. CASE i = k - 1
      BY <3>1, <3>2
    <3>3. CASE i # k - 1
      <4>1. i + 1 \in 1 .. k - 1 /\ i + 1 # 1 /\ after[p[i]] = p[i + 1]
        BY <3>3, <1>4
      <4>2. p[i + 1] # p[1] /\ [at |-> p[i + 1], class |-> c] \in N
        BY <4>1, <1>4
      <4> QED BY <3>1, <4>1, <4>2
    <3> QED BY <3>2, <3>3
  <2> QED BY <2>1, <2>2
<1>7. ASSUME NEW f \in F \cup N, NEW g \in F \cup N,
             f # g, f.class = g.class, after[f.at] = after[g.at], after[f.at] # 0
      PROVE  FALSE
  <2>1. \A e \in N : \E i \in 1 .. k - 1 : e = [at |-> p[i], class |-> c]
    OBVIOUS
  <2>2. \A e \in F : after[e.at] = 0 \/ [at |-> after[e.at], class |-> e.class] \in F
    BY DEF HeapListed
  <2>3. \A e \in N : after[e.at] = 0 \/ \E i \in 1 .. k - 1 : e.at = p[i] /\ i + 1 \in 1 .. k - 1 /\ after[e.at] = p[i + 1]
    BY <2>1, <1>4
  <2>4. CASE f \in F /\ g \in F
    BY <1>7, <2>4 DEF HeapListed
  <2>5. \A e \in F, d \in N : after[e.at] # 0 => after[e.at] # after[d.at]
    <3> SUFFICES ASSUME NEW e \in F, NEW d \in N, after[e.at] # 0, after[e.at] = after[d.at]
                 PROVE  FALSE
      OBVIOUS
    <3>1. [at |-> after[e.at], class |-> e.class] \in F
      BY <2>2
    <3> PICK i \in 1 .. k - 1 : i + 1 \in 1 .. k - 1 /\ after[d.at] = p[i + 1]
      BY <2>3
    <3>2. [at |-> after[e.at], class |-> e.class].at # p[i + 1]
      BY <3>1
    <3> QED BY <3>2
  <2>6. CASE f \in N /\ g \in N
    <3> PICK i \in 1 .. k - 1 : f.at = p[i] /\ i + 1 \in 1 .. k - 1 /\ after[f.at] = p[i + 1]
      BY <2>3, <2>6, <1>7
    <3> PICK j \in 1 .. k - 1 : g.at = p[j] /\ j + 1 \in 1 .. k - 1 /\ after[g.at] = p[j + 1]
      BY <2>3, <2>6, <1>7
    <3>1. i + 1 = j + 1
      BY <1>7
    <3>2. f.at = g.at
      BY <3>1
    <3> QED BY <3>2, <2>1, <2>6, <1>7
  <2> QED BY <1>7, <2>4, <2>5, <2>6
<1> QED BY <1>3, <1>5, <1>6, <1>7 DEF HeapListed

(***************************************************************************)
(* The chunks that are listed and those the data of callers lie in are     *)
(* apart, below the rest of the area.                                      *)
(***************************************************************************)
HeapHeld == BagToSet(h_live)

Whole(x) == [at |-> x.at - 1, class |-> Heap!Class(x.bytes) + 1]

Below(f, top) == f.at + 2 * f.class <= top

HeapTiles(F, H, top) ==
    /\ \A f \in F : Below(f, top)
    /\ \A f, g \in F : f # g => Clear(f, g)
    /\ \A x \in H : Whole(x).at \in Nat \ {0} /\ Below(Whole(x), top)
    /\ \A x \in H, f \in F : Clear(Whole(x), f)
    /\ \A x, y \in H : x # y => Clear(Whole(x), Whole(y))

Data == [at : Heap!Cells, bytes : HeapRequests]

(* The chunk a caller holds data of, and where these data are.             *)
LEMMA WholeTyped ==
    ASSUME RequestsInside, NEW x \in Data
    PROVE  /\ Whole(x).at = x.at - 1 /\ Whole(x).class = Heap!Class(x.bytes) + 1
           /\ Whole(x).class \in Heap!Classes /\ Heap!Class(x.bytes) \in Heap!Classes
           /\ x.at \in Nat \ {0} /\ Heap!Class(x.bytes) \in Nat \ {0}
           /\ Heap!Data(x) = x.at .. x.at + 2 * Heap!Class(x.bytes) - 1
<1>1. x.bytes \in HeapRequests /\ x.at \in Heap!Cells
  BY DEF Data
<1>2. x.at \in Nat \ {0}
  BY <1>1, HeapAssumption DEF Heap!Cells
<1>3. Heap!Data(x) = x.at .. x.at + 2 * Heap!Class(x.bytes) - 1
  BY <1>1, HeapSizes DEF Heap!Data
<1> QED BY <1>1, <1>2, <1>3, HeapSizes, HeapClasses DEF Whole

(* A chunk of a list goes to a caller.                                     *)
LEMMA TakesTile ==
    ASSUME RequestsInside, NEW F, NEW H \in SUBSET Data, NEW top \in Nat,
           F \subseteq Chunks, HeapTiles(F, H, top), NEW h \in F, NEW x \in Data, Whole(x) = h
    PROVE  HeapTiles(F \ {h}, H \cup {x}, top)
<1>1. \A f \in Chunks : f.at \in Nat \ {0} /\ f.class \in Nat \ {0}
  BY ChunksTyped
<1>2. \A y \in H : Whole(y).at \in Nat \ {0} /\ Whole(y).class \in Nat
  BY WholeTyped, HeapClasses DEF HeapTiles
<1>3. Whole(x).at \in Nat \ {0} /\ Below(Whole(x), top)
  BY <1>1 DEF HeapTiles
<1>4. \A y \in H : Clear(Whole(y), h) /\ Clear(h, Whole(y))
  BY <1>1, <1>2 DEF HeapTiles, Clear
<1>5. \A f \in F : f # h => Clear(Whole(x), f)
  BY DEF HeapTiles
<1> QED BY <1>3, <1>4, <1>5 DEF HeapTiles

(* What callers give back is listed inside the chunk it was.               *)
LEMMA GivesTile ==
    ASSUME RequestsInside, NEW F, NEW H \in SUBSET Data, NEW top \in Nat,
           F \subseteq Chunks, HeapTiles(F, H, top), NEW x \in H,
           NEW h, h = [at |-> x.at, class |-> Heap!Class(x.bytes)]
    PROVE  /\ h \in Chunks /\ \A f \in F : Clear(h, f)
           /\ HeapTiles(F \cup {h}, H \ {x}, top)
<1>1. \A f \in Chunks : f.at \in Nat \ {0} /\ f.class \in Nat \ {0}
  BY ChunksTyped
<1>2. \A y \in H : Whole(y).at \in Nat \ {0} /\ Whole(y).class \in Nat
  BY WholeTyped, HeapClasses DEF HeapTiles
<1>3. /\ Whole(x).at = h.at - 1 /\ Whole(x).class = h.class + 1
      /\ h.at \in Nat \ {0} /\ h.class \in Nat \ {0} /\ h \in Chunks
  BY WholeTyped DEF Chunks, Data
<1>4. \A f \in F : Clear(Whole(x), f)
  BY DEF HeapTiles
<1>5. \A f \in F : Clear(h, f) /\ Clear(f, h)
  BY <1>1, <1>3, <1>4 DEF Clear
<1>6. \A y \in H : y # x => Clear(Whole(y), h)
  <2> SUFFICES ASSUME NEW y \in H, y # x PROVE Clear(Whole(y), h)
    OBVIOUS
  <2>1. Clear(Whole(y), Whole(x))
    BY DEF HeapTiles
  <2> QED BY <2>1, <1>2, <1>3 DEF Clear
<1>7. Below(h, top)
  <2>1. Below(Whole(x), top)
    BY DEF HeapTiles
  <2> QED BY <2>1, <1>3 DEF Below
<1> QED BY <1>3, <1>5, <1>6, <1>7 DEF HeapTiles

(* Of rows of w cells each, an earlier one ends before a later one.        *)
LEMMA RowsApart ==
    ASSUME NEW i \in Nat, NEW j \in Nat, i < j, NEW w \in Nat
    PROVE  i * w + w <= j * w /\ i * w \in Nat /\ j * w \in Nat
<1> PICK d \in Nat : j = i + 1 + d
  <2>1. j - i - 1 \in Nat /\ j = i + 1 + (j - i - 1)
    OBVIOUS
  <2> QED BY <2>1
<1>1. (i + 1 + d) * w = i * w + w + d * w
  OBVIOUS
<1>2. d * w \in Nat /\ i * w \in Nat /\ j * w \in Nat
  OBVIOUS
<1> QED BY <1>1, <1>2

(* Chunks cut from the rest: one for the caller, the others listed.        *)
CutRow(F, H, top, s, c, k, w, x, N) ==
    /\ H \in SUBSET Data /\ top \in Nat /\ F \subseteq Chunks /\ HeapTiles(F, H, top)
    /\ s \in Nat \ {0} /\ top <= s /\ c \in Heap!Classes /\ k \in Nat \ {0}
    /\ w = 2 * c /\ s + k * w <= HeapCells + 1
    /\ x \in Data /\ Whole(x) = [at |-> s, class |-> c]
    /\ N = {[at |-> s + i * w, class |-> c] : i \in 1 .. k - 1}

(* Chunks cut behind everything else stay apart from it.                   *)
LEMMA CutsTiles ==
    ASSUME RequestsInside, NEW F, NEW H, NEW top, NEW s, NEW c, NEW k, NEW w, NEW x, NEW N,
           CutRow(F, H, top, s, c, k, w, x, N)
    PROVE  /\ N \subseteq Chunks /\ \A f \in F : f.at + 2 * f.class <= s
           /\ \A g \in N : g.at >= s + w
           /\ HeapTiles(F \cup N, H \cup {x}, s + k * w)
<1> SUFFICES
      ASSUME H \in SUBSET Data, top \in Nat, F \subseteq Chunks, HeapTiles(F, H, top),
             s \in Nat \ {0}, top <= s, c \in Heap!Classes, k \in Nat \ {0},
             w = 2 * c, s + k * w <= HeapCells + 1,
             x \in Data, Whole(x) = [at |-> s, class |-> c],
             N = {[at |-> s + i * w, class |-> c] : i \in 1 .. k - 1}
      PROVE  /\ N \subseteq Chunks /\ \A f \in F : f.at + 2 * f.class <= s
             /\ \A g \in N : g.at >= s + w
             /\ HeapTiles(F \cup N, H \cup {x}, s + k * w)
  BY DEF CutRow
<1>1. \A f \in Chunks : f.at \in Nat \ {0} /\ f.class \in Nat \ {0}
  BY ChunksTyped
<1>2. \A y \in H : Whole(y).at \in Nat \ {0} /\ Whole(y).class \in Nat
  BY WholeTyped, HeapClasses DEF HeapTiles
<1>3. c \in Nat \ {0} /\ w \in Nat \ {0}
  BY HeapClasses
<1>4. \A i \in 1 .. k - 1 : /\ i * w + w <= k * w /\ w <= i * w /\ i * w \in Nat
                            /\ s + i * w \in Heap!Cells
  <2> SUFFICES ASSUME NEW i \in 1 .. k - 1
               PROVE  i * w + w <= k * w /\ w <= i * w /\ i * w \in Nat /\ s + i * w \in Heap!Cells
    OBVIOUS
  <2>1. i \in Nat /\ i < k /\ 0 \in Nat /\ 0 < i
    OBVIOUS
  <2>2. i * w + w <= k * w /\ i * w \in Nat /\ k * w \in Nat
    BY <2>1, <1>3, RowsApart
  <2>3. 0 * w + w <= i * w
    BY <2>1, <1>3, RowsApart
  <2>4. w <= i * w
    BY <2>3, <1>3
  <2> PICK a \in Nat, b \in Nat : a = i * w /\ b = k * w
    BY <2>2
  <2>5. s + a \in 1 .. HeapCells
    BY <2>2, <2>4, <1>3, HeapAssumption
  <2> QED BY <2>2, <2>4, <2>5 DEF Heap!Cells
<1>5. \A i, j \in 1 .. k - 1 : i < j => i * w + w <= j * w
  BY <1>3, RowsApart
<1>6. w <= k * w /\ k * w \in Nat
  <2>1. 0 \in Nat /\ 0 < k
    OBVIOUS
  <2>2. 0 * w + w <= k * w /\ k * w \in Nat
    BY <2>1, <1>3, RowsApart
  <2> QED BY <2>2, <1>3
<1>7. N \subseteq Chunks
  BY <1>4 DEF Chunks
<1>8. ASSUME NEW g \in N
      PROVE  g.at >= s + w /\ g.at + 2 * g.class <= s + k * w /\ g.at \in Nat
  <2> PICK i \in 1 .. k - 1 : g = [at |-> s + i * w, class |-> c]
    OBVIOUS
  <2> PICK a \in Nat, b \in Nat : a = i * w /\ b = k * w
    BY <1>4, <1>6
  <2>1. g.at = s + a /\ 2 * g.class = w /\ a + w <= b /\ w <= a
    BY <1>4
  <2> QED BY <2>1, <1>3
<1>9. \A f \in F : f.at + 2 * f.class <= s
  BY <1>1 DEF HeapTiles, Below
<1>10. ASSUME NEW f \in F \cup N PROVE Below(f, s + k * w)
  <2>1. CASE f \in F
    BY <2>1, <1>1, <1>6, <1>9 DEF Below
  <2>2. CASE f \in N
    BY <2>2, <1>8 DEF Below
  <2> QED BY <2>1, <2>2
<1>11. ASSUME NEW f \in F \cup N, NEW g \in F \cup N, f # g PROVE Clear(f, g)
  <2>1. CASE f \in F /\ g \in F
    BY <2>1, <1>11 DEF HeapTiles
  <2>2. CASE f \in F /\ g \in N
    BY <2>2, <1>1, <1>3, <1>8, <1>9 DEF Clear
  <2>3. CASE f \in N /\ g \in F
    BY <2>3, <1>1, <1>3, <1>8, <1>9 DEF Clear
  <2>4. CASE f \in N /\ g \in N
    <3> PICK i \in 1 .. k - 1 : f = [at |-> s + i * w, class |-> c]
      BY <2>4
    <3> PICK j \in 1 .. k - 1 : g = [at |-> s + j * w, class |-> c]
      BY <2>4
    <3> PICK a \in Nat, b \in Nat : a = i * w /\ b = j * w
      BY <1>4
    <3>1. i < j \/ j < i
      BY <1>11
    <3>2. a + w <= b \/ b + w <= a
      BY <3>1, <1>5
    <3>3. f.at = s + a /\ g.at = s + b /\ 2 * f.class = w /\ 2 * g.class = w
      OBVIOUS
    <3> QED BY <3>2, <3>3, <1>3 DEF Clear
  <2> QED BY <2>1, <2>2, <2>3, <2>4
<1>12. Whole(x).at = s /\ 2 * Whole(x).class = w
  OBVIOUS
<1>13. Whole(x).at \in Nat \ {0} /\ Below(Whole(x), s + k * w)
  BY <1>12, <1>3, <1>6 DEF Below
<1>14. \A y \in H : Whole(y).at + 2 * Whole(y).class <= s
  BY <1>2 DEF HeapTiles, Below
<1>15. \A y \in H : Below(Whole(y), s + k * w) /\ Clear(Whole(x), Whole(y)) /\ Clear(Whole(y), Whole(x))
  BY <1>2, <1>3, <1>6, <1>12, <1>14 DEF Below, Clear
<1>16. \A f \in F \cup N : Clear(Whole(x), f)
  BY <1>1, <1>3, <1>8, <1>9, <1>12 DEF Clear
<1>17. \A y \in H, f \in F \cup N : Clear(Whole(y), f)
  <2> SUFFICES ASSUME NEW y \in H, NEW f \in F \cup N PROVE Clear(Whole(y), f)
    OBVIOUS
  <2>1. CASE f \in F
    BY <2>1 DEF HeapTiles
  <2>2. CASE f \in N
    BY <2>2, <1>2, <1>3, <1>8, <1>14 DEF Clear
  <2> QED BY <2>1, <2>2
<1>18. \A y \in H \cup {x} : Whole(y).at \in Nat \ {0} /\ Below(Whole(y), s + k * w)
  BY <1>2, <1>13, <1>15
<1>19. \A y, z \in H \cup {x} : y # z => Clear(Whole(y), Whole(z))
  BY <1>15 DEF HeapTiles
<1>20. \A y \in H \cup {x}, f \in F \cup N : Clear(Whole(y), f)
  BY <1>16, <1>17
<1> QED BY <1>7, <1>8, <1>9, <1>10, <1>11, <1>18, <1>19, <1>20 DEF HeapTiles

(* What was left of an area becomes a listed chunk.                        *)
LEMMA RestTile ==
    ASSUME RequestsInside, NEW F, NEW H \in SUBSET Data, NEW top \in Nat,
           F \subseteq Chunks, HeapTiles(F, H, top),
           NEW h \in Chunks, h.at = top, NEW end \in Nat, end = top + 2 * h.class
    PROVE  HeapTiles(F \cup {h}, H, end) /\ \A f \in F : f.at + 2 * f.class <= h.at
<1>1. \A f \in Chunks : f.at \in Nat \ {0} /\ f.class \in Nat \ {0}
  BY ChunksTyped
<1>2. \A y \in H : Whole(y).at \in Nat \ {0} /\ Whole(y).class \in Nat
  BY WholeTyped, HeapClasses DEF HeapTiles
<1>3. \A f \in F : f.at + 2 * f.class <= h.at
  BY <1>1 DEF HeapTiles, Below
<1>4. \A y \in H : Whole(y).at + 2 * Whole(y).class <= h.at
  BY <1>1, <1>2 DEF HeapTiles, Below
<1>5. \A f \in F \cup {h} : Below(f, end)
  BY <1>1, <1>3 DEF Below
<1>6. \A f, g \in F \cup {h} : f # g => Clear(f, g)
  BY <1>1, <1>3 DEF HeapTiles, Clear
<1>7. \A y \in H : Below(Whole(y), end)
  BY <1>1, <1>2, <1>4 DEF Below
<1>8. \A y \in H : Clear(Whole(y), h)
  BY <1>1, <1>2, <1>4 DEF Clear
<1> QED BY <1>3, <1>5, <1>6, <1>7, <1>8 DEF HeapTiles

(***************************************************************************)
(* The invariant of the heap pool.                                         *)
(***************************************************************************)
HeapTyped ==
    /\ h_start_free \in {0} \cup Heap!Cells /\ h_end_free \in {0} \cup Heap!Cells
    /\ h_heap_size \in Nat /\ h_crashed \in BOOLEAN
    /\ h_free_list \in [Heap!Classes -> Heap!Cells \cup {0}]
    /\ h_link \in [Heap!Cells -> Heap!Cells \cup {0, -1}]
    /\ IsABag(h_live) /\ HeapHeld \subseteq Data
    /\ \A x \in HeapHeld : h_live[x] = 1

HeapArea ==
    /\ h_start_free = 0 => h_end_free = 0
    /\ \E r \in Nat : h_end_free = h_start_free + 2 * r

HeapSound(F) ==
    HeapListed(F, h_free_list, h_link) /\ HeapTiles(F, HeapHeld, h_start_free)

HeapInv == HeapTyped /\ (~h_crashed => HeapArea /\ \E F : HeapSound(F))

(* The operators the heap pool takes from the library are the library's.   *)
LEMMA HeapBags ==
    /\ Heap!EmptyBag = EmptyBag
    /\ \A B : Heap!BagToSet(B) = BagToSet(B) /\ (Heap!IsABag(B) <=> IsABag(B))
    /\ \A S : Heap!SetToBag(S) = SetToBag(S)
<1>1. \A S : Heap!SetToBag(S) = SetToBag(S)
  BY DEF Heap!SetToBag, SetToBag
<1>2. \A B : Heap!BagToSet(B) = BagToSet(B) /\ (Heap!IsABag(B) <=> IsABag(B))
  BY DEF Heap!BagToSet, BagToSet, Heap!IsABag, IsABag
<1> QED BY <1>1, <1>2 DEF Heap!EmptyBag, EmptyBag

(* The sum of bags that HeapPool takes from the library.                   *)
LEMMA HeapAdds == \A B, C : Heap!(+)(B, C) = B (+) C
BY DEF Heap!(+), (+)

(* The difference of bags that HeapPool takes from the library.            *)
LEMMA HeapTakes == \A B, C : Heap!(-)(B, C) = B (-) C
BY DEF Heap!(-), (-)

(* What callers hold, in the words of these proofs.                        *)
LEMMA HeapHeldIs == Heap!Held = HeapHeld
BY HeapBags DEF Heap!Held, HeapHeld

(* The memory malloc may give, and the values that are no chunk.           *)
LEMMA HeapCellsAre ==
    /\ Heap!Cells = 1 .. HeapCells /\ HeapCells \in Nat
    /\ Heap!NULL = 0 /\ Heap!Lost = -1
BY HeapAssumption DEF Heap!Cells, Heap!NULL, Heap!Lost

(* A chunk is handed out: who holds it, and what is left of the links.     *)
LEMMA HeapGives ==
    ASSUME RequestsInside, HeapTyped, NEW n \in HeapRequests, NEW a \in Nat \ {0},
           a + 1 \in Heap!Cells, NEW chain, Heap!Give(a, n, chain),
           DOMAIN chain \subseteq Heap!Cells,
           \A b \in DOMAIN chain : chain[b] \in Heap!Cells \cup {0},
           NEW x, x = [at |-> a + 1, bytes |-> n], x \notin HeapHeld,
           NEW c, c = Heap!Class(n + Heap!HeadBytes)
    PROVE  /\ x \in Data /\ Whole(x) = [at |-> a, class |-> c]
           /\ IsABag(h_live') /\ HeapHeld' = HeapHeld \cup {x}
           /\ \A y \in HeapHeld' : h_live'[y] = 1
           /\ h_link' \in [Heap!Cells -> Heap!Cells \cup {0, -1}]
           /\ \A b \in Heap!Cells :
                 /\ b \in DOMAIN chain => h_link'[b] = chain[b]
                 /\ /\ b \notin DOMAIN chain
                    /\ b + 1 < a \/ a + 2 * c <= b
                    /\ \A g \in DOMAIN chain : b + 1 < g \/ g + 2 <= b
                    => h_link'[b] = h_link[b]
<1>1. /\ Heap!Class(n) \in Nat \ {0} /\ c = Heap!Class(n) + 1
  BY HeapSizes, HeapClasses
<1>2. x \in Data /\ x.at = a + 1 /\ x.bytes = n
  BY DEF Data
<1>3. Whole(x) = [at |-> a, class |-> c]
  <2>1. a + 1 - 1 = a
    OBVIOUS
  <2> QED BY <2>1, <1>1, <1>2 DEF Whole
<1>4. Heap!Data(x) = a + 1 .. a + 1 + 2 * Heap!Class(n) - 1
  BY <1>2, WholeTyped
<1>5. h_live' = h_live (+) SetToBag({x}) 
      /\ h_link' = Heap!Relink({a} \cup Heap!Data(x) \cup Heap!Both(DOMAIN chain), chain)
  BY HeapBags, HeapAdds DEF Heap!Give
<1>6. IsABag(h_live') /\ HeapHeld' = HeapHeld \cup {x} /\ \A y \in HeapHeld' : h_live'[y] = 1
  <2>1. IsABag(h_live) /\ \A y \in HeapHeld : h_live[y] = 1
    BY DEF HeapTyped
  <2> QED BY <2>1, <1>5, BagGains DEF HeapHeld
<1> DEFINE S == {a} \cup Heap!Data(x) \cup Heap!Both(DOMAIN chain)
<1>7. h_link' = [b \in Heap!Cells |->
                    IF b \in DOMAIN chain THEN chain[b]
                    ELSE IF b \in S \/ b + 1 \in S THEN -1 ELSE h_link[b]]
  BY <1>5, HeapCellsAre DEF Heap!Relink
<1>8. ASSUME NEW b \in Heap!Cells, b + 1 < a \/ a + 2 * c <= b,
             \A g \in DOMAIN chain : b + 1 < g \/ g + 2 <= b
      PROVE  b \notin S /\ b + 1 \notin S
  <2> PICK q \in Nat \ {0} : q = Heap!Class(n)
    BY <1>1
  <2>1. b \in Nat /\ c = q + 1
    BY <1>1, HeapCellsAre
  <2>2. b \notin {a} \cup Heap!Data(x) /\ b + 1 \notin {a} \cup Heap!Data(x)
    BY <1>4, <1>8, <2>1
  <2>3. b \notin Heap!Both(DOMAIN chain) /\ b + 1 \notin Heap!Both(DOMAIN chain)
    <3>1. \A g \in DOMAIN chain : g \in Nat /\ g # b /\ g # b + 1 /\ g + 1 # b /\ g + 1 # b + 1
      BY <1>8, <2>1, HeapCellsAre
    <3> QED BY <3>1 DEF Heap!Both
  <2> QED BY <2>2, <2>3
<1> HIDE DEF S
<1>9. h_link' \in [Heap!Cells -> Heap!Cells \cup {0, -1}]
  <2>1. h_link \in [Heap!Cells -> Heap!Cells \cup {0, -1}]
    BY DEF HeapTyped
  <2> QED BY <2>1, <1>7
<1> QED BY <1>2, <1>3, <1>6, <1>7, <1>8, <1>9

(* The list of a class gives its first chunk.                              *)
LEMMA HeapPopKeeps ==
    ASSUME RequestsInside, HeapInv, ~h_crashed, NEW n \in HeapRequests, Heap!Pop(n)
    PROVE  HeapInv'
<1> PICK c : c = Heap!Class(n + Heap!HeadBytes)
  OBVIOUS
<1>1. c \in Heap!Classes /\ c \in Nat \ {0}
  BY HeapSizes, HeapClasses
<1> PICK F : HeapSound(F)
  BY DEF HeapInv
<1>2. HeapTyped /\ HeapArea
  BY DEF HeapInv
<1>3. F \subseteq Chunks /\ HeapListed(F, h_free_list, h_link)
      /\ HeapTiles(F, HeapHeld, h_start_free)
  BY DEF HeapSound, HeapListed
<1> PICK a : a = h_free_list[c]
  OBVIOUS
<1> PICK h : h = [at |-> a, class |-> c]
  OBVIOUS
<1>4. /\ a # 0 /\ h_link[a] # -1
      /\ h_free_list' = [h_free_list EXCEPT ![c] = h_link[a]]
      /\ Heap!Give(a, n, << >>)
      /\ UNCHANGED <<h_start_free, h_end_free, h_heap_size, h_crashed>>
  BY HeapCellsAre DEF Heap!Pop
<1>5. h \in F /\ h.at = a /\ h.class = c
  BY <1>1, <1>3, <1>4 DEF HeapListed
<1>6. h_start_free \in Nat /\ h_start_free <= HeapCells
  BY <1>2, HeapCellsAre DEF HeapTyped
<1>7. a \in Nat \ {0} /\ a + 2 * c <= h_start_free /\ a + 1 \in Heap!Cells /\ a \in Heap!Cells
  <2>1. a \in Nat \ {0} /\ a \in Heap!Cells
    BY <1>3, <1>5, ChunksTyped
  <2>2. a + 2 * c <= h_start_free
    BY <1>3, <1>5 DEF HeapTiles, Below
  <2> QED BY <2>1, <2>2, <1>1, <1>6, HeapCellsAre
<1> PICK x : x = [at |-> a + 1, bytes |-> n]
  OBVIOUS
<1>8. x \in Data /\ Whole(x) = h
  <2>1. x \in Data /\ x.at = a + 1 /\ x.bytes = n
    BY <1>7 DEF Data
  <2>2. Heap!Class(n) + 1 = c
    BY HeapSizes
  <2>3. x.at - 1 = a /\ Heap!Class(x.bytes) + 1 = c
    BY <1>7, <2>1, <2>2
  <2>4. Whole(x) = [at |-> x.at - 1, class |-> Heap!Class(x.bytes) + 1]
    BY DEF Whole
  <2> QED BY <2>1, <2>3, <2>4
<1>9. x \notin HeapHeld
  <2> SUFFICES ASSUME x \in HeapHeld PROVE FALSE
    OBVIOUS
  <2>1. Clear(h, h)
    BY <1>3, <1>5, <1>8 DEF HeapTiles
  <2> QED BY <2>1, <1>1, <1>5, <1>7 DEF Clear
<1>10. /\ IsABag(h_live') /\ HeapHeld' = HeapHeld \cup {x}
       /\ \A y \in HeapHeld' : h_live'[y] = 1
       /\ h_link' \in [Heap!Cells -> Heap!Cells \cup {0, -1}]
       /\ \A b \in Heap!Cells : b + 1 < a \/ a + 2 * c <= b => h_link'[b] = h_link[b]
  <2>1. DOMAIN << >> = {} 
    OBVIOUS
  <2> QED BY <2>1, <1>2, <1>4, <1>7, <1>9, HeapGives
<1>11. \A f \in F : f # h => h_link'[f.at] = h_link[f.at]
  <2> SUFFICES ASSUME NEW f \in F, f # h PROVE h_link'[f.at] = h_link[f.at]
    OBVIOUS
  <2>1. Clear(f, h) /\ f.at \in Nat \ {0} /\ f.class \in Nat \ {0} /\ f.at \in Heap!Cells
    BY <1>3, <1>5, ChunksTyped DEF HeapTiles
  <2>2. f.at + 1 < a \/ a + 2 * c <= f.at
    BY <2>1, <1>1, <1>5, <1>7 DEF Clear
  <2> QED BY <2>1, <2>2, <1>10
<1> PICK heads, links, after, new :
        heads = h_free_list /\ links = h_link /\ after = h_link' /\ new = h_free_list'
  OBVIOUS
<1>12. heads \in [Heap!Classes -> Int] /\ heads[c] = a
  BY <1>2, HeapCellsAre DEF HeapTyped
<1>13. HeapListed(F \ {h}, new, after)
  <2>1. \A d \in Heap!Classes : new[d] = IF d = c THEN links[h.at] ELSE heads[d]
    BY <1>4, <1>5, <1>12
  <2>2. HeapListed(F, heads, links) /\ \A f \in F : f # h => after[f.at] = links[f.at]
    BY <1>3, <1>11
  <2>3. c \in Heap!Classes /\ heads[c] # 0 /\ h = [at |-> heads[c], class |-> c]
    BY <1>1, <1>4, <1>12
  <2> QED BY <1>12, <2>1, <2>2, <2>3, TakesListed
<1>14. HeapTiles(F \ {h}, HeapHeld \cup {x}, h_start_free)
  <2>1. HeapHeld \in SUBSET Data
    BY <1>2 DEF HeapTyped
  <2> QED BY <2>1, <1>3, <1>5, <1>6, <1>8, TakesTile
<1>15. HeapSound(F \ {h})'
  <2>1. HeapListed(F \ {h}, h_free_list', h_link')
    BY <1>13
  <2>2. HeapTiles(F \ {h}, HeapHeld', h_start_free')
    BY <1>4, <1>10, <1>14
  <2> QED BY <2>1, <2>2 DEF HeapSound, HeapListed, HeapTiles
<1>16. HeapTyped'
  <2>1. h_free_list' \in [Heap!Classes -> Heap!Cells \cup {0}]
    <3>1. h_link[a] \in Heap!Cells \cup {0}
      BY <1>2, <1>4, <1>7 DEF HeapTyped
    <3> QED BY <3>1, <1>1, <1>2, <1>4 DEF HeapTyped
  <2> QED BY <2>1, <1>2, <1>4, <1>8, <1>10 DEF HeapTyped
<1> QED BY <1>2, <1>4, <1>15, <1>16 DEF HeapInv, HeapArea

(* What is written to a chunk outside a list changes none of its links.    *)
LEMMA RelinkKeeps ==
    ASSUME NEW h \in Chunks, NEW v,
           h_link' = Heap!Relink(Heap!Both({h.at}), [b \in {h.at} |-> v])
    PROVE  /\ h_link'[h.at] = v
           /\ \A f \in Chunks : Clear(h, f) => h_link'[f.at] = h_link[f.at]
           /\ h_link \in [Heap!Cells -> Heap!Cells \cup {0, -1}] /\ v \in Heap!Cells \cup {0}
                 => h_link' \in [Heap!Cells -> Heap!Cells \cup {0, -1}]
<1>1. h_link' = [b \in Heap!Cells |->
                    IF b = h.at THEN v
                    ELSE IF b \in Heap!Both({h.at}) \/ b + 1 \in Heap!Both({h.at}) THEN -1
                    ELSE h_link[b]]
  BY HeapCellsAre DEF Heap!Relink
<1>2. Heap!Both({h.at}) = {h.at, h.at + 1}
  BY DEF Heap!Both
<1>3. h.at \in Heap!Cells /\ h.at \in Nat \ {0} /\ h.class \in Nat \ {0}
  BY ChunksTyped
<1>4. ASSUME NEW f \in Chunks, Clear(h, f) PROVE h_link'[f.at] = h_link[f.at]
  <2>1. f.at \in Heap!Cells /\ f.at \in Nat \ {0} /\ f.class \in Nat \ {0}
    BY ChunksTyped
  <2>2. f.at # h.at /\ f.at # h.at + 1 /\ f.at + 1 # h.at /\ f.at + 1 # h.at + 1
    BY <1>3, <1>4, <2>1 DEF Clear
  <2> QED BY <1>1, <1>2, <2>1, <2>2
<1>5. h_link'[h.at] = v
  BY <1>1, <1>3
<1>6. ASSUME h_link \in [Heap!Cells -> Heap!Cells \cup {0, -1}], v \in Heap!Cells \cup {0}
      PROVE  h_link' \in [Heap!Cells -> Heap!Cells \cup {0, -1}]
  BY <1>1, <1>6
<1> QED BY <1>4, <1>5, <1>6

(* What is given back is held no longer.                                   *)
LEMMA HeapLoses ==
    ASSUME IsABag(h_live), \A y \in HeapHeld : h_live[y] = 1,
           NEW piece, h_live' = h_live (-) SetToBag({piece})
    PROVE  /\ IsABag(h_live') /\ HeapHeld' = HeapHeld \ {piece}
           /\ \A y \in HeapHeld' : h_live'[y] = 1
<1>1. h_live' = h_live (-) SetToBag({piece})
  OBVIOUS
<1>2. IsABag(h_live) /\ \A y \in HeapHeld : h_live[y] = 1
  OBVIOUS
<1>3. BagToSet(h_live') = BagToSet(h_live) \ {piece}
  BY <1>1, <1>2 DEF IsABag, (-), SetToBag, BagToSet, HeapHeld
<1>4. ASSUME NEW y \in BagToSet(h_live') PROVE h_live'[y] = 1
  BY <1>1, <1>2, <1>3, <1>4 DEF IsABag, (-), SetToBag, BagToSet, HeapHeld
<1>5. IsABag(h_live')
  BY <1>1, <1>2, <1>3, <1>4 DEF IsABag, (-), SetToBag, BagToSet, HeapHeld
<1> QED BY <1>3, <1>4, <1>5 DEF HeapHeld

(* What a caller gives back becomes the first chunk of a list.             *)
LEMMA HeapDeAllocateKeeps ==
    ASSUME RequestsInside, HeapInv, NEW x \in HeapHeld, Heap!DeAllocate(x)
    PROVE  HeapInv'
<1> PICK c : c = Heap!Class(x.bytes)
  OBVIOUS
<1> PICK h : h = [at |-> x.at, class |-> c]
  OBVIOUS
<1>1. /\ ~h_crashed
      /\ h_free_list' = [h_free_list EXCEPT ![c] = x.at]
      /\ h_link' = Heap!Relink(Heap!Both({x.at}), [b \in {x.at} |-> h_free_list[c]])
      /\ h_live' = h_live (-) SetToBag({x})
      /\ UNCHANGED <<h_start_free, h_end_free, h_heap_size, h_crashed>>
  BY HeapBags, HeapTakes DEF Heap!DeAllocate
<1> PICK F : HeapSound(F)
  BY <1>1 DEF HeapInv
<1>2. HeapTyped /\ HeapArea
  BY <1>1 DEF HeapInv
<1>3. F \subseteq Chunks /\ HeapListed(F, h_free_list, h_link)
      /\ HeapTiles(F, HeapHeld, h_start_free) /\ HeapHeld \in SUBSET Data
  BY <1>2 DEF HeapSound, HeapListed, HeapTyped
<1>4. h_start_free \in Nat
  BY <1>2, HeapCellsAre DEF HeapTyped
<1>5. h \in Chunks /\ (\A f \in F : Clear(h, f))
      /\ HeapTiles(F \cup {h}, HeapHeld \ {x}, h_start_free)
  <2>1. h = [at |-> x.at, class |-> Heap!Class(x.bytes)]
    OBVIOUS
  <2> PICK H, top : H = HeapHeld /\ top = h_start_free
    OBVIOUS
  <2>2. top \in Nat /\ F \subseteq Chunks /\ HeapTiles(F, H, top) /\ H \in SUBSET Data /\ x \in H
    BY <1>3, <1>4
  <2>3. h \in Chunks /\ (\A f \in F : Clear(h, f)) /\ HeapTiles(F \cup {h}, H \ {x}, top)
    BY <1>4, <2>1, <2>2, GivesTile
  <2> QED BY <2>3
<1>6. h.at = x.at /\ h.class = c /\ h.at \in Nat \ {0} /\ h.class \in Nat \ {0}
      /\ c \in Heap!Classes /\ x.at \in Heap!Cells
  BY <1>5, ChunksTyped
<1>7. IsABag(h_live') /\ HeapHeld' = HeapHeld \ {x} /\ \A y \in HeapHeld' : h_live'[y] = 1
  <2>1. IsABag(h_live) /\ \A y \in HeapHeld : h_live[y] = 1
    BY <1>2 DEF HeapTyped
  <2> QED BY <2>1, <1>1, HeapLoses
<1>8. /\ h_link'[h.at] = h_free_list[c]
      /\ \A f \in F : h_link'[f.at] = h_link[f.at]
      /\ h_link' \in [Heap!Cells -> Heap!Cells \cup {0, -1}]
  <2>1. h_link \in [Heap!Cells -> Heap!Cells \cup {0, -1}] /\ h_free_list[c] \in Heap!Cells \cup {0}
    BY <1>2, <1>6 DEF HeapTyped
  <2> QED BY <2>1, <1>1, <1>3, <1>5, <1>6, RelinkKeeps
<1> PICK heads, links, after, new :
        heads = h_free_list /\ links = h_link /\ after = h_link' /\ new = h_free_list'
  OBVIOUS
<1>9. heads \in [Heap!Classes -> Int]
  BY <1>2, HeapCellsAre DEF HeapTyped
<1>10. \A f \in F : f.at # h.at
  <2> SUFFICES ASSUME NEW f \in F, f.at = h.at PROVE FALSE
    OBVIOUS
  <2>1. f.at \in Nat \ {0} /\ f.class \in Nat \ {0} /\ Clear(h, f)
    BY <1>3, <1>5, ChunksTyped
  <2> QED BY <2>1, <1>6 DEF Clear
<1>11. HeapListed(F \cup {h}, new, after)
  <2>1. HeapListed(F, heads, links) /\ h \in Chunks
    BY <1>3, <1>5
  <2>2. (\A f \in F : after[f.at] = links[f.at]) /\ after[h.at] = heads[h.class]
    BY <1>6, <1>8
  <2>3. \A d \in Heap!Classes : new[d] = IF d = h.class THEN h.at ELSE heads[d]
    BY <1>1, <1>6, <1>9
  <2> QED BY <2>1, <2>2, <2>3, <1>9, <1>10, PutsListed
<1>12. HeapSound(F \cup {h})'
  <2>2. HeapListed(F \cup {h}, h_free_list', h_link')
    BY <1>11
  <2>3. HeapTiles(F \cup {h}, HeapHeld', h_start_free')
    BY <1>1, <1>5, <1>7
  <2> QED BY <2>2, <2>3 DEF HeapSound, HeapListed, HeapTiles
<1>13. HeapTyped'
  <2>1. h_free_list' \in [Heap!Classes -> Heap!Cells \cup {0}]
    BY <1>1, <1>2, <1>6 DEF HeapTyped
  <2> QED BY <2>1, <1>1, <1>2, <1>7, <1>8 DEF HeapTyped
<1> QED BY <1>1, <1>2, <1>12, <1>13 DEF HeapInv, HeapArea

(* Chunks are cut at s: the first goes to the caller, the others are put   *)
(* in a list.  F and lists are what is listed before, with links that are  *)
(* those of the memory but for the ones chain0 is about to write.          *)
Prepared(F, lists, links, top, chain0) ==
    /\ lists \in [Heap!Classes -> Heap!Cells \cup {0}] /\ HeapListed(F, lists, links)
    /\ top \in Nat /\ HeapTiles(F, HeapHeld, top)
    /\ DOMAIN chain0 \subseteq {f.at : f \in F}
    /\ \A b \in DOMAIN chain0 : chain0[b] \in Heap!Cells \cup {0}
    /\ \A f \in F : links[f.at] = IF f.at \in DOMAIN chain0 THEN chain0[f.at]
                                 ELSE h_link[f.at]

CutReady(F, lists, links, top, chain0, c, s, k, w) ==
    /\ Prepared(F, lists, links, top, chain0)
    /\ s \in Nat \ {0} /\ k \in Nat \ {0} /\ top <= s
    /\ w = 2 * c /\ s + k * w <= HeapCells

(* Cutting k chunks at s keeps lists sound and chunks apart.               *)
LEMMA HeapCutKeeps ==
    ASSUME RequestsInside, HeapTyped, NEW n \in HeapRequests, NEW F, NEW lists, NEW links,
           NEW top, NEW chain0, NEW c, c = Heap!Class(n + Heap!HeadBytes), NEW s, NEW k, NEW w,
           CutReady(F, lists, links, top, chain0, c, s, k, w), Heap!Cut(n, s, k, lists, chain0)
    PROVE  /\ \E G : HeapListed(G, h_free_list', h_link') /\ HeapTiles(G, HeapHeld', h_start_free')
           /\ h_start_free' = s + k * w
           /\ h_free_list' \in [Heap!Classes -> Heap!Cells \cup {0}]
           /\ h_link' \in [Heap!Cells -> Heap!Cells \cup {0, -1}]
           /\ IsABag(h_live') /\ HeapHeld' \subseteq Data
           /\ \A y \in HeapHeld' : h_live'[y] = 1
<1> SUFFICES
      ASSUME s \in Nat \ {0}, k \in Nat \ {0}, w = 2 * c, s + k * w <= HeapCells,
             lists \in [Heap!Classes -> Heap!Cells \cup {0}], HeapListed(F, lists, links),
             top \in Nat, top <= s, HeapTiles(F, HeapHeld, top),
             DOMAIN chain0 \subseteq {f.at : f \in F},
             \A b \in DOMAIN chain0 : chain0[b] \in Heap!Cells \cup {0},
             \A f \in F : links[f.at] = IF f.at \in DOMAIN chain0 THEN chain0[f.at]
                                        ELSE h_link[f.at]
      PROVE  /\ \E G : HeapListed(G, h_free_list', h_link') /\ HeapTiles(G, HeapHeld', h_start_free')
             /\ h_start_free' = s + k * w
             /\ h_free_list' \in [Heap!Classes -> Heap!Cells \cup {0}]
             /\ h_link' \in [Heap!Cells -> Heap!Cells \cup {0, -1}]
             /\ IsABag(h_live') /\ HeapHeld' \subseteq Data
             /\ \A y \in HeapHeld' : h_live'[y] = 1
  BY DEF CutReady, Prepared
<1> DEFINE p == [i \in 1 .. k - 1 |-> s + i * w]
           D == {p[i] : i \in 1 .. k - 1}
           last == s + (k - 1) * w
           chain == [a \in D |-> IF a = last THEN 0 ELSE a + w]
           both == [a \in D \cup DOMAIN chain0 |-> IF a \in D THEN chain[a] ELSE chain0[a]]
           N == {[at |-> p[i], class |-> c] : i \in 1 .. k - 1}
           x == [at |-> s + 1, bytes |-> n]
<1>1. c \in Heap!Classes /\ c \in Nat \ {0} /\ w \in Nat \ {0} /\ Heap!CellsOf(c) = w
      /\ c = Heap!Class(n) + 1 /\ n \in HeapRequests
  <2>1. c \in Heap!Classes /\ c = Heap!Class(n) + 1
    BY HeapSizes
  <2>2. c \in Nat \ {0}
    BY <2>1, HeapClasses
  <2>3. Heap!CellsOf(c) = 2 * c
    BY <2>2, HeapClasses
  <2> QED BY <2>1, <2>2, <2>3
<1>2. /\ h_start_free' = s + k * w
      /\ h_free_list' = IF k = 1 THEN lists ELSE [lists EXCEPT ![c] = s + w]
      /\ Heap!Give(s, n, both)
  <2> DEFINE e == Heap!CellsOf(Heap!Class(n + Heap!HeadBytes))
             z == s + (k - 1) * e
             raw == [a \in {s + i * e : i \in 1 .. k - 1} |-> IF a = z THEN Heap!NULL ELSE a + e]
  <2>1. /\ h_start_free' = s + k * e
        /\ h_free_list' = IF k = 1 THEN lists
                          ELSE [lists EXCEPT ![Heap!Class(n + Heap!HeadBytes)] = s + e]
        /\ Heap!Give(s, n, [a \in DOMAIN raw \cup DOMAIN chain0 |->
                               IF a \in DOMAIN raw THEN raw[a] ELSE chain0[a]])
    BY DEF Heap!Cut
  <2>2. e = w /\ Heap!NULL = 0
    BY <1>1, HeapCellsAre
  <2>3. raw = chain
    <3>1. D = {s + i * w : i \in 1 .. k - 1}
      OBVIOUS
    <3> HIDE DEF D
    <3> HIDE DEF e
    <3> QED BY <2>2, <3>1
  <2>4. DOMAIN chain = D
    OBVIOUS
  <2>5. [a \in DOMAIN raw \cup DOMAIN chain0 |-> IF a \in DOMAIN raw THEN raw[a] ELSE chain0[a]] = both
    <3> HIDE DEF raw, chain
    <3> QED BY <2>3, <2>4
  <2> HIDE DEF e, raw, both
  <2> QED BY <2>1, <2>2, <2>5
<1>3. k * w \in Nat /\ w <= k * w
  <2>1. 0 \in Nat /\ 0 < k /\ w \in Nat
    BY <1>1
  <2>2. 0 * w + w <= k * w /\ k * w \in Nat
    BY <2>1, RowsApart
  <2> QED BY <2>2, <1>1
<1>4. s + 1 \in Heap!Cells /\ s \in Heap!Cells
  <2> PICK m \in Nat : m = k * w
    BY <1>3
  <2>1. s + m <= HeapCells /\ w <= m /\ w >= 2
    BY <1>1, <1>3
  <2> QED BY <2>1, <1>1, HeapCellsAre
<1>5. F \subseteq Chunks /\ HeapHeld \in SUBSET Data
  BY DEF HeapListed, HeapTyped
<1>6. x \in Data /\ x.at = s + 1 /\ x.bytes = n
  BY <1>1, <1>4 DEF Data
<1>7. Whole(x) = [at |-> s, class |-> c]
  <2>1. x.at - 1 = s /\ Heap!Class(x.bytes) + 1 = c
    BY <1>1, <1>6
  <2>2. Whole(x) = [at |-> x.at - 1, class |-> Heap!Class(x.bytes) + 1]
    BY DEF Whole
  <2> QED BY <2>1, <2>2
<1> HIDE DEF x
<1>8. x \notin HeapHeld
  <2> SUFFICES ASSUME x \in HeapHeld PROVE FALSE
    OBVIOUS
  <2>1. Below(Whole(x), top)
    BY DEF HeapTiles
  <2>2. s + 2 * c <= top
    BY <2>1, <1>7 DEF Below
  <2> QED BY <2>2, <1>1
<1>9. N = {[at |-> s + i * w, class |-> c] : i \in 1 .. k - 1}
  OBVIOUS
<1>10. s + k * w <= HeapCells + 1
  <2> PICK m \in Nat : m = k * w
    BY <1>3
  <2> QED BY HeapCellsAre
<1> HIDE DEF p, N
<1>11. /\ N \subseteq Chunks /\ \A f \in F : f.at + 2 * f.class <= s
       /\ \A g \in N : g.at >= s + w
       /\ HeapTiles(F \cup N, HeapHeld \cup {x}, s + k * w)
  <2> PICK H : H = HeapHeld
    OBVIOUS
  <2>1. H \in SUBSET Data /\ F \subseteq Chunks /\ HeapTiles(F, H, top)
    BY <1>5
  <2>2. /\ c \in Heap!Classes /\ w = 2 * c /\ s + k * w <= HeapCells + 1
        /\ x \in Data /\ Whole(x) = [at |-> s, class |-> c]
        /\ N = {[at |-> s + i * w, class |-> c] : i \in 1 .. k - 1}
    BY <1>1, <1>6, <1>7, <1>9, <1>10
  <2>3. /\ N \subseteq Chunks /\ \A f \in F : f.at + 2 * f.class <= s
        /\ \A g \in N : g.at >= s + w
        /\ HeapTiles(F \cup N, H \cup {x}, s + k * w)
    <3>1. CutRow(F, H, top, s, c, k, w, x, N)
      BY <2>1, <2>2 DEF CutRow
    <3> QED BY <3>1, CutsTiles
  <2> QED BY <2>3
<1>12. \A i \in 1 .. k - 1 : p[i] \in Heap!Cells /\ p[i] >= s + w /\ p[i] = s + i * w
  <2>1. ASSUME NEW i \in 1 .. k - 1 PROVE p[i] \in Heap!Cells /\ p[i] >= s + w
    <3>1. [at |-> p[i], class |-> c] \in N
      BY DEF N
    <3> QED BY <3>1, <1>11, ChunksTyped
  <2> QED BY <2>1 DEF p
<1>13. \A i, j \in 1 .. k - 1 : i < j => p[i] + w <= p[j]
  <2> SUFFICES ASSUME NEW i \in 1 .. k - 1, NEW j \in 1 .. k - 1, i < j PROVE p[i] + w <= p[j]
    OBVIOUS
  <2>1. i * w + w <= j * w /\ i * w \in Nat /\ j * w \in Nat
    <3>1. i \in Nat /\ j \in Nat /\ w \in Nat
      BY <1>1
    <3> QED BY <3>1, RowsApart
  <2> PICK a \in Nat, b \in Nat : a = i * w /\ b = j * w
    BY <2>1
  <2>2. p[i] = s + a /\ p[j] = s + b
    BY DEF p
  <2> QED BY <2>1, <2>2, <1>1
<1>14. \A i, j \in 1 .. k - 1 : p[i] = p[j] => i = j
  <2> SUFFICES ASSUME NEW i \in 1 .. k - 1, NEW j \in 1 .. k - 1, i < j, p[i] = p[j] PROVE FALSE
    OBVIOUS
  <2>1. p[i] \in Nat /\ p[j] \in Nat
    BY <1>12, HeapCellsAre
  <2>2. w \in Nat \ {0} /\ p[i] + w <= p[j]
    BY <1>1, <1>13
  <2> QED BY <2>1, <2>2
<1>15. \A i \in 1 .. k - 1 : chain[p[i]] = IF i = k - 1 THEN 0 ELSE p[i + 1]
  <2> SUFFICES ASSUME NEW i \in 1 .. k - 1
               PROVE  chain[p[i]] = IF i = k - 1 THEN 0 ELSE p[i + 1]
    OBVIOUS
  <2>1. p[i] \in D
    OBVIOUS
  <2>2. chain[p[i]] = IF p[i] = last THEN 0 ELSE p[i] + w
    BY <2>1
  <2>3. k - 1 \in 1 .. k - 1 /\ last = p[k - 1]
    BY <1>12
  <2>4. p[i] = last <=> i = k - 1
    BY <2>3, <1>14
  <2>5. i # k - 1 => p[i] + w = p[i + 1]
    <3> SUFFICES ASSUME i # k - 1 PROVE p[i] + w = p[i + 1]
      OBVIOUS
    <3>1. i + 1 \in 1 .. k - 1 /\ (i + 1) * w = i * w + w /\ i * w \in Nat
      BY <1>1
    <3>2. p[i] = s + i * w /\ p[i + 1] = s + (i + 1) * w
      BY <3>1, <1>12
    <3> PICK a \in Nat : a = i * w
      BY <3>1
    <3> QED BY <3>1, <3>2, <1>1
  <2> QED BY <2>2, <2>4, <2>5
<1> HIDE DEF last, chain
<1>16. \A b \in D : b \in Heap!Cells /\ b >= s + w /\ chain[b] \in Heap!Cells \cup {0}
  <2> SUFFICES ASSUME NEW i \in 1 .. k - 1
               PROVE  p[i] \in Heap!Cells /\ p[i] >= s + w /\ chain[p[i]] \in Heap!Cells \cup {0}
    OBVIOUS
  <2>1. i = k - 1 \/ i + 1 \in 1 .. k - 1
    OBVIOUS
  <2> QED BY <2>1, <1>12, <1>15
<1> HIDE DEF D
<1>17. /\ DOMAIN both = D \cup DOMAIN chain0
       /\ \A b \in D : both[b] = chain[b]
       /\ \A b \in DOMAIN chain0 : b \notin D => both[b] = chain0[b]
  OBVIOUS
<1> HIDE DEF both
<1>18. \A b \in DOMAIN both : b \in Heap!Cells /\ both[b] \in Heap!Cells \cup {0}
  <2>1. \A b \in DOMAIN chain0 : b \in Heap!Cells
    BY <1>5, ChunksTyped
  <2> QED BY <2>1, <1>16, <1>17
<1>19. /\ IsABag(h_live') /\ HeapHeld' = HeapHeld \cup {x}
       /\ \A y \in HeapHeld' : h_live'[y] = 1
       /\ h_link' \in [Heap!Cells -> Heap!Cells \cup {0, -1}]
       /\ \A b \in Heap!Cells :
             /\ b \in DOMAIN both => h_link'[b] = both[b]
             /\ /\ b \notin DOMAIN both
                /\ b + 1 < s \/ s + 2 * c <= b
                /\ \A g \in DOMAIN both : b + 1 < g \/ g + 2 <= b
                => h_link'[b] = h_link[b]
  <2>1. DOMAIN both \subseteq Heap!Cells /\ \A b \in DOMAIN both : both[b] \in Heap!Cells \cup {0}
    BY <1>18
  <2>2. x = [at |-> s + 1, bytes |-> n]
    BY DEF x
  <2> QED BY <2>1, <2>2, <1>2, <1>4, <1>8, HeapGives
<1>20. \A f \in F : f.at \notin D /\ h_link'[f.at] = links[f.at]
  <2> SUFFICES ASSUME NEW f \in F PROVE f.at \notin D /\ h_link'[f.at] = links[f.at]
    OBVIOUS
  <2>1. f.at \in Nat \ {0} /\ f.class \in Nat \ {0} /\ f.at \in Heap!Cells /\ f.at + 1 < s
    BY <1>5, <1>11, ChunksTyped
  <2>2. f.at \notin D
    <3> SUFFICES ASSUME f.at \in D PROVE FALSE
      OBVIOUS
    <3>1. f.at >= s + w /\ w \in Nat \ {0}
      BY <1>1, <1>16
    <3> QED BY <3>1, <2>1
  <2>3. CASE f.at \in DOMAIN chain0
    BY <2>1, <2>2, <2>3, <1>17, <1>19
  <2>4. CASE f.at \notin DOMAIN chain0
    <3>1. ASSUME NEW g \in DOMAIN both PROVE f.at + 1 < g \/ g + 2 <= f.at
      <4>1. CASE g \in D
        <5>1. g \in Nat /\ g >= s + w
          BY <4>1, <1>16, HeapCellsAre
        <5>2. f.at \in Nat /\ f.at + 1 < s /\ s \in Nat /\ w \in Nat
          BY <2>1, <1>1
        <5>3. f.at + 1 < g
          BY <5>1, <5>2
        <5> QED BY <5>3
      <4>2. CASE g \in DOMAIN chain0
        <5> PICK e \in F : e.at = g
          BY <4>2
        <5>1. e.at \in Nat \ {0} /\ e.class \in Nat \ {0} /\ e # f
          BY <1>5, <2>4, <4>2, ChunksTyped
        <5>2. Clear(e, f)
          BY <5>1 DEF HeapTiles
        <5> PICK i \in Nat, j \in Nat \ {0}, u \in Nat, v \in Nat \ {0} :
                 i = e.at /\ j = e.class /\ u = f.at /\ v = f.class
          BY <5>1, <2>1
        <5>3. i + 2 * j <= u \/ u + 2 * v <= i
          BY <5>2 DEF Clear
        <5>4. u + 1 < i \/ i + 2 <= u
          BY <5>3
        <5> QED BY <5>4
      <4> QED BY <4>1, <4>2, <1>17
    <3>2. f.at \notin DOMAIN both
      BY <1>17, <2>2, <2>4
    <3>3. h_link'[f.at] = h_link[f.at]
      BY <3>1, <3>2, <2>1, <1>19
    <3> QED BY <3>3, <2>2, <2>4
  <2> QED BY <2>3, <2>4
<1> PICK after, new : after = h_link' /\ new = h_free_list'
  OBVIOUS
<1>21. HeapListed(F \cup N, new, after)
  <2>1. CASE k = 1
    <3>1. N = {} /\ new = lists
      BY <2>1, <1>2 DEF N
    <3>2. \A f \in F : after[f.at] = links[f.at]
      BY <1>20
    <3> QED BY <3>1, <3>2 DEF HeapListed
  <2>2. CASE k # 1
    <3>1. k >= 2 /\ 1 \in 1 .. k - 1
      BY <2>2
    <3>2. \A d \in Heap!Classes : new[d] = IF d = c THEN p[1] ELSE lists[d]
      <4>1. p[1] = s + w
        BY <3>1, <1>1, <1>12
      <4>2. new = [lists EXCEPT ![c] = s + w]
        BY <2>2, <1>2
      <4> QED BY <4>1, <4>2
    <3>3. \A i \in 1 .. k - 1 : after[p[i]] = IF i = k - 1 THEN 0 ELSE p[i + 1]
      <4>1. \A i \in 1 .. k - 1 : p[i] \in D
        BY DEF D
      <4> QED BY <4>1, <1>12, <1>15, <1>17, <1>19
    <3>4. \A f \in F, i \in 1 .. k - 1 : f.at # p[i]
      BY <1>20 DEF D
    <3>5. \A f \in F : after[f.at] = links[f.at]
      BY <1>20
    <3>6. N = {[at |-> p[i], class |-> c] : i \in 1 .. k - 1}
      BY DEF N
    <3>7. lists \in [Heap!Classes -> Int]
      BY HeapCellsAre
    <3>8. \A i \in 1 .. k - 1 : p[i] \in Heap!Cells
      BY <1>12
    <3>9. /\ HeapListed(F, lists, links) /\ c \in Heap!Classes
          /\ \A i, j \in 1 .. k - 1 : p[i] = p[j] => i = j
      BY <1>1, <1>14
    <3>10. Chained(F, lists, links, c, k, p, N, new, after)
      BY <3>1, <3>2, <3>3, <3>4, <3>5, <3>6, <3>7, <3>8, <3>9 DEF Chained
    <3> QED BY <3>10, ChainsListed
  <2> QED BY <2>1, <2>2
<1>22. HeapTiles(F \cup N, HeapHeld', h_start_free')
  BY <1>2, <1>11, <1>19
<1>23. h_free_list' \in [Heap!Classes -> Heap!Cells \cup {0}]
  <2>1. k # 1 => s + w \in Heap!Cells
    <3> SUFFICES ASSUME k # 1 PROVE s + w \in Heap!Cells
      OBVIOUS
    <3>1. 1 \in 1 .. k - 1
      OBVIOUS
    <3>2. p[1] = s + w /\ p[1] \in Heap!Cells
      BY <3>1, <1>1, <1>12
    <3> QED BY <3>2
  <2> QED BY <2>1, <1>1, <1>2
<1> QED BY <1>2, <1>5, <1>6, <1>19, <1>21, <1>22, <1>23

(* How many chunks of class c are cut from 2 * r cells.                    *)
LEMMA Divides ==
    ASSUME NEW a \in Nat, NEW w \in Nat \ {0}
    PROVE  /\ a \div w \in Nat /\ (a % w) \in Nat /\ (a % w) < w
           /\ a = w * (a \div w) + (a % w)
<1>1. a \div w \in Int /\ (a % w) \in Int
  OBVIOUS
<1>2. a \div w >= 0
  OBVIOUS
<1>3. (a % w) >= 0
  OBVIOUS
<1>4. (a % w) < w
  OBVIOUS
<1>5. a = w * (a \div w) + (a % w)
  OBVIOUS
<1> QED BY <1>1, <1>2, <1>3, <1>4, <1>5

Fitting(c, r, w, k) == w = 2 * c /\ k = Heap!Fits(c, 2 * r)

Fitted(r, w, k) == \E m, q \in Nat : m = k * w /\ 2 * r = m + 2 * q /\ (k > 0 => w <= m)

(* As many chunks are cut as fit, and an even number of cells is left; if  *)
(* none fits, less than a chunk is left.                                   *)
LEMMA HeapFits ==
    ASSUME NEW c \in Nat \ {0}, NEW r \in Nat, NEW w \in Nat \ {0}, NEW k, Fitting(c, r, w, k)
    PROVE  /\ k \in Nat /\ (k = 0 => r < c)
           /\ Fitted(r, w, k)
<1> PICK R \in Nat \ {0, 1} : R = HeapRefillObjs
  BY HeapAssumption
<1>1. w = 2 * c /\ k = IF 2 * r >= R * w THEN R ELSE (2 * r) \div w
  BY HeapClasses DEF Fitting, Heap!Fits
<1>2. CASE 2 * r >= R * w
  <2>1. k = R
    BY <1>1, <1>2
  <2> PICK v \in Nat : v = R * c
    <3>1. R * c \in Nat
      OBVIOUS
    <3> QED BY <3>1
  <2>2. R * w = 2 * v
    BY <1>1
  <2>3. w <= R * w
    <3>1. 0 \in Nat /\ R \in Nat /\ 0 < R
      OBVIOUS
    <3>2. 0 * w + w <= R * w
      BY <3>1, RowsApart
    <3> QED BY <3>2
  <2> PICK m \in Nat : m = R * w
    BY <2>2
  <2>4. r - v \in Nat /\ 2 * r = m + 2 * (r - v)
    BY <1>2, <2>2
  <2>5. m = k * w /\ w <= m /\ k \in Nat /\ k # 0
    BY <2>1, <2>3
  <2> QED BY <2>4, <2>5 DEF Fitted
<1>3. CASE ~(2 * r >= R * w)
  <2> PICK d \in Nat, z \in Nat : d = (2 * r) \div w /\ 2 * r = w * d + z /\ z < w
    <3>1. (2 * r) \div w \in Nat /\ ((2 * r) % w) \in Nat /\ ((2 * r) % w) < w
          /\ 2 * r = w * ((2 * r) \div w) + ((2 * r) % w)
      <4>1. 2 * r \in Nat
        OBVIOUS
      <4> QED BY <4>1, Divides
    <3> QED BY <3>1
  <2> PICK v \in Nat : v = d * c
    <3>1. d * c \in Nat
      OBVIOUS
    <3> QED BY <3>1
  <2>1. w * d = 2 * v /\ d * w = 2 * v
    BY <1>1
  <2>2. k = d
    BY <1>1, <1>3
  <2>3. d > 0 => w <= d * w
    <3> SUFFICES ASSUME d > 0 PROVE w <= d * w
      OBVIOUS
    <3>1. 0 \in Nat /\ d \in Nat /\ 0 < d
      OBVIOUS
    <3>2. 0 * w + w <= d * w
      BY <3>1, RowsApart
    <3> QED BY <3>2
  <2> PICK m \in Nat : m = d * w
    BY <2>1
  <2>4. r - v \in Nat /\ 2 * r = m + 2 * (r - v)
    BY <2>1
  <2>5. d = 0 => r < c
    BY <1>1
  <2>6. m = k * w /\ (k > 0 => w <= m) /\ k \in Nat /\ (k = 0 => r < c)
    BY <2>2, <2>3, <2>5
  <2> QED BY <2>4, <2>6 DEF Fitted
<1> QED BY <1>2, <1>3

(* Chunks are cut from what is left of the area.                           *)
LEMMA HeapCarveKeeps ==
    ASSUME RequestsInside, HeapInv, ~h_crashed, NEW n \in HeapRequests, Heap!Carve(n)
    PROVE  HeapInv'
<1> PICK c : c = Heap!Class(n + Heap!HeadBytes)
  OBVIOUS
<1>1. c \in Heap!Classes /\ c \in Nat \ {0}
  BY HeapSizes, HeapClasses
<1> PICK F : HeapSound(F)
  BY DEF HeapInv
<1>2. HeapTyped /\ HeapArea
  BY DEF HeapInv
<1>3. HeapListed(F, h_free_list, h_link) /\ HeapTiles(F, HeapHeld, h_start_free)
  BY DEF HeapSound
<1> PICK s, e, lists, links, chain0 :
        /\ s = h_start_free /\ e = h_end_free /\ lists = h_free_list /\ links = h_link
        /\ chain0 = << >>
  OBVIOUS
<1>4. s \in Nat /\ e \in Nat /\ e <= HeapCells /\ (s = 0 => e = 0)
  BY <1>2, HeapCellsAre DEF HeapTyped, HeapArea
<1> PICK r \in Nat : e = s + 2 * r
  BY <1>2 DEF HeapArea
<1>5. Heap!Left = 2 * r
  BY <1>4 DEF Heap!Left
<1> PICK k : k = Heap!Fits(c, 2 * r)
  OBVIOUS
<1>6. /\ k > 0
      /\ Heap!Cut(n, s, k, lists, chain0)
      /\ UNCHANGED <<h_end_free, h_heap_size, h_crashed>>
  BY <1>5 DEF Heap!Carve
<1> PICK w \in Nat \ {0} : w = 2 * c
  BY <1>1
<1>7. k \in Nat /\ Fitted(r, w, k)
  <2>1. Fitting(c, r, w, k)
    BY DEF Fitting
  <2> QED BY <2>1, <1>1, HeapFits
<1> PICK m, q \in Nat : m = k * w /\ 2 * r = m + 2 * q /\ w <= m
  BY <1>6, <1>7 DEF Fitted
<1>8. s # 0
  <2> SUFFICES ASSUME s = 0 PROVE FALSE
    OBVIOUS
  <2>1. r = 0 /\ m = 0
    BY <1>4
  <2> QED BY <2>1
<1>9. CutReady(F, lists, links, s, chain0, c, s, k, w)
  <2>1. s \in Nat \ {0} /\ k \in Nat \ {0} /\ w = 2 * c /\ s + k * w <= HeapCells
    <3>1. k \in Nat \ {0} /\ s \in Nat \ {0} /\ w = 2 * c
      BY <1>4, <1>6, <1>7, <1>8
    <3>2. s + m <= HeapCells
      BY <1>4, HeapCellsAre
    <3> QED BY <3>1, <3>2
  <2>2. /\ lists \in [Heap!Classes -> Heap!Cells \cup {0}] /\ HeapListed(F, lists, links)
        /\ s <= s /\ HeapTiles(F, HeapHeld, s)
    BY <1>2, <1>3, <1>4 DEF HeapTyped
  <2>3. DOMAIN chain0 = {} /\ links = h_link
    OBVIOUS
  <2> QED BY <2>1, <2>2, <2>3 DEF CutReady, Prepared
<1>10. /\ \E G : HeapListed(G, h_free_list', h_link') /\ HeapTiles(G, HeapHeld', h_start_free')
       /\ h_start_free' = s + k * w
       /\ h_free_list' \in [Heap!Classes -> Heap!Cells \cup {0}]
       /\ h_link' \in [Heap!Cells -> Heap!Cells \cup {0, -1}]
       /\ IsABag(h_live') /\ HeapHeld' \subseteq Data
       /\ \A y \in HeapHeld' : h_live'[y] = 1
  BY <1>2, <1>6, <1>9, HeapCutKeeps
<1>11. \E G : HeapSound(G)'
  <2> PICK G : HeapListed(G, h_free_list', h_link') /\ HeapTiles(G, HeapHeld', h_start_free')
    BY <1>10
  <2>1. HeapSound(G)'
    BY DEF HeapSound, HeapListed, HeapTiles
  <2> QED BY <2>1
<1>12. h_start_free' \in Heap!Cells /\ h_start_free' # 0 /\ h_end_free' = h_start_free' + 2 * q
  <2>1. h_start_free' = s + m /\ h_end_free' = e /\ e = s + (m + 2 * q)
    BY <1>6, <1>10
  <2> QED BY <2>1, <1>4, <1>8, HeapCellsAre
<1>13. HeapArea'
  <2>1. h_end_free' = h_start_free' + 2 * q
    BY <1>12
  <2> QED BY <1>12, <2>1 DEF HeapArea
<1>14. HeapTyped'
  BY <1>2, <1>6, <1>10, <1>12 DEF HeapTyped
<1> QED BY <1>11, <1>13, <1>14 DEF HeapInv

(* What is left of the area, of a size below that of the request, is put   *)
(* in the list of its size.                                                *)
LEMMA HeapRest ==
    ASSUME HeapTyped, HeapArea, NEW c \in Heap!Classes, Heap!Fits(c, Heap!Left) = 0
    PROVE  \E r \in Nat : /\ Heap!Left = 2 * r /\ Heap!RecycledClass = r
                          /\ h_end_free = h_start_free + 2 * r
                          /\ r # 0 => r \in Heap!Classes /\ h_start_free \in Heap!Cells
<1>1. c \in Nat \ {0}
  BY HeapClasses
<1>2. h_start_free \in Nat /\ h_end_free \in Nat /\ (h_start_free = 0 => h_end_free = 0)
      /\ h_start_free \in {0} \cup Heap!Cells
  BY HeapCellsAre DEF HeapTyped, HeapArea
<1> PICK r \in Nat : h_end_free = h_start_free + 2 * r
  BY DEF HeapArea
<1>3. Heap!Left = 2 * r
  BY <1>2 DEF Heap!Left
<1>4. r < c
  <2> PICK w \in Nat \ {0} : w = 2 * c
    BY <1>1
  <2>1. Fitting(c, r, w, 0)
    BY <1>3 DEF Fitting
  <2> QED BY <1>1, <2>1, HeapFits
<1>5. r # 0 => r \in Heap!Classes /\ h_start_free \in Heap!Cells
  BY <1>1, <1>2, <1>4, HeapClasses
<1>6. Heap!RecycledClass = r
  <2>1. (2 * r * 4 + 8 - 1) \div 8 = r
    OBVIOUS
  <2>2. Heap!RecycledClass = (2 * r * 4 + 8 - 1) \div 8
    BY <1>3 DEF Heap!RecycledClass, Heap!Class, Heap!ALIGN, Heap!Cell
  <2> QED BY <2>1, <2>2
<1> QED BY <1>3, <1>5, <1>6

(* What malloc is asked for, in pairs of cells.                            *)
LEMMA HeapAsked ==
    ASSUME RequestsInside, HeapTyped, NEW n \in HeapRequests,
           NEW c, c = Heap!Class(n + Heap!HeadBytes)
    PROVE  \E g \in Nat : /\ Heap!BytesToGet(n) \div Heap!Cell = 2 * g /\ c <= g
                          /\ Heap!BytesToGet(n) \in Nat
<1>1. c \in Nat \ {0} /\ n \in Nat /\ Heap!HeadBytes = 4 /\ Heap!Cell = 4
  BY HeapSizes, HeapClasses
<1> PICK R \in Nat \ {0, 1} : R = HeapRefillObjs
  BY HeapAssumption
<1>2. Heap!ROUND_UP(n + Heap!HeadBytes) = c * 8
  BY DEF Heap!ROUND_UP, Heap!Class, Heap!ALIGN
<1> PICK u \in Nat : Heap!ROUND_UP(h_heap_size \div 16) = u * 8
  <2> PICK z \in Nat : z = h_heap_size
    BY DEF HeapTyped
  <2>1. z \div 16 \in Nat
    OBVIOUS
  <2> PICK y \in Nat : y = z \div 16
    BY <2>1
  <2>2. (y + 8 - 1) \div 8 \in Nat
    OBVIOUS
  <2>3. Heap!ROUND_UP(h_heap_size \div 16) = ((y + 8 - 1) \div 8) * 8
    BY DEF Heap!ROUND_UP, Heap!ALIGN
  <2> QED BY <2>2, <2>3
<1> PICK v \in Nat : v = R * c
  <2>1. R * c \in Nat
    BY <1>1
  <2> QED BY <2>1
<1>3. c <= v
  <2>1. 0 \in Nat /\ R \in Nat /\ c \in Nat /\ 0 < R
    BY <1>1
  <2>2. 0 * c + c <= R * c
    BY <2>1, RowsApart
  <2> QED BY <2>2, <1>1
<1>4. Heap!BytesToGet(n) = 16 * v + 8 * u
  <2>1. Heap!BytesToGet(n) = 2 * R * (c * 8) + u * 8
    BY <1>2 DEF Heap!BytesToGet
  <2>2. 2 * R * (c * 8) = 16 * (R * c)
    BY <1>1
  <2> QED BY <2>1, <2>2
<1>5. (16 * v + 8 * u) \div 4 = 2 * (2 * v + u)
  OBVIOUS
<1>6. 2 * v + u \in Nat /\ c <= 2 * v + u /\ 16 * v + 8 * u \in Nat
  BY <1>1, <1>3
<1> QED BY <1>1, <1>4, <1>5, <1>6

(* Before the new area is cut, the rest of the old one is listed.          *)
LEMMA HeapRestListed ==
    ASSUME RequestsInside, HeapTyped, HeapArea, NEW F, HeapSound(F),
           NEW c \in Heap!Classes, Heap!Fits(c, Heap!Left) = 0
    PROVE  \E G, links : Prepared(G, Heap!RestLists, links, h_end_free, Heap!RestChain)
<1> PICK r \in Nat : /\ Heap!Left = 2 * r /\ Heap!RecycledClass = r
                     /\ h_end_free = h_start_free + 2 * r
                     /\ r # 0 => r \in Heap!Classes /\ h_start_free \in Heap!Cells
  BY HeapRest
<1> PICK s, lists, links, H, rl, rc :
        /\ s = h_start_free /\ lists = h_free_list /\ links = h_link /\ H = HeapHeld
        /\ rl = Heap!RestLists /\ rc = Heap!RestChain
  OBVIOUS
<1>1. /\ HeapListed(F, lists, links) /\ HeapTiles(F, H, s) /\ F \subseteq Chunks
      /\ lists \in [Heap!Classes -> Heap!Cells \cup {0}] /\ H \in SUBSET Data /\ s \in Nat
  BY HeapCellsAre DEF HeapSound, HeapListed, HeapTyped
<1>2. CASE r = 0
  <2>1. rl = lists /\ rc = << >> /\ h_end_free = s
    BY <1>1, <1>2 DEF Heap!RestLists, Heap!RestChain
  <2>2. DOMAIN rc = {}
    BY <2>1
  <2>3. /\ HeapListed(F, rl, links) /\ HeapTiles(F, H, h_end_free)
        /\ rl \in [Heap!Classes -> Heap!Cells \cup {0}]
        /\ \A f \in F : links[f.at] = h_link[f.at]
    BY <1>1, <2>1
  <2>4. h_end_free \in Nat
    BY <1>1, <2>1
  <2>5. Prepared(F, rl, links, h_end_free, rc)
    BY <2>2, <2>3, <2>4 DEF Prepared
  <2> QED BY <2>5
<1>3. CASE r # 0
  <2>1. r \in Heap!Classes /\ s \in Heap!Cells /\ 2 * r # 0
    BY <1>3
  <2>2. rl = [lists EXCEPT ![r] = s] /\ rc = [a \in {s} |-> lists[r]]
    BY <2>1 DEF Heap!RestLists, Heap!RestChain
  <2> PICK h : h = [at |-> s, class |-> r]
    OBVIOUS
  <2>3. h \in Chunks /\ h.at = s /\ h.class = r
    BY <2>1 DEF Chunks
  <2>4. HeapTiles(F \cup {h}, H, h_end_free) /\ \A f \in F : f.at + 2 * f.class <= s
    <3> PICK e : e = s + 2 * r
      OBVIOUS
    <3>1. e \in Nat /\ e = s + 2 * h.class /\ h.at = s
      BY <1>1, <2>3
    <3>2. HeapTiles(F \cup {h}, H, e) /\ \A f \in F : f.at + 2 * f.class <= h.at
      BY <3>1, <1>1, <2>3, RestTile
    <3> QED BY <3>2, <2>3
  <2>5. \A f \in F : f.at # s /\ f.at \in Heap!Cells
    <3> SUFFICES ASSUME NEW f \in F PROVE f.at # s /\ f.at \in Heap!Cells
      OBVIOUS
    <3>1. f.at \in Nat \ {0} /\ f.class \in Nat \ {0} /\ f.at + 2 * f.class <= s /\ f.at \in Heap!Cells
      BY <1>1, <2>4, ChunksTyped
    <3> QED BY <3>1, <1>1
  <2>6. links \in [Heap!Cells -> Heap!Cells \cup {0, -1}]
    BY DEF HeapTyped
  <2> PICK after : after[s] = lists[r] /\ \A f \in F : after[f.at] = links[f.at]
    <3>1. [links EXCEPT ![s] = lists[r]][s] = lists[r]
      BY <2>1, <2>6
    <3>2. \A f \in F : [links EXCEPT ![s] = lists[r]][f.at] = links[f.at]
      BY <2>5, <2>6
    <3> QED BY <3>1, <3>2
  <2>8. HeapListed(F \cup {h}, rl, after)
    <3>1. lists \in [Heap!Classes -> Int]
      BY <1>1, HeapCellsAre
    <3>2. \A d \in Heap!Classes : rl[d] = IF d = h.class THEN h.at ELSE lists[d]
      BY <1>1, <2>2, <2>3
    <3>3. (\A f \in F : f.at # h.at) /\ after[h.at] = lists[h.class]
      BY <2>3, <2>5
    <3>4. HeapListed(F, lists, links) /\ h \in Chunks
      BY <1>1, <2>3
    <3>5. \A f \in F : after[f.at] = links[f.at]
      OBVIOUS
    <3> HIDE DEF Chunks
    <3> QED BY <3>1, <3>2, <3>3, <3>4, <3>5, PutsListed
  <2>9. rl \in [Heap!Classes -> Heap!Cells \cup {0}]
    BY <1>1, <2>1, <2>2
  <2>10. DOMAIN rc = {s} /\ rc[s] = lists[r] /\ lists[r] \in Heap!Cells \cup {0}
    BY <1>1, <2>1, <2>2
  <2>11. {s} \subseteq {f.at : f \in F \cup {h}}
    BY <2>3
  <2>12. \A f \in F \cup {h} : after[f.at] = IF f.at \in DOMAIN rc THEN rc[f.at] ELSE h_link[f.at]
    BY <2>3, <2>5, <2>10
  <2>13. h_end_free \in Nat
    BY <1>1, <1>3, <2>1
  <2>14. Prepared(F \cup {h}, rl, after, h_end_free, rc)
    BY <2>4, <2>8, <2>9, <2>10, <2>11, <2>12, <2>13 DEF Prepared
  <2> QED BY <2>14
<1> QED BY <1>2, <1>3

(* malloc gives a new area, from which the chunks are cut.                 *)
LEMMA HeapGrowKeeps ==
    ASSUME RequestsInside, HeapInv, ~h_crashed, NEW n \in HeapRequests, Heap!Grow(n)
    PROVE  HeapInv'
<1> PICK c : c = Heap!Class(n + Heap!HeadBytes)
  OBVIOUS
<1>1. c \in Heap!Classes /\ c \in Nat \ {0}
  BY HeapSizes, HeapClasses
<1> PICK F : HeapSound(F)
  BY DEF HeapInv
<1>2. HeapTyped /\ HeapArea
  BY DEF HeapInv
<1> PICK g \in Nat : /\ Heap!BytesToGet(n) \div Heap!Cell = 2 * g /\ c <= g
                     /\ Heap!BytesToGet(n) \in Nat
  BY <1>2, HeapAsked
<1> PICK s, k, lists, chain0, top :
        /\ s = h_end_free + 2 /\ k = Heap!Fits(c, 2 * g)
        /\ lists = Heap!RestLists /\ chain0 = Heap!RestChain /\ top = h_end_free
  OBVIOUS
<1>3. top \in Nat /\ s = top + 2
  BY <1>2, HeapCellsAre DEF HeapTyped
<1>4. /\ Heap!Fits(c, Heap!Left) = 0
      /\ s + 2 * g <= HeapCells
      /\ h_end_free' = s + 2 * g
      /\ h_heap_size' = h_heap_size + Heap!BytesToGet(n)
      /\ Heap!Cut(n, s, k, lists, chain0)
      /\ UNCHANGED h_crashed
  BY DEF Heap!Grow
<1> PICK G, links : Prepared(G, lists, links, top, chain0)
  BY <1>1, <1>2, <1>4, HeapRestListed
<1> PICK w \in Nat \ {0} : w = 2 * c
  BY <1>1
<1>5. k \in Nat /\ k # 0 /\ Fitted(g, w, k)
  <2>1. Fitting(c, g, w, k)
    BY DEF Fitting
  <2>2. k \in Nat /\ (k = 0 => g < c) /\ Fitted(g, w, k)
    BY <2>1, <1>1, HeapFits
  <2> QED BY <1>1, <2>2
<1> PICK m, q \in Nat : m = k * w /\ 2 * g = m + 2 * q
  BY <1>5 DEF Fitted
<1>6. CutReady(G, lists, links, top, chain0, c, s, k, w)
  <2>1. s \in Nat \ {0} /\ k \in Nat \ {0} /\ top <= s
    BY <1>3, <1>5
  <2>2. s + k * w <= HeapCells
    <3>1. s + m <= HeapCells
      BY <1>3, <1>4, HeapCellsAre
    <3> QED BY <3>1
  <2> QED BY <2>1, <2>2 DEF CutReady
<1>7. /\ \E G1 : HeapListed(G1, h_free_list', h_link') /\ HeapTiles(G1, HeapHeld', h_start_free')
      /\ h_start_free' = s + k * w
      /\ h_free_list' \in [Heap!Classes -> Heap!Cells \cup {0}]
      /\ h_link' \in [Heap!Cells -> Heap!Cells \cup {0, -1}]
      /\ IsABag(h_live') /\ HeapHeld' \subseteq Data
      /\ \A y \in HeapHeld' : h_live'[y] = 1
  BY <1>2, <1>4, <1>6, HeapCutKeeps
<1>8. \E G1 : HeapSound(G1)'
  <2> PICK G1 : HeapListed(G1, h_free_list', h_link') /\ HeapTiles(G1, HeapHeld', h_start_free')
    BY <1>7
  <2>1. HeapSound(G1)'
    BY DEF HeapSound, HeapListed, HeapTiles
  <2> QED BY <2>1
<1>9. h_start_free' = s + m /\ h_end_free' = s + 2 * g
  BY <1>4, <1>7
<1>10. /\ h_start_free' \in Heap!Cells /\ h_start_free' # 0
       /\ h_end_free' = h_start_free' + 2 * q /\ h_end_free' \in Heap!Cells
  <2>1. s \in Nat \ {0} /\ HeapCells \in Nat /\ s + 2 * g <= HeapCells
    BY <1>3, <1>4, HeapCellsAre
  <2>2. s + m \in 1 .. HeapCells /\ s + 2 * g \in 1 .. HeapCells
    BY <2>1
  <2>3. s + 2 * g = s + m + 2 * q /\ s + m # 0
    BY <2>1
  <2> QED BY <2>2, <2>3, <1>9, HeapCellsAre
<1>11. HeapArea'
  <2>1. h_end_free' = h_start_free' + 2 * q
    BY <1>10
  <2> QED BY <1>10, <2>1 DEF HeapArea
<1>12. HeapTyped'
  <2>1. h_heap_size' \in Nat
    BY <1>2, <1>4 DEF HeapTyped
  <2> QED BY <2>1, <1>2, <1>4, <1>7, <1>10 DEF HeapTyped
<1> QED BY <1>8, <1>11, <1>12 DEF HeapInv

(* malloc fails: the pool is not used any more.                            *)
LEMMA HeapGrowFailsKeeps ==
    ASSUME RequestsInside, HeapInv, ~h_crashed, NEW n \in HeapRequests, Heap!GrowFails(n)
    PROVE  HeapInv'
<1> PICK c : c = Heap!Class(n + Heap!HeadBytes)
  OBVIOUS
<1>1. c \in Heap!Classes
  BY HeapSizes
<1> PICK F : HeapSound(F)
  BY DEF HeapInv
<1>2. HeapTyped /\ HeapArea
  BY DEF HeapInv
<1> PICK lists, chain0 : lists = Heap!RestLists /\ chain0 = Heap!RestChain
  OBVIOUS
<1>3. /\ Heap!Fits(c, Heap!Left) = 0
      /\ h_start_free' \in Heap!Cells \cup {0}
      /\ h_free_list' = lists
      /\ h_link' = Heap!Relink(Heap!Both(DOMAIN chain0), chain0)
      /\ h_crashed' = TRUE
      /\ UNCHANGED <<h_end_free, h_heap_size, h_live>>
  BY HeapCellsAre DEF Heap!GrowFails
<1> PICK G, links : Prepared(G, lists, links, h_end_free, chain0)
  BY <1>1, <1>2, <1>3, HeapRestListed
<1>4. h_free_list' \in [Heap!Classes -> Heap!Cells \cup {0}]
  BY <1>3 DEF Prepared
<1>5. h_link' \in [Heap!Cells -> Heap!Cells \cup {0, -1}]
  <2>1. h_link \in [Heap!Cells -> Heap!Cells \cup {0, -1}]
        /\ \A b \in DOMAIN chain0 : chain0[b] \in Heap!Cells \cup {0}
    BY <1>2 DEF HeapTyped, Prepared
  <2> PICK S : S = Heap!Both(DOMAIN chain0)
    OBVIOUS
  <2>2. h_link' = [b \in Heap!Cells |->
                      IF b \in DOMAIN chain0 THEN chain0[b]
                      ELSE IF b \in S \/ b + 1 \in S THEN -1 ELSE h_link[b]]
    BY <1>3, HeapCellsAre DEF Heap!Relink
  <2> QED BY <2>1, <2>2
<1>6. HeapTyped'
  <2>1. h_live' = h_live /\ HeapHeld' = HeapHeld
    BY <1>3 DEF HeapHeld
  <2> QED BY <2>1, <1>2, <1>3, <1>4, <1>5 DEF HeapTyped
<1> QED BY <1>3, <1>6 DEF HeapInv

(* Nothing is listed before an area was obtained.                          *)
LEMMA HeapInitially == MemInit => HeapInv
<1> SUFFICES ASSUME MemInit PROVE HeapInv
  OBVIOUS
<1>1. /\ h_start_free = 0 /\ h_end_free = 0 /\ h_heap_size = 0 /\ h_crashed = FALSE
      /\ h_free_list = [c \in Heap!Classes |-> 0] /\ h_link = [a \in Heap!Cells |-> 0]
      /\ h_live = EmptyBag
  BY HeapBags, HeapCellsAre DEF MemInit, Heap!Init
<1>2. IsABag(h_live) /\ HeapHeld = {}
  BY <1>1 DEF EmptyBag, SetToBag, IsABag, BagToSet, HeapHeld
<1>3. HeapTyped
  BY <1>1, <1>2 DEF HeapTyped
<1>4. HeapArea
  <2>1. h_end_free = h_start_free + 2 * 0
    BY <1>1
  <2> QED BY <1>1, <2>1 DEF HeapArea
<1>5. HeapSound({})
  BY <1>1, <1>2 DEF HeapSound, HeapListed, HeapTiles
<1> QED BY <1>3, <1>4, <1>5 DEF HeapInv

(* Every step keeps the invariant of the heap pool.                        *)
LEMMA HeapStepKeeps ==
    ASSUME RequestsInside, HeapInv, [MemNext]_<<which, vars, h_vars, d_vars>>
    PROVE  HeapInv'
<1>1. CASE HeapStep
  <2>1. ASSUME NEW n \in HeapRequests, Heap!Allocate(n) PROVE HeapInv'
    <3>1. ~h_crashed /\ (Heap!Pop(n) \/ Heap!Carve(n) \/ Heap!Grow(n) \/ Heap!GrowFails(n))
      BY <2>1 DEF Heap!Allocate
    <3>2. CASE Heap!Pop(n)
      BY <3>1, <3>2, HeapPopKeeps
    <3>3. CASE Heap!Carve(n)
      BY <3>1, <3>3, HeapCarveKeeps
    <3>4. CASE Heap!Grow(n)
      BY <3>1, <3>4, HeapGrowKeeps
    <3>5. CASE Heap!GrowFails(n)
      BY <3>1, <3>5, HeapGrowFailsKeeps
    <3> QED BY <3>1, <3>2, <3>3, <3>4, <3>5
  <2>2. ASSUME NEW x \in HeapHeld, Heap!DeAllocate(x) PROVE HeapInv'
    BY <2>2, HeapDeAllocateKeeps
  <2>3. \/ \E n \in HeapRequests : Heap!Allocate(n)
        \/ \E x \in HeapHeld : Heap!DeAllocate(x)
    BY <1>1, HeapHeldIs DEF HeapStep, Heap!Next
  <2> QED BY <2>1, <2>2, <2>3
<1>2. CASE UNCHANGED h_vars
  <2>1. /\ h_start_free' = h_start_free /\ h_end_free' = h_end_free
        /\ h_heap_size' = h_heap_size /\ h_free_list' = h_free_list
        /\ h_link' = h_link /\ h_live' = h_live /\ h_crashed' = h_crashed
    BY <1>2 DEF h_vars
  <2>2. HeapHeld' = HeapHeld
    BY <2>1 DEF HeapHeld
  <2>3. HeapTyped' /\ (HeapArea => HeapArea')
    BY <2>1, <2>2 DEF HeapInv, HeapTyped, HeapArea
  <2>4. \A F : HeapSound(F) => HeapListed(F, h_free_list', h_link')
                               /\ HeapTiles(F, HeapHeld', h_start_free')
    BY <2>1, <2>2 DEF HeapSound
  <2>5. CASE h_crashed
    BY <2>1, <2>3, <2>5 DEF HeapInv
  <2>6. CASE ~h_crashed
    <3> PICK F : HeapSound(F)
      BY <2>6 DEF HeapInv
    <3>1. HeapListed(F, h_free_list', h_link') /\ HeapTiles(F, HeapHeld', h_start_free')
      BY <2>4
    <3>2. HeapSound(F)'
      BY <3>1 DEF HeapSound, HeapListed, HeapTiles
    <3>3. HeapArea'
      BY <2>3, <2>6 DEF HeapInv
    <3> QED BY <2>3, <3>2, <3>3 DEF HeapInv
  <2> QED BY <2>5, <2>6
<1> QED BY <1>1, <1>2 DEF MemNext, ShareStep, DbufStep

(* The invariant of the heap pool holds in every state.                    *)
LEMMA HeapInvariant == RequestsInside => (MemSpec => []HeapInv)
<1> SUFFICES ASSUME RequestsInside PROVE MemSpec => []HeapInv
  OBVIOUS
<1>1. HeapInv /\ [MemNext]_<<which, vars, h_vars, d_vars>> => HeapInv'
  BY HeapStepKeeps
<1> QED BY <1>1, HeapInitially, PTL DEF MemSpec

(* What is found along the links of a class are chunks of that class.      *)
LEMMA HeapListedWithin ==
    ASSUME HeapTyped, NEW F, HeapSound(F), NEW c \in Heap!Classes
    PROVE  Heap!Listed(c) \subseteq {f.at .. f.at + 2 * f.class - 1 : f \in F}
<1> DEFINE N == HeapCells \div 2
           A == {f.at : f \in {e \in F : e.class = c}}
           Next1(S) == S \cup ({h_link[a] : a \in S} \ {0, -1})
           head == {h_free_list[c]} \ {0, -1}
           Along(g) == [k \in 0 .. N |-> IF k = 0 THEN head ELSE Next1(g[k - 1])]
           reach == CHOOSE g : g = Along(g)
<1>1. N \in Nat
  BY HeapCellsAre
<1>2. A \subseteq Heap!Cells
  BY ChunksTyped DEF HeapSound, HeapListed
<1>3. head \subseteq A
  <2>1. h_free_list[c] = 0 \/ [at |-> h_free_list[c], class |-> c] \in F
    BY DEF HeapSound, HeapListed
  <2> QED BY <2>1
<1>4. ASSUME NEW S, S \subseteq A PROVE Next1(S) \subseteq A
  <2> SUFFICES ASSUME NEW a \in S, h_link[a] \notin {0, -1} PROVE h_link[a] \in A
    BY <1>4
  <2> PICK f \in F : f.at = a /\ f.class = c
    BY <1>4
  <2>1. [at |-> h_link[f.at], class |-> f.class] \in F
    BY DEF HeapSound, HeapListed
  <2> QED BY <2>1
<1> HIDE DEF N, A, Next1, head
<1>5. reach = Along(reach)
  <2> DEFINE f == [S \in SUBSET A |-> Next1(S)]
  <2> PICK Y : \E g \in [0 .. N -> Y] : Iterates(g, N, head, f)
    BY <1>1, Iteration
  <2>1. PICK g \in [0 .. N -> Y] : g[0] = head /\ \A i \in 1 .. N : g[i] = f[g[i - 1]]
    BY DEF Iterates
  <2> DEFINE T == {k \in Nat : k <= N => g[k] \subseteq A}
  <2>2. 0 \in T
    BY <2>1, <1>3
  <2>3. ASSUME NEW k \in T PROVE k + 1 \in T
    <3> SUFFICES ASSUME k + 1 <= N PROVE g[k + 1] \subseteq A
      OBVIOUS
    <3>1. k \in Nat /\ k + 1 \in 1 .. N /\ k + 1 - 1 = k /\ g[k] \subseteq A
      BY <1>1
    <3>2. g[k + 1] = f[g[k]]
      <4> HIDE DEF f
      <4>1. g[k + 1] = f[g[k + 1 - 1]]
        BY <2>1, <3>1
      <4> QED BY <4>1, <3>1
    <3>3. f[g[k]] = Next1(g[k])
      BY <3>1
    <3> QED BY <3>1, <3>2, <3>3, <1>4
  <2> HIDE DEF T
  <2>4. T = Nat
    BY <2>2, <2>3, Induction DEF T
  <2>5. ASSUME NEW k \in 0 .. N, k # 0 PROVE g[k] = Next1(g[k - 1])
    <3>1. k \in 1 .. N /\ k - 1 \in T /\ k - 1 <= N
      BY <1>1, <2>4, <2>5
    <3>2. g[k - 1] \subseteq A
      BY <3>1 DEF T
    <3> QED BY <2>1, <3>1, <3>2
  <2>6. g = Along(g)
    <3>1. DOMAIN g = 0 .. N /\ g = [k \in 0 .. N |-> g[k]]
      OBVIOUS
    <3> HIDE DEF f
    <3> QED BY <2>1, <2>5, <3>1
  <2> HIDE DEF Along
  <2> QED BY <2>6
<1>6. \A k \in 0 .. N : reach[k] = IF k = 0 THEN head ELSE Next1(reach[k - 1])
  <2> HIDE DEF reach
  <2> QED BY <1>5
<1>7. Heap!Listed(c) = {a .. a + Heap!CellsOf(c) - 1 : a \in reach[N]}
  BY HeapCellsAre DEF Heap!Listed, N, Next1, head
<1> HIDE DEF reach
<1> DEFINE T == {k \in Nat : k <= N => reach[k] \subseteq A}
<1>8. T = Nat
  <2>1. 0 \in T
    BY <1>1, <1>3, <1>6
  <2>2. ASSUME NEW k \in T PROVE k + 1 \in T
    <3> SUFFICES ASSUME k + 1 <= N PROVE reach[k + 1] \subseteq A
      OBVIOUS
    <3>1. k \in Nat /\ k + 1 \in 0 .. N /\ k + 1 # 0 /\ k + 1 - 1 = k /\ reach[k] \subseteq A
      BY <1>1
    <3>2. reach[k + 1] = Next1(reach[k])
      BY <1>6, <3>1
    <3> QED BY <3>1, <3>2, <1>4
  <2> HIDE DEF T
  <2> QED BY <2>1, <2>2, Induction DEF T
<1>9. reach[N] \subseteq A
  BY <1>1, <1>8
<1>10. Heap!CellsOf(c) = 2 * c
  BY HeapClasses
<1> QED BY <1>7, <1>9, <1>10 DEF A

(* Chunks that are apart share no cell.                                    *)
LEMMA ClearIsApart ==
    ASSUME NEW a \in Nat, NEW b \in Nat, NEW i \in Nat, NEW j \in Nat,
           a + i <= b \/ b + j <= a
    PROVE  (a .. a + i - 1) \cap (b .. b + j - 1) = {}
OBVIOUS

(* What callers hold, what is listed and what is left never meet.          *)
LEMMA HeapNeverMeets ==
    ASSUME RequestsInside, HeapInv
    PROVE  Heap!FreeApartFromHeld
<1> SUFFICES ASSUME ~h_crashed PROVE Heap!FreeApartFromHeld
  BY DEF Heap!FreeApartFromHeld
<1> DEFINE area(f) == f.at .. f.at + 2 * f.class - 1
           rest == h_start_free .. h_end_free - 1
<1> PICK F : HeapSound(F)
  BY DEF HeapInv
<1>1. HeapTyped /\ HeapListed(F, h_free_list, h_link) /\ HeapTiles(F, HeapHeld, h_start_free)
      /\ F \subseteq Chunks /\ HeapHeld \subseteq Data
  BY DEF HeapInv, HeapSound, HeapListed, HeapTyped
<1>2. Heap!Free \subseteq {area(f) : f \in F}
  <2>1. \A c \in Heap!Classes : Heap!Listed(c) \subseteq {area(f) : f \in F}
    BY <1>1, HeapListedWithin
  <2> QED BY <2>1 DEF Heap!Free
<1>3. \A f \in F : f.at \in Nat \ {0} /\ f.class \in Nat \ {0}
  BY <1>1, ChunksTyped
<1>4. \A x \in HeapHeld :
         /\ Whole(x).at \in Nat \ {0} /\ Whole(x).class \in Nat \ {0}
         /\ {x.at - 1} \cup Heap!Data(x) \subseteq area(Whole(x))
  <2> SUFFICES ASSUME NEW x \in HeapHeld
               PROVE  /\ Whole(x).at \in Nat \ {0} /\ Whole(x).class \in Nat \ {0}
                      /\ {x.at - 1} \cup Heap!Data(x) \subseteq area(Whole(x))
    OBVIOUS
  <2> PICK q \in Nat \ {0}, a \in Nat \ {0} : q = Heap!Class(x.bytes) /\ a = x.at
    BY <1>1, WholeTyped
  <2>1. Whole(x).at = a - 1 /\ Whole(x).class = q + 1 /\ Heap!Data(x) = a .. a + 2 * q - 1
    BY <1>1, WholeTyped
  <2>2. Whole(x).at \in Nat \ {0}
    BY <1>1 DEF HeapTiles
  <2>3. {a - 1} \cup (a .. a + 2 * q - 1) \subseteq a - 1 .. a - 1 + 2 * (q + 1) - 1
    OBVIOUS
  <2>4. {x.at - 1} \cup Heap!Data(x) \subseteq area(Whole(x))
    <3>1. area(Whole(x)) = a - 1 .. a - 1 + 2 * (q + 1) - 1
      BY <2>1
    <3> QED BY <3>1, <2>1, <2>3
  <2>5. q + 1 \in Nat \ {0}
    OBVIOUS
  <2> QED BY <2>1, <2>2, <2>4, <2>5
<1>5. h_start_free \in Nat
  BY <1>1, HeapCellsAre DEF HeapTyped
<1>6. \A f, g \in F : f # g => area(f) \cap area(g) = {}
  <2> SUFFICES ASSUME NEW f \in F, NEW g \in F, f # g PROVE area(f) \cap area(g) = {}
    OBVIOUS
  <2>1. f.at + 2 * f.class <= g.at \/ g.at + 2 * g.class <= f.at
    BY <1>1 DEF HeapTiles, Clear
  <2>2. 2 * f.class \in Nat /\ 2 * g.class \in Nat /\ f.at \in Nat /\ g.at \in Nat
    BY <1>3
  <2> QED BY <2>1, <2>2, ClearIsApart
<1>7. \A x \in HeapHeld, f \in F : area(Whole(x)) \cap area(f) = {}
  <2> SUFFICES ASSUME NEW x \in HeapHeld, NEW f \in F PROVE area(Whole(x)) \cap area(f) = {}
    OBVIOUS
  <2>1. Whole(x).at + 2 * Whole(x).class <= f.at \/ f.at + 2 * f.class <= Whole(x).at
    BY <1>1 DEF HeapTiles, Clear
  <2>2. 2 * f.class \in Nat /\ 2 * Whole(x).class \in Nat /\ f.at \in Nat /\ Whole(x).at \in Nat
    BY <1>3, <1>4
  <2> QED BY <2>1, <2>2, ClearIsApart
<1>8. \A f \in F : area(f) \cap rest = {}
  BY <1>1, <1>3, <1>5 DEF HeapTiles, Below
<1>9. \A x \in HeapHeld : area(Whole(x)) \cap rest = {}
  BY <1>1, <1>4, <1>5 DEF HeapTiles, Below
<1>10. \A x \in HeapHeld : Heap!Data(x) \subseteq area(Whole(x))
  BY <1>4
<1> HIDE DEF area
<1>11. \A x \in HeapHeld, f \in Heap!Free : ({x.at - 1} \cup Heap!Data(x)) \cap f = {}
  <2> SUFFICES ASSUME NEW x \in HeapHeld, NEW f \in F
               PROVE  ({x.at - 1} \cup Heap!Data(x)) \cap area(f) = {}
    BY <1>2
  <2> QED BY <1>4, <1>7
<1>12. \A f, g \in Heap!Free : f # g => f \cap g = {}
  BY <1>2, <1>6
<1>13. \A f \in Heap!Free \cup {Heap!Data(x) : x \in HeapHeld} : f \cap rest = {}
  BY <1>2, <1>8, <1>9, <1>10
<1> HIDE DEF rest
<1> QED BY <1>11, <1>12, <1>13, HeapHeldIs DEF Heap!FreeApartFromHeld, rest

(* What HeapPool lists, what callers hold and what is left of the area     *)
(* never meet, if what DeAllocate lists lies in the chunk that was cut     *)
(* (c_mempool.c:99-101, 166-172).                                          *)
THEOREM FreeChunksApart == RequestsInside => (MemSpec => []HeapApart)
<1> SUFFICES ASSUME RequestsInside PROVE MemSpec => []HeapApart
  OBVIOUS
<1>1. HeapInv => HeapApart
  BY HeapNeverMeets DEF HeapApart
<1> QED BY <1>1, HeapInvariant, PTL
-----------------------------------------------------------------------------
(***************************************************************************)
(* The heap pool as an allocator.  What callers hold stays apart even      *)
(* after a failed malloc, when nothing else is known of the pool.          *)
(***************************************************************************)
HeapAreas == {Heap!Data(x) : x \in HeapHeld}

HeapHeldApart ==
    /\ IsABag(h_live) /\ \A x \in HeapHeld : h_live[x] = 1
    /\ \A x \in HeapHeld : Heap!Data(x) # {} /\ Heap!Data(x) \subseteq Heap!Cells
    /\ \A x, y \in HeapHeld : x # y => Heap!Data(x) \cap Heap!Data(y) = {}

(* By the invariant, what callers hold is apart as long as nothing         *)
(* crashed.                                                                *)
LEMMA HeapLiesApart ==
    ASSUME RequestsInside, HeapInv, ~h_crashed
    PROVE  HeapHeldApart
<1> PICK F : HeapSound(F)
  BY DEF HeapInv
<1>1. /\ HeapTiles(F, HeapHeld, h_start_free) /\ HeapHeld \subseteq Data
      /\ IsABag(h_live) /\ \A x \in HeapHeld : h_live[x] = 1
  BY DEF HeapInv, HeapSound, HeapTyped
<1>2. h_start_free \in Nat /\ h_start_free <= HeapCells /\ HeapCells \in Nat
  BY HeapCellsAre DEF HeapInv, HeapTyped
<1>3. ASSUME NEW x \in HeapHeld
      PROVE  /\ Heap!Data(x) = x.at .. x.at + 2 * Heap!Class(x.bytes) - 1
             /\ x.at \in Nat \ {0} /\ Heap!Class(x.bytes) \in Nat \ {0}
             /\ Whole(x).at = x.at - 1 /\ Whole(x).class = Heap!Class(x.bytes) + 1
  BY <1>1, WholeTyped
<1>4. ASSUME NEW x \in HeapHeld
      PROVE  Heap!Data(x) # {} /\ Heap!Data(x) \subseteq Heap!Cells
  <2> PICK a \in Nat \ {0}, q \in Nat \ {0} : a = x.at /\ q = Heap!Class(x.bytes)
    BY <1>3
  <2>1. Heap!Data(x) = a .. a + 2 * q - 1 /\ Whole(x).at = a - 1 /\ Whole(x).class = q + 1
    BY <1>3
  <2>2. Whole(x).at + 2 * Whole(x).class <= h_start_free
    BY <1>1 DEF HeapTiles, Below
  <2>3. a - 1 + 2 * (q + 1) <= HeapCells
    <3> PICK s \in Nat : s = h_start_free
      BY <1>2
    <3>1. a - 1 + 2 * (q + 1) <= s
      BY <2>1, <2>2
    <3> QED BY <3>1, <1>2
  <2>4. a \in a .. a + 2 * q - 1 /\ a .. a + 2 * q - 1 \subseteq 1 .. HeapCells
    BY <2>3, <1>2
  <2> QED BY <2>1, <2>4, HeapCellsAre
<1>5. ASSUME NEW x \in HeapHeld, NEW y \in HeapHeld, x # y
      PROVE  Heap!Data(x) \cap Heap!Data(y) = {}
  <2> PICK a \in Nat \ {0}, q \in Nat \ {0} : a = x.at /\ q = Heap!Class(x.bytes)
    BY <1>3
  <2> PICK b \in Nat \ {0}, r \in Nat \ {0} : b = y.at /\ r = Heap!Class(y.bytes)
    BY <1>3
  <2>1. /\ Heap!Data(x) = a .. a + 2 * q - 1 /\ Whole(x).at = a - 1 /\ Whole(x).class = q + 1
        /\ Heap!Data(y) = b .. b + 2 * r - 1 /\ Whole(y).at = b - 1 /\ Whole(y).class = r + 1
    BY <1>3
  <2>2. \/ Whole(x).at + 2 * Whole(x).class <= Whole(y).at
        \/ Whole(y).at + 2 * Whole(y).class <= Whole(x).at
    BY <1>1, <1>5 DEF HeapTiles, Clear
  <2>3. a + 2 * q <= b \/ b + 2 * r <= a
    <3>1. a - 1 + 2 * (q + 1) <= b - 1 \/ b - 1 + 2 * (r + 1) <= a - 1
      BY <2>1, <2>2
    <3> QED BY <3>1
  <2>4. 2 * q \in Nat /\ 2 * r \in Nat /\ a \in Nat /\ b \in Nat
    OBVIOUS
  <2> QED BY <2>1, <2>3, <2>4, ClearIsApart
<1> QED BY <1>1, <1>4, <1>5 DEF HeapHeldApart

(* If what is held is apart, each area is held once.                       *)
LEMMA HeapHeldBlocks == HeapHeldApart => Heap!HeldBlocks = [block \in HeapAreas |-> 1]
<1> SUFFICES ASSUME HeapHeldApart PROVE Heap!HeldBlocks = [block \in HeapAreas |-> 1]
  OBVIOUS
<1> DEFINE A == [x \in HeapHeld |-> Heap!Data(x)]
<1>1. \A x, y \in HeapHeld : x # y => A[x] # A[y]
  BY DEF HeapHeldApart
<1>2. HeapAreas = {A[x] : x \in HeapHeld}
  BY DEF HeapAreas
<1>3. Heap!HeldBlocks = [block \in HeapAreas |-> HeldAs(block, HeapHeld, h_live, A)]
  <2>1. \A B : Heap!BagCardinality(B) = BagCardinality(B)
    BY DEF Heap!BagCardinality, BagCardinality
  <2> QED BY <2>1, HeapHeldIs DEF Heap!HeldBlocks, HeapAreas, HeldAs
<1> HIDE DEF A
<1> PICK H, L, area : H = HeapHeld /\ L = h_live /\ area = A
  OBVIOUS
<1>4. \A z \in H : HeldAs(area[z], H, L, area) = 1
  <2>1. (\A x \in H : L[x] = 1) /\ (\A x, y \in H : x # y => area[x] # area[y])
    BY <1>1 DEF HeapHeldApart
  <2> QED BY <2>1, OneOfEach
<1> QED BY <1>2, <1>3, <1>4

(* The operators the allocator takes from the library are the library's.   *)
LEMMA HeapAllocBags ==
    /\ Heap!Alloc!EmptyBag = EmptyBag
    /\ \A B : Heap!Alloc!BagToSet(B) = BagToSet(B)
    /\ \A S : Heap!Alloc!SetToBag(S) = SetToBag(S)
<1>1. \A S : Heap!Alloc!SetToBag(S) = SetToBag(S)
  BY DEF Heap!Alloc!SetToBag, SetToBag
<1>2. \A B : Heap!Alloc!BagToSet(B) = BagToSet(B)
  BY DEF Heap!Alloc!BagToSet, BagToSet
<1> QED BY <1>1, <1>2 DEF Heap!Alloc!EmptyBag, EmptyBag

(* The sum of bags that the allocator takes from the library.              *)
LEMMA HeapAllocAdds == \A B, C : Heap!Alloc!(+)(B, C) = B (+) C
BY DEF Heap!Alloc!(+), (+)

(* The difference of bags that the allocator takes from the library.       *)
LEMMA HeapAllocTakes == \A B, C : Heap!Alloc!(-)(B, C) = B (-) C
BY DEF Heap!Alloc!(-), (-)

(* A chunk that is handed out is an allocation.                            *)
LEMMA HeapHandsOut ==
    ASSUME HeapHeldApart, HeapHeldApart', NEW x, h_live' = h_live (+) SetToBag({x}),
           Heap!HeldBlocks = [block \in HeapAreas |-> 1],
           Heap!HeldBlocks' = [block \in HeapAreas' |-> 1]
    PROVE  Heap!Alloc!Allocate
<1> PICK b : b = Heap!Data(x)
  OBVIOUS
<1> PICK after : after = h_live (+) SetToBag({x})
  OBVIOUS
<1>1. h_live' = after
  OBVIOUS
<1>2. BagToSet(after) = BagToSet(h_live) \cup {x} /\ HeapHeld' = HeapHeld \cup {x}
  BY <1>1, BagPlusOne DEF HeapHeld, HeapHeldApart
<1>3. x \notin HeapHeld
  <2> SUFFICES ASSUME x \in HeapHeld PROVE FALSE
    OBVIOUS
  <2>1. IsABag(h_live) /\ h_live[x] = 1 /\ after[x] = 1
    BY <1>1, <1>2 DEF HeapHeldApart
  <2>2. after[x] = 2
    BY <2>1 DEF IsABag, (+), SetToBag, BagToSet, HeapHeld
  <2> QED BY <2>1, <2>2
<1>4. /\ b # {} /\ b \subseteq Heap!Cells
      /\ \A y \in HeapHeld : Heap!Data(y) \cap b = {}
  BY <1>2, <1>3 DEF HeapHeldApart
<1>5. HeapAreas' = HeapAreas \cup {b}
  BY <1>2 DEF HeapAreas
<1>6. b \notin HeapAreas /\ b \cap UNION HeapAreas = {}
  BY <1>4 DEF HeapAreas
<1>7. BagToSet(Heap!HeldBlocks) = HeapAreas /\ BagToSet(Heap!HeldBlocks') = HeapAreas \cup {b}
  BY <1>5 DEF BagToSet
<1>8. Heap!HeldBlocks' = Heap!HeldBlocks (+) SetToBag({b})
  BY <1>5, <1>6, SinglesGrow
<1>9. /\ b \in Heap!Alloc!BagToSet(Heap!HeldBlocks')
      /\ b \cap UNION Heap!Alloc!BagToSet(Heap!HeldBlocks) = {}
      /\ Heap!HeldBlocks' = Heap!Alloc!(+)(Heap!HeldBlocks, Heap!Alloc!SetToBag({b}))
  BY <1>6, <1>7, <1>8, HeapAllocBags, HeapAllocAdds
<1> QED BY <1>4, <1>9 DEF Heap!Alloc!Allocate

(* A chunk that is given back is released.                                 *)
LEMMA HeapGivesBack ==
    ASSUME HeapHeldApart, NEW x \in HeapHeld, h_live' = h_live (-) SetToBag({x}),
           Heap!HeldBlocks = [block \in HeapAreas |-> 1],
           Heap!HeldBlocks' = [block \in HeapAreas' |-> 1]
    PROVE  Heap!Alloc!Release
<1> PICK b : b = Heap!Data(x)
  OBVIOUS
<1>1. HeapHeld' = HeapHeld \ {x}
  BY HeapLoses DEF HeapHeldApart
<1>2. \A y \in HeapHeld : y # x => Heap!Data(y) # b
  BY DEF HeapHeldApart
<1>3. HeapAreas' = HeapAreas \ {b} /\ b \in HeapAreas
  <2>1. HeapAreas' = {Heap!Data(y) : y \in HeapHeld'}
    BY DEF HeapAreas
  <2> QED BY <2>1, <1>1, <1>2 DEF HeapAreas
<1>4. BagToSet(Heap!HeldBlocks) = HeapAreas
  BY DEF BagToSet
<1>5. Heap!HeldBlocks' = Heap!HeldBlocks (-) SetToBag({b})
  BY <1>3, SinglesShrink
<1>6. /\ b \in Heap!Alloc!BagToSet(Heap!HeldBlocks)
      /\ Heap!HeldBlocks' = Heap!Alloc!(-)(Heap!HeldBlocks, Heap!Alloc!SetToBag({b}))
  BY <1>3, <1>4, <1>5, HeapAllocBags, HeapAllocTakes
<1> QED BY <1>6 DEF Heap!Alloc!Release

(* What a step does to what callers hold.                                  *)
LEMMA HeapStepHands ==
    ASSUME [MemNext]_<<which, vars, h_vars, d_vars>>
    PROVE  \/ h_live' = h_live
           \/ ~h_crashed' /\ \E x : h_live' = h_live (+) SetToBag({x})
           \/ ~h_crashed' /\ \E x \in HeapHeld : h_live' = h_live (-) SetToBag({x})
<1> DEFINE Goal == \/ h_live' = h_live
                   \/ ~h_crashed' /\ \E x : h_live' = h_live (+) SetToBag({x})
                   \/ ~h_crashed' /\ \E x \in HeapHeld : h_live' = h_live (-) SetToBag({x})
<1>1. ASSUME NEW n \in HeapRequests, Heap!Allocate(n) PROVE Goal
  <2>1. \A a, chain : Heap!Give(a, n, chain) => \E x : h_live' = h_live (+) SetToBag({x})
    BY HeapBags, HeapAdds DEF Heap!Give
  <2>2. ~h_crashed /\ (Heap!Pop(n) \/ Heap!Carve(n) \/ Heap!Grow(n) \/ Heap!GrowFails(n))
    BY <1>1 DEF Heap!Allocate
  <2>3. Heap!Pop(n) \/ Heap!Carve(n) \/ Heap!Grow(n)
           => h_crashed' = h_crashed /\ \E a, chain : Heap!Give(a, n, chain)
    BY DEF Heap!Pop, Heap!Carve, Heap!Grow, Heap!Cut
  <2>4. Heap!GrowFails(n) => h_live' = h_live
    BY DEF Heap!GrowFails
  <2> QED BY <2>1, <2>2, <2>3, <2>4
<1>2. ASSUME NEW x \in HeapHeld, Heap!DeAllocate(x) PROVE Goal
  BY <1>2, HeapBags, HeapTakes DEF Heap!DeAllocate
<1>3. CASE HeapStep
  BY <1>1, <1>2, <1>3, HeapHeldIs DEF HeapStep, Heap!Next
<1>4. CASE UNCHANGED h_vars
  BY <1>4 DEF h_vars
<1> QED BY <1>3, <1>4 DEF MemNext, ShareStep, DbufStep

(* What callers hold stays apart, by the invariant or because it does not  *)
(* change.                                                                 *)
LEMMA HeapHeldApartKeeps ==
    ASSUME HeapHeldApart, ~h_crashed' => HeapHeldApart',
           [MemNext]_<<which, vars, h_vars, d_vars>>
    PROVE  HeapHeldApart'
<1>1. h_live' = h_live => HeapHeldApart'
  BY DEF HeapHeldApart, HeapHeld
<1> QED BY <1>1, HeapStepHands

(* A step between states where what is held is apart is a step of the      *)
(* allocator.                                                              *)
LEMMA HeapStepAllocates ==
    ASSUME HeapHeldApart, HeapHeldApart', [MemNext]_<<which, vars, h_vars, d_vars>>,
           Heap!HeldBlocks = [block \in HeapAreas |-> 1],
           Heap!HeldBlocks' = [block \in HeapAreas' |-> 1]
    PROVE  [Heap!Alloc!Next]_(Heap!HeldBlocks)
<1>1. CASE h_live' = h_live
  BY <1>1 DEF HeapAreas, HeapHeld
<1>2. ASSUME NEW x, h_live' = h_live (+) SetToBag({x}) PROVE Heap!Alloc!Next
  BY <1>2, HeapHandsOut DEF Heap!Alloc!Next
<1>3. ASSUME NEW x \in HeapHeld, h_live' = h_live (-) SetToBag({x}) PROVE Heap!Alloc!Next
  BY <1>3, HeapGivesBack DEF Heap!Alloc!Next
<1> QED BY <1>1, <1>2, <1>3, HeapStepHands

(* What the heap pool hands out lies in its memory and overlaps nothing    *)
(* that is held: it implements the allocator for sizes that DeAllocate     *)
(* lists inside the chunk (c_mempool.c:55-75, 92-101).                     *)
THEOREM HeapServesAsAllocator == RequestsInside => (MemSpec => HeapAllocates)
<1> SUFFICES ASSUME RequestsInside PROVE MemSpec => HeapAllocates
  OBVIOUS
<1> DEFINE Blocks == Heap!HeldBlocks = [block \in HeapAreas |-> 1]
<1>1. MemInit => HeapHeldApart
  <2> SUFFICES ASSUME MemInit PROVE HeapHeldApart
    OBVIOUS
  <2>1. HeapInv /\ ~h_crashed
    BY HeapInitially DEF MemInit, Heap!Init
  <2> QED BY <2>1, HeapLiesApart
<1>2. MemInit => Heap!Alloc!Init
  <2> SUFFICES ASSUME MemInit PROVE Heap!Alloc!Init
    OBVIOUS
  <2>1. HeapHeldApart /\ h_live = EmptyBag
    BY <1>1, HeapBags DEF MemInit, Heap!Init
  <2>2. HeapAreas = {}
    BY <2>1, BagOfNone DEF HeapAreas, HeapHeld
  <2>3. Heap!HeldBlocks = EmptyBag
    BY <2>1, <2>2, HeapHeldBlocks DEF EmptyBag, SetToBag
  <2> QED BY <2>3, HeapAllocBags DEF Heap!Alloc!Init
<1>3. HeapHeldApart => Blocks
  BY HeapHeldBlocks
<1>4. /\ HeapInv /\ ~h_crashed => HeapHeldApart
      /\ (HeapHeldApart /\ (~h_crashed' => HeapHeldApart')
             /\ [MemNext]_<<which, vars, h_vars, d_vars>> => HeapHeldApart')
  BY HeapLiesApart, HeapHeldApartKeeps
<1>5. HeapHeldApart /\ HeapHeldApart' /\ Blocks /\ Blocks' /\ [MemNext]_<<which, vars, h_vars, d_vars>>
          => [Heap!Alloc!Next]_(Heap!HeldBlocks)
  BY HeapStepAllocates
<1>6. MemSpec => []HeapInv
  BY HeapInvariant
<1> HIDE DEF Blocks
<1> QED BY <1>1, <1>2, <1>3, <1>4, <1>5, <1>6, PTL
    DEF MemSpec, HeapAllocates, Heap!ImplementsAllocator, Heap!Alloc!Spec
-----------------------------------------------------------------------------
(* A behaviour of the three pools is one of the shared-memory pool.        *)
LEMMA ShareRuns == MemSpec => Spec
<1>1. MemInit => Init
  BY DEF MemInit
<1>2. [MemNext]_<<which, vars, h_vars, d_vars>> => [Next]_vars
  BY DEF MemNext, ShareStep, HeapStep, DbufStep
<1> QED BY <1>1, <1>2, PTL DEF MemSpec, Spec

(* Lists, links and what callers hold of the three pools are of their      *)
(* types: c_sharemem.c, c_mempool.c and mempool.c side by side.            *)
THEOREM PoolsStayTyped ==
    RequestsListed /\ RequestsInside /\ CountsFit => (MemSpec => []PoolsTyped)
<1> SUFFICES ASSUME RequestsListed, RequestsInside, CountsFit PROVE MemSpec => []PoolsTyped
  OBVIOUS
<1>1. HeapInv => Heap!TypeOK
  <2> SUFFICES ASSUME HeapTyped PROVE Heap!TypeOK
    BY DEF HeapInv
  <2>1. Heap!IsABag(h_live) /\ Heap!Held \subseteq [at : Heap!Cells, bytes : HeapRequests]
    BY HeapBags, HeapHeldIs DEF HeapTyped, Data
  <2> QED BY <2>1, HeapCellsAre DEF HeapTyped, Heap!TypeOK
<1>2. DbufInv => Dbuf!TypeOK
  <2> SUFFICES ASSUME DbufInv PROVE Dbuf!TypeOK
    OBVIOUS
  <2>1. DbufHeld \subseteq [block : Dbuf!All, at : Nat, bytes : Nat \ {0}]
    BY DEF DbufInv, DbufPieces
  <2>2. [block : Dbuf!All, at : Nat, bytes : Nat \ {0}] \subseteq [block : Dbuf!All, at : Nat, bytes : Nat]
    OBVIOUS
  <2>3. Dbuf!IsABag(d_live) /\ Dbuf!Held \subseteq [block : Dbuf!All, at : Nat, bytes : Nat]
    BY <2>1, <2>2, DbufBags, DbufParts DEF DbufInv, DbufPieces, DbufHeld
  <2> QED BY <2>3 DEF DbufInv, DbufChain, DbufSized, DbufRest, Dbuf!TypeOK
<1>3. MemSpec => []TypeOK
  BY ShareRuns, TypeCorrect, PTL
<1> QED BY <1>1, <1>2, <1>3, HeapInvariant, DbufInvariant, PTL DEF PoolsTyped
=============================================================================
