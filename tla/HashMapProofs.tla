---------------------------- MODULE HashMapProofs ----------------------------
(***************************************************************************)
(* Safety of HashMap for every set of keys and values, every hash, every   *)
(* first size and all tables merged: the chains stay sound, an iteration   *)
(* meets what it should, and the table implements FiniteMap.               *)
(***************************************************************************)
EXTENDS MCContainers, DataLemmas, SequenceTheorems

(***************************************************************************)
(* The hash map.  A table is sound when its chains are lists of entries    *)
(* without repetitions, each in the chain of its hash; no key and no       *)
(* address is twice in it or both in it and on the free list; and the      *)
(* count is right.                                                         *)
(***************************************************************************)
HashEntry == [id : Nat \ {0}, key : Keys, val : Vals]

ArraySound(max, array) ==
    /\ max \in Nat
    /\ array \in [0 .. max -> Seq(HashEntry)]
    /\ \A i \in 0 .. max :
          /\ NoneTwice(array[i])
          /\ \A e \in Elements(array[i]) : Hash[e.key] % (max + 1) = i

AllOf(max, array) == UNION {Elements(array[i]) : i \in 0 .. max}

OnceEach(E) == \A e, f \in E : e.key = f.key \/ e.id = f.id => e = f

FreeSound(E, free) ==
    /\ free \in Seq(Nat \ {0}) /\ NoneTwice(free)
    /\ \A e \in E : e.id \notin Elements(free)

TableSound(t) ==
    /\ t = [array |-> t.array, free |-> t.free, count |-> t.count, max |-> t.max]
    /\ ArraySound(t.max, t.array)
    /\ OnceEach(AllOf(t.max, t.array))
    /\ FreeSound(AllOf(t.max, t.array), t.free)
    /\ t.count = Cardinality(AllOf(t.max, t.array))

(* The elements of a list, as the model writes it and as the lemmas do.    *)
LEMMA ElementsAre == ASSUME NEW S, NEW s \in Seq(S) PROVE ToSet(s) = Elements(s)
BY DEF ToSet, Elements

(* The entries of a table are those of its chains.                         *)
LEMMA EntriesAre ==
    ASSUME NEW t, ArraySound(t.max, t.array)
    PROVE  Entries(t) = AllOf(t.max, t.array) /\ AllOf(t.max, t.array) \subseteq HashEntry
<1> DEFINE E == AllOf(t.max, t.array)
<1>1. \A i \in 0 .. t.max : t.array[i] \in Seq(HashEntry)
  BY DEF ArraySound
<1>2. \A i \in 0 .. t.max : ToSet(t.array[i]) = Elements(t.array[i])
  BY <1>1, ElementsAre
<1>3. \A i \in 0 .. t.max : Elements(t.array[i]) \subseteq HashEntry
  BY <1>1 DEF Elements
<1>4. Entries(t) = E
  BY <1>2 DEF Entries, Indexes, AllOf
<1>5. E \subseteq HashEntry
  BY <1>3 DEF AllOf
<1> QED BY <1>4, <1>5

(* A table has no more entries than there are keys, and as many addresses. *)
LEMMA EntriesCounted ==
    ASSUME NEW E \in SUBSET HashEntry, OnceEach(E)
    PROVE  /\ IsFiniteSet(E) /\ Cardinality(E) \in Nat /\ Cardinality(E) <= Cardinality(Keys)
           /\ Cardinality({e.key : e \in E}) = Cardinality(E)
           /\ IsFiniteSet({e.id : e \in E}) /\ Cardinality({e.id : e \in E}) = Cardinality(E)
<1> DEFINE K == {e.key : e \in E}
           I == {e.id : e \in E}
           f == [e \in E |-> e.key]
           g == [e \in E |-> e.id]
<1>1. f \in Injection(E, Keys)
  BY DEF Injection, IsInjective, HashEntry, OnceEach
<1>2. IsFiniteSet(Keys)
  BY HashAssumption
<1>3. IsFiniteSet(E) /\ Cardinality(E) <= Cardinality(Keys)
  BY <1>1, <1>2, FS_Injection
<1>4. f \in Bijection(E, K)
  BY DEF Injection, IsInjective, Surjection, Bijection, HashEntry, OnceEach
<1>5. g \in Bijection(E, I)
  BY DEF Injection, IsInjective, Surjection, Bijection, HashEntry, OnceEach
<1>6. ExistsBijection(E, K) /\ ExistsBijection(E, I)
  BY <1>4, <1>5 DEF ExistsBijection
<1> HIDE DEF K, I
<1>7. Cardinality(K) = Cardinality(E) /\ IsFiniteSet(I) /\ Cardinality(I) = Cardinality(E)
  BY <1>3, <1>6, FS_Bijection
<1>8. Cardinality(E) \in Nat
  BY <1>3, FS_CardinalityType
<1> QED BY <1>3, <1>7, <1>8 DEF K, I

(* Two chains share no entry.                                              *)
LEMMA ChainsApart ==
    ASSUME NEW max, NEW array, ArraySound(max, array)
    PROVE  \A i, j \in 0 .. max : i # j => Elements(array[i]) \cap Elements(array[j]) = {}
BY DEF ArraySound

(* The bucket of a key is one of the array.                                *)
LEMMA BucketIn ==
    ASSUME NEW max \in Nat, NEW k \in Keys
    PROVE  Hash[k] \in Nat /\ Hash[k] % (max + 1) \in 0 .. max
<1>1. Hash[k] \in Nat
  BY HashAssumption
<1> PICK h \in Nat : h = Hash[k]
  BY <1>1
<1> PICK m \in Nat \ {0} : m = max + 1
  OBVIOUS
<1>2. h % m \in 0 .. m - 1
  OBVIOUS
<1> QED BY <1>2

(* The walk along the chains meets every entry once.                       *)
LEMMA WalkMeetsAll ==
    ASSUME NEW t, ArraySound(t.max, t.array)
    PROVE  /\ Walk(t) \in Seq(HashEntry) /\ NoneTwice(Walk(t))
           /\ Elements(Walk(t)) = AllOf(t.max, t.array)
<1> PICK n : n = t.max + 1
  OBVIOUS
<1> DEFINE f == [i \in 1 .. n |-> t.array[i - 1]]
<1>0. t.max \in Nat /\ n \in Nat \ {0} /\ t.max = n - 1
  BY DEF ArraySound
<1>1. \A i \in 1 .. n : i - 1 \in 0 .. t.max
  BY <1>0
<1>2. f \in [1 .. n -> Seq(HashEntry)]
  BY <1>1 DEF ArraySound
<1>3. \A i \in 1 .. n : NoneTwice(f[i])
  BY <1>1 DEF ArraySound
<1>4. \A i, j \in 1 .. n : i # j => Elements(f[i]) \cap Elements(f[j]) = {}
  <2> SUFFICES ASSUME NEW i \in 1 .. n, NEW j \in 1 .. n, i # j
               PROVE  Elements(f[i]) \cap Elements(f[j]) = {}
    OBVIOUS
  <2>1. i - 1 # j - 1 /\ i - 1 \in 0 .. t.max /\ j - 1 \in 0 .. t.max
    BY <1>1
  <2> QED BY <2>1, ChainsApart
<1>5. Walk(t) = FlattenSeq(f)
  BY DEF Walk
<1>6. UNION {Elements(f[i]) : i \in 1 .. n} = AllOf(t.max, t.array)
  <2>1. \A i \in 0 .. t.max : i + 1 \in 1 .. n /\ (i + 1) - 1 = i
    BY <1>0
  <2>2. \A i \in 0 .. t.max : f[i + 1] = t.array[i]
    BY <2>1
  <2>3. UNION {Elements(f[i]) : i \in 1 .. n} \subseteq AllOf(t.max, t.array)
    BY <1>1 DEF AllOf
  <2> HIDE DEF f
  <2>4. AllOf(t.max, t.array) \subseteq UNION {Elements(f[i]) : i \in 1 .. n}
    BY <2>1, <2>2 DEF AllOf
  <2> QED BY <2>3, <2>4
<1> HIDE DEF f
<1> PICK w : w = FlattenSeq(f)
  OBVIOUS
<1>7. w \in Seq(HashEntry) /\ Elements(w) = UnionOf(n, f) /\ NoneTwice(w)
  <2>1. Flattened(HashEntry, n, f, w)
    BY <1>0, <1>2 DEF Flattened
  <2>2. ApartLists(n, f)
    BY <1>3, <1>4 DEF ApartLists
  <2> QED BY <2>1, <2>2, FlattenApart
<1>8. UnionOf(n, f) = AllOf(t.max, t.array)
  BY <1>6 DEF UnionOf
<1> QED BY <1>5, <1>7, <1>8

(* One chain gets another list.                                            *)
ChainFits(max, b, c) ==
    /\ b \in 0 .. max /\ c \in Seq(HashEntry) /\ NoneTwice(c)
    /\ \A e \in Elements(c) : Hash[e.key] % (max + 1) = b

(* A chain that fits its place may be exchanged for the one that is there. *)
LEMMA ChainPut ==
    ASSUME NEW max, NEW array, ArraySound(max, array), NEW b, NEW c, ChainFits(max, b, c),
           NEW new, new = [array EXCEPT ![b] = c]
    PROVE  /\ ArraySound(max, new)
           /\ AllOf(max, new) = (AllOf(max, array) \ Elements(array[b])) \cup Elements(c)
<1>1. /\ max \in Nat /\ array \in [0 .. max -> Seq(HashEntry)] /\ b \in 0 .. max
      /\ c \in Seq(HashEntry) /\ NoneTwice(c)
  BY DEF ArraySound, ChainFits
<1>2. /\ new \in [0 .. max -> Seq(HashEntry)] /\ new[b] = c
      /\ \A i \in 0 .. max : i # b => new[i] = array[i]
  BY <1>1
<1>3. ArraySound(max, new)
  BY <1>1, <1>2 DEF ArraySound, ChainFits
<1>4. AllOf(max, array) \ Elements(array[b]) = UNION {Elements(array[i]) : i \in (0 .. max) \ {b}}
  BY <1>1, ChainsApart DEF AllOf
<1>5. AllOf(max, new) = (UNION {Elements(new[i]) : i \in (0 .. max) \ {b}}) \cup Elements(new[b])
  BY <1>1 DEF AllOf
<1>6. UNION {Elements(new[i]) : i \in (0 .. max) \ {b}}
         = UNION {Elements(array[i]) : i \in (0 .. max) \ {b}}
  BY <1>2
<1> QED BY <1>2, <1>3, <1>4, <1>5, <1>6

(* The parts of a sound table.                                             *)
LEMMA SoundParts ==
    ASSUME NEW t, TableSound(t)
    PROVE  /\ t.max \in Nat /\ t.array \in [0 .. t.max -> Seq(HashEntry)] /\ t.count \in Nat
           /\ t.free \in Seq(Nat \ {0})
           /\ Entries(t) = AllOf(t.max, t.array) /\ Entries(t) \subseteq HashEntry
           /\ OnceEach(Entries(t)) /\ t.count = Cardinality(Entries(t))
           /\ Ids(t) = {e.id : e \in Entries(t)} \cup Elements(t.free)
<1>1. ArraySound(t.max, t.array) /\ OnceEach(AllOf(t.max, t.array))
  BY DEF TableSound
<1>2. Entries(t) = AllOf(t.max, t.array) /\ Entries(t) \subseteq HashEntry
  BY <1>1, EntriesAre
<1>3. t.free \in Seq(Nat \ {0}) /\ t.count = Cardinality(Entries(t))
  BY <1>2 DEF TableSound, FreeSound
<1>4. ToSet(t.free) = Elements(t.free)
  BY <1>3, ElementsAre
<1>5. t.count \in Nat
  BY <1>1, <1>2, <1>3, EntriesCounted
<1>6. t.max \in Nat /\ t.array \in [0 .. t.max -> Seq(HashEntry)]
  BY <1>1 DEF ArraySound
<1> QED BY <1>1, <1>2, <1>3, <1>4, <1>5, <1>6 DEF Ids

(* There is an address for a new entry.                                    *)
FreshOf(t) == IF t.free = << >> THEN NewId(t) ELSE Head(t.free)

(* A new entry is none of those in use, be it recycled or not              *)
(* (find_entry).                                                           *)
LEMMA FreshId ==
    ASSUME NEW t, TableSound(t), NEW k \in Keys, k \notin KeysOf(t)
    PROVE  /\ FreshOf(t) \in Nat \ {0}
           /\ \A e \in Entries(t) : e.id # FreshOf(t)
           /\ t.free # << >> => FreshOf(t) \in Elements(t.free)
<1> DEFINE E == Entries(t)
           I == {e.id : e \in E}
<1>0. /\ t.free \in Seq(Nat \ {0}) /\ E \subseteq HashEntry /\ OnceEach(E)
      /\ Ids(t) = I \cup Elements(t.free)
  BY SoundParts
<1>1. CASE t.free = << >>
  <2>1. Elements(t.free) = {}
    BY <1>1 DEF Elements
  <2>2. IsFiniteSet(I) /\ Cardinality(I) <= Cardinality(Keys) /\ Cardinality(I) \in Nat
    <3>1. Cardinality(E) <= Cardinality(Keys) /\ Cardinality(E) \in Nat
          /\ IsFiniteSet(I) /\ Cardinality(I) = Cardinality(E)
      BY <1>0, EntriesCounted
    <3> QED BY <3>1
  <2>3. Cardinality(Keys) \in Nat
    BY HashAssumption, FS_CardinalityType
  <2> PICK n : n = Cardinality(Keys)
    OBVIOUS
  <2>4. IsFiniteSet(1 .. n + 1) /\ Cardinality(1 .. n + 1) = n + 1
    <3> PICK m \in Nat : m = n + 1
      BY <2>3
    <3>1. 1 \in Int /\ m \in Int
      OBVIOUS
    <3>2. IsFiniteSet(1 .. m) /\ Cardinality(1 .. m) = IF 1 > m THEN 0 ELSE m - 1 + 1
      BY <3>1, FS_Interval
    <3> QED BY <3>2, <2>3
  <2>5. \E i \in 1 .. n + 1 : i \notin I
    <3> SUFFICES ASSUME 1 .. n + 1 \subseteq I PROVE FALSE
      OBVIOUS
    <3> HIDE DEF I
    <3>1. Cardinality(1 .. n + 1) <= Cardinality(I)
      BY <2>2, FS_Subset
    <3> QED BY <3>1, <2>2, <2>3, <2>4
  <2>6. \E i \in 1 .. Cardinality(Keys) + 1 : i \notin Ids(t)
    BY <2>5, <2>1, <1>0
  <2>7. NewId(t) \in 1 .. Cardinality(Keys) + 1 /\ NewId(t) \notin Ids(t)
    BY <2>6 DEF NewId
  <2> QED BY <2>3, <2>7, <1>0, <1>1 DEF FreshOf
<1>2. CASE t.free # << >>
  <2>1. FreshOf(t) = t.free[1] /\ 1 \in 1 .. Len(t.free) /\ t.free[1] \in Nat \ {0}
    BY <1>0, <1>2 DEF FreshOf
  <2>2. FreshOf(t) \in Elements(t.free)
    BY <2>1 DEF Elements
  <2>3. \A e \in E : e.id \notin Elements(t.free)
    BY SoundParts DEF TableSound, FreeSound
  <2> QED BY <2>1, <2>2, <2>3
<1> QED BY <1>1, <1>2

(* What Added makes of a table.                                            *)
NewEntry(t, k, v) == [id |-> FreshOf(t), key |-> k, val |-> v]

(* What find_entry leaves in each member of the table when it adds an      *)
(* entry.                                                                  *)
LEMMA AddedIs ==
    ASSUME NEW t, TableSound(t), NEW k \in Keys, NEW v \in Vals, NEW s, s = Added(t, k, v)
    PROVE  /\ s = [array |-> s.array, free |-> s.free, count |-> s.count, max |-> s.max]
           /\ s.array = [t.array EXCEPT ![Bucket(t, k)]
                            = Append(t.array[Bucket(t, k)], NewEntry(t, k, v))]
           /\ s.free = IF t.free = << >> THEN t.free ELSE Tail(t.free)
           /\ s.count = t.count + 1 /\ s.max = t.max
<1>1. t = [array |-> t.array, free |-> t.free, count |-> t.count, max |-> t.max]
  BY DEF TableSound
<1>2. t.array \in [0 .. t.max -> Seq(HashEntry)] /\ Bucket(t, k) \in 0 .. t.max
  BY SoundParts, BucketIn DEF Bucket
<1> PICK b, x : b = Bucket(t, k) /\ x = NewEntry(t, k, v)
  OBVIOUS
<1>3. s = [t EXCEPT !.array[b] = Append(@, x), !.free = IF t.free = << >> THEN @ ELSE Tail(@),
                    !.count = @ + 1]
  BY DEF Added, NewEntry, FreshOf
<1> PICK a, f, n, m : a = t.array /\ f = t.free /\ n = t.count /\ m = t.max
  OBVIOUS
<1>4. t = [array |-> a, free |-> f, count |-> n, max |-> m] /\ b \in DOMAIN a
  BY <1>1, <1>2
<1>5. s = [array |-> [a EXCEPT ![b] = Append(a[b], x)], free |-> IF f = << >> THEN f ELSE Tail(f),
           count |-> n + 1, max |-> m]
  BY <1>3, <1>4
<1> QED BY <1>5

(* The rest of the free list.                                              *)
LEMMA FreeTaken ==
    ASSUME NEW E, NEW free, FreeSound(E, free), free # << >>
    PROVE  FreeSound(E, Tail(free)) /\ Elements(Tail(free)) = Elements(free) \ {Head(free)}
<1> PICK n \in Nat : n = Len(free)
  BY DEF FreeSound
<1> PICK r : r = Tail(free)
  OBVIOUS
<1>1. /\ free \in Seq(Nat \ {0}) /\ NoneTwice(free) /\ n >= 1 /\ Head(free) = free[1]
      /\ r \in Seq(Nat \ {0}) /\ Len(r) = n - 1
      /\ \A i \in 1 .. n - 1 : r[i] = free[i + 1]
  BY DEF FreeSound
<1>2. \A i \in 1 .. n - 1 : i + 1 \in 1 .. n
  BY <1>1
<1>3. \A i \in 1 .. n : i # 1 => i - 1 \in 1 .. n - 1 /\ (i - 1) + 1 = i
  BY <1>1
<1>4. NoneTwice(r)
  <2> SUFFICES ASSUME NEW i \in 1 .. n - 1, NEW j \in 1 .. n - 1, r[i] = r[j] PROVE i = j
    BY <1>1 DEF NoneTwice
  <2>1. i + 1 = j + 1
    BY <1>1, <1>2 DEF NoneTwice
  <2> QED BY <2>1
<1>5. Elements(r) = Elements(free) \ {free[1]}
  <2>1. \A i \in 1 .. n - 1 : r[i] \in Elements(free) \ {free[1]}
    <3> TAKE i \in 1 .. n - 1
    <3>1. i + 1 \in 1 .. n /\ 1 \in 1 .. n /\ i + 1 # 1 /\ r[i] = free[i + 1]
      BY <1>1, <1>2
    <3> QED BY <3>1, <1>1 DEF NoneTwice, Elements
  <2>2. \A i \in 1 .. n : free[i] # free[1] => free[i] \in Elements(r)
    <3> TAKE i \in 1 .. n
    <3> SUFFICES ASSUME i # 1 PROVE free[i] \in Elements(r)
      OBVIOUS
    <3>1. i - 1 \in 1 .. n - 1 /\ r[i - 1] = free[i]
      BY <1>1, <1>3
    <3> QED BY <3>1, <1>1 DEF Elements
  <2> QED BY <2>1, <2>2, <1>1 DEF Elements
<1>6. FreeSound(E, r)
  BY <1>1, <1>4, <1>5 DEF FreeSound
<1> QED BY <1>1, <1>5, <1>6

(* A table with one more entry is sound.                                   *)
LEMMA AddedSound ==
    ASSUME NEW t, TableSound(t), NEW k \in Keys, NEW v \in Vals, k \notin KeysOf(t)
    PROVE  /\ TableSound(Added(t, k, v))
           /\ Entries(Added(t, k, v)) = Entries(t) \cup {NewEntry(t, k, v)}
           /\ Added(t, k, v).max = t.max /\ Added(t, k, v).count = t.count + 1
           /\ Ids(t) \subseteq Ids(Added(t, k, v))
<1> PICK s : s = Added(t, k, v)
  OBVIOUS
<1> PICK x : x = NewEntry(t, k, v)
  OBVIOUS
<1> PICK b : b = Bucket(t, k)
  OBVIOUS
<1> DEFINE E == Entries(t)
           c == Append(t.array[b], x)
<1>1. /\ s = [array |-> s.array, free |-> s.free, count |-> s.count, max |-> s.max]
      /\ s.array = [t.array EXCEPT ![b] = c]
      /\ s.free = IF t.free = << >> THEN t.free ELSE Tail(t.free)
      /\ s.count = t.count + 1 /\ s.max = t.max
  BY AddedIs
<1>2. /\ t.max \in Nat /\ b \in 0 .. t.max /\ t.array[b] \in Seq(HashEntry) /\ t.count \in Nat
      /\ E = AllOf(t.max, t.array) /\ E \subseteq HashEntry /\ OnceEach(E)
      /\ t.count = Cardinality(E)
  BY SoundParts, BucketIn DEF Bucket
<1>3. ArraySound(t.max, t.array) /\ FreeSound(E, t.free)
  BY <1>2 DEF TableSound
<1>4. x \in HashEntry /\ x.key = k /\ x.id = FreshOf(t) /\ \A e \in E : e.id # x.id /\ e.key # k
  <2>1. FreshOf(t) \in Nat \ {0} /\ \A e \in E : e.id # FreshOf(t)
    BY FreshId
  <2> QED BY <2>1 DEF NewEntry, HashEntry, KeysOf
<1>5. x \notin Elements(t.array[b])
  BY <1>2, <1>4 DEF AllOf
<1>6. /\ c \in Seq(HashEntry) /\ NoneTwice(c) /\ Elements(c) = Elements(t.array[b]) \cup {x}
  <2>1. LongerList(HashEntry, t.array[b], x, c)
    BY <1>2, <1>4 DEF LongerList
  <2>2. NoneTwice(t.array[b])
    BY <1>2, <1>3 DEF ArraySound
  <2> HIDE DEF c
  <2> QED BY <2>1, <2>2, <1>5, AppendApart
<1> HIDE DEF c
<1>7. ChainFits(t.max, b, c)
  <2>1. \A e \in Elements(t.array[b]) : Hash[e.key] % (t.max + 1) = b
    BY <1>2, <1>3 DEF ArraySound
  <2>2. Hash[x.key] % (t.max + 1) = b
    BY <1>4 DEF Bucket
  <2> QED BY <2>1, <2>2, <1>2, <1>6 DEF ChainFits
<1>8. ArraySound(s.max, s.array) /\ AllOf(s.max, s.array) = E \cup {x}
  <2>1. Elements(t.array[b]) \subseteq E
    BY <1>2 DEF AllOf
  <2> QED BY <2>1, <1>1, <1>2, <1>3, <1>6, <1>7, ChainPut
<1>9. OnceEach(E \cup {x})
  BY <1>2, <1>4 DEF OnceEach
<1>10. FreeSound(E \cup {x}, s.free)
  <2>1. CASE t.free = << >>
    BY <2>1, <1>1, <1>3 DEF FreeSound, Elements
  <2>2. CASE t.free # << >>
    <3>1. FreeSound(E, s.free) /\ Elements(s.free) = Elements(t.free) \ {Head(t.free)}
      <4>1. FreeSound(E, Tail(t.free)) /\ Elements(Tail(t.free)) = Elements(t.free) \ {Head(t.free)}
        <5> HIDE DEF E
        <5> QED BY <2>2, <1>3, FreeTaken
      <4> QED BY <4>1, <2>2, <1>1
    <3>2. x.id = Head(t.free)
      BY <2>2, <1>4 DEF FreshOf
    <3> QED BY <3>1, <3>2 DEF FreeSound
  <2> QED BY <2>1, <2>2
<1>11. Cardinality(E \cup {x}) = s.count
  <2>1. IsFiniteSet(E) /\ x \notin E
    BY <1>2, <1>4, EntriesCounted
  <2> HIDE DEF E
  <2>2. Cardinality(E \cup {x}) = Cardinality(E) + 1
    BY <2>1, FS_AddElement
  <2> QED BY <2>2, <1>1, <1>2
<1>12. TableSound(s)
  BY <1>1, <1>8, <1>9, <1>10, <1>11 DEF TableSound
<1>13. Entries(s) = E \cup {x}
  BY <1>8, EntriesAre
<1>14. Ids(t) \subseteq Ids(s)
  <2>1. Ids(t) = {e.id : e \in E} \cup Elements(t.free)
    BY SoundParts
  <2>2. Ids(s) = {e.id : e \in E \cup {x}} \cup Elements(s.free)
    BY <1>12, <1>13, SoundParts
  <2>3. Elements(t.free) \subseteq Elements(s.free) \cup {x.id}
    <3>1. CASE t.free = << >>
      BY <3>1, <1>1
    <3>2. CASE t.free # << >>
      <4>1. Elements(Tail(t.free)) = Elements(t.free) \ {Head(t.free)}
        <5> HIDE DEF E
        <5> QED BY <3>2, <1>3, FreeTaken
      <4>2. x.id = Head(t.free) /\ s.free = Tail(t.free)
        BY <3>2, <1>1, <1>4 DEF FreshOf
      <4> QED BY <4>1, <4>2
    <3> QED BY <3>1, <3>2
  <2> QED BY <2>1, <2>2, <2>3
<1> QED BY <1>1, <1>12, <1>13, <1>14

(* What Replaced makes of a table.                                         *)
WithVal(e, k, v) == IF e.key = k THEN [e EXCEPT !.val = v] ELSE e

(* A new value leaves the key and the address of an entry.                 *)
LEMMA WithValKeeps ==
    ASSUME NEW e \in HashEntry, NEW k, NEW v \in Vals
    PROVE  /\ WithVal(e, k, v) \in HashEntry
           /\ WithVal(e, k, v).id = e.id /\ WithVal(e, k, v).key = e.key
           /\ WithVal(e, k, v).val = IF e.key = k THEN v ELSE e.val
BY DEF WithVal, HashEntry

(* What scl_hash_set leaves in each member of the table when the key is    *)
(* there.                                                                  *)
LEMMA ReplacedIs ==
    ASSUME NEW t, TableSound(t), NEW k \in Keys, NEW v \in Vals, NEW s, s = Replaced(t, k, v)
    PROVE  /\ s = [array |-> s.array, free |-> s.free, count |-> s.count, max |-> s.max]
           /\ s.array = [t.array EXCEPT ![Bucket(t, k)]
                  = [j \in DOMAIN t.array[Bucket(t, k)] |-> WithVal(t.array[Bucket(t, k)][j], k, v)]]
           /\ s.free = t.free /\ s.count = t.count /\ s.max = t.max
<1>1. t = [array |-> t.array, free |-> t.free, count |-> t.count, max |-> t.max]
  BY DEF TableSound
<1>2. t.array \in [0 .. t.max -> Seq(HashEntry)] /\ Bucket(t, k) \in 0 .. t.max
  BY SoundParts, BucketIn DEF Bucket
<1> PICK b : b = Bucket(t, k)
  OBVIOUS
<1>3. s = [t EXCEPT !.array[b] = [j \in DOMAIN @ |-> WithVal(@[j], k, v)]]
  BY DEF Replaced, WithVal
<1> PICK a, f, n, m : a = t.array /\ f = t.free /\ n = t.count /\ m = t.max
  OBVIOUS
<1>4. t = [array |-> a, free |-> f, count |-> n, max |-> m] /\ b \in DOMAIN a
  BY <1>1, <1>2
<1>5. s = [array |-> [a EXCEPT ![b] = [j \in DOMAIN a[b] |-> WithVal(a[b][j], k, v)]], free |-> f,
           count |-> n, max |-> m]
  BY <1>3, <1>4
<1> QED BY <1>5

(* A table with another value for a key is sound.                          *)
LEMMA ReplacedSound ==
    ASSUME NEW t, TableSound(t), NEW k \in Keys, NEW v \in Vals
    PROVE  /\ TableSound(Replaced(t, k, v))
           /\ Entries(Replaced(t, k, v)) = {WithVal(e, k, v) : e \in Entries(t)}
           /\ Replaced(t, k, v).max = t.max /\ Replaced(t, k, v).count = t.count
           /\ Ids(Replaced(t, k, v)) = Ids(t)
<1> PICK s : s = Replaced(t, k, v)
  OBVIOUS
<1> PICK b : b = Bucket(t, k)
  OBVIOUS
<1> DEFINE E == Entries(t)
           F == {WithVal(e, k, v) : e \in E}
<1> PICK d : d = t.array[b]
  OBVIOUS
<1> PICK c : c = [j \in DOMAIN d |-> WithVal(d[j], k, v)]
  OBVIOUS
<1>1. /\ s = [array |-> s.array, free |-> s.free, count |-> s.count, max |-> s.max]
      /\ s.array = [t.array EXCEPT ![b] = c]
      /\ s.free = t.free /\ s.count = t.count /\ s.max = t.max
  BY ReplacedIs
<1>2. /\ t.max \in Nat /\ b \in 0 .. t.max /\ d \in Seq(HashEntry) /\ t.count \in Nat
      /\ E = AllOf(t.max, t.array) /\ E \subseteq HashEntry /\ OnceEach(E)
      /\ t.count = Cardinality(E)
  BY SoundParts, BucketIn DEF Bucket
<1>3. ArraySound(t.max, t.array) /\ FreeSound(E, t.free)
  BY <1>2 DEF TableSound
<1> PICK n \in Nat : n = Len(d)
  BY <1>2
<1>4. /\ NoneTwice(d) /\ \A e \in Elements(d) : Hash[e.key] % (t.max + 1) = b
  BY <1>2, <1>3 DEF ArraySound
<1>5. Elements(d) \subseteq E
  BY <1>2 DEF AllOf
<1>6. /\ DOMAIN d = 1 .. n /\ Len(c) = n
      /\ \A j \in 1 .. n : d[j] \in HashEntry /\ d[j] \in Elements(d) /\ c[j] = WithVal(d[j], k, v)
      /\ c \in Seq(HashEntry)
  <2>1. DOMAIN d = 1 .. n /\ \A j \in 1 .. n : d[j] \in HashEntry /\ d[j] \in Elements(d)
    BY <1>2 DEF Elements
  <2>2. c = [j \in 1 .. n |-> WithVal(d[j], k, v)]
    BY <2>1
  <2>3. \A j \in 1 .. n : WithVal(d[j], k, v) \in HashEntry
    BY <2>1, WithValKeeps
  <2>4. c \in Seq(HashEntry) /\ Len(c) = n
    BY <2>2, <2>3, SeqDef
  <2> QED BY <2>1, <2>2, <2>4
<1>7. NoneTwice(c)
  <2>1. \A i, j \in 1 .. n : c[i] = c[j] => i = j
    <3> SUFFICES ASSUME NEW i \in 1 .. n, NEW j \in 1 .. n, c[i] = c[j] PROVE i = j
      OBVIOUS
    <3>0. /\ d[i] \in HashEntry /\ d[j] \in HashEntry /\ d[i] \in E /\ d[j] \in E
          /\ c[i] = WithVal(d[i], k, v) /\ c[j] = WithVal(d[j], k, v)
      BY <1>5, <1>6
    <3>1. d[i].id = d[j].id
      <4> PICK x, y : x = d[i] /\ y = d[j]
        OBVIOUS
      <4>1. WithVal(x, k, v).id = x.id /\ WithVal(y, k, v).id = y.id
        BY <3>0, WithValKeeps
      <4> QED BY <4>1, <3>0
    <3>2. d[i] = d[j]
      BY <3>0, <3>1, <1>2 DEF OnceEach
    <3> QED BY <3>2, <1>4, <1>6 DEF NoneTwice
  <2>2. Len(c) = n
    BY <1>6
  <2>3. \A i, j \in 1 .. Len(c) : c[i] = c[j] => i = j
    <3> SUFFICES ASSUME NEW i \in 1 .. Len(c), NEW j \in 1 .. Len(c), c[i] = c[j] PROVE i = j
      OBVIOUS
    <3>1. i \in 1 .. n /\ j \in 1 .. n
      BY <2>2
    <3> QED BY <3>1, <2>1
  <2> QED BY <2>3, Zenon DEF NoneTwice
<1>8. Elements(c) = {WithVal(e, k, v) : e \in Elements(d)}
  BY <1>6 DEF Elements
<1>9. ChainFits(t.max, b, c)
  <2>1. \A e \in Elements(d) : WithVal(e, k, v).key = e.key
    <3> SUFFICES ASSUME NEW e \in Elements(d) PROVE WithVal(e, k, v).key = e.key
      OBVIOUS
    <3>1. e \in HashEntry
      BY <1>2, <1>5
    <3> QED BY <3>1, WithValKeeps
  <2>2. \A e \in Elements(c) : Hash[e.key] % (t.max + 1) = b
    <3> SUFFICES ASSUME NEW e \in Elements(d), NEW x, x = WithVal(e, k, v)
                 PROVE  Hash[x.key] % (t.max + 1) = b
      BY <1>8
    <3>1. x.key = e.key
      BY <2>1
    <3> QED BY <3>1, <1>4
  <2>3. c \in Seq(HashEntry)
    BY <1>6
  <2> QED BY <2>2, <2>3, <1>2, <1>7 DEF ChainFits
<1>10. \A e \in E \ Elements(d) : WithVal(e, k, v) = e
  <2> SUFFICES ASSUME NEW e \in E \ Elements(d), e.key = k PROVE FALSE
    BY DEF WithVal
  <2>1. PICK i \in 0 .. t.max : e \in Elements(t.array[i])
    BY <1>2 DEF AllOf
  <2>2. i = b
    BY <2>1, <1>3 DEF ArraySound, Bucket
  <2> QED BY <2>1, <2>2
<1>11. ArraySound(s.max, s.array) /\ AllOf(s.max, s.array) = F
  <2>1. ArraySound(s.max, s.array) /\ AllOf(s.max, s.array) = (E \ Elements(d)) \cup Elements(c)
    <3> PICK a, new : a = t.array /\ new = s.array
      OBVIOUS
    <3>1. ArraySound(t.max, a) /\ new = [a EXCEPT ![b] = c] /\ d = a[b]
      BY <1>1, <1>3
    <3>2. ArraySound(t.max, new) /\ AllOf(t.max, new) = (AllOf(t.max, a) \ Elements(a[b])) \cup Elements(c)
      BY <3>1, <1>9, ChainPut
    <3> QED BY <3>1, <3>2, <1>1, <1>2
  <2>2. (E \ Elements(d)) \cup Elements(c) = F
    BY <1>5, <1>8, <1>10
  <2> QED BY <2>1, <2>2
<1>12. \A e \in E : WithVal(e, k, v) \in HashEntry /\ WithVal(e, k, v).id = e.id /\ WithVal(e, k, v).key = e.key
  BY <1>2, WithValKeeps
<1>13. F \subseteq HashEntry /\ OnceEach(F) /\ {e.id : e \in F} = {e.id : e \in E}
  <2>1. F \subseteq HashEntry
    BY <1>12
  <2>2. OnceEach(F)
    BY <1>2, <1>12 DEF OnceEach
  <2>3. {e.id : e \in F} = {e.id : e \in E}
    BY <1>12
  <2> QED BY <2>1, <2>2, <2>3
<1>14. FreeSound(F, s.free)
  BY <1>1, <1>3, <1>12 DEF FreeSound
<1>15. Cardinality(F) = s.count
  <2>1. Cardinality({e.id : e \in F}) = Cardinality(F)
    <3> HIDE DEF F
    <3> QED BY <1>13, EntriesCounted
  <2>2. Cardinality({e.id : e \in E}) = Cardinality(E)
    <3> HIDE DEF E
    <3> QED BY <1>2, EntriesCounted
  <2> QED BY <2>1, <2>2, <1>1, <1>2, <1>13
<1>ids. {e.id : e \in F} = {e.id : e \in E}
  BY <1>13
<1> HIDE DEF F
<1>16. TableSound(s)
  BY <1>1, <1>11, <1>13, <1>14, <1>15 DEF TableSound
<1>17. Entries(s) = F
  BY <1>11, EntriesAre
<1>18. Ids(s) = Ids(t)
  <2>1. Ids(t) = {e.id : e \in E} \cup Elements(t.free)
    BY SoundParts
  <2>2. Ids(s) = {e.id : e \in F} \cup Elements(s.free)
    BY <1>16, <1>17, SoundParts
  <2> QED BY <2>1, <2>2, <1>1, <1>ids
<1> QED BY <1>1, <1>16, <1>17, <1>18 DEF F

(* Where the entry of a key is.                                            *)
LEMMA EntryFound ==
    ASSUME NEW t, TableSound(t), NEW k \in KeysOf(t)
    PROVE  /\ k \in Keys /\ Bucket(t, k) \in 0 .. t.max
           /\ EntryOf(t, k) \in Entries(t) /\ EntryOf(t, k).key = k
           /\ EntryOf(t, k) \in Elements(t.array[Bucket(t, k)])
           /\ \A e \in Entries(t) : e.key = k => e = EntryOf(t, k)
<1>1. /\ Entries(t) = AllOf(t.max, t.array) /\ Entries(t) \subseteq HashEntry
      /\ OnceEach(Entries(t)) /\ t.max \in Nat
  BY SoundParts
<1>2. EntryOf(t, k) \in Entries(t) /\ EntryOf(t, k).key = k
  BY DEF EntryOf, KeysOf
<1>3. k \in Keys
  BY <1>1, <1>2 DEF HashEntry
<1>4. PICK i \in 0 .. t.max : EntryOf(t, k) \in Elements(t.array[i])
  BY <1>1, <1>2 DEF AllOf
<1>5. i = Bucket(t, k)
  BY <1>2, <1>4 DEF TableSound, ArraySound, Bucket
<1> QED BY <1>1, <1>2, <1>3, <1>4, <1>5 DEF OnceEach

(* What Deleted makes of a table: the entry at one place of its chain goes *)
(* to the free list.                                                       *)
LEMMA DeletedIs ==
    ASSUME NEW t, TableSound(t), NEW k \in KeysOf(t), NEW s, s = Deleted(t, k)
    PROVE  /\ s = [array |-> s.array, free |-> s.free, count |-> s.count, max |-> s.max]
           /\ s.free = Prefixed(EntryOf(t, k).id, t.free)
           /\ s.count = t.count - 1 /\ s.max = t.max
           /\ \E j \in 1 .. Len(t.array[Bucket(t, k)]) :
                 /\ t.array[Bucket(t, k)][j] = EntryOf(t, k)
                 /\ s.array = [t.array EXCEPT ![Bucket(t, k)]
                                 = WithoutPlace(t.array[Bucket(t, k)], j)]
<1>1. t = [array |-> t.array, free |-> t.free, count |-> t.count, max |-> t.max]
  BY DEF TableSound
<1>2. t.array \in [0 .. t.max -> Seq(HashEntry)] /\ Bucket(t, k) \in 0 .. t.max
  BY SoundParts, EntryFound
<1> PICK b, c : b = Bucket(t, k) /\ c = t.array[b]
  OBVIOUS
<1> PICK x : x = EntryOf(t, k)
  OBVIOUS
<1>3. c \in Seq(HashEntry) /\ DOMAIN c = 1 .. Len(c)
  <2>1. b \in 0 .. t.max
    BY <1>2
  <2>2. c \in Seq(HashEntry)
    BY <2>1, <1>2
  <2> QED BY <2>2
<1>4. \E j \in DOMAIN c : c[j].key = k
  BY <1>3, EntryFound DEF Elements
<1> PICK j : j = CHOOSE i \in DOMAIN c : c[i].key = k
  OBVIOUS
<1>5. j \in 1 .. Len(c) /\ c[j].key = k
  BY <1>3, <1>4
<1>6. c[j] = x
  <2>1. c[j] \in Entries(t)
    <3>1. c[j] \in Elements(c) /\ b \in 0 .. t.max
      BY <1>2, <1>5 DEF Elements
    <3>2. Entries(t) = AllOf(t.max, t.array)
      BY SoundParts
    <3> QED BY <3>1, <3>2 DEF AllOf
  <2> QED BY <2>1, <1>5, EntryFound
<1>7. s = [t EXCEPT !.array[b] = RemoveAt(c, j), !.free = <<x.id>> \o @, !.count = @ - 1]
  BY DEF Deleted, Unlinked
<1> PICK a, f, n, m : a = t.array /\ f = t.free /\ n = t.count /\ m = t.max
  OBVIOUS
<1>8. t = [array |-> a, free |-> f, count |-> n, max |-> m] /\ b \in DOMAIN a
  BY <1>1, <1>2
<1>9. s = [array |-> [a EXCEPT ![b] = RemoveAt(c, j)], free |-> <<x.id>> \o f,
           count |-> n - 1, max |-> m]
  BY <1>7, <1>8
<1>10. RemoveAt(c, j) = WithoutPlace(c, j) /\ <<x.id>> \o f = Prefixed(x.id, f)
  BY DEF RemoveAt, WithoutPlace, Prefixed
<1>11. /\ s = [array |-> s.array, free |-> s.free, count |-> s.count, max |-> s.max]
       /\ s.array = [t.array EXCEPT ![b] = WithoutPlace(c, j)]
       /\ s.free = Prefixed(x.id, t.free) /\ s.count = t.count - 1 /\ s.max = t.max
  BY <1>9, <1>10
<1>12. \E i \in 1 .. Len(t.array[Bucket(t, k)]) :
          /\ t.array[Bucket(t, k)][i] = EntryOf(t, k)
          /\ s.array = [t.array EXCEPT ![Bucket(t, k)] = WithoutPlace(t.array[Bucket(t, k)], i)]
  BY <1>5, <1>6, <1>11
<1> QED BY <1>11, <1>12

(* A remainder is below its modulus, and the quotient makes up the         *)
(* difference.                                                             *)
LEMMA Rest ==
    ASSUME NEW x \in Int, NEW M \in Nat \ {0}
    PROVE  /\ x % M \in 0 .. M - 1 /\ x \div M \in Int
           /\ x = M * (x \div M) + (x % M)
<1>1. x % M \in 0 .. M - 1
  OBVIOUS
<1>2. x \div M \in Int
  OBVIOUS
<1>3. x = M * (x \div M) + (x % M)
  OBVIOUS
<1> QED BY <1>1, <1>2, <1>3

(* A number has one quotient and one remainder.                            *)
LEMMA SameRest ==
    ASSUME NEW M \in Nat \ {0}, NEW a \in Int, NEW b \in Int,
           NEW u \in 0 .. M - 1, NEW v \in 0 .. M - 1, M * a + u = M * b + v
    PROVE  u = v
<1>1. M * (a - b) = v - u
  OBVIOUS
<1>2. CASE a - b >= 1
  <2>1. PICK c \in Nat : a - b = 1 + c
    <3>1. a - b - 1 \in Nat /\ a - b = 1 + (a - b - 1)
      BY <1>2
    <3> QED BY <3>1
  <2>2. M * (1 + c) = M + M * c /\ M * c >= 0
    OBVIOUS
  <2> QED BY <2>1, <2>2, <1>1
<1>3. CASE b - a >= 1
  <2>1. PICK c \in Nat : b - a = 1 + c
    <3>1. b - a - 1 \in Nat /\ b - a = 1 + (b - a - 1)
      BY <1>3
    <3> QED BY <3>1
  <2>2. M * (1 + c) = M + M * c /\ M * c >= 0
    OBVIOUS
  <2>3. M * (b - a) = u - v
    OBVIOUS
  <2> QED BY <2>1, <2>2, <2>3
<1>4. CASE a = b
  BY <1>4
<1> QED BY <1>2, <1>3, <1>4

(* A place in the doubled array tells the place in the array before.       *)
LEMMA HalfHash ==
    ASSUME NEW h \in Nat, NEW M \in Nat \ {0}
    PROVE  /\ 2 * M \in Nat \ {0} /\ h % (2 * M) \in 0 .. 2 * M - 1
           /\ (h % (2 * M)) % M = h % M
<1>1. 2 * M \in Nat \ {0}
  OBVIOUS
<1> PICK D \in Nat \ {0} : D = 2 * M
  BY <1>1
<1>0. h \in Int
  OBVIOUS
<1>2. h % D \in 0 .. D - 1 /\ h \div D \in Int /\ h = D * (h \div D) + (h % D)
  BY <1>0, Rest
<1> PICK q, r : q = h \div D /\ r = h % D
  OBVIOUS
<1>3. /\ h % M \in 0 .. M - 1 /\ h \div M \in Int /\ h = M * (h \div M) + (h % M)
  BY Rest
<1> PICK a, u : a = h \div M /\ u = h % M
  OBVIOUS
<1>4. r \in Int /\ q \in Int
  BY <1>2
<1>5. /\ r % M \in 0 .. M - 1 /\ r \div M \in Int /\ r = M * (r \div M) + (r % M)
  BY <1>4, Rest
<1> PICK b, v : b = r \div M /\ v = r % M
  OBVIOUS
<1>6. a \in Int /\ b \in Int /\ u \in 0 .. M - 1 /\ v \in 0 .. M - 1
  BY <1>3, <1>5
<1>7. h = M * a + u /\ h = (2 * M) * q + r /\ r = M * b + v
  BY <1>2, <1>3, <1>5
<1>8. (2 * M) * q = M * (2 * q) /\ M * (2 * q + b) = M * (2 * q) + M * b
  <2>1. 2 * q \in Int
    BY <1>4
  <2> PICK p : p = 2 * q
    OBVIOUS
  <2>2. \A i, j \in Int : M * (i + j) = M * i + M * j
    OBVIOUS
  <2>3. \A i \in Int : (2 * M) * i = M * (2 * i)
    OBVIOUS
  <2>4. (2 * M) * q = M * (2 * q)
    BY <2>3, <1>4
  <2>5. M * (p + b) = M * p + M * b
    BY <2>1, <2>2, <1>6
  <2> QED BY <2>4, <2>5
<1>9. M * a + u = M * (2 * q + b) + v
  <2> PICK x, y, z : x = M * a /\ y = M * (2 * q) /\ z = M * b
    OBVIOUS
  <2>0. \A i, j \in Int : i * j \in Int
    OBVIOUS
  <2>1. x \in Int /\ z \in Int
    BY <2>0, <1>6
  <2>2. 2 * q \in Int
    BY <1>4
  <2> PICK p : p = 2 * q
    OBVIOUS
  <2>3. y \in Int
    BY <2>0, <2>2
  <2> PICK w : w = M * (2 * q + b)
    OBVIOUS
  <2>4. x + u = y + r /\ r = z + v /\ w = y + z
    BY <1>7, <1>8
  <2>5. x + u = w + v
    <3>1. u \in Int /\ v \in Int /\ r \in Int
      BY <1>4, <1>6
    <3>2. y + (z + v) = (y + z) + v
      BY <3>1, <2>1, <2>3
    <3> QED BY <3>2, <2>4
  <2> QED BY <2>5
<1>10. 2 * q + b \in Int
  BY <1>4, <1>6
<1>11. u = v
  <2> PICK d \in Int : d = 2 * q + b
    BY <1>10
  <2>1. M * a + u = M * d + v
    BY <1>9
  <2> QED BY <2>1, <1>6, SameRest
<1> QED BY <1>1, <1>2, <1>11

(* A table without one of its entries is sound.                            *)
LEMMA DeletedSound ==
    ASSUME NEW t, TableSound(t), NEW k \in KeysOf(t)
    PROVE  /\ TableSound(Deleted(t, k))
           /\ Entries(Deleted(t, k)) = Entries(t) \ {EntryOf(t, k)}
           /\ Deleted(t, k).max = t.max /\ Deleted(t, k).count = t.count - 1
           /\ Ids(Deleted(t, k)) = Ids(t)
<1> PICK s : s = Deleted(t, k)
  OBVIOUS
<1> PICK b : b = Bucket(t, k)
  OBVIOUS
<1> PICK x : x = EntryOf(t, k)
  OBVIOUS
<1> PICK a, d : a = t.array /\ d = a[b]
  OBVIOUS
<1> DEFINE E == Entries(t)
<1>1. /\ s = [array |-> s.array, free |-> s.free, count |-> s.count, max |-> s.max]
      /\ s.free = Prefixed(x.id, t.free) /\ s.count = t.count - 1 /\ s.max = t.max
      /\ \E j \in 1 .. Len(d) : d[j] = x /\ s.array = [a EXCEPT ![b] = WithoutPlace(d, j)]
  BY DeletedIs
<1>2. PICK j \in 1 .. Len(d) : d[j] = x /\ s.array = [a EXCEPT ![b] = WithoutPlace(d, j)]
  BY <1>1
<1> PICK c : c = WithoutPlace(d, j)
  OBVIOUS
<1>3. /\ t.max \in Nat /\ b \in 0 .. t.max /\ t.count \in Nat
      /\ E = AllOf(t.max, a) /\ E \subseteq HashEntry /\ OnceEach(E)
      /\ t.count = Cardinality(E) /\ x \in E /\ x.key = k /\ x \in Elements(d)
  BY SoundParts, EntryFound
<1>4. ArraySound(t.max, a) /\ FreeSound(E, t.free)
  BY <1>3 DEF TableSound
<1>5. /\ d \in Seq(HashEntry) /\ NoneTwice(d) /\ \A e \in Elements(d) : Hash[e.key] % (t.max + 1) = b
  BY <1>3, <1>4 DEF ArraySound
<1>6. c \in Seq(HashEntry) /\ NoneTwice(c) /\ Elements(c) = Elements(d) \ {x}
  BY <1>2, <1>5, TakeOut
<1>7. ChainFits(t.max, b, c)
  BY <1>3, <1>5, <1>6 DEF ChainFits
<1>8. ArraySound(s.max, s.array) /\ AllOf(s.max, s.array) = E \ {x}
  <2> PICK new : new = s.array
    OBVIOUS
  <2>1. new = [a EXCEPT ![b] = c]
    BY <1>2
  <2>2. ArraySound(t.max, new) /\ AllOf(t.max, new) = (AllOf(t.max, a) \ Elements(a[b])) \cup Elements(c)
    BY <2>1, <1>4, <1>7, ChainPut
  <2>3. Elements(d) \subseteq E
    BY <1>3 DEF AllOf
  <2> QED BY <2>2, <2>3, <1>1, <1>3, <1>6
<1>9. OnceEach(E \ {x}) /\ E \ {x} \subseteq HashEntry
  BY <1>3 DEF OnceEach
<1>10. FreeSound(E \ {x}, s.free)
  <2> PICK f, g : f = t.free /\ g = s.free
    OBVIOUS
  <2>1. f \in Seq(Nat \ {0}) /\ NoneTwice(f) /\ x.id \in Nat \ {0} /\ x.id \notin Elements(f)
    BY <1>3, <1>4 DEF FreeSound, HashEntry
  <2>2. g \in Seq(Nat \ {0}) /\ NoneTwice(g) /\ Elements(g) = Elements(f) \cup {x.id}
    <3> PICK i : i = x.id
      OBVIOUS
    <3> QED BY <2>1, <1>1, PutBefore
  <2>3. \A e \in E \ {x} : e.id # x.id /\ e.id \notin Elements(f)
    BY <1>3, <1>4 DEF OnceEach, FreeSound
  <2> QED BY <2>2, <2>3 DEF FreeSound
<1>11. Cardinality(E \ {x}) = s.count
  <2>1. IsFiniteSet(E)
    BY <1>3, EntriesCounted
  <2> HIDE DEF E
  <2>2. Cardinality(E \ {x}) = Cardinality(E) - 1
    BY <2>1, <1>3, FS_RemoveElement
  <2> QED BY <2>2, <1>1, <1>3
<1>12. TableSound(s)
  BY <1>1, <1>8, <1>9, <1>10, <1>11 DEF TableSound
<1>13. Entries(s) = E \ {x}
  BY <1>8, EntriesAre
<1>14. Ids(s) = Ids(t)
  <2>1. Ids(t) = {e.id : e \in E} \cup Elements(t.free)
    BY SoundParts
  <2>2. Ids(s) = {e.id : e \in E \ {x}} \cup Elements(s.free)
    BY <1>12, <1>13, SoundParts
  <2>3. Elements(s.free) = Elements(t.free) \cup {x.id}
    <3> PICK f, g, i : f = t.free /\ g = s.free /\ i = x.id
      OBVIOUS
    <3>1. f \in Seq(Nat \ {0}) /\ NoneTwice(f) /\ i \in Nat \ {0} /\ i \notin Elements(f)
      BY <1>3, <1>4 DEF FreeSound, HashEntry
    <3>2. Elements(g) = Elements(f) \cup {i}
      BY <3>1, <1>1, PutBefore
    <3> QED BY <3>2
  <2> HIDE DEF E
  <2> QED BY <2>1, <2>2, <2>3, <1>3
<1> QED BY <1>1, <1>12, <1>13, <1>14

(* What goes to chain i of an array, in front of one another.              *)
LEMMA Rehashed ==
    ASSUME NEW list \in Seq(HashEntry), NoneTwice(list), NEW i, NEW max,
           NEW c, c = Reverse(InChain(list, i, max))
    PROVE  /\ c \in Seq(HashEntry) /\ NoneTwice(c)
           /\ Elements(c) = {e \in Elements(list) : Hash[e.key] % (max + 1) = i}
<1> PICK P : P = {e \in ToSet(list) : Hash[e.key] % (max + 1) = i}
  OBVIOUS
<1> PICK d : d = SiftOf(list, P)
  OBVIOUS
<1>1. InChain(list, i, max) = d
  <2>1. InChain(list, i, max) = Sifted(list, P)
    BY DEF InChain
  <2>2. Sifted(list, P) = SiftOf(list, P)
    BY Zenon DEF Sifted, SiftOf
  <2> QED BY <2>1, <2>2
<1>2. d \in Seq(HashEntry) /\ NoneTwice(d) /\ Elements(d) = Elements(list) \cap P
  BY SiftApart
<1>3. c \in Seq(HashEntry) /\ NoneTwice(c) /\ Elements(c) = Elements(d)
  BY <1>1, <1>2, ReverseApart
<1>4. ToSet(list) = Elements(list)
  BY ElementsAre
<1> QED BY <1>2, <1>3, <1>4

(* The same entries in another array.                                      *)
SameTable(t, s) ==
    /\ s = [array |-> s.array, free |-> s.free, count |-> s.count, max |-> s.max]
    /\ ArraySound(s.max, s.array)
    /\ AllOf(s.max, s.array) = Entries(t)
    /\ s.free = t.free /\ s.count = t.count

(* A table that has the entries of a sound one in other chains is sound.   *)
LEMMA SameSound ==
    ASSUME NEW t, TableSound(t), NEW s, SameTable(t, s)
    PROVE  TableSound(s) /\ Entries(s) = Entries(t) /\ Ids(s) = Ids(t)
<1>1. Entries(t) = AllOf(t.max, t.array)
  BY SoundParts
<1>2. TableSound(s)
  BY <1>1 DEF SameTable, TableSound
<1>3. Entries(s) = Entries(t)
  BY EntriesAre DEF SameTable
<1>4. Ids(s) = Ids(t)
  <2>1. Ids(t) = {e.id : e \in Entries(t)} \cup Elements(t.free)
    BY SoundParts
  <2>2. Ids(s) = {e.id : e \in Entries(s)} \cup Elements(s.free)
    BY <1>2, SoundParts
  <2> QED BY <2>1, <2>2, <1>3 DEF SameTable
<1> QED BY <1>2, <1>3, <1>4

(* What Expanded makes of a table.                                         *)
LEMMA ExpandedIs ==
    ASSUME NEW t, TableSound(t), NEW s, s = Expanded(t)
    PROVE  /\ s = [array |-> s.array, free |-> s.free, count |-> s.count, max |-> s.max]
           /\ s.free = t.free /\ s.count = t.count /\ s.max = 2 * t.max + 1
           /\ s.array = [i \in 0 .. 2 * t.max + 1 |->
                            Reverse(InChain(t.array[i % (t.max + 1)], i, 2 * t.max + 1))]
<1>1. t = [array |-> t.array, free |-> t.free, count |-> t.count, max |-> t.max]
  BY DEF TableSound
<1> PICK r, new : r = 2 * t.max + 1
                  /\ new = [i \in 0 .. 2 * t.max + 1 |->
                               Reverse(InChain(t.array[i % (t.max + 1)], i, 2 * t.max + 1))]
  OBVIOUS
<1>2. s = [t EXCEPT !.max = r, !.array = new]
  BY DEF Expanded, Indexes
<1> PICK a, f, n, m : a = t.array /\ f = t.free /\ n = t.count /\ m = t.max
  OBVIOUS
<1>3. t = [array |-> a, free |-> f, count |-> n, max |-> m]
  BY <1>1
<1>4. s = [array |-> new, free |-> f, count |-> n, max |-> r]
  BY <1>2, <1>3
<1> QED BY <1>4

(* A table that grows is sound and has the same entries: an entry of the   *)
(* new chain i was in the old one of the same rest.                        *)
LEMMA ExpandedSound ==
    ASSUME NEW t, TableSound(t)
    PROVE  /\ TableSound(Expanded(t)) /\ Entries(Expanded(t)) = Entries(t)
           /\ Ids(Expanded(t)) = Ids(t)
           /\ Expanded(t).max = 2 * t.max + 1 /\ Expanded(t).count = t.count
<1> PICK s : s = Expanded(t)
  OBVIOUS
<1> PICK a, M, top : a = t.array /\ M = t.max + 1 /\ top = 2 * t.max + 1
  OBVIOUS
<1>1. /\ s = [array |-> s.array, free |-> s.free, count |-> s.count, max |-> s.max]
      /\ s.free = t.free /\ s.count = t.count /\ s.max = top
      /\ s.array = [i \in 0 .. top |-> Reverse(InChain(a[i % M], i, top))]
  BY ExpandedIs
<1>2. /\ t.max \in Nat /\ a \in [0 .. t.max -> Seq(HashEntry)]
      /\ Entries(t) = AllOf(t.max, a) /\ Entries(t) \subseteq HashEntry
  BY SoundParts
<1>3. ArraySound(t.max, a)
  BY DEF TableSound
<1>4. M \in Nat \ {0} /\ top \in Nat /\ top + 1 = 2 * M /\ t.max = M - 1
  <2> PICK m \in Nat : m = t.max
    BY <1>2
  <2>1. M = m + 1 /\ top = 2 * m + 1
    OBVIOUS
  <2> QED BY <2>1
<1>5. \A e \in HashEntry : /\ Hash[e.key] \in Nat /\ Hash[e.key] % (top + 1) \in 0 .. top
                           /\ (Hash[e.key] % (top + 1)) % M = Hash[e.key] % M
  <2> SUFFICES ASSUME NEW e \in HashEntry
               PROVE  /\ Hash[e.key] \in Nat /\ Hash[e.key] % (top + 1) \in 0 .. top
                      /\ (Hash[e.key] % (top + 1)) % M = Hash[e.key] % M
    OBVIOUS
  <2>1. Hash[e.key] \in Nat
    BY HashAssumption DEF HashEntry
  <2> PICK h \in Nat : h = Hash[e.key]
    BY <2>1
  <2>2. h % (2 * M) \in 0 .. 2 * M - 1 /\ (h % (2 * M)) % M = h % M
    BY <1>4, HalfHash
  <2>3. h % (top + 1) \in 0 .. top /\ (h % (top + 1)) % M = h % M
    BY <2>2, <1>4
  <2> QED BY <2>1, <2>3
<1>6. \A i \in 0 .. top :
         /\ i % M \in 0 .. t.max
         /\ s.array[i] \in Seq(HashEntry) /\ NoneTwice(s.array[i])
         /\ Elements(s.array[i]) = {e \in Elements(a[i % M]) : Hash[e.key] % (top + 1) = i}
  <2> SUFFICES ASSUME NEW i \in 0 .. top
               PROVE  /\ i % M \in 0 .. t.max
                      /\ s.array[i] \in Seq(HashEntry) /\ NoneTwice(s.array[i])
                      /\ Elements(s.array[i]) = {e \in Elements(a[i % M]) : Hash[e.key] % (top + 1) = i}
    OBVIOUS
  <2>1. i % M \in 0 .. t.max
    BY <1>4
  <2> PICK d, c : d = a[i % M] /\ c = s.array[i]
    OBVIOUS
  <2>2. d \in Seq(HashEntry) /\ NoneTwice(d) /\ c = Reverse(InChain(d, i, top))
    BY <2>1, <1>1, <1>2, <1>3 DEF ArraySound
  <2>3. c \in Seq(HashEntry) /\ NoneTwice(c) /\ Elements(c) = {e \in Elements(d) : Hash[e.key] % (top + 1) = i}
    BY <2>2, Rehashed
  <2> QED BY <2>1, <2>3
<1>7. ArraySound(top, s.array)
  <2>1. s.array = [i \in 0 .. top |-> s.array[i]]
    BY <1>1
  <2>2. s.array \in [0 .. top -> Seq(HashEntry)]
    BY <2>1, <1>6
  <2> QED BY <2>2, <1>4, <1>6 DEF ArraySound
<1>8. AllOf(top, s.array) \subseteq AllOf(t.max, a)
  <2> SUFFICES ASSUME NEW i \in 0 .. top, NEW e \in Elements(s.array[i])
               PROVE  e \in AllOf(t.max, a)
    BY DEF AllOf
  <2>1. i % M \in 0 .. t.max /\ e \in Elements(a[i % M])
    BY <1>6
  <2> QED BY <2>1 DEF AllOf
<1>9. AllOf(t.max, a) \subseteq AllOf(top, s.array)
  <2> SUFFICES ASSUME NEW j \in 0 .. t.max, NEW e \in Elements(a[j])
               PROVE  e \in AllOf(top, s.array)
    BY DEF AllOf
  <2>1. e \in HashEntry /\ Hash[e.key] % M = j
    BY <1>2, <1>3, <1>4 DEF AllOf, ArraySound
  <2> PICK i : i = Hash[e.key] % (top + 1)
    OBVIOUS
  <2>2. i \in 0 .. top /\ i % M = j
    BY <2>1, <1>5
  <2>3. e \in Elements(s.array[i])
    BY <2>2, <1>6
  <2> QED BY <2>2, <2>3 DEF AllOf
<1>10. SameTable(t, s)
  <2>1. ArraySound(s.max, s.array) /\ AllOf(s.max, s.array) = AllOf(t.max, a)
    BY <1>1, <1>7, <1>8, <1>9
  <2> QED BY <2>1, <1>1, <1>2 DEF SameTable
<1> QED BY <1>1, <1>10, SameSound

(* The addresses of the entries of a list, in their order.                 *)
LEMMA IdsInOrder ==
    ASSUME NEW E \in SUBSET HashEntry, OnceEach(E), NEW w \in Seq(HashEntry), NoneTwice(w),
           Elements(w) = E, NEW u, u = SeqOfIds(w)
    PROVE  u \in Seq(Nat \ {0}) /\ NoneTwice(u) /\ Elements(u) = {e.id : e \in E}
<1> PICK n \in Nat : n = Len(w)
  OBVIOUS
<1>1. DOMAIN w = 1 .. n /\ \A j \in 1 .. n : w[j] \in E /\ w[j].id \in Nat \ {0}
  BY DEF Elements, HashEntry
<1>2. u = [j \in 1 .. n |-> w[j].id]
  BY <1>1 DEF SeqOfIds
<1>3. u \in Seq(Nat \ {0}) /\ Len(u) = n
  BY <1>1, <1>2, SeqDef
<1>4. \A i, j \in 1 .. n : u[i] = u[j] => i = j
  <2> SUFFICES ASSUME NEW i \in 1 .. n, NEW j \in 1 .. n, u[i] = u[j] PROVE i = j
    OBVIOUS
  <2>1. w[i] = w[j]
    BY <1>1, <1>2 DEF OnceEach
  <2> QED BY <2>1 DEF NoneTwice
<1>5. NoneTwice(u)
  <2>1. \A i, j \in 1 .. Len(u) : u[i] = u[j] => i = j
    <3> SUFFICES ASSUME NEW i \in 1 .. Len(u), NEW j \in 1 .. Len(u), u[i] = u[j] PROVE i = j
      OBVIOUS
    <3>1. i \in 1 .. n /\ j \in 1 .. n
      BY <1>3
    <3> QED BY <3>1, <1>4
  <2> QED BY <2>1, Zenon DEF NoneTwice
<1>6. Elements(u) = {e.id : e \in Elements(w)}
  BY <1>2, <1>3 DEF Elements
<1> QED BY <1>3, <1>5, <1>6

(* What Cleared makes of a table.                                          *)
LEMMA ClearedIs ==
    ASSUME NEW t, TableSound(t), NEW s, s = Cleared(t)
    PROVE  s = [array |-> [i \in 0 .. t.max |-> << >>],
                free |-> Reverse(SeqOfIds(Walk(t))) \o t.free, count |-> 0, max |-> t.max]
<1>1. t = [array |-> t.array, free |-> t.free, count |-> t.count, max |-> t.max]
  BY DEF TableSound
<1> PICK new, r : new = [i \in 0 .. t.max |-> << >>] /\ r = Reverse(SeqOfIds(Walk(t)))
  OBVIOUS
<1>2. s = [t EXCEPT !.array = new, !.free = r \o @, !.count = 0]
  BY DEF Cleared, Indexes
<1> PICK a, f, n, m : a = t.array /\ f = t.free /\ n = t.count /\ m = t.max
  OBVIOUS
<1>3. t = [array |-> a, free |-> f, count |-> n, max |-> m]
  BY <1>1
<1>4. s = [array |-> new, free |-> r \o f, count |-> 0, max |-> m]
  BY <1>2, <1>3
<1> QED BY <1>4

(* A table without entries is sound.                                       *)
LEMMA NoneSound ==
    ASSUME NEW max \in Nat, NEW array, array = [i \in 0 .. max |-> << >>]
    PROVE  ArraySound(max, array) /\ AllOf(max, array) = {} /\ OnceEach({}) /\ Cardinality({}) = 0
<1>1. array \in [0 .. max -> Seq(HashEntry)]
  OBVIOUS
<1>2. \A i \in 0 .. max : Elements(array[i]) = {} /\ NoneTwice(array[i])
  BY DEF Elements, NoneTwice
<1>3. ArraySound(max, array) /\ AllOf(max, array) = {}
  BY <1>1, <1>2 DEF ArraySound, AllOf
<1>4. OnceEach({})
  BY DEF OnceEach
<1> QED BY <1>3, <1>4, FS_EmptySet

(* scl_hash_clear leaves no entry, and recycles all of them.               *)
LEMMA ClearedSound ==
    ASSUME NEW t, TableSound(t)
    PROVE  /\ TableSound(Cleared(t)) /\ Entries(Cleared(t)) = {}
           /\ Cleared(t).max = t.max /\ Cleared(t).count = 0
           /\ Ids(Cleared(t)) = Ids(t)
<1> PICK s : s = Cleared(t)
  OBVIOUS
<1> PICK w : w = Walk(t)
  OBVIOUS
<1> PICK u : u = SeqOfIds(w)
  OBVIOUS
<1> PICK r : r = Reverse(u)
  OBVIOUS
<1> PICK E : E = Entries(t)
  OBVIOUS
<1> PICK f, g : f = t.free /\ g = s.free
  OBVIOUS
<1>1. s = [array |-> [i \in 0 .. t.max |-> << >>], free |-> r \o f, count |-> 0, max |-> t.max]
  BY ClearedIs
<1>2. t.max \in Nat /\ E = AllOf(t.max, t.array) /\ E \subseteq HashEntry /\ OnceEach(E)
  BY SoundParts
<1>3. ArraySound(t.max, t.array) /\ FreeSound(E, f)
  BY <1>2 DEF TableSound
<1>4. w \in Seq(HashEntry) /\ NoneTwice(w) /\ Elements(w) = E
  BY <1>2, <1>3, WalkMeetsAll
<1>5. u \in Seq(Nat \ {0}) /\ NoneTwice(u) /\ Elements(u) = {e.id : e \in E}
  BY <1>2, <1>4, IdsInOrder
<1>6. r \in Seq(Nat \ {0}) /\ NoneTwice(r) /\ Elements(r) = {e.id : e \in E}
  BY <1>5, ReverseApart
<1>7. g \in Seq(Nat \ {0}) /\ NoneTwice(g) /\ Elements(g) = {e.id : e \in E} \cup Elements(f)
  <2>1. JoinedLists(Nat \ {0}, r, f, g)
    BY <1>1, <1>3, <1>6 DEF JoinedLists, FreeSound
  <2>2. NoneTwice(f) /\ Elements(r) \cap Elements(f) = {}
    BY <1>3, <1>6 DEF FreeSound
  <2> QED BY <2>1, <2>2, <1>6, ConcatApart
<1>8. /\ s.max = t.max /\ s.count = 0 /\ s.array = [i \in 0 .. t.max |-> << >>]
      /\ s = [array |-> s.array, free |-> s.free, count |-> s.count, max |-> s.max]
  BY <1>1
<1>9. ArraySound(s.max, s.array) /\ AllOf(s.max, s.array) = {} /\ OnceEach({}) /\ Cardinality({}) = 0
  BY <1>2, <1>8, NoneSound
<1>10. FreeSound({}, g)
  BY <1>7 DEF FreeSound
<1>11. TableSound(s)
  BY <1>8, <1>9, <1>10 DEF TableSound
<1>12. Entries(s) = {}
  BY <1>9, EntriesAre
<1>13. Ids(s) = Ids(t)
  <2>1. Ids(t) = {e.id : e \in E} \cup Elements(f)
    BY SoundParts
  <2>2. Ids(s) = {e.id : e \in {}} \cup Elements(g)
    BY <1>11, <1>12, SoundParts
  <2> QED BY <2>1, <2>2, <1>7
<1> QED BY <1>8, <1>11, <1>12, <1>13

(* A table whose entries may share addresses: before they are numbered.    *)
KeysOnce(E) == \A e, f \in E : e.key = f.key => e = f

TableLoose(t) ==
    /\ t = [array |-> t.array, free |-> t.free, count |-> t.count, max |-> t.max]
    /\ ArraySound(t.max, t.array)
    /\ KeysOnce(AllOf(t.max, t.array))
    /\ t.free = << >>
    /\ t.count = Cardinality(AllOf(t.max, t.array))

(* Sets of entries with the same keys are of the same size.                *)
LEMMA KeysCounted ==
    ASSUME NEW E \in SUBSET HashEntry, KeysOnce(E)
    PROVE  IsFiniteSet(E) /\ Cardinality({e.key : e \in E}) = Cardinality(E)
<1> DEFINE K == {e.key : e \in E}
           f == [e \in E |-> e.key]
<1>1. f \in Injection(E, Keys)
  BY DEF Injection, IsInjective, HashEntry, KeysOnce
<1>2. IsFiniteSet(Keys)
  BY HashAssumption
<1>3. IsFiniteSet(E)
  BY <1>1, <1>2, FS_Injection
<1>4. f \in Bijection(E, K)
  BY DEF Injection, IsInjective, Surjection, Bijection, HashEntry, KeysOnce
<1>5. ExistsBijection(E, K)
  BY <1>4 DEF ExistsBijection
<1> HIDE DEF K
<1>6. Cardinality(K) = Cardinality(E)
  BY <1>3, <1>5, FS_Bijection
<1> QED BY <1>3, <1>6 DEF K

WithId(e, i) == [e EXCEPT !.id = i]

(* A new address leaves the key and the value of an entry.                 *)
LEMMA WithIdKeeps ==
    ASSUME NEW e \in HashEntry, NEW i \in Nat \ {0}
    PROVE  /\ WithId(e, i) \in HashEntry /\ WithId(e, i).id = i
           /\ WithId(e, i).key = e.key /\ WithId(e, i).val = e.val
BY DEF WithId, HashEntry

(* A list whose entries change, and keep their keys.                       *)
Changes(d, g, c) ==
    /\ g \in [Elements(d) -> HashEntry] /\ \A e \in Elements(d) : g[e].key = e.key
    /\ c = [j \in DOMAIN d |-> g[d[j]]]

(* A list whose elements change, but not their keys, has no repetitions    *)
(* still.                                                                  *)
LEMMA ListChanged ==
    ASSUME NEW d \in Seq(HashEntry), NoneTwice(d), KeysOnce(Elements(d)),
           NEW g, NEW c, Changes(d, g, c)
    PROVE  /\ c \in Seq(HashEntry) /\ NoneTwice(c) /\ Len(c) = Len(d)
           /\ Elements(c) = {g[e] : e \in Elements(d)}
<1> PICK n \in Nat : n = Len(d)
  OBVIOUS
<1>1. DOMAIN d = 1 .. n /\ \A j \in 1 .. n : d[j] \in Elements(d)
  BY DEF Elements
<1>2. c = [j \in 1 .. n |-> g[d[j]]]
  BY <1>1 DEF Changes
<1>3. \A j \in 1 .. n : g[d[j]] \in HashEntry /\ g[d[j]].key = d[j].key
  BY <1>1 DEF Changes
<1>4. c \in Seq(HashEntry) /\ Len(c) = n
  BY <1>2, <1>3, SeqDef
<1>5. \A i, j \in 1 .. n : c[i] = c[j] => i = j
  <2> SUFFICES ASSUME NEW i \in 1 .. n, NEW j \in 1 .. n, c[i] = c[j] PROVE i = j
    OBVIOUS
  <2>1. c[i].key = d[i].key /\ c[j].key = d[j].key
    BY <1>2, <1>3
  <2>2. d[i] = d[j]
    BY <2>1, <1>1 DEF KeysOnce
  <2> QED BY <2>2 DEF NoneTwice
<1>6. NoneTwice(c)
  <2>1. \A i, j \in 1 .. Len(c) : c[i] = c[j] => i = j
    <3> SUFFICES ASSUME NEW i \in 1 .. Len(c), NEW j \in 1 .. Len(c), c[i] = c[j] PROVE i = j
      OBVIOUS
    <3>1. i \in 1 .. n /\ j \in 1 .. n
      BY <1>4
    <3> QED BY <3>1, <1>5
  <2> QED BY <2>1, Zenon DEF NoneTwice
<1>7. Elements(c) = {g[e] : e \in Elements(d)}
  BY <1>1, <1>2, <1>4 DEF Elements
<1> QED BY <1>4, <1>6, <1>7

\* the same entries at other addresses
Readdressed(E, F) ==
    \E p : /\ \A e \in E : p[e] \in Nat \ {0}
          /\ F = {WithId(e, p[e]) : e \in E}

(* What Renumbered makes of a table.                                       *)
PlacesIn(w) == [e \in ToSet(w) |-> CHOOSE j \in DOMAIN w : w[j] = e]

Numbered(array, max, p) ==
    [i \in 0 .. max |-> [j \in DOMAIN array[i] |-> WithId(array[i][j], p[array[i][j]])]]

(* What the new array of entries leaves in each member of a table.         *)
LEMMA RenumberedIs ==
    ASSUME NEW t, TableLoose(t), NEW s, s = Renumbered(t)
    PROVE  s = [array |-> Numbered(t.array, t.max, PlacesIn(Walk(t))), free |-> << >>,
                count |-> t.count, max |-> t.max]
<1>1. t = [array |-> t.array, free |-> << >>, count |-> t.count, max |-> t.max]
  BY DEF TableLoose
<1> PICK p : p = PlacesIn(Walk(t))
  OBVIOUS
<1>2. s = [t EXCEPT !.array = [i \in 0 .. t.max |->
              [j \in DOMAIN @[i] |-> [@[i][j] EXCEPT !.id = p[t.array[i][j]]]]]]
  BY DEF Renumbered, Indexes, PlacesIn
<1> PICK new : new = Numbered(t.array, t.max, p)
  OBVIOUS
<1> PICK a, n, m : a = t.array /\ n = t.count /\ m = t.max
  OBVIOUS
<1>3. t = [array |-> a, free |-> << >>, count |-> n, max |-> m]
  BY <1>1
<1>4. new = [i \in 0 .. m |-> [j \in DOMAIN a[i] |-> [a[i][j] EXCEPT !.id = p[a[i][j]]]]]
  BY DEF Numbered, WithId
<1>5. s = [t EXCEPT !.array = new]
  BY <1>2, <1>3, <1>4
<1>6. s = [array |-> new, free |-> << >>, count |-> n, max |-> m]
  BY <1>3, <1>5
<1> QED BY <1>6

(* A table numbered anew is sound: each entry gets its place on the walk.  *)
LEMMA RenumberedSound ==
    ASSUME NEW t, TableLoose(t)
    PROVE  /\ TableSound(Renumbered(t))
           /\ Renumbered(t).max = t.max /\ Renumbered(t).count = t.count
           /\ Readdressed(AllOf(t.max, t.array), Entries(Renumbered(t)))
<1> PICK s : s = Renumbered(t)
  OBVIOUS
<1> PICK w : w = Walk(t)
  OBVIOUS
<1> PICK p : p = PlacesIn(w)
  OBVIOUS
<1> PICK a, max : a = t.array /\ max = t.max
  OBVIOUS
<1> PICK E : E = AllOf(max, a)
  OBVIOUS
<1> PICK new : new = Numbered(a, max, p)
  OBVIOUS
<1> PICK F : F = {WithId(e, p[e]) : e \in E}
  OBVIOUS
<1>1. s = [array |-> new, free |-> << >>, count |-> t.count, max |-> max]
  BY RenumberedIs
<1>2. ArraySound(max, a) /\ KeysOnce(E) /\ E \subseteq HashEntry /\ t.count = Cardinality(E)
  BY EntriesAre DEF TableLoose
<1>3. w \in Seq(HashEntry) /\ NoneTwice(w) /\ Elements(w) = E
  BY <1>2, WalkMeetsAll
<1>4. \A e \in E : p[e] \in Nat \ {0} /\ p[e] \in 1 .. Len(w) /\ w[p[e]] = e
  <2>1. p = [e \in E |-> CHOOSE j \in DOMAIN w : w[j] = e] /\ DOMAIN w = 1 .. Len(w)
    <3>1. ToSet(w) = E
      BY <1>3, ElementsAre
    <3> QED BY <3>1, <1>3 DEF PlacesIn
  <2>2. \A e \in E : \E j \in DOMAIN w : w[j] = e
    BY <2>1, <1>3 DEF Elements
  <2> QED BY <2>1, <2>2, <1>3
<1>5. \A e \in E : /\ e \in HashEntry /\ WithId(e, p[e]) \in HashEntry /\ WithId(e, p[e]).id = p[e]
                   /\ WithId(e, p[e]).key = e.key
  <2> SUFFICES ASSUME NEW e \in E
               PROVE  /\ e \in HashEntry /\ WithId(e, p[e]) \in HashEntry
                      /\ WithId(e, p[e]).id = p[e] /\ WithId(e, p[e]).key = e.key
    OBVIOUS
  <2> PICK i : i = p[e]
    OBVIOUS
  <2>1. e \in HashEntry /\ i \in Nat \ {0}
    BY <1>2, <1>4
  <2> QED BY <2>1, WithIdKeeps
<1>6. \A i \in 0 .. max : /\ new[i] \in Seq(HashEntry) /\ NoneTwice(new[i])
                          /\ Elements(new[i]) = {WithId(e, p[e]) : e \in Elements(a[i])}
  <2> SUFFICES ASSUME NEW i \in 0 .. max
               PROVE  /\ new[i] \in Seq(HashEntry) /\ NoneTwice(new[i])
                      /\ Elements(new[i]) = {WithId(e, p[e]) : e \in Elements(a[i])}
    OBVIOUS
  <2> PICK d, c : d = a[i] /\ c = new[i]
    OBVIOUS
  <2>1. d \in Seq(HashEntry) /\ NoneTwice(d)
    BY <1>2 DEF ArraySound
  <2>2. Elements(d) \subseteq E
    BY DEF AllOf
  <2>3. c = [j \in DOMAIN d |-> WithId(d[j], p[d[j]])]
    BY DEF Numbered
  <2>4. KeysOnce(Elements(d))
    BY <2>2, <1>2 DEF KeysOnce
  <2> PICK g : g = [e \in Elements(d) |-> WithId(e, p[e])]
    OBVIOUS
  <2>5. g \in [Elements(d) -> HashEntry] /\ \A e \in Elements(d) : g[e].key = e.key
    BY <2>2, <1>5
  <2>6. c = [j \in DOMAIN d |-> g[d[j]]]
    <3>1. \A j \in DOMAIN d : d[j] \in Elements(d)
      BY <2>1 DEF Elements
    <3> QED BY <3>1, <2>3
  <2>7. Changes(d, g, c)
    BY <2>5, <2>6 DEF Changes
  <2>8. c \in Seq(HashEntry) /\ NoneTwice(c) /\ Elements(c) = {g[e] : e \in Elements(d)}
    BY <2>1, <2>4, <2>7, ListChanged
  <2> QED BY <2>8
<1>7. ArraySound(max, new)
  <2>1. new = [i \in 0 .. max |-> new[i]]
    BY DEF Numbered
  <2>2. new \in [0 .. max -> Seq(HashEntry)]
    BY <2>1, <1>6
  <2>3. \A i \in 0 .. max : \A e \in Elements(new[i]) : Hash[e.key] % (max + 1) = i
    <3> SUFFICES ASSUME NEW i \in 0 .. max, NEW x \in Elements(new[i])
                 PROVE  Hash[x.key] % (max + 1) = i
      OBVIOUS
    <3>0. PICK e \in Elements(a[i]) : x = WithId(e, p[e])
      <4>1. Elements(new[i]) = {WithId(e, p[e]) : e \in Elements(a[i])}
        BY <1>6
      <4>2. x \in {WithId(e, p[e]) : e \in Elements(a[i])}
        BY <4>1
      <4> QED BY <4>2
    <3>1. e \in E
      BY DEF AllOf
    <3>2. x.key = e.key
      BY <3>0, <3>1, <1>5
    <3> QED BY <3>2, <1>2 DEF ArraySound
  <2> QED BY <2>2, <2>3, <1>2, <1>6 DEF ArraySound
<1>8. AllOf(max, new) = F
  <2>1. AllOf(max, new) \subseteq F
    <3> SUFFICES ASSUME NEW i \in 0 .. max, NEW x \in Elements(new[i]) PROVE x \in F
      BY DEF AllOf
    <3>1. PICK e \in Elements(a[i]) : x = WithId(e, p[e])
      <4>1. Elements(new[i]) = {WithId(e, p[e]) : e \in Elements(a[i])}
        BY <1>6
      <4>2. x \in {WithId(e, p[e]) : e \in Elements(a[i])}
        BY <4>1
      <4> QED BY <4>2
    <3> QED BY <3>1 DEF AllOf
  <2>2. F \subseteq AllOf(max, new)
    <3> SUFFICES ASSUME NEW i \in 0 .. max, NEW e \in Elements(a[i])
                 PROVE  WithId(e, p[e]) \in AllOf(max, new)
      BY DEF AllOf
    <3>1. WithId(e, p[e]) \in Elements(new[i])
      BY <1>6
    <3> QED BY <3>1 DEF AllOf
  <2> QED BY <2>1, <2>2
<1>9. F \subseteq HashEntry /\ OnceEach(F) /\ KeysOnce(F)
  <2>1. F \subseteq HashEntry
    BY <1>5
  <2>2. ASSUME NEW e \in E, NEW f \in E, NEW x, NEW y, x = WithId(e, p[e]), y = WithId(f, p[f]),
               x.key = y.key \/ x.id = y.id
        PROVE  x = y
    <3>1. x.key = e.key /\ y.key = f.key /\ x.id = p[e] /\ y.id = p[f]
      BY <2>2, <1>5
    <3>2. e = f
      BY <3>1, <2>2, <1>2, <1>4 DEF KeysOnce
    <3> QED BY <3>2, <2>2
  <2> QED BY <2>1, <2>2 DEF OnceEach, KeysOnce
<1>10. Cardinality(F) = t.count
  <2>1. {e.key : e \in F} = {e.key : e \in E}
    BY <1>5
  <2> QED BY <2>1, <1>2, <1>9, KeysCounted
<1>11. FreeSound(F, << >>)
  <2>1. << >> \in Seq(Nat \ {0}) /\ Elements(<< >>) = {} /\ NoneTwice(<< >>)
    BY DEF Elements, NoneTwice
  <2> QED BY <2>1 DEF FreeSound
<1>12. /\ s.array = new /\ s.free = << >> /\ s.count = t.count /\ s.max = max
       /\ s = [array |-> s.array, free |-> s.free, count |-> s.count, max |-> s.max]
  BY <1>1
<1>13. TableSound(s)
  BY <1>7, <1>8, <1>9, <1>10, <1>11, <1>12 DEF TableSound
<1>14. Entries(s) = F
  BY <1>7, <1>8, <1>12, EntriesAre
<1>15. Readdressed(E, F)
  BY <1>4 DEF Readdressed
<1> QED BY <1>12, <1>13, <1>14, <1>15

TableFit(t) == TableSound(t) /\ t.count <= t.max

(* scl_hash_copy makes a sound table with the same pairs.                  *)
LEMMA CopiedSound ==
    ASSUME NEW t, TableSound(t)
    PROVE  /\ TableSound(Copied(t)) /\ Copied(t).max = t.max /\ Copied(t).count = t.count
           /\ Readdressed(Entries(t), Entries(Copied(t)))
<1> PICK s : s = [t EXCEPT !.free = << >>]
  OBVIOUS
<1>1. t = [array |-> t.array, free |-> t.free, count |-> t.count, max |-> t.max]
  BY DEF TableSound
<1>2. s = [array |-> t.array, free |-> << >>, count |-> t.count, max |-> t.max]
  BY <1>1
<1>3. /\ s.array = t.array /\ s.free = << >> /\ s.count = t.count /\ s.max = t.max
      /\ s = [array |-> s.array, free |-> s.free, count |-> s.count, max |-> s.max]
  BY <1>2
<1>4. KeysOnce(AllOf(t.max, t.array)) /\ ArraySound(t.max, t.array) /\ t.count = Cardinality(AllOf(t.max, t.array))
  BY DEF TableSound, OnceEach, KeysOnce
<1>5. TableLoose(s)
  BY <1>3, <1>4 DEF TableLoose
<1>6. Entries(t) = AllOf(s.max, s.array)
  BY <1>3, SoundParts
<1>7. Copied(t) = Renumbered(s)
  BY DEF Copied
<1>8. /\ TableSound(Renumbered(s)) /\ Renumbered(s).max = s.max /\ Renumbered(s).count = s.count
      /\ Readdressed(Entries(t), Entries(Renumbered(s)))
  BY <1>5, <1>6, RenumberedSound
<1> QED BY <1>3, <1>7, <1>8

(* The value of a common key, after a merge.                               *)
Mixed(e, overlay, m) ==
    IF e.key \notin KeysOf(overlay) THEN e
    ELSE [e EXCEPT !.val = IF m = NULL THEN EntryOf(overlay, e.key).val ELSE m]

(* A merger changes the value of an entry and nothing else.                *)
LEMMA MixedKeeps ==
    ASSUME NEW e \in HashEntry, NEW o, TableSound(o), NEW m \in Vals \cup {NULL}
    PROVE  Mixed(e, o, m) \in HashEntry /\ Mixed(e, o, m).key = e.key
<1>1. CASE e.key \notin KeysOf(o)
  BY <1>1 DEF Mixed
<1>2. CASE e.key \in KeysOf(o)
  <2>1. EntryOf(o, e.key) \in HashEntry
    BY <1>2, EntryFound, SoundParts
  <2>2. EntryOf(o, e.key).val \in Vals
    BY <2>1 DEF HashEntry
  <2> PICK v : v = IF m = NULL THEN EntryOf(o, e.key).val ELSE m
    OBVIOUS
  <2>3. v \in Vals
    BY <2>2
  <2>4. Mixed(e, o, m) = [e EXCEPT !.val = v]
    BY <1>2 DEF Mixed
  <2> QED BY <2>3, <2>4 DEF HashEntry
<1> QED BY <1>1, <1>2

(* A table of these entries, before they are numbered.                     *)
RawMerge(all, max, n) ==
    [array |-> [i \in 0 .. max |-> Reverse(InChain(all, i, max))],
     free |-> << >>, max |-> max, count |-> n]

(* A list of entries, each in the chain of its hash, is a table but for    *)
(* addresses.                                                              *)
LEMMA RawLoose ==
    ASSUME NEW all \in Seq(HashEntry), NoneTwice(all), KeysOnce(Elements(all)),
           NEW max \in Nat, NEW n, n = Len(all)
    PROVE  TableLoose(RawMerge(all, max, n)) /\ AllOf(max, RawMerge(all, max, n).array) = Elements(all)
<1> PICK s : s = RawMerge(all, max, n)
  OBVIOUS
<1> PICK new : new = [i \in 0 .. max |-> Reverse(InChain(all, i, max))]
  OBVIOUS
<1> PICK A : A = Elements(all)
  OBVIOUS
<1>1. /\ s = [array |-> s.array, free |-> s.free, count |-> s.count, max |-> s.max]
      /\ s.array = new /\ s.free = << >> /\ s.count = n /\ s.max = max
  BY DEF RawMerge
<1>2. \A i \in 0 .. max : /\ new[i] \in Seq(HashEntry) /\ NoneTwice(new[i])
                          /\ Elements(new[i]) = {e \in A : Hash[e.key] % (max + 1) = i}
  <2> SUFFICES ASSUME NEW i \in 0 .. max, NEW c, c = new[i]
               PROVE  /\ c \in Seq(HashEntry) /\ NoneTwice(c)
                      /\ Elements(c) = {e \in A : Hash[e.key] % (max + 1) = i}
    OBVIOUS
  <2>1. c = Reverse(InChain(all, i, max))
    OBVIOUS
  <2> QED BY <2>1, Rehashed
<1>3. ArraySound(max, new)
  <2>1. new = [i \in 0 .. max |-> new[i]]
    OBVIOUS
  <2>2. new \in [0 .. max -> Seq(HashEntry)]
    BY <2>1, <1>2
  <2> QED BY <2>2, <1>2 DEF ArraySound
<1>4. AllOf(max, new) = A
  <2>1. AllOf(max, new) \subseteq A
    BY <1>2 DEF AllOf
  <2>2. A \subseteq AllOf(max, new)
    <3> SUFFICES ASSUME NEW e \in A PROVE e \in AllOf(max, new)
      OBVIOUS
    <3>1. e.key \in Keys
      <4>1. PICK j \in 1 .. Len(all) : e = all[j]
        BY DEF Elements
      <4>2. e \in HashEntry
        BY <4>1
      <4> QED BY <4>2 DEF HashEntry
    <3> PICK i : i = Hash[e.key] % (max + 1)
      OBVIOUS
    <3>2. i \in 0 .. max
      BY <3>1, BucketIn
    <3> QED BY <3>2, <1>2 DEF AllOf
  <2> QED BY <2>1, <2>2
<1>5. n = Cardinality(A)
  BY ElementsFinite
<1> QED BY <1>1, <1>3, <1>4, <1>5 DEF TableLoose

(* The entries of a merge: those of base with the values mixed in, and the *)
(* ones of overlay whose key base has not.                                 *)
MixedIn(base, overlay, m) == {Mixed(e, overlay, m) : e \in Entries(base)}

OnlyIn(base, overlay) == {e \in Entries(overlay) : e.key \notin KeysOf(base)}

MoreOf(base, overlay) == Sifted(Walk(overlay), OnlyIn(base, overlay))

MergedList(base, overlay, m) ==
    [j \in DOMAIN Walk(base) |-> Mixed(Walk(base)[j], overlay, m)] \o MoreOf(base, overlay)

(* The entries a merge takes from both tables have each key once.          *)
LEMMA MergedListSound ==
    ASSUME NEW base, TableSound(base), NEW overlay, TableSound(overlay), NEW m \in Vals \cup {NULL},
           NEW all, all = MergedList(base, overlay, m)
    PROVE  /\ all \in Seq(HashEntry) /\ NoneTwice(all) /\ KeysOnce(Elements(all))
           /\ Elements(all) = MixedIn(base, overlay, m) \cup OnlyIn(base, overlay)
           /\ Len(MoreOf(base, overlay)) \in Nat
           /\ Len(all) = base.count + Len(MoreOf(base, overlay))
           /\ Len(MoreOf(base, overlay)) <= overlay.count
<1> PICK old, over : old = Walk(base) /\ over = Walk(overlay)
  OBVIOUS
<1> PICK E : E = Entries(base)
  OBVIOUS
<1> PICK O : O = Entries(overlay)
  OBVIOUS
<1> PICK P : P = OnlyIn(base, overlay)
  OBVIOUS
<1> PICK M : M = MixedIn(base, overlay, m)
  OBVIOUS
<1>1. /\ E \subseteq HashEntry /\ KeysOnce(E) /\ base.count = Cardinality(E) /\ base.count \in Nat
      /\ E = AllOf(base.max, base.array) /\ ArraySound(base.max, base.array)
  <2>1. E = AllOf(base.max, base.array) /\ E \subseteq HashEntry /\ base.count \in Nat
    BY SoundParts
  <2> QED BY <2>1 DEF TableSound, OnceEach, KeysOnce
<1>2. /\ O \subseteq HashEntry /\ KeysOnce(O) /\ overlay.count = Cardinality(O) /\ overlay.count \in Nat
      /\ O = AllOf(overlay.max, overlay.array) /\ ArraySound(overlay.max, overlay.array)
  <2>1. O = AllOf(overlay.max, overlay.array) /\ O \subseteq HashEntry /\ overlay.count \in Nat
    BY SoundParts
  <2> QED BY <2>1 DEF TableSound, OnceEach, KeysOnce
<1>3. old \in Seq(HashEntry) /\ NoneTwice(old) /\ Elements(old) = E
  BY <1>1, WalkMeetsAll
<1>4. over \in Seq(HashEntry) /\ NoneTwice(over) /\ Elements(over) = O
  BY <1>2, WalkMeetsAll
<1> PICK more : more = MoreOf(base, overlay)
  OBVIOUS
<1>5. more \in Seq(HashEntry) /\ NoneTwice(more) /\ Elements(more) = P
  <2>1. Sifted(over, P) = SiftOf(over, P)
    BY Zenon DEF Sifted, SiftOf
  <2>2. more = SiftOf(over, P)
    BY <2>1 DEF MoreOf
  <2>3. more \in Seq(HashEntry) /\ NoneTwice(more) /\ Elements(more) = Elements(over) \cap P
    BY <2>2, <1>4, SiftApart
  <2> QED BY <2>3, <1>4 DEF OnlyIn
<1> PICK g : g = [e \in E |-> Mixed(e, overlay, m)]
  OBVIOUS
<1>6. g \in [E -> HashEntry] /\ \A e \in E : g[e].key = e.key
  <2>1. \A e \in E : Mixed(e, overlay, m) \in HashEntry /\ Mixed(e, overlay, m).key = e.key
    BY <1>1, MixedKeeps
  <2> QED BY <2>1
<1> PICK mixes : mixes = [j \in DOMAIN old |-> Mixed(old[j], overlay, m)]
  OBVIOUS
<1>7. mixes \in Seq(HashEntry) /\ NoneTwice(mixes) /\ Len(mixes) = Len(old) /\ Elements(mixes) = M
  <2>1. \A j \in DOMAIN old : old[j] \in E
    BY <1>3 DEF Elements
  <2>2. mixes = [j \in DOMAIN old |-> g[old[j]]]
    BY <2>1
  <2>3. Changes(old, g, mixes)
    BY <2>2, <1>3, <1>6 DEF Changes
  <2>4. /\ mixes \in Seq(HashEntry) /\ NoneTwice(mixes) /\ Len(mixes) = Len(old)
        /\ Elements(mixes) = {g[e] : e \in Elements(old)}
    BY <2>3, <1>1, <1>3, ListChanged
  <2>5. {g[e] : e \in Elements(old)} = M
    BY <1>3 DEF MixedIn
  <2> QED BY <2>4, <2>5
<1>8. \A x \in M : x.key \in KeysOf(base)
  <2> SUFFICES ASSUME NEW x \in M PROVE x.key \in KeysOf(base)
    OBVIOUS
  <2>1. PICK e \in E : x = g[e]
    BY DEF MixedIn
  <2> QED BY <2>1, <1>6 DEF KeysOf
<1>9. \A x \in P : x \in O /\ x.key \notin KeysOf(base)
  BY DEF OnlyIn
<1>10. KeysOnce(M)
  <2> SUFFICES ASSUME NEW x \in M, NEW y \in M, x.key = y.key PROVE x = y
    BY DEF KeysOnce
  <2>1. PICK e \in E : x = g[e]
    BY DEF MixedIn
  <2>2. PICK f \in E : y = g[f]
    BY DEF MixedIn
  <2>3. e = f
    BY <2>1, <2>2, <1>1, <1>6 DEF KeysOnce
  <2> QED BY <2>1, <2>2, <2>3
<1>11. KeysOnce(M \cup P)
  BY <1>2, <1>8, <1>9, <1>10 DEF KeysOnce
<1>12. all = mixes \o more
  BY DEF MergedList
<1>13. all \in Seq(HashEntry) /\ NoneTwice(all) /\ Len(all) = Len(mixes) + Len(more)
       /\ Elements(all) = M \cup P
  <2>1. JoinedLists(HashEntry, mixes, more, all)
    BY <1>5, <1>7, <1>12 DEF JoinedLists
  <2>2. M \cap P = {}
    BY <1>8, <1>9
  <2> QED BY <2>1, <2>2, <1>5, <1>7, ConcatApart
<1>14. Len(old) = base.count
  BY <1>1, <1>3, ElementsFinite
<1>15. Len(more) \in Nat /\ Len(more) <= overlay.count
  <2>1. Cardinality(P) = Len(more) /\ P \subseteq O
    BY <1>5, <1>9, ElementsFinite
  <2>2. IsFiniteSet(O)
    BY <1>2, KeysCounted
  <2>3. Cardinality(P) <= Cardinality(O)
    BY <2>1, <2>2, FS_Subset
  <2> QED BY <2>1, <2>3, <1>2, <1>5
<1> QED BY <1>7, <1>11, <1>13, <1>14, <1>15

(* scl_hash_merge makes a sound table with the entries of both.            *)
LEMMA MergedSound ==
    ASSUME NEW base, TableFit(base), NEW overlay, TableFit(overlay), NEW m \in Vals \cup {NULL}
    PROVE  /\ TableFit(Merged(base, overlay, m))
           /\ Readdressed(MixedIn(base, overlay, m) \cup OnlyIn(base, overlay),
                          Entries(Merged(base, overlay, m)))
<1> PICK all : all = MergedList(base, overlay, m)
  OBVIOUS
<1> PICK more : more = MoreOf(base, overlay)
  OBVIOUS
<1> PICK max : max = MergedMax(base, overlay)
  OBVIOUS
<1> PICK n : n = base.count + Len(more)
  OBVIOUS
<1>1. /\ all \in Seq(HashEntry) /\ NoneTwice(all) /\ KeysOnce(Elements(all))
      /\ Elements(all) = MixedIn(base, overlay, m) \cup OnlyIn(base, overlay)
      /\ Len(more) \in Nat /\ Len(all) = n /\ Len(more) <= overlay.count
  BY MergedListSound DEF TableFit
<1> PICK s : s = RawMerge(all, max, n)
  OBVIOUS
<1>2. Merged(base, overlay, m) = Renumbered(s)
  BY DEF Merged, RawMerge, MergedList, MoreOf, OnlyIn, Mixed, Indexes
<1>3. /\ base.max \in Nat /\ overlay.max \in Nat /\ base.count \in Nat /\ overlay.count \in Nat
      /\ base.count <= base.max /\ overlay.count <= overlay.max
  BY SoundParts DEF TableFit
<1>4. max \in Nat /\ n <= max
  <2> PICK a \in Nat, b \in Nat, c \in Nat, d \in Nat :
         a = base.max /\ b = overlay.max /\ c = base.count /\ d = overlay.count
    BY <1>3
  <2> PICK top : top = IF b > a THEN b ELSE a
    OBVIOUS
  <2>1. max = IF c + d > top THEN 2 * top + 1 ELSE top
    BY DEF MergedMax
  <2>2. top \in Nat /\ c <= top /\ d <= top
    BY <1>3
  <2> PICK l \in Nat : l = Len(more)
    BY <1>1
  <2>3. n = c + l /\ l <= d
    BY <1>1
  <2>4. CASE c + d > top
    <3>1. max = 2 * top + 1
      BY <2>1, <2>4
    <3>2. \A w, x, y, z \in Nat : x <= w /\ y <= w /\ z <= y => x + z <= 2 * w + 1 /\ 2 * w + 1 \in Nat
      OBVIOUS
    <3>3. c + l <= 2 * top + 1 /\ 2 * top + 1 \in Nat
      BY <3>2, <2>2, <2>3
    <3> QED BY <3>1, <3>3, <2>3
  <2>5. CASE ~(c + d > top)
    <3>1. max = top
      BY <2>1, <2>5
    <3> QED BY <3>1, <2>2, <2>3, <2>5
  <2> QED BY <2>4, <2>5
<1>5. TableLoose(s) /\ AllOf(max, s.array) = Elements(all)
  BY <1>1, <1>4, RawLoose
<1>6. s.max = max /\ s.count = n
  BY DEF RawMerge
<1>7. /\ TableSound(Renumbered(s)) /\ Renumbered(s).max = max /\ Renumbered(s).count = n
      /\ Readdressed(Elements(all), Entries(Renumbered(s)))
  BY <1>5, <1>6, RenumberedSound
<1> QED BY <1>1, <1>2, <1>4, <1>7 DEF TableFit

(* What scl_hash_set makes of the entries of a table.                      *)
PutEntries(t, k, v) ==
    IF k \in KeysOf(t) THEN {WithVal(e, k, v) : e \in Entries(t)}
    ELSE Entries(t) \cup {NewEntry(t, k, v)}

(* scl_hash_set leaves a sound table that is not crowded, grown or not.    *)
LEMMA PutSound ==
    ASSUME NEW t, TableFit(t), NEW k \in Keys, NEW v \in Vals
    PROVE  /\ TableFit(Put(t, k, v)) /\ Entries(Put(t, k, v)) = PutEntries(t, k, v)
           /\ Ids(t) \subseteq Ids(Put(t, k, v))
           /\ Put(t, k, v).max = t.max
                 => Put(t, k, v) = IF k \in KeysOf(t) THEN Replaced(t, k, v) ELSE Added(t, k, v)
<1> PICK s : s = IF k \in KeysOf(t) THEN Replaced(t, k, v) ELSE Added(t, k, v)
  OBVIOUS
<1>0. t.max \in Nat /\ t.count \in Nat /\ t.count <= t.max /\ TableSound(t)
  BY SoundParts DEF TableFit
<1>1. TableSound(s) /\ Entries(s) = PutEntries(t, k, v) /\ s.max = t.max
      /\ (s.count = t.count \/ s.count = t.count + 1) /\ Ids(t) \subseteq Ids(s)
  <2>1. CASE k \in KeysOf(t)
    <3>1. s = Replaced(t, k, v)
      BY <2>1
    <3>2. TableSound(s) /\ Entries(s) = {WithVal(e, k, v) : e \in Entries(t)}
      BY <3>1, <2>1, <1>0, ReplacedSound
    <3>3. s.max = t.max /\ s.count = t.count /\ Ids(t) \subseteq Ids(s)
      BY <3>1, <1>0, <2>1, ReplacedSound
    <3> QED BY <3>2, <3>3, <2>1 DEF PutEntries
  <2>2. CASE k \notin KeysOf(t)
    <3>1. s = Added(t, k, v)
      BY <2>2
    <3>2. TableSound(s) /\ Entries(s) = Entries(t) \cup {NewEntry(t, k, v)}
      BY <3>1, <2>2, <1>0, AddedSound
    <3>3. s.max = t.max /\ s.count = t.count + 1 /\ Ids(t) \subseteq Ids(s)
      BY <3>1, <1>0, <2>2, AddedSound
    <3> QED BY <3>2, <3>3, <2>2 DEF PutEntries
  <2> QED BY <2>1, <2>2
<1>2. Put(t, k, v) = IF s.count > s.max THEN Expanded(s) ELSE s
  BY DEF Put
<1>3. CASE s.count > s.max
  <2>1. /\ TableSound(Expanded(s)) /\ Entries(Expanded(s)) = Entries(s)
        /\ Expanded(s).count = s.count /\ Expanded(s).max = 2 * s.max + 1
        /\ Ids(Expanded(s)) = Ids(s)
    BY <1>1, ExpandedSound
  <2> PICK x : x = Expanded(s)
    OBVIOUS
  <2>2. Put(t, k, v) = x
    BY <1>2, <1>3
  <2> PICK m \in Nat, n \in Nat : m = t.max /\ n = t.count
    BY <1>0
  <2>3. x.max = 2 * m + 1 /\ (x.count = n \/ x.count = n + 1) /\ n <= m
    BY <2>1, <1>0, <1>1
  <2>4. x.count <= x.max /\ x.max # m
    BY <2>3
  <2> QED BY <2>1, <2>2, <2>4, <1>1 DEF TableFit
<1>4. CASE ~(s.count > s.max)
  <2>1. Put(t, k, v) = s
    BY <1>2, <1>4
  <2>2. s.count \in Int /\ s.max \in Int
    BY <1>0, <1>1
  <2>3. s.count <= s.max
    BY <2>2, <1>4
  <2> QED BY <2>1, <2>3, <1>1 DEF TableFit
<1> QED BY <1>3, <1>4

(* scl_hash_make leaves a sound table without entries.                     *)
LEMMA EmptyFit == TableFit(Empty) /\ Entries(Empty) = {} /\ Empty.max = INITIAL_MAX
<1> PICK s : s = Empty
  OBVIOUS
<1>1. INITIAL_MAX \in Nat
  BY HashAssumption
<1> PICK new : new = [i \in 0 .. INITIAL_MAX |-> << >>]
  OBVIOUS
<1>2. s = [array |-> new, free |-> << >>, count |-> 0, max |-> INITIAL_MAX]
  BY DEF Empty, Indexes
<1>3. /\ s.array = new /\ s.free = << >> /\ s.count = 0 /\ s.max = INITIAL_MAX
      /\ s = [array |-> s.array, free |-> s.free, count |-> s.count, max |-> s.max]
  BY <1>2
<1>4. ArraySound(s.max, s.array) /\ AllOf(s.max, s.array) = {} /\ OnceEach({}) /\ Cardinality({}) = 0
  BY <1>1, <1>3, NoneSound
<1>5. FreeSound({}, << >>)
  BY DEF FreeSound, NoneTwice
<1>6. TableSound(s)
  BY <1>3, <1>4, <1>5 DEF TableSound
<1>7. Entries(s) = {}
  BY <1>4, EntriesAre
<1> QED BY <1>1, <1>3, <1>6, <1>7 DEF TableFit

(* A table made by setting pairs one after the other.                      *)
FitTables ==
    {t \in UNION {[array : [0 .. m -> Seq(HashEntry)], free : Seq(Nat \ {0}), count : Nat, max : {m}]
                     : m \in Nat} : TableFit(t)}

(* The set of the sound tables has all of them.                            *)
LEMMA FitTablesAll == ASSUME NEW t PROVE t \in FitTables <=> TableFit(t)
<1> SUFFICES ASSUME TableFit(t) PROVE t \in FitTables
  BY DEF FitTables
<1>1. t = [array |-> t.array, free |-> t.free, count |-> t.count, max |-> t.max]
  BY DEF TableFit, TableSound
<1>2. /\ t.max \in Nat /\ t.array \in [0 .. t.max -> Seq(HashEntry)] /\ t.count \in Nat
      /\ t.free \in Seq(Nat \ {0})
  BY SoundParts DEF TableFit
<1> PICK a, f, n, m : a = t.array /\ f = t.free /\ n = t.count /\ m = t.max
  OBVIOUS
<1>3. t = [array |-> a, free |-> f, count |-> n, max |-> m]
  BY <1>1
<1>4. t \in [array : [0 .. m -> Seq(HashEntry)], free : Seq(Nat \ {0}), count : Nat, max : {m}]
  BY <1>2, <1>3
<1> QED BY <1>2, <1>4 DEF FitTables

(* A table that a caller made by setting pairs is sound and not crowded.   *)
LEMMA MadeFit ==
    ASSUME NEW pairs \in Seq(Keys \X Vals)
    PROVE  TableFit(Made(pairs))
<1> PICK N \in Nat : N = Len(pairs)
  OBVIOUS
<1> DEFINE Y == FitTables
           F == [q \in (1 .. N) \X Y |-> Put(q[2], pairs[q[1]][1], pairs[q[1]][2])]
           Step(g) == [U \in SUBSET (1 .. N) |->
                          IF U = {} THEN Empty
                          ELSE Put(g[U \ {Max(U)}], pairs[Max(U)][1], pairs[Max(U)][2])]
           Z == CHOOSE g : g = Step(g)
<1>0. \A n \in 1 .. N : pairs[n][1] \in Keys /\ pairs[n][2] \in Vals
  OBVIOUS
<1>1. F \in [(1 .. N) \X Y -> Y] /\ Empty \in Y
  <2>1. Empty \in Y
    BY EmptyFit, FitTablesAll
  <2> SUFFICES ASSUME NEW n \in 1 .. N, NEW t \in Y PROVE Put(t, pairs[n][1], pairs[n][2]) \in Y
    BY <2>1
  <2>2. TableFit(t)
    BY FitTablesAll
  <2>3. TableFit(Put(t, pairs[n][1], pairs[n][2]))
    BY <2>2, <1>0, PutSound
  <2> QED BY <2>3, FitTablesAll
<1>2. PICK g \in [SUBSET (1 .. N) -> Y] : SolvesFold(g, N, Empty, F)
  <2> HIDE DEF F, Y
  <2> QED BY <1>1, Folding
<1>3. g = Step(g)
  <2> SUFFICES ASSUME NEW U \in SUBSET (1 .. N) PROVE g[U] = Step(g)[U]
    OBVIOUS
  <2>1. CASE U = {}
    BY <2>1, <1>2 DEF SolvesFold
  <2>2. CASE U # {}
    <3>1. Max(U) \in U
      <4>1. U \in SUBSET Nat /\ \A x \in U : x <= N
        OBVIOUS
      <4> HIDE DEF F, Y, Step
      <4> QED BY <4>1, <2>2, MaxIsGreatest
    <3>2. U \ {Max(U)} \in SUBSET (1 .. N) /\ Max(U) \in 1 .. N
      BY <3>1
    <3>3. g[U] = F[<<Max(U), g[U \ {Max(U)}]>>]
      BY <1>2, <2>2 DEF SolvesFold
    <3> QED BY <2>2, <3>2, <3>3
  <2> QED BY <2>1, <2>2
<1>4. Z = Step(Z)
  BY <1>3
<1>5. Made(pairs) = Z[1 .. N]
  <2>1. DOMAIN pairs = 1 .. N
    OBVIOUS
  <2> QED BY <2>1 DEF Made, FoldLeft, MapThenFoldSet
<1> HIDE DEF Z
<1>6. Z[{}] = g[{}]
  <2>1. Step(Z)[{}] = Empty /\ Step(g)[{}] = Empty
    OBVIOUS
  <2> HIDE DEF Step
  <2> QED BY <2>1, <1>3, <1>4
<1>7. ASSUME NEW U \in SUBSET (1 .. N), U # {}, Z[U \ {Max(U)}] = g[U \ {Max(U)}]
      PROVE  Z[U] = g[U]
  <2>1. Step(Z)[U] = Step(g)[U]
    BY <1>7
  <2> HIDE DEF Step
  <2> QED BY <2>1, <1>3, <1>4
<1>8. Z[1 .. N] = g[1 .. N]
  <2> HIDE DEF Step, F, Y
  <2> QED BY <1>6, <1>7, FoldsAgree
<1>9. Made(pairs) \in Y
  <2> HIDE DEF Step, F, Y
  <2> QED BY <1>2, <1>5, <1>8
<1> QED BY <1>9, FitTablesAll

(* The lists of a table, as addresses.                                     *)
ListOf(t, i) == SeqOfIds(t.array[i])

(* The addresses of a chain, in its order, are those of its entries.       *)
LEMMA ListIs ==
    ASSUME NEW t, TableSound(t), NEW i \in 0 .. t.max
    PROVE  /\ ListOf(t, i) \in Seq(Nat \ {0}) /\ Len(ListOf(t, i)) = Len(t.array[i])
           /\ t.array[i] \in Seq(HashEntry) /\ NoneTwice(t.array[i])
           /\ DOMAIN ListOf(t, i) = 1 .. Len(t.array[i])
           /\ \A j \in 1 .. Len(t.array[i]) : /\ ListOf(t, i)[j] = t.array[i][j].id
                                              /\ t.array[i][j] \in Entries(t)
           /\ ToSet(ListOf(t, i)) = {e.id : e \in Elements(t.array[i])}
<1>1. t.array[i] \in Seq(HashEntry) /\ Entries(t) = AllOf(t.max, t.array) /\ NoneTwice(t.array[i])
  BY SoundParts DEF TableSound, ArraySound
<1> PICK d : d = t.array[i]
  OBVIOUS
<1> PICK n \in Nat : n = Len(d)
  BY <1>1
<1> PICK l : l = ListOf(t, i)
  OBVIOUS
<1>2. DOMAIN d = 1 .. n /\ \A j \in 1 .. n : d[j] \in HashEntry /\ d[j] \in Elements(d)
  BY <1>1 DEF Elements
<1>3. l = [j \in 1 .. n |-> d[j].id]
  BY <1>2 DEF ListOf, SeqOfIds
<1>4. \A j \in 1 .. n : d[j].id \in Nat \ {0}
  BY <1>2 DEF HashEntry
<1>5. l \in Seq(Nat \ {0}) /\ Len(l) = n
  BY <1>3, <1>4, SeqDef
<1>6. \A j \in 1 .. n : d[j] \in Entries(t)
  BY <1>1, <1>2 DEF AllOf
<1>7. ToSet(l) = {e.id : e \in Elements(d)}
  <2>1. ToSet(l) = {l[j] : j \in 1 .. n}
    BY <1>3 DEF ToSet
  <2>2. {l[j] : j \in 1 .. n} = {d[j].id : j \in 1 .. n}
    BY <1>3
  <2>3. {d[j].id : j \in 1 .. n} = {e.id : e \in Elements(d)}
    BY DEF Elements
  <2> QED BY <2>1, <2>2, <2>3
<1> QED BY <1>1, <1>3, <1>5, <1>6, <1>7

(* What the member "next" of an entry of a chain holds.                    *)
AfterIn(d, j) == IF j < Len(d) THEN d[j + 1].id ELSE NULL

(* The member "next" of an entry names the entry behind it in its chain.   *)
LEMMA SuccessorAt ==
    ASSUME NEW t, TableSound(t), NEW b \in 0 .. t.max, NEW j \in 1 .. Len(t.array[b])
    PROVE  Successor(t, t.array[b][j].id) = AfterIn(t.array[b], j)
<1> PICK d, l, id : d = t.array[b] /\ l = ListOf(t, b) /\ id = t.array[b][j].id
  OBVIOUS
<1>1. /\ OnceEach(Entries(t)) /\ FreeSound(Entries(t), t.free) /\ t.max \in Nat
      /\ ArraySound(t.max, t.array) /\ t.free \in Seq(Nat \ {0})
  BY SoundParts DEF TableSound
<1>2. /\ l \in Seq(Nat \ {0}) /\ Len(l) = Len(d) /\ d \in Seq(HashEntry) /\ NoneTwice(d)
      /\ DOMAIN l = 1 .. Len(d)
      /\ \A i \in 1 .. Len(d) : l[i] = d[i].id /\ d[i] \in Entries(t)
      /\ ToSet(l) = {e.id : e \in Elements(d)}
  BY ListIs
<1>3. id \in ToSet(l)
  BY <1>2 DEF Elements
<1> DEFINE lists == {SeqOfIds(t.array[i]) : i \in Indexes(t.max)}
<1>4. l \in lists
  BY DEF ListOf, Indexes
<1>5. ASSUME NEW m \in lists \cup {t.free}, id \in ToSet(m) PROVE m = l
  <2>1. m # t.free
    <3> SUFFICES ASSUME m = t.free PROVE FALSE
      OBVIOUS
    <3>1. id \in Elements(t.free)
      BY <1>1, <1>5, ElementsAre
    <3> QED BY <3>1, <1>1, <1>2 DEF FreeSound
  <2>2. PICK i \in 0 .. t.max : m = SeqOfIds(t.array[i])
    BY <2>1, <1>5 DEF Indexes
  <2>3. id \in {e.id : e \in Elements(t.array[i])}
    <3>1. ToSet(ListOf(t, i)) = {e.id : e \in Elements(t.array[i])}
      BY ListIs
    <3> QED BY <3>1, <2>2, <1>5 DEF ListOf
  <2>4. PICK e \in Elements(t.array[i]) : e.id = id
    BY <2>3
  <2>5. e \in Entries(t)
    BY <1>1, SoundParts DEF AllOf
  <2>6. e = d[j] /\ d[j] \in Elements(d)
    BY <2>4, <2>5, <1>1, <1>2 DEF OnceEach, Elements
  <2>7. i = b
    BY <2>4, <2>6, <1>1, ChainsApart
  <2> QED BY <2>2, <2>7 DEF ListOf
<1> DEFINE list == CHOOSE m \in lists \cup {t.free} : id \in ToSet(m)
<1>6. list = l
  <2> HIDE DEF lists
  <2> QED BY <1>3, <1>4, <1>5
<1> DEFINE k == CHOOSE k \in DOMAIN list : list[k] = id
<1>7. Successor(t, id) = IF k < Len(list) THEN list[k + 1] ELSE NULL
  BY DEF Successor
<1> HIDE DEF list
<1>8. k = j
  <2>1. \A i \in DOMAIN list : list[i] = id => i = j
    <3> SUFFICES ASSUME NEW i \in 1 .. Len(d), l[i] = id PROVE i = j
      BY <1>2, <1>6
    <3>1. d[i] = d[j]
      BY <1>1, <1>2 DEF OnceEach
    <3> QED BY <3>1, <1>2 DEF NoneTwice
  <2>2. j \in DOMAIN list /\ list[j] = id
    BY <1>2, <1>6
  <2> QED BY <2>1, <2>2
<1>9. Successor(t, id) = IF j < Len(d) THEN l[j + 1] ELSE NULL
  BY <1>2, <1>6, <1>7, <1>8
<1>10. j < Len(d) => l[j + 1] = d[j + 1].id
  <2> PICK n \in Nat : n = Len(d)
    BY <1>2
  <2>1. j < n => j + 1 \in 1 .. n
    OBVIOUS
  <2> QED BY <2>1, <1>2
<1> QED BY <1>9, <1>10 DEF AfterIn

(* ... and of any entry, used or recycled.                                 *)
LEMMA SuccessorIn ==
    ASSUME NEW t, TableSound(t), NEW id \in Ids(t)
    PROVE  Successor(t, id) \in Ids(t) \cup {NULL}
<1>1. /\ OnceEach(Entries(t)) /\ t.free \in Seq(Nat \ {0}) /\ t.max \in Nat
      /\ Ids(t) = {e.id : e \in Entries(t)} \cup Elements(t.free)
      /\ Entries(t) = AllOf(t.max, t.array)
  BY SoundParts
<1> DEFINE lists == {SeqOfIds(t.array[i]) : i \in Indexes(t.max)}
<1>2. \A m \in lists : /\ m \in Seq(Nat \ {0}) /\ ToSet(m) \subseteq Ids(t)
  <2> SUFFICES ASSUME NEW i \in 0 .. t.max, NEW m, m = ListOf(t, i)
               PROVE  m \in Seq(Nat \ {0}) /\ ToSet(m) \subseteq Ids(t)
    BY DEF ListOf, Indexes
  <2>1. m \in Seq(Nat \ {0}) /\ ToSet(m) = {e.id : e \in Elements(t.array[i])}
    BY ListIs
  <2>2. Elements(t.array[i]) \subseteq Entries(t)
    BY <1>1 DEF AllOf
  <2> QED BY <2>1, <2>2, <1>1
<1>3. ToSet(t.free) = Elements(t.free)
  BY <1>1, ElementsAre
<1>4. \E m \in lists \cup {t.free} : id \in ToSet(m)
  <2>1. CASE id \in Elements(t.free)
    BY <2>1, <1>3
  <2>2. CASE id \in {e.id : e \in Entries(t)}
    <3>1. PICK e \in Entries(t) : e.id = id
      BY <2>2
    <3>2. PICK i \in 0 .. t.max : e \in Elements(t.array[i])
      BY <1>1 DEF AllOf
    <3>3. ToSet(ListOf(t, i)) = {f.id : f \in Elements(t.array[i])}
      BY ListIs
    <3>4. id \in ToSet(ListOf(t, i)) /\ ListOf(t, i) \in lists
      BY <3>1, <3>2, <3>3 DEF ListOf, Indexes
    <3> QED BY <3>4
  <2> QED BY <2>1, <2>2, <1>1
<1> DEFINE list == CHOOSE m \in lists \cup {t.free} : id \in ToSet(m)
<1>5. list \in lists \cup {t.free} /\ id \in ToSet(list)
  <2> HIDE DEF lists
  <2> QED BY <1>4
<1>6. list \in Seq(Nat \ {0}) /\ ToSet(list) \subseteq Ids(t)
  <2> HIDE DEF lists
  <2>1. \A m \in lists \cup {t.free} : m \in Seq(Nat \ {0}) /\ ToSet(m) \subseteq Ids(t)
    BY <1>1, <1>2, <1>3
  <2> QED BY <1>5, <2>1
<1> DEFINE k == CHOOSE k \in DOMAIN list : list[k] = id
<1>7. Successor(t, id) = IF k < Len(list) THEN list[k + 1] ELSE NULL
  BY DEF Successor
<1> HIDE DEF list
<1>8. k \in DOMAIN list
  <2>1. \E i \in DOMAIN list : list[i] = id
    BY <1>5 DEF ToSet
  <2> QED BY <2>1
<1>9. k < Len(list) => list[k + 1] \in ToSet(list)
  <2> PICK n \in Nat : n = Len(list)
    BY <1>6
  <2>1. DOMAIN list = 1 .. n /\ k \in 1 .. n
    BY <1>6, <1>8
  <2>2. k < n => k + 1 \in 1 .. n
    BY <2>1
  <2> QED BY <2>1, <2>2 DEF ToSet
<1> QED BY <1>6, <1>7, <1>9

(* The keys that an iteration has ahead of it: those of its chain from the *)
(* entry that it holds on, and those of the chains it has not begun.       *)
RestOf(d, id) == {d[q].key : q \in {r \in 1 .. Len(d) : \E j \in 1 .. r : d[j].id = id}}

KeysFrom(d, j) == {d[q].key : q \in j .. Len(d)}

LaterKeys(t, index) == {e.key : e \in UNION {Elements(t.array[x]) : x \in index .. t.max}}

Ahead(t, i) ==
    (IF i.next = NULL THEN {} ELSE RestOf(t.array[i.index - 1], i.next)) \cup LaterKeys(t, i.index)

Standing(t, i) ==
    /\ i.index \in 0 .. t.max + 1
    /\ i.next # NULL =>
          i.index # 0 /\ \E j \in 1 .. Len(t.array[i.index - 1]) : t.array[i.index - 1][j].id = i.next

IterType == [on : BOOLEAN, at : Nat, next : Nat, index : Nat, internal : BOOLEAN]

(* The rest of a chain from a place on.                                    *)
LEMMA RestAt ==
    ASSUME NEW t, TableSound(t), NEW b \in 0 .. t.max, NEW j \in 1 .. Len(t.array[b])
    PROVE  RestOf(t.array[b], t.array[b][j].id) = KeysFrom(t.array[b], j)
<1> PICK d : d = t.array[b]
  OBVIOUS
<1>1. /\ d \in Seq(HashEntry) /\ NoneTwice(d) /\ \A i \in 1 .. Len(d) : d[i] \in Entries(t)
      /\ OnceEach(Entries(t))
  BY ListIs, SoundParts
<1> PICK n \in Nat : n = Len(d)
  BY <1>1
<1>2. \A i \in 1 .. n : d[i].id = d[j].id => i = j
  <2> SUFFICES ASSUME NEW i \in 1 .. n, d[i].id = d[j].id PROVE i = j
    OBVIOUS
  <2>1. d[i] = d[j]
    BY <1>1 DEF OnceEach
  <2> QED BY <2>1, <1>1 DEF NoneTwice
<1>3. {r \in 1 .. n : \E i \in 1 .. r : d[i].id = d[j].id} = j .. n
  <2>1. \A r \in 1 .. n : (\E i \in 1 .. r : d[i].id = d[j].id) <=> j <= r
    <3> SUFFICES ASSUME NEW r \in 1 .. n
                 PROVE  (\E i \in 1 .. r : d[i].id = d[j].id) <=> j <= r
      OBVIOUS
    <3>1. ASSUME NEW i \in 1 .. r, d[i].id = d[j].id PROVE j <= r
      <4>1. i \in 1 .. n
        OBVIOUS
      <4> QED BY <3>1, <4>1, <1>2
    <3>2. j <= r => j \in 1 .. r
      OBVIOUS
    <3> QED BY <3>1, <3>2
  <2> QED BY <2>1
<1> QED BY <1>3 DEF RestOf, KeysFrom

(* The keys of two places are different.                                   *)
LEMMA KeysApart ==
    ASSUME NEW t, TableSound(t), NEW b \in 0 .. t.max, NEW c \in 0 .. t.max,
           NEW i \in 1 .. Len(t.array[b]), NEW j \in 1 .. Len(t.array[c]),
           t.array[b][i].key = t.array[c][j].key
    PROVE  b = c /\ i = j
<1>1. /\ t.array[b][i] \in Entries(t) /\ t.array[c][j] \in Entries(t) /\ OnceEach(Entries(t))
      /\ NoneTwice(t.array[b])
  BY ListIs, SoundParts
<1>2. t.array[b][i] = t.array[c][j]
  BY <1>1 DEF OnceEach
<1>3. t.array[b][i] \in Elements(t.array[b]) /\ t.array[c][j] \in Elements(t.array[c])
  BY DEF Elements
<1>4. b = c
  BY <1>2, <1>3, ChainsApart DEF TableSound
<1> QED BY <1>1, <1>2, <1>4 DEF NoneTwice

(* The key that an address stands for.                                     *)
KeysAt(t, id) == {e.key : e \in {x \in Entries(t) : x.id = id}}

(* An address stands for one key.                                          *)
LEMMA KeyAt ==
    ASSUME NEW t, TableSound(t), NEW e \in Entries(t)
    PROVE  KeysAt(t, e.id) = {e.key}
<1>1. OnceEach(Entries(t))
  BY SoundParts
<1>2. {x \in Entries(t) : x.id = e.id} = {e}
  BY <1>1 DEF OnceEach
<1> QED BY <1>2 DEF KeysAt

MovesTo(t, b, j, r) == r.index = b + 1 /\ r.next = AfterIn(t.array[b], j)

MovedTo(t, b, j, r) ==
    /\ Standing(t, r)
    /\ Ahead(t, r) = (KeysFrom(t.array[b], j) \cup LaterKeys(t, b + 1)) \ {t.array[b][j].key}

(* An iteration that goes on, at an entry of chain b: what it then has     *)
(* ahead is what it had, without the key of that entry.                    *)
LEMMA MovedOn ==
    ASSUME NEW t, TableSound(t), NEW b \in 0 .. t.max, NEW j \in 1 .. Len(t.array[b]),
           NEW r, MovesTo(t, b, j, r)
    PROVE  MovedTo(t, b, j, r)
<1> PICK d : d = t.array[b]
  OBVIOUS
<1>1. d \in Seq(HashEntry) /\ t.max \in Nat /\ \A x \in 0 .. t.max : t.array[x] \in Seq(HashEntry)
  BY ListIs, SoundParts
<1> PICK n \in Nat : n = Len(d)
  BY <1>1
<1>2. r.index \in 0 .. t.max + 1 /\ r.index - 1 = b /\ r.index # 0 /\ r.index = b + 1
  <2>1. r.index = b + 1
    BY DEF MovesTo
  <2> PICK top \in Nat : top = t.max
    BY <1>1
  <2> PICK x \in 0 .. top : x = b
    OBVIOUS
  <2>2. x + 1 \in 0 .. top + 1 /\ x + 1 - 1 = x /\ x + 1 # 0
    OBVIOUS
  <2> QED BY <2>1, <2>2
<1>3. \A q \in 1 .. n : d[q].key = d[j].key => q = j
  <2> SUFFICES ASSUME NEW q \in 1 .. n, d[q].key = d[j].key PROVE q = j
    OBVIOUS
  <2>1. q \in 1 .. Len(t.array[b]) /\ t.array[b][q].key = t.array[b][j].key
    OBVIOUS
  <2> QED BY <2>1, KeysApart
<1>4. d[j].key \notin LaterKeys(t, b + 1)
  <2> SUFFICES ASSUME NEW x \in b + 1 .. t.max, NEW e \in Elements(t.array[x]), e.key = d[j].key
               PROVE  FALSE
    BY DEF LaterKeys
  <2>1. x \in 0 .. t.max /\ x # b
    BY <1>1
  <2>2. PICK i \in 1 .. Len(t.array[x]) : e = t.array[x][i]
    BY DEF Elements
  <2> QED BY <2>1, <2>2, KeysApart
<1>5. CASE j < n
  <2>1. j + 1 \in 1 .. n /\ r.next = d[j + 1].id /\ d[j + 1] \in HashEntry
    BY <1>1, <1>5 DEF AfterIn, MovesTo
  <2>2. r.next # NULL
    BY <2>1 DEF HashEntry, NULL
  <2>3. Standing(t, r)
    BY <2>1, <1>2 DEF Standing
  <2>4. RestOf(d, r.next) = KeysFrom(d, j + 1)
    <3> PICK p \in 1 .. n : p = j + 1
      BY <2>1
    <3>1. p \in 1 .. Len(t.array[b])
      OBVIOUS
    <3>2. RestOf(t.array[b], t.array[b][p].id) = KeysFrom(t.array[b], p)
      BY <3>1, RestAt
    <3> QED BY <3>2, <2>1
  <2>5. KeysFrom(d, j + 1) = KeysFrom(d, j) \ {d[j].key}
    <3>1. \A q \in j .. n : q \in 1 .. n /\ (q # j => q \in j + 1 .. n)
      OBVIOUS
    <3>2. \A q \in j + 1 .. n : q \in j .. n /\ q # j /\ q \in 1 .. n
      OBVIOUS
    <3> QED BY <3>1, <3>2, <1>3 DEF KeysFrom
  <2>6. Ahead(t, r) = RestOf(d, r.next) \cup LaterKeys(t, b + 1)
    BY <2>2, <1>2 DEF Ahead
  <2>7. Ahead(t, r) = (KeysFrom(d, j) \cup LaterKeys(t, b + 1)) \ {d[j].key}
    <3> PICK K, L, k : K = KeysFrom(d, j) /\ L = LaterKeys(t, b + 1) /\ k = d[j].key
      OBVIOUS
    <3>1. Ahead(t, r) = (K \ {k}) \cup L /\ k \notin L
      BY <2>4, <2>5, <2>6, <1>4
    <3> QED BY <3>1
  <2> QED BY <2>3, <2>7 DEF MovedTo
<1>6. CASE j = n
  <2>1. r.next = NULL
    BY <1>1, <1>6 DEF AfterIn, MovesTo
  <2>2. Standing(t, r)
    BY <2>1, <1>2 DEF Standing
  <2>3. KeysFrom(d, j) = {d[j].key}
    BY <1>6 DEF KeysFrom
  <2>4. Ahead(t, r) = LaterKeys(t, b + 1)
    BY <2>1, <1>2 DEF Ahead
  <2> QED BY <2>2, <2>3, <2>4, <1>4 DEF MovedTo
<1> QED BY <1>5, <1>6

(* The three ways of a step.                                               *)
ChainsAhead(t, i) == {x \in i.index .. t.max : t.array[x] # << >>}

FirstChain(t, i) == CHOOSE x \in ChainsAhead(t, i) : \A y \in ChainsAhead(t, i) : x <= y

(* What scl_hash_next leaves in an iterator, case by case.                 *)
LEMMA SteppedIs ==
    ASSUME NEW t, TableSound(t), NEW i \in IterType, NEW r, r = Stepped(t, i)
    PROVE  /\ i.next # NULL =>
                 r = [i EXCEPT !.at = i.next, !.next = Successor(t, i.next)]
           /\ i.next = NULL /\ ChainsAhead(t, i) = {} =>
                 r = [i EXCEPT !.at = NULL, !.on = FALSE, !.index = t.max + 1]
           /\ i.next = NULL /\ ChainsAhead(t, i) # {} =>
                 /\ FirstChain(t, i) \in ChainsAhead(t, i) /\ FirstChain(t, i) \in 0 .. t.max
                 /\ \A y \in ChainsAhead(t, i) : FirstChain(t, i) <= y
                 /\ t.array[FirstChain(t, i)] \in Seq(HashEntry) /\ t.array[FirstChain(t, i)] # << >>
                 /\ r = [i EXCEPT !.index = FirstChain(t, i) + 1,
                                  !.at = t.array[FirstChain(t, i)][1].id,
                                  !.next = Successor(t, t.array[FirstChain(t, i)][1].id)]
<1> PICK A : A = ChainsAhead(t, i)
  OBVIOUS
<1> PICK c : c = FirstChain(t, i)
  OBVIOUS
<1>1. r = IF i.next # NULL THEN At(t, i, i.next)
          ELSE IF A = {} THEN [i EXCEPT !.at = NULL, !.on = FALSE, !.index = t.max + 1]
          ELSE At(t, [i EXCEPT !.index = c + 1], t.array[c][1].id)
  BY DEF Stepped, ChainsAhead, FirstChain
<1>2. t.max \in Nat /\ t.array \in [0 .. t.max -> Seq(HashEntry)]
  BY SoundParts
<1>3. CASE i.next # NULL
  BY <1>1, <1>3 DEF At
<1>4. CASE i.next = NULL /\ A = {}
  BY <1>1, <1>4
<1>5. CASE i.next = NULL /\ A # {}
  <2>1. A \in SUBSET Nat /\ A \subseteq 0 .. t.max
    BY <1>2 DEF ChainsAhead, IterType
  <2>2. \E x \in A : \A y \in A : x <= y
    BY <2>1, <1>5, LeastNumber
  <2>3. c \in A /\ \A y \in A : c <= y
    BY <2>2 DEF FirstChain
  <2>4. c \in 0 .. t.max /\ t.array[c] \in Seq(HashEntry) /\ t.array[c] # << >>
    BY <2>1, <2>3, <1>2 DEF ChainsAhead
  <2>5. r = At(t, [i EXCEPT !.index = c + 1], t.array[c][1].id)
    BY <1>1, <1>5
  <2> PICK x : x = t.array[c][1].id
    OBVIOUS
  <2>6. r = [i EXCEPT !.index = c + 1, !.at = x, !.next = Successor(t, x)]
    BY <2>5 DEF At, IterType
  <2> QED BY <2>3, <2>4, <2>6, <1>5
<1> QED BY <1>3, <1>4, <1>5

(* Any step leaves an iterator, that holds an entry of the table or none.  *)
LEMMA SteppedTyped ==
    ASSUME NEW t, TableSound(t), NEW i \in IterType, i.next \in Ids(t) \cup {NULL},
           NEW r, r = Stepped(t, i)
    PROVE  r \in IterType /\ r.next \in Ids(t) \cup {NULL}
<1>1. /\ Ids(t) = {e.id : e \in Entries(t)} \cup Elements(t.free) /\ t.free \in Seq(Nat \ {0})
      /\ Entries(t) \subseteq HashEntry /\ t.max \in Nat
  BY SoundParts
<1>2. Ids(t) \subseteq Nat /\ NULL \in Nat
  BY <1>1 DEF Elements, HashEntry, NULL
<1>3. CASE i.next # NULL
  <2>1. r = [i EXCEPT !.at = i.next, !.next = Successor(t, i.next)]
    BY <1>3, SteppedIs
  <2>2. Successor(t, i.next) \in Ids(t) \cup {NULL}
    BY <1>3, SuccessorIn
  <2> PICK x \in Nat : x = Successor(t, i.next)
    BY <2>2, <1>2
  <2>3. r = [i EXCEPT !.at = i.next, !.next = x]
    BY <2>1
  <2>4. r \in IterType
    BY <2>3 DEF IterType
  <2>5. r.next = x
    BY <2>3 DEF IterType
  <2> QED BY <2>2, <2>4, <2>5
<1>4. CASE i.next = NULL /\ ChainsAhead(t, i) = {}
  <2>1. r = [i EXCEPT !.at = NULL, !.on = FALSE, !.index = t.max + 1]
    BY <1>4, SteppedIs
  <2> PICK top \in Nat : top = t.max + 1
    BY <1>1
  <2>2. r = [i EXCEPT !.at = NULL, !.on = FALSE, !.index = top]
    BY <2>1
  <2>3. r \in IterType
    BY <2>2, <1>2 DEF IterType
  <2>4. r.next = NULL
    BY <2>2, <1>4 DEF IterType
  <2> QED BY <2>3, <2>4
<1>5. CASE i.next = NULL /\ ChainsAhead(t, i) # {}
  <2> PICK c : c = FirstChain(t, i)
    OBVIOUS
  <2>1. /\ c \in 0 .. t.max /\ t.array[c] \in Seq(HashEntry) /\ t.array[c] # << >>
        /\ r = [i EXCEPT !.index = c + 1, !.at = t.array[c][1].id,
                         !.next = Successor(t, t.array[c][1].id)]
    BY <1>5, SteppedIs
  <2>2. 1 \in 1 .. Len(t.array[c])
    BY <2>1
  <2>3. t.array[c][1] \in Entries(t)
    BY <2>1, <2>2, ListIs
  <2> PICK x : x = t.array[c][1].id
    OBVIOUS
  <2>4. x \in Ids(t)
    BY <2>3, <1>1
  <2>5. Successor(t, x) \in Ids(t) \cup {NULL}
    BY <2>4, SuccessorIn
  <2>6. c + 1 \in Nat /\ r = [i EXCEPT !.index = c + 1, !.at = x, !.next = Successor(t, x)]
    BY <2>1, <1>1
  <2> QED BY <2>4, <2>5, <2>6, <1>2 DEF IterType
<1> QED BY <1>3, <1>4, <1>5

(* A step from a sound position: it takes one of the keys ahead, or there  *)
(* is none.                                                                *)
Takes(t, i, r) ==
    \E k \in Ahead(t, i) : KeysAt(t, r.at) = {k} /\ Ahead(t, r) = Ahead(t, i) \ {k}

(* A step of an iteration takes one key off those ahead, and ends when     *)
(* none is.                                                                *)
LEMMA SteppedSound ==
    ASSUME NEW t, TableSound(t), NEW i \in IterType, i.on, Standing(t, i),
           NEW r, r = Stepped(t, i)
    PROVE  /\ r.on => Standing(t, r) /\ Takes(t, i, r)
           /\ ~r.on => Ahead(t, i) = {}
<1>1. t.max \in Nat /\ t.array \in [0 .. t.max -> Seq(HashEntry)] /\ i.index \in 0 .. t.max + 1
  BY SoundParts DEF Standing
<1>2. CASE i.next # NULL
  <2>1. /\ r.at = i.next /\ r.next = Successor(t, i.next) /\ r.index = i.index /\ r.on
    <3>1. r = [i EXCEPT !.at = i.next, !.next = Successor(t, i.next)]
      BY <1>2, SteppedIs
    <3> QED BY <3>1 DEF IterType
  <2> PICK b : b = i.index - 1
    OBVIOUS
  <2>2. b \in 0 .. t.max /\ r.index = b + 1
    BY <2>1, <1>1, <1>2 DEF Standing
  <2>3. PICK j \in 1 .. Len(t.array[b]) : t.array[b][j].id = i.next
    BY <1>2 DEF Standing
  <2>4. r.next = AfterIn(t.array[b], j)
    <3>1. Successor(t, t.array[b][j].id) = AfterIn(t.array[b], j)
      BY <2>2, SuccessorAt
    <3> QED BY <3>1, <2>1, <2>3
  <2> PICK k : k = t.array[b][j].key
    OBVIOUS
  <2>5. Standing(t, r) /\ Ahead(t, r) = (KeysFrom(t.array[b], j) \cup LaterKeys(t, b + 1)) \ {k}
    <3>1. MovesTo(t, b, j, r)
      BY <2>2, <2>4 DEF MovesTo
    <3>2. MovedTo(t, b, j, r)
      BY <3>1, <2>2, <2>3, MovedOn
    <3> QED BY <3>2 DEF MovedTo
  <2>6. Ahead(t, i) = KeysFrom(t.array[b], j) \cup LaterKeys(t, b + 1)
    <3>1. RestOf(t.array[b], t.array[b][j].id) = KeysFrom(t.array[b], j)
      BY <2>2, RestAt
    <3>2. i.index = b + 1
      BY <2>1, <2>2
    <3> QED BY <3>1, <3>2, <2>3, <1>2 DEF Ahead
  <2>7. k \in KeysFrom(t.array[b], j)
    <3> PICK n \in Nat : n = Len(t.array[b])
      BY <1>1, <2>2
    <3>1. j \in j .. n
      OBVIOUS
    <3> QED BY <3>1 DEF KeysFrom
  <2>8. KeysAt(t, r.at) = {k}
    <3> PICK e : e = t.array[b][j]
      OBVIOUS
    <3>1. e \in Entries(t) /\ r.at = e.id /\ k = e.key
      BY <2>1, <2>2, <2>3, ListIs
    <3> QED BY <3>1, KeyAt
  <2>9. Takes(t, i, r)
    BY <2>5, <2>6, <2>7, <2>8 DEF Takes
  <2> QED BY <2>1, <2>5, <2>9
<1>3. CASE i.next = NULL /\ ChainsAhead(t, i) = {}
  <2>1. r.on = FALSE
    <3>1. r = [i EXCEPT !.at = NULL, !.on = FALSE, !.index = t.max + 1]
      BY <1>3, SteppedIs
    <3> QED BY <3>1 DEF IterType
  <2>2. \A x \in i.index .. t.max : t.array[x] = << >>
    BY <1>3 DEF ChainsAhead
  <2>3. \A x \in i.index .. t.max : Elements(t.array[x]) = {}
    BY <2>2 DEF Elements
  <2>4. Ahead(t, i) = {}
    BY <2>3, <1>3 DEF Ahead, LaterKeys
  <2> QED BY <2>1, <2>4
<1>4. CASE i.next = NULL /\ ChainsAhead(t, i) # {}
  <2> PICK c : c = FirstChain(t, i)
    OBVIOUS
  <2>1. /\ c \in ChainsAhead(t, i) /\ \A y \in ChainsAhead(t, i) : c <= y
        /\ c \in 0 .. t.max /\ t.array[c] \in Seq(HashEntry) /\ t.array[c] # << >>
        /\ r = [i EXCEPT !.index = c + 1, !.at = t.array[c][1].id,
                         !.next = Successor(t, t.array[c][1].id)]
    BY <1>4, SteppedIs
  <2>2. 1 \in 1 .. Len(t.array[c])
    BY <2>1
  <2>3. /\ r.index = c + 1 /\ r.at = t.array[c][1].id /\ r.next = Successor(t, t.array[c][1].id)
        /\ r.on
    BY <2>1 DEF IterType
  <2>4. r.next = AfterIn(t.array[c], 1)
    BY <2>1, <2>2, <2>3, SuccessorAt
  <2> PICK k : k = t.array[c][1].key
    OBVIOUS
  <2>5. Standing(t, r) /\ Ahead(t, r) = (KeysFrom(t.array[c], 1) \cup LaterKeys(t, c + 1)) \ {k}
    <3>1. MovesTo(t, c, 1, r)
      BY <2>3, <2>4 DEF MovesTo
    <3>2. MovedTo(t, c, 1, r)
      BY <3>1, <2>1, <2>2, MovedOn
    <3> QED BY <3>2 DEF MovedTo
  <2>6. Ahead(t, i) = KeysFrom(t.array[c], 1) \cup LaterKeys(t, c + 1)
    <3>1. \A x \in i.index .. t.max : x < c => Elements(t.array[x]) = {}
      <4> SUFFICES ASSUME NEW x \in i.index .. t.max, x < c PROVE Elements(t.array[x]) = {}
        OBVIOUS
      <4>1. x \notin ChainsAhead(t, i)
        BY <2>1, <1>1
      <4>2. t.array[x] = << >>
        BY <4>1 DEF ChainsAhead
      <4> QED BY <4>2 DEF Elements
    <3>2. c \in i.index .. t.max /\ c + 1 .. t.max \subseteq i.index .. t.max
      BY <2>1, <1>1 DEF ChainsAhead
    <3>3. \A x \in i.index .. t.max : x < c \/ x = c \/ x \in c + 1 .. t.max
      BY <2>1, <1>1
    <3>4. UNION {Elements(t.array[x]) : x \in i.index .. t.max}
             = Elements(t.array[c]) \cup (UNION {Elements(t.array[x]) : x \in c + 1 .. t.max})
      <4> PICK A, B : A = i.index .. t.max /\ B = c + 1 .. t.max
        OBVIOUS
      <4> PICK f : f = [x \in A |-> Elements(t.array[x])]
        OBVIOUS
      <4>1. B \subseteq A /\ c \in A /\ \A x \in A : x = c \/ x \in B \/ f[x] = {}
        BY <3>1, <3>2, <3>3
      <4>2. UNION {f[x] : x \in A} = f[c] \cup (UNION {f[x] : x \in B})
        <5>1. UNION {f[x] : x \in A} \subseteq f[c] \cup (UNION {f[x] : x \in B})
          <6>1. \A x \in A : f[x] \subseteq f[c] \cup (UNION {f[z] : z \in B})
            BY <4>1
          <6> SUFFICES ASSUME NEW y \in UNION {f[x] : x \in A}
                       PROVE  y \in f[c] \cup (UNION {f[x] : x \in B})
            OBVIOUS
          <6>2. PICK x \in A : y \in f[x]
            OBVIOUS
          <6> QED BY <6>1, <6>2
        <5>2. f[c] \cup (UNION {f[x] : x \in B}) \subseteq UNION {f[x] : x \in A}
          BY <4>1
        <5> QED BY <5>1, <5>2
      <4>3. {f[x] : x \in B} = {Elements(t.array[x]) : x \in B}
        BY <4>1
      <4>4. {f[x] : x \in A} = {Elements(t.array[x]) : x \in A} /\ f[c] = Elements(t.array[c])
        BY <4>1
      <4> QED BY <4>2, <4>3, <4>4
    <3>5. {e.key : e \in Elements(t.array[c])} = KeysFrom(t.array[c], 1)
      BY DEF Elements, KeysFrom
    <3> QED BY <3>4, <3>5, <1>4 DEF Ahead, LaterKeys
  <2>7. k \in KeysFrom(t.array[c], 1)
    BY <2>2 DEF KeysFrom
  <2>8. KeysAt(t, r.at) = {k}
    <3> PICK e : e = t.array[c][1]
      OBVIOUS
    <3>1. e \in Entries(t) /\ r.at = e.id /\ k = e.key
      BY <2>1, <2>2, <2>3, ListIs
    <3> QED BY <3>1, KeyAt
  <2>9. Takes(t, i, r)
    BY <2>5, <2>6, <2>7, <2>8 DEF Takes
  <2> QED BY <2>3, <2>5, <2>9
<1> QED BY <1>2, <1>3, <1>4

(* The keys of a list, from its first place on; and of the chains behind.  *)
LEMMA KeysOfList ==
    ASSUME NEW d PROVE KeysFrom(d, 1) = {e.key : e \in Elements(d)}
BY DEF KeysFrom, Elements

(* The keys behind an index are those of the chains from there on.         *)
LEMMA LaterIs ==
    ASSUME NEW t, NEW index
    PROVE  LaterKeys(t, index) = UNION {KeysFrom(t.array[x], 1) : x \in index .. t.max}
<1> PICK A : A = index .. t.max
  OBVIOUS
<1>1. \A x \in A : KeysFrom(t.array[x], 1) = {e.key : e \in Elements(t.array[x])}
  BY KeysOfList
<1>2. {e.key : e \in UNION {Elements(t.array[x]) : x \in A}}
         = UNION {{e.key : e \in Elements(t.array[x])} : x \in A}
  <2> DEFINE el(x) == Elements(t.array[x])
  <2> HIDE DEF el
  <2>1. ASSUME NEW k \in {e.key : e \in UNION {el(x) : x \in A}}
        PROVE  k \in UNION {{e.key : e \in el(x)} : x \in A}
    <3>1. PICK e \in UNION {el(x) : x \in A} : k = e.key
      BY <2>1
    <3>2. PICK x \in A : e \in el(x)
      BY <3>1
    <3>3. k \in {f.key : f \in el(x)}
      BY <3>1, <3>2
    <3> QED BY <3>2, <3>3
  <2>2. ASSUME NEW k \in UNION {{e.key : e \in el(x)} : x \in A}
        PROVE  k \in {e.key : e \in UNION {el(x) : x \in A}}
    <3>1. PICK x \in A : k \in {e.key : e \in el(x)}
      BY <2>2
    <3>2. PICK e \in el(x) : k = e.key
      BY <3>1
    <3>3. e \in UNION {el(y) : y \in A}
      BY <3>1, <3>2
    <3> QED BY <3>2, <3>3
  <2>3. {e.key : e \in UNION {el(x) : x \in A}} = UNION {{e.key : e \in el(x)} : x \in A}
    BY <2>1, <2>2
  <2> QED BY <2>3 DEF el
<1>3. {KeysFrom(t.array[x], 1) : x \in A} = {{e.key : e \in Elements(t.array[x])} : x \in A}
  BY <1>1
<1> QED BY <1>2, <1>3 DEF LaterKeys

(* What a change of one chain does to an iteration that stands in it: keys *)
(* of X may leave and keys of Y may come.                                  *)
ListKept(d, c, id, X, Y) ==
    /\ (\E j \in 1 .. Len(d) : d[j].id = id) => (\E j \in 1 .. Len(c) : c[j].id = id)
    /\ RestOf(d, id) \ X \subseteq RestOf(c, id) /\ RestOf(c, id) \subseteq RestOf(d, id) \cup Y
    /\ KeysFrom(d, 1) \ X \subseteq KeysFrom(c, 1) /\ KeysFrom(c, 1) \subseteq KeysFrom(d, 1) \cup Y

ChainChanged(t, s, b, c) ==
    b \in 0 .. t.max /\ s.max = t.max /\ s.array = [t.array EXCEPT ![b] = c]

AheadKept(t, s, i, X, Y) ==
    /\ Standing(s, i)
    /\ Ahead(t, i) \ X \subseteq Ahead(s, i) /\ Ahead(s, i) \subseteq Ahead(t, i) \cup Y

(* A change of one chain does to an iteration what it does to that chain.  *)
LEMMA ChainKept ==
    ASSUME NEW t, TableSound(t), NEW s, TableSound(s), NEW i, Standing(t, i), NEW b, NEW c,
           ChainChanged(t, s, b, c), NEW X, NEW Y,
           ListKept(t.array[b], c, i.next, X, Y)
    PROVE  AheadKept(t, s, i, X, Y)
<1>1. /\ t.max \in Nat /\ t.array \in [0 .. t.max -> Seq(HashEntry)] /\ b \in 0 .. t.max
      /\ s.max = t.max /\ s.array[b] = c
      /\ \A x \in 0 .. t.max : x # b => s.array[x] = t.array[x]
  BY SoundParts DEF ChainChanged
<1>2. \A x \in 0 .. t.max : /\ KeysFrom(t.array[x], 1) \ X \subseteq KeysFrom(s.array[x], 1)
                            /\ KeysFrom(s.array[x], 1) \subseteq KeysFrom(t.array[x], 1) \cup Y
  BY <1>1 DEF ListKept
<1>3. /\ LaterKeys(t, i.index) = UNION {KeysFrom(t.array[x], 1) : x \in i.index .. t.max}
      /\ LaterKeys(s, i.index) = UNION {KeysFrom(s.array[x], 1) : x \in i.index .. t.max}
  BY <1>1, LaterIs
<1>4. i.index .. t.max \subseteq 0 .. t.max
  BY <1>1 DEF Standing
<1>5. /\ LaterKeys(t, i.index) \ X \subseteq LaterKeys(s, i.index)
      /\ LaterKeys(s, i.index) \subseteq LaterKeys(t, i.index) \cup Y
  <2> PICK A : A = i.index .. t.max
    OBVIOUS
  <2>1. \A x \in A : /\ KeysFrom(t.array[x], 1) \ X \subseteq KeysFrom(s.array[x], 1)
                     /\ KeysFrom(s.array[x], 1) \subseteq KeysFrom(t.array[x], 1) \cup Y
    BY <1>2, <1>4
  <2>2. LaterKeys(t, i.index) \ X \subseteq LaterKeys(s, i.index)
    <3> SUFFICES ASSUME NEW x \in A, NEW k \in KeysFrom(t.array[x], 1), k \notin X
                 PROVE  k \in LaterKeys(s, i.index)
      BY <1>3
    <3> QED BY <2>1, <1>3
  <2>3. LaterKeys(s, i.index) \subseteq LaterKeys(t, i.index) \cup Y
    <3> SUFFICES ASSUME NEW x \in A, NEW k \in KeysFrom(s.array[x], 1), k \notin Y
                 PROVE  k \in LaterKeys(t, i.index)
      BY <1>3
    <3> QED BY <2>1, <1>3
  <2> QED BY <2>2, <2>3
<1>6. CASE i.next = NULL
  <2>1. Ahead(t, i) = LaterKeys(t, i.index) /\ Ahead(s, i) = LaterKeys(s, i.index)
    BY <1>6 DEF Ahead
  <2>2. Standing(s, i)
    BY <1>1, <1>6 DEF Standing
  <2> QED BY <2>1, <2>2, <1>5 DEF AheadKept
<1>7. CASE i.next # NULL
  <2> PICK x : x = i.index - 1
    OBVIOUS
  <2>1. x \in 0 .. t.max /\ \E j \in 1 .. Len(t.array[x]) : t.array[x][j].id = i.next
    BY <1>1, <1>7 DEF Standing
  <2>2. /\ Ahead(t, i) = RestOf(t.array[x], i.next) \cup LaterKeys(t, i.index)
        /\ Ahead(s, i) = RestOf(s.array[x], i.next) \cup LaterKeys(s, i.index)
    BY <1>7 DEF Ahead
  <2>3. /\ RestOf(t.array[x], i.next) \ X \subseteq RestOf(s.array[x], i.next)
        /\ RestOf(s.array[x], i.next) \subseteq RestOf(t.array[x], i.next) \cup Y
        /\ \E j \in 1 .. Len(s.array[x]) : s.array[x][j].id = i.next
    BY <1>1, <2>1 DEF ListKept
  <2>4. Standing(s, i)
    BY <1>1, <1>7, <2>3 DEF Standing
  <2> QED BY <1>5, <2>2, <2>3, <2>4 DEF AheadKept
<1> QED BY <1>6, <1>7

(* A value that is replaced moves no entry.                                *)
LEMMA ReplacedAhead ==
    ASSUME NEW t, TableSound(t), NEW k \in Keys, NEW v \in Vals, NEW i, Standing(t, i)
    PROVE  AheadKept(t, Replaced(t, k, v), i, {}, {})
<1> PICK s : s = Replaced(t, k, v)
  OBVIOUS
<1> PICK b : b = Bucket(t, k)
  OBVIOUS
<1> PICK d : d = t.array[b]
  OBVIOUS
<1> PICK c : c = [j \in DOMAIN d |-> WithVal(d[j], k, v)]
  OBVIOUS
<1>1. s.array = [t.array EXCEPT ![b] = c] /\ s.max = t.max
  BY ReplacedIs
<1>2. b \in 0 .. t.max /\ t.array \in [0 .. t.max -> Seq(HashEntry)] /\ TableSound(s)
  BY SoundParts, BucketIn, ReplacedSound DEF Bucket
<1>3. d \in Seq(HashEntry)
  BY <1>2
<1> PICK n \in Nat : n = Len(d)
  BY <1>3
<1>4. DOMAIN d = 1 .. n /\ \A j \in 1 .. n : d[j] \in HashEntry
  BY <1>3
<1>5. Len(c) = n /\ \A j \in 1 .. n : c[j].id = d[j].id /\ c[j].key = d[j].key
  <2>1. \A j \in 1 .. n : c[j] = WithVal(d[j], k, v)
    BY <1>4
  <2>2. \A j \in 1 .. n : WithVal(d[j], k, v).id = d[j].id /\ WithVal(d[j], k, v).key = d[j].key
                          /\ WithVal(d[j], k, v) \in HashEntry
    BY <1>4, WithValKeeps
  <2>3. c = [j \in 1 .. n |-> WithVal(d[j], k, v)]
    BY <1>4
  <2>4. c \in Seq(HashEntry) /\ Len(c) = n
    BY <2>2, <2>3, SeqDef
  <2> QED BY <2>1, <2>2, <2>4
<1>6. ListKept(d, c, i.next, {}, {})
  <2> PICK id : id = i.next
    OBVIOUS
  <2>0. \A r \in 1 .. n : \A j \in 1 .. r : j \in 1 .. n
    OBVIOUS
  <2>1. RestOf(c, id) \subseteq RestOf(d, id) /\ RestOf(d, id) \subseteq RestOf(c, id)
    <3>1. ASSUME NEW r \in 1 .. n, NEW j \in 1 .. r, c[j].id = id PROVE c[r].key \in RestOf(d, id)
      <4>1. d[j].id = id /\ d[r].key = c[r].key
        BY <3>1, <2>0, <1>5
      <4> QED BY <4>1 DEF RestOf
    <3>2. ASSUME NEW r \in 1 .. n, NEW j \in 1 .. r, d[j].id = id PROVE d[r].key \in RestOf(c, id)
      <4>1. c[j].id = id /\ d[r].key = c[r].key /\ r \in 1 .. Len(c)
        BY <3>2, <2>0, <1>5
      <4> QED BY <4>1 DEF RestOf
    <3>3. ASSUME NEW x \in RestOf(c, id) PROVE x \in RestOf(d, id)
      <4>1. PICK r \in 1 .. n : x = c[r].key /\ \E j \in 1 .. r : c[j].id = id
        BY <3>3, <1>5 DEF RestOf
      <4> QED BY <4>1, <3>1
    <3>4. ASSUME NEW x \in RestOf(d, id) PROVE x \in RestOf(c, id)
      <4>1. PICK r \in 1 .. n : x = d[r].key /\ \E j \in 1 .. r : d[j].id = id
        BY <3>4 DEF RestOf
      <4> QED BY <4>1, <3>2
    <3> QED BY <3>3, <3>4
  <2>2. KeysFrom(c, 1) = KeysFrom(d, 1)
    <3>1. {d[q].key : q \in 1 .. n} = {c[q].key : q \in 1 .. n}
      <4> DEFINE of(q) == d[q].key
      <4>1. \A q \in 1 .. n : c[q].key = of(q)
        BY <1>5
      <4> HIDE DEF of
      <4>2. {of(q) : q \in 1 .. n} = {c[q].key : q \in 1 .. n}
        BY <4>1
      <4> QED BY <4>2 DEF of
    <3> QED BY <3>1, <1>5 DEF KeysFrom
  <2>3. (\E j \in 1 .. Len(d) : d[j].id = i.next) => \E j \in 1 .. Len(c) : c[j].id = i.next
    BY <1>5
  <2> QED BY <2>1, <2>2, <2>3 DEF ListKept
<1>7. ChainChanged(t, s, b, c)
  BY <1>1, <1>2 DEF ChainChanged
<1>8. AheadKept(t, s, i, {}, {})
  BY <1>2, <1>6, <1>7, ChainKept
<1> QED BY <1>8

(* A new entry comes behind its chain.                                     *)
LEMMA AddedAhead ==
    ASSUME NEW t, TableSound(t), NEW k \in Keys, NEW v \in Vals, k \notin KeysOf(t),
           NEW i, Standing(t, i)
    PROVE  AheadKept(t, Added(t, k, v), i, {}, {k})
<1> PICK s : s = Added(t, k, v)
  OBVIOUS
<1> PICK b : b = Bucket(t, k)
  OBVIOUS
<1> PICK d : d = t.array[b]
  OBVIOUS
<1> PICK x : x = NewEntry(t, k, v)
  OBVIOUS
<1> PICK c : c = Append(d, x)
  OBVIOUS
<1>1. s.array = [t.array EXCEPT ![b] = c] /\ s.max = t.max
  BY AddedIs
<1>2. b \in 0 .. t.max /\ t.array \in [0 .. t.max -> Seq(HashEntry)] /\ TableSound(s)
  BY SoundParts, BucketIn, AddedSound DEF Bucket
<1>3. d \in Seq(HashEntry)
  BY <1>2
<1> PICK n \in Nat : n = Len(d)
  BY <1>3
<1>4. Len(c) = n + 1 /\ c[n + 1].key = k /\ \A j \in 1 .. n : c[j] = d[j]
  <2>1. x.key = k
    BY DEF NewEntry
  <2>2. Len(c) = n + 1 /\ c[n + 1] = x /\ \A j \in 1 .. n : c[j] = d[j]
    BY <1>3
  <2> QED BY <2>1, <2>2
<1>5. \A r \in 1 .. n + 1 : r \in 1 .. n \/ r = n + 1
  OBVIOUS
<1>6. \A r \in 1 .. n : r \in 1 .. n + 1 /\ \A j \in 1 .. r : j \in 1 .. n
  OBVIOUS
<1>7. ListKept(d, c, i.next, {}, {k})
  <2> PICK id : id = i.next
    OBVIOUS
  <2>1. RestOf(d, id) \subseteq RestOf(c, id)
    <3> SUFFICES ASSUME NEW r \in 1 .. n, NEW j \in 1 .. r, d[j].id = id
                 PROVE  d[r].key \in RestOf(c, id)
      BY DEF RestOf
    <3>1. j \in 1 .. n /\ r \in 1 .. n + 1
      BY <1>6
    <3>2. c[j].id = id /\ c[r].key = d[r].key
      BY <3>1, <1>4
    <3> QED BY <3>1, <3>2, <1>4 DEF RestOf
  <2>2. RestOf(c, id) \subseteq RestOf(d, id) \cup {k}
    <3> SUFFICES ASSUME NEW r \in 1 .. n + 1, NEW j \in 1 .. r, c[j].id = id
                 PROVE  c[r].key \in RestOf(d, id) \cup {k}
      BY <1>4 DEF RestOf
    <3>1. CASE r = n + 1
      BY <3>1, <1>4
    <3>2. CASE r \in 1 .. n
      <4>1. j \in 1 .. n
        BY <3>2, <1>6
      <4>2. d[j].id = id /\ c[r].key = d[r].key
        BY <4>1, <3>2, <1>4
      <4> QED BY <3>2, <4>2 DEF RestOf
    <3> QED BY <3>1, <3>2, <1>5
  <2>3. KeysFrom(d, 1) \subseteq KeysFrom(c, 1) /\ KeysFrom(c, 1) \subseteq KeysFrom(d, 1) \cup {k}
    BY <1>4, <1>5, <1>6 DEF KeysFrom
  <2>4. (\E j \in 1 .. Len(d) : d[j].id = id) => \E j \in 1 .. Len(c) : c[j].id = id
    BY <1>4, <1>6
  <2> QED BY <2>1, <2>2, <2>3, <2>4 DEF ListKept
<1>8. ChainChanged(t, s, b, c)
  BY <1>1, <1>2 DEF ChainChanged
<1>9. AheadKept(t, s, i, {}, {k})
  BY <1>2, <1>7, <1>8, ChainKept
<1> QED BY <1>9

(* The entry that goes is not the one that the iteration holds.            *)
LEMMA DeletedAhead ==
    ASSUME NEW t, TableSound(t), NEW k \in KeysOf(t), NEW i, Standing(t, i),
           EntryOf(t, k).id # i.next
    PROVE  AheadKept(t, Deleted(t, k), i, {k}, {})
<1> PICK s : s = Deleted(t, k)
  OBVIOUS
<1> PICK b : b = Bucket(t, k)
  OBVIOUS
<1> PICK d : d = t.array[b]
  OBVIOUS
<1>1. s.max = t.max /\ \E p \in 1 .. Len(d) : /\ d[p] = EntryOf(t, k)
                                             /\ s.array = [t.array EXCEPT ![b] = WithoutPlace(d, p)]
  BY DeletedIs
<1>2. PICK p \in 1 .. Len(d) : d[p] = EntryOf(t, k) /\ s.array = [t.array EXCEPT ![b] = WithoutPlace(d, p)]
  BY <1>1
<1> PICK c : c = WithoutPlace(d, p)
  OBVIOUS
<1>3. b \in 0 .. t.max /\ t.array \in [0 .. t.max -> Seq(HashEntry)] /\ TableSound(s)
  BY SoundParts, EntryFound, DeletedSound
<1>4. d \in Seq(HashEntry)
  BY <1>3
<1> PICK n \in Nat : n = Len(d)
  BY <1>4
<1>5. p \in 1 .. n /\ n - 1 \in Nat
  BY <1>2
<1>6. Len(c) = n - 1 /\ \A j \in 1 .. n - 1 : c[j] = IF j < p THEN d[j] ELSE d[j + 1]
  <2>1. p \in 1 .. Len(d)
    BY <1>2
  <2>2. /\ c \in Seq(HashEntry) /\ Len(c) = Len(d) - 1
        /\ \A j \in 1 .. Len(c) : c[j] = IF j < p THEN d[j] ELSE d[j + 1]
    BY <2>1, <1>4, TakenPlaces
  <2> QED BY <2>2
<1>7. d[p].id # i.next /\ d[p].key = k
  BY <1>2, EntryFound
<1> DEFINE from(j) == IF j < p THEN j ELSE j + 1
           to(j) == IF j < p THEN j ELSE j - 1
<1>8. \A j \in 1 .. n - 1 : from(j) \in 1 .. n /\ c[j] = d[from(j)]
  BY <1>5, <1>6
<1>9. \A r \in 1 .. n - 1 : \A j \in 1 .. r : j \in 1 .. n - 1 /\ from(j) \in 1 .. from(r)
  BY <1>5
<1>10. \A j \in 1 .. n : j # p => to(j) \in 1 .. n - 1 /\ c[to(j)] = d[j]
  <2> SUFFICES ASSUME NEW j \in 1 .. n, j # p PROVE to(j) \in 1 .. n - 1 /\ c[to(j)] = d[j]
    OBVIOUS
  <2>1. to(j) \in 1 .. n - 1 /\ from(to(j)) = j
    BY <1>5
  <2> HIDE DEF from, to
  <2> QED BY <2>1, <1>8
<1>11. \A r \in 1 .. n : \A j \in 1 .. r : j \in 1 .. n /\ (j # p /\ r # p => to(j) \in 1 .. to(r))
  BY <1>5
<1> HIDE DEF from, to
<1>12. ListKept(d, c, i.next, {k}, {})
  <2> PICK id : id = i.next
    OBVIOUS
  <2>1. RestOf(c, id) \subseteq RestOf(d, id)
    <3>1. ASSUME NEW r \in 1 .. n - 1, NEW j \in 1 .. r, c[j].id = id PROVE c[r].key \in RestOf(d, id)
      <4>1. d[from(j)].id = id /\ d[from(r)].key = c[r].key /\ from(r) \in 1 .. n /\ from(j) \in 1 .. from(r)
        BY <3>1, <1>8, <1>9
      <4> QED BY <4>1 DEF RestOf
    <3>2. ASSUME NEW x \in RestOf(c, id) PROVE x \in RestOf(d, id)
      <4>1. PICK r \in 1 .. n - 1 : x = c[r].key /\ \E j \in 1 .. r : c[j].id = id
        BY <3>2, <1>6 DEF RestOf
      <4> QED BY <4>1, <3>1
    <3> QED BY <3>2
  <2>2. RestOf(d, id) \ {k} \subseteq RestOf(c, id)
    <3>1. ASSUME NEW r \in 1 .. n, NEW j \in 1 .. r, d[j].id = id, d[r].key # k
          PROVE  d[r].key \in RestOf(c, id)
      <4>1. j # p /\ r # p /\ j \in 1 .. n
        BY <3>1, <1>7, <1>11
      <4>2. /\ c[to(j)].id = id /\ d[r].key = c[to(r)].key /\ to(r) \in 1 .. Len(c)
            /\ to(j) \in 1 .. to(r)
        BY <3>1, <4>1, <1>6, <1>10, <1>11
      <4> QED BY <4>2 DEF RestOf
    <3>2. ASSUME NEW x \in RestOf(d, id) \ {k} PROVE x \in RestOf(c, id)
      <4>1. PICK r \in 1 .. n : x = d[r].key /\ \E j \in 1 .. r : d[j].id = id
        BY <3>2 DEF RestOf
      <4> QED BY <4>1, <3>1, <3>2
    <3> QED BY <3>2
  <2>3. KeysFrom(c, 1) \subseteq KeysFrom(d, 1)
    BY <1>6, <1>8 DEF KeysFrom
  <2>4. KeysFrom(d, 1) \ {k} \subseteq KeysFrom(c, 1)
    <3>1. \A r \in 1 .. n : d[r].key # k => to(r) \in 1 .. Len(c) /\ c[to(r)].key = d[r].key
      BY <1>6, <1>7, <1>10
    <3> QED BY <3>1 DEF KeysFrom
  <2>5. (\E j \in 1 .. Len(d) : d[j].id = id) => \E j \in 1 .. Len(c) : c[j].id = id
    <3> SUFFICES ASSUME NEW j \in 1 .. n, d[j].id = id PROVE \E q \in 1 .. Len(c) : c[q].id = id
      OBVIOUS
    <3>1. to(j) \in 1 .. Len(c) /\ c[to(j)].id = id
      BY <1>6, <1>7, <1>10
    <3> QED BY <3>1
  <2> QED BY <2>1, <2>2, <2>3, <2>4, <2>5 DEF ListKept
<1>13. ChainChanged(t, s, b, c)
  BY <1>1, <1>2, <1>3 DEF ChainChanged
<1>14. AheadKept(t, s, i, {k}, {})
  BY <1>3, <1>12, <1>13, ChainKept
<1> QED BY <1>14

(* What a caller may rely on is right: of a calm iteration, the keys it    *)
(* has still to see are ahead, and those it has seen are not.              *)
ViewType == [todo : SUBSET Keys, seen : SUBSET Keys, calm : BOOLEAN, wrong : BOOLEAN]

CalmSound(t, i, todo, seen) ==
    /\ Standing(t, i)
    /\ todo \subseteq Ahead(t, i) /\ seen \cap Ahead(t, i) = {} /\ seen \subseteq KeysOf(t)

ViewSound(t, i, w) ==
    /\ i \in IterType /\ i.next \in Ids(t) \cup {NULL}
    /\ w \in ViewType /\ ~w.wrong
    /\ ~i.on => w = NoView
    /\ ~w.calm => w.todo = {}
    /\ i.on /\ w.calm => CalmSound(t, i, w.todo, w.seen)

HashInv ==
    /\ TableSound(table)
    /\ crashed \in BOOLEAN /\ (~crashed => TableFit(table))
    /\ ViewSound(table, it, view)

(* An iteration that is stirred promises nothing.                          *)
LEMMA Stirs ==
    ASSUME NEW w, w = [NoView EXCEPT !.calm = FALSE]
    PROVE  w \in ViewType /\ ~w.wrong /\ w.todo = {} /\ ~w.calm
BY DEF NoView, ViewType

(* Without an iteration there is nothing to see.                           *)
LEMMA NothingSeen == NoView \in ViewType /\ NoView.wrong = FALSE /\ NoView.calm = TRUE
                     /\ NoView.todo = {} /\ NoView.seen = {}
BY DEF NoView, ViewType

(* Any table is right for a caller that does not iterate.                  *)
LEMMA NobodyIterates ==
    ASSUME NEW t PROVE ViewSound(t, NoIt, NoView)
<1>1. NoIt \in IterType /\ ~NoIt.on /\ NoIt.next = NULL
  BY DEF NoIt, IterType, NULL
<1> QED BY <1>1, NothingSeen DEF ViewSound

(* A walk of the table leaves an iterator where it was, or at the end.     *)
LEMMA WalkedKeeps ==
    ASSUME NEW t, t.max \in Nat, NEW i \in IterType, NEW j, j = Walked(t, i)
    PROVE  j \in IterType /\ j.on = i.on /\ j.next \in {i.next, NULL} /\ (~i.internal => j = i)
<1>1. CASE i.internal
  <2> PICK n \in Nat : n = t.max + 1
    OBVIOUS
  <2> PICK z \in Nat : z = NULL
    BY DEF NULL
  <2>1. j = [i EXCEPT !.at = z, !.next = z, !.index = n]
    BY <1>1 DEF Walked
  <2>2. j \in IterType
    BY <2>1 DEF IterType
  <2>3. j.on = i.on /\ j.next = z
    BY <2>1 DEF IterType
  <2> QED BY <1>1, <2>2, <2>3
<1>2. CASE ~i.internal
  BY <1>2 DEF Walked
<1> QED BY <1>1, <1>2

(* The iteration stands on whatever a call did to the table, if it stirred *)
(* the iteration.                                                          *)
LEMMA StirredSound ==
    ASSUME NEW t, TableSound(t), NEW i, NEW w, ViewSound(t, i, w), NEW s, Ids(t) \subseteq Ids(s),
           NEW j \in IterType, j.on = i.on, j.next \in {i.next, NULL}, NEW x,
           x = IF i.on THEN [NoView EXCEPT !.calm = FALSE] ELSE w
    PROVE  ViewSound(s, j, x)
<1>1. j.next \in Ids(s) \cup {NULL}
  BY DEF ViewSound
<1>2. CASE i.on
  <2>1. x \in ViewType /\ ~x.wrong /\ x.todo = {} /\ ~x.calm
    BY <1>2, Stirs
  <2> QED BY <1>1, <1>2, <2>1 DEF ViewSound
<1>3. CASE ~i.on
  BY <1>1, <1>3, NothingSeen DEF ViewSound
<1> QED BY <1>2, <1>3

(* The keys of a table after a call that sets one.                         *)
LEMMA KeysPut ==
    ASSUME NEW t, TableSound(t), NEW k \in Keys, NEW v \in Vals, NEW s,
           Entries(s) = PutEntries(t, k, v)
    PROVE  KeysOf(s) = KeysOf(t) \cup {k}
<1>0. Entries(t) \subseteq HashEntry
  BY SoundParts
<1>1. CASE k \in KeysOf(t)
  <2>1. \A e \in Entries(t) : WithVal(e, k, v).key = e.key
    BY <1>0, WithValKeeps
  <2>2. Entries(s) = {WithVal(e, k, v) : e \in Entries(t)}
    BY <1>1 DEF PutEntries
  <2>3. {e.key : e \in Entries(s)} = {e.key : e \in Entries(t)}
    BY <2>1, <2>2
  <2> QED BY <1>1, <2>3 DEF KeysOf
<1>2. CASE k \notin KeysOf(t)
  <2>1. NewEntry(t, k, v).key = k
    BY DEF NewEntry
  <2>2. Entries(s) = Entries(t) \cup {NewEntry(t, k, v)}
    BY <1>2 DEF PutEntries
  <2> QED BY <2>1, <2>2 DEF KeysOf
<1> QED BY <1>1, <1>2

(* scl_hash_set during an iteration keeps what the caller may rely on.     *)
LEMMA PutView ==
    ASSUME NEW t, TableFit(t), NEW k \in Keys, NEW v \in Vals, NEW i, NEW w, ViewSound(t, i, w),
           NEW s, s = Put(t, k, v),
           NEW j, j = IF s.max # t.max THEN Walked(t, i) ELSE i,
           NEW x, x = IF i.on /\ s.max # t.max THEN [NoView EXCEPT !.calm = FALSE] ELSE w
    PROVE  ViewSound(s, j, x)
<1>1. /\ TableSound(t) /\ TableSound(s) /\ Ids(t) \subseteq Ids(s)
      /\ Entries(s) = PutEntries(t, k, v)
      /\ s.max = t.max => s = IF k \in KeysOf(t) THEN Replaced(t, k, v) ELSE Added(t, k, v)
  BY PutSound DEF TableFit
<1>2. i \in IterType /\ t.max \in Nat
  BY <1>1, SoundParts DEF ViewSound
<1>3. CASE s.max # t.max
  <2>1. j \in IterType /\ j.on = i.on /\ j.next \in {i.next, NULL}
    BY <1>2, <1>3, WalkedKeeps
  <2> QED BY <1>1, <1>3, <2>1, StirredSound
<1>4. CASE s.max = t.max
  <2>1. j = i /\ x = w
    BY <1>4
  <2>2. CASE i.on /\ w.calm
    <3>1. Standing(t, i) /\ w.todo \subseteq Ahead(t, i) /\ w.seen \cap Ahead(t, i) = {}
          /\ w.seen \subseteq KeysOf(t)
      BY <2>2 DEF ViewSound, CalmSound
    <3>2. KeysOf(s) = KeysOf(t) \cup {k}
      BY <1>1, KeysPut
    <3>3. CASE k \in KeysOf(t)
      <4>1. AheadKept(t, Replaced(t, k, v), i, {}, {})
        BY <1>1, <3>1, ReplacedAhead
      <4>2. Standing(s, i) /\ Ahead(s, i) = Ahead(t, i)
        BY <1>1, <1>4, <3>3, <4>1 DEF AheadKept
      <4>3. CalmSound(s, i, w.todo, w.seen)
        BY <3>1, <3>2, <4>2 DEF CalmSound
      <4> QED BY <1>1, <2>1, <2>2, <4>3 DEF ViewSound
    <3>4. CASE k \notin KeysOf(t)
      <4>1. AheadKept(t, Added(t, k, v), i, {}, {k})
        BY <1>1, <3>1, <3>4, AddedAhead
      <4>2. /\ Standing(s, i) /\ Ahead(t, i) \subseteq Ahead(s, i)
            /\ Ahead(s, i) \subseteq Ahead(t, i) \cup {k}
        BY <1>1, <1>4, <3>4, <4>1 DEF AheadKept
      <4>3. CalmSound(s, i, w.todo, w.seen)
        BY <3>1, <3>2, <3>4, <4>2 DEF CalmSound
      <4> QED BY <1>1, <2>1, <2>2, <4>3 DEF ViewSound
    <3> QED BY <3>3, <3>4
  <2>3. CASE ~(i.on /\ w.calm)
    BY <1>1, <2>1, <2>3 DEF ViewSound
  <2> QED BY <2>2, <2>3
<1> QED BY <1>3, <1>4

(* A deleted key is gone, and no other.                                    *)
LEMMA KeysDeleted ==
    ASSUME NEW t, TableSound(t), NEW k \in KeysOf(t)
    PROVE  KeysOf(Deleted(t, k)) = KeysOf(t) \ {k}
<1>1. /\ Entries(Deleted(t, k)) = Entries(t) \ {EntryOf(t, k)}
      /\ EntryOf(t, k).key = k /\ \A e \in Entries(t) : e.key = k => e = EntryOf(t, k)
  BY DeletedSound, EntryFound
<1> QED BY <1>1 DEF KeysOf

(* scl_hash_set of NULL during an iteration keeps what the caller may rely *)
(* on.                                                                     *)
LEMMA DeletedView ==
    ASSUME NEW t, TableSound(t), NEW k \in KeysOf(t), NEW i, NEW w, ViewSound(t, i, w),
           NEW y, y = (IF i.on /\ EntryOf(t, k).id = i.next THEN [NoView EXCEPT !.calm = FALSE] ELSE w),
           NEW x, x = [y EXCEPT !.todo = @ \ {k}, !.seen = @ \ {k}]
    PROVE  ViewSound(Deleted(t, k), i, x)
<1>1. TableSound(Deleted(t, k)) /\ Ids(Deleted(t, k)) = Ids(t) /\ KeysOf(Deleted(t, k)) = KeysOf(t) \ {k}
  BY DeletedSound, KeysDeleted
<1>2. y \in ViewType /\ ~y.wrong /\ (~i.on => y = NoView) /\ (~y.calm => y.todo = {})
  <2>1. CASE i.on /\ EntryOf(t, k).id = i.next
    BY <2>1, Stirs
  <2>2. CASE ~(i.on /\ EntryOf(t, k).id = i.next)
    BY <2>2 DEF ViewSound
  <2> QED BY <2>1, <2>2
<1>3. /\ x \in ViewType /\ ~x.wrong /\ x.calm = y.calm
      /\ x.todo = y.todo \ {k} /\ x.seen = y.seen \ {k}
  <2> PICK a \in SUBSET Keys, b \in SUBSET Keys : a = y.todo \ {k} /\ b = y.seen \ {k}
    BY <1>2 DEF ViewType
  <2>1. x = [y EXCEPT !.todo = a, !.seen = b]
    BY <1>2 DEF ViewType
  <2> QED BY <1>2, <2>1 DEF ViewType
<1>4. ~i.on => x = NoView
  <2> SUFFICES ASSUME ~i.on PROVE x = NoView
    OBVIOUS
  <2>1. y = NoView
    BY <1>2
  <2>2. y.todo \ {k} = {} /\ y.seen \ {k} = {}
    BY <2>1, NothingSeen
  <2>3. x = [NoView EXCEPT !.todo = {}, !.seen = {}]
    BY <2>1, <2>2
  <2> QED BY <2>3 DEF NoView
<1>5. i.on /\ x.calm => CalmSound(Deleted(t, k), i, x.todo, x.seen)
  <2> SUFFICES ASSUME i.on, x.calm PROVE CalmSound(Deleted(t, k), i, x.todo, x.seen)
    OBVIOUS
  <2>1. EntryOf(t, k).id # i.next /\ y = w
    BY <1>3, Stirs
  <2>2. /\ Standing(t, i) /\ y.todo \subseteq Ahead(t, i) /\ y.seen \cap Ahead(t, i) = {}
        /\ y.seen \subseteq KeysOf(t)
    BY <1>3, <2>1 DEF ViewSound, CalmSound
  <2>3. AheadKept(t, Deleted(t, k), i, {k}, {})
    BY <2>1, <2>2, DeletedAhead
  <2>4. /\ Standing(Deleted(t, k), i) /\ Ahead(t, i) \ {k} \subseteq Ahead(Deleted(t, k), i)
        /\ Ahead(Deleted(t, k), i) \subseteq Ahead(t, i)
    BY <2>3 DEF AheadKept
  <2> QED BY <1>1, <1>3, <2>2, <2>4 DEF CalmSound
<1>6. ~x.calm => x.todo = {}
  BY <1>2, <1>3
<1> QED BY <1>1, <1>3, <1>4, <1>5, <1>6 DEF ViewSound

(* scl_hash_clear during an iteration keeps what the caller may rely on.   *)
LEMMA ClearedView ==
    ASSUME NEW t, TableSound(t), NEW i, NEW w, ViewSound(t, i, w),
           NEW j, j = Walked(t, i),
           NEW x, x = IF i.on THEN [NoView EXCEPT !.calm = FALSE] ELSE w
    PROVE  ViewSound(Cleared(t), j, x)
<1>1. i \in IterType /\ t.max \in Nat
  BY SoundParts DEF ViewSound
<1>2. j \in IterType /\ j.on = i.on /\ j.next \in {i.next, NULL}
  BY <1>1, WalkedKeeps
<1>3. Ids(t) \subseteq Ids(Cleared(t))
  BY ClearedSound
<1> QED BY <1>2, <1>3, StirredSound

(* What the caller of an iteration learns from the entry it is given.      *)
NextView(t, i, w, todo, seen) ==
    IF ~i.on THEN [NoView EXCEPT !.wrong = todo # {}]
    ELSE IF ~w.calm THEN w
    ELSE [todo |-> todo \ KeysAt(t, i.at), seen |-> seen \cup KeysAt(t, i.at), calm |-> TRUE,
          wrong |-> KeysAt(t, i.at) = {} \/ KeysAt(t, i.at) \subseteq seen]

(* A step of an iteration keeps what its caller may rely on.               *)
LEMMA StepView ==
    ASSUME NEW t, TableSound(t), NEW i \in IterType, i.on, i.next \in Ids(t) \cup {NULL},
           NEW w \in ViewType, ~w.wrong, w.calm \/ w.todo = {},
           NEW todo \in SUBSET Keys, NEW seen \in SUBSET Keys,
           w.calm \/ todo # {} => CalmSound(t, i, todo, seen),
           NEW r, r = Stepped(t, i),
           NEW j, j = IF r.on THEN r ELSE NoIt,
           NEW x, x = NextView(t, r, w, todo, seen)
    PROVE  ViewSound(t, j, x)
<1>1. r \in IterType /\ r.next \in Ids(t) \cup {NULL}
  BY SteppedTyped
<1>2. CASE ~r.on
  <2>1. todo = {}
    <3> SUFFICES ASSUME todo # {} PROVE FALSE
      OBVIOUS
    <3>1. Standing(t, i) /\ todo \subseteq Ahead(t, i)
      BY DEF CalmSound
    <3>2. Ahead(t, i) = {}
      BY <1>2, <3>1, SteppedSound
    <3> QED BY <3>1, <3>2
  <2>2. x = [NoView EXCEPT !.wrong = FALSE]
    BY <1>2, <2>1 DEF NextView
  <2>3. x = NoView
    BY <2>2 DEF NoView
  <2> QED BY <1>2, <2>3, NobodyIterates
<1>3. CASE r.on /\ ~w.calm
  <2>1. j = r /\ x = w
    BY <1>3 DEF NextView
  <2> QED BY <1>1, <1>3, <2>1 DEF ViewSound
<1>4. CASE r.on /\ w.calm
  <2>1. Standing(t, i) /\ todo \subseteq Ahead(t, i) /\ seen \cap Ahead(t, i) = {} /\ seen \subseteq KeysOf(t)
    BY <1>4 DEF CalmSound
  <2>2. Standing(t, r) /\ Takes(t, i, r)
    BY <1>4, <2>1, SteppedSound
  <2>3. PICK k \in Ahead(t, i) : KeysAt(t, r.at) = {k} /\ Ahead(t, r) = Ahead(t, i) \ {k}
    BY <2>2 DEF Takes
  <2>4. k \in KeysOf(t) /\ k \in Keys
    <3>1. KeysAt(t, r.at) \subseteq KeysOf(t)
      BY DEF KeysAt, KeysOf
    <3>2. KeysOf(t) \subseteq Keys
      BY SoundParts DEF KeysOf, HashEntry
    <3> QED BY <2>3, <3>1, <3>2
  <2>5. x = [todo |-> todo \ {k}, seen |-> seen \cup {k}, calm |-> TRUE, wrong |-> {k} = {} \/ {k} \subseteq seen]
    BY <1>4, <2>3 DEF NextView
  <2>6. ~({k} = {} \/ {k} \subseteq seen)
    BY <2>1, <2>3
  <2>7. x \in ViewType /\ ~x.wrong /\ x.calm /\ x.todo = todo \ {k} /\ x.seen = seen \cup {k}
    <3> PICK a \in SUBSET Keys, b \in SUBSET Keys : a = todo \ {k} /\ b = seen \cup {k}
      BY <2>4
    <3>1. x = [todo |-> a, seen |-> b, calm |-> TRUE, wrong |-> FALSE]
      BY <2>5, <2>6
    <3> QED BY <3>1 DEF ViewType
  <2>8. CalmSound(t, r, x.todo, x.seen)
    BY <2>1, <2>2, <2>3, <2>4, <2>7 DEF CalmSound
  <2> QED BY <1>1, <1>4, <2>7, <2>8 DEF ViewSound
<1> QED BY <1>2, <1>3, <1>4

(* An iteration begins with every key ahead.                               *)
Starting(internal) == [NoIt EXCEPT !.on = TRUE, !.internal = internal]

(* Before its first step an iteration has every key ahead.                 *)
LEMMA StartsSound ==
    ASSUME NEW t, TableSound(t), NEW internal \in BOOLEAN, NEW i, i = Starting(internal)
    PROVE  /\ i \in IterType /\ i.on /\ i.next = NULL
           /\ CalmSound(t, i, KeysOf(t), {}) /\ KeysOf(t) \in SUBSET Keys
<1>1. i \in IterType /\ i.on /\ i.next = NULL /\ i.index = 0
  BY DEF Starting, NoIt, IterType, NULL
<1>2. t.max \in Nat /\ Entries(t) = AllOf(t.max, t.array) /\ Entries(t) \subseteq HashEntry
  BY SoundParts
<1>3. Standing(t, i)
  BY <1>1, <1>2 DEF Standing
<1>4. Ahead(t, i) = KeysOf(t)
  BY <1>1, <1>2 DEF Ahead, LaterKeys, AllOf, KeysOf
<1>5. KeysOf(t) \subseteq Keys
  BY <1>2 DEF KeysOf, HashEntry
<1> QED BY <1>1, <1>3, <1>4, <1>5 DEF CalmSound
-----------------------------------------------------------------------------
(* The invariant holds of a new table.                                     *)
LEMMA HashInvInit == Init => HashInv
<1> SUFFICES ASSUME Init PROVE HashInv
  OBVIOUS
<1>1. table = Empty /\ it = NoIt /\ view = NoView /\ crashed = FALSE
  BY DEF Init
<1> QED BY <1>1, EmptyFit, NobodyIterates DEF HashInv, TableFit

(* scl_hash_set keeps the invariant.                                       *)
LEMMA SetKeeps ==
    ASSUME HashInv, ~crashed, NEW k \in Keys, NEW v \in Vals, scl_hash_set(k, v), UNCHANGED crashed
    PROVE  HashInv'
<1>1. TableFit(table) /\ ViewSound(table, it, view)
  BY DEF HashInv
<1>2. TableFit(table')
  BY <1>1, PutSound DEF scl_hash_set
<1>3. ViewSound(table', it', view')
  <2>1. table' = Put(table, k, v)
    BY DEF scl_hash_set
  <2>2. it' = IF table'.max # table.max THEN Walked(table, it) ELSE it
    BY DEF scl_hash_set
  <2>3. view' = IF it.on /\ table'.max # table.max THEN [NoView EXCEPT !.calm = FALSE] ELSE view
    BY DEF scl_hash_set, Stirred
  <2> QED BY <1>1, <2>1, <2>2, <2>3, PutView
<1>4. crashed' = FALSE
  BY DEF HashInv
<1> QED BY <1>2, <1>3, <1>4 DEF HashInv, TableFit

(* scl_hash_set of NULL keeps the invariant.                               *)
LEMMA DeleteKeeps ==
    ASSUME HashInv, ~crashed, NEW k \in Keys, scl_hash_delete(k), UNCHANGED crashed
    PROVE  HashInv'
<1>1. TableFit(table) /\ TableSound(table) /\ ViewSound(table, it, view) /\ k \in KeysOf(table)
  BY DEF HashInv, scl_hash_delete
<1>2. TableFit(table')
  <2>1. /\ TableSound(table') /\ table'.max = table.max /\ table'.count = table.count - 1
    BY <1>1, DeletedSound DEF scl_hash_delete
  <2>2. table.max \in Nat /\ table.count \in Nat /\ table.count <= table.max
    BY <1>1, SoundParts DEF TableFit
  <2> QED BY <2>1, <2>2 DEF TableFit
<1>3. ViewSound(table', it', view')
  <2> PICK y : y = IF it.on /\ EntryOf(table, k).id = it.next THEN [NoView EXCEPT !.calm = FALSE] ELSE view
    OBVIOUS
  <2>1. table' = Deleted(table, k) /\ it' = it
    BY DEF scl_hash_delete
  <2>2. view' = [y EXCEPT !.todo = @ \ {k}, !.seen = @ \ {k}]
    BY DEF scl_hash_delete, Stirred
  <2> QED BY <1>1, <2>1, <2>2, DeletedView
<1>4. crashed' = FALSE
  BY DEF HashInv
<1> QED BY <1>2, <1>3, <1>4 DEF HashInv, TableFit

(* scl_hash_clear keeps the invariant.                                     *)
LEMMA ClearKeeps ==
    ASSUME HashInv, ~crashed, scl_hash_clear, UNCHANGED crashed
    PROVE  HashInv'
<1>1. TableSound(table) /\ ViewSound(table, it, view)
  BY DEF HashInv
<1>2. TableFit(table')
  BY <1>1, ClearedSound, SoundParts DEF scl_hash_clear, TableFit
<1>3. ViewSound(table', it', view')
  <2>1. table' = Cleared(table) /\ it' = Walked(table, it)
    BY DEF scl_hash_clear
  <2>2. view' = IF it.on THEN [NoView EXCEPT !.calm = FALSE] ELSE view
    BY DEF scl_hash_clear, Stirred
  <2> QED BY <1>1, <2>1, <2>2, ClearedView
<1>4. crashed' = FALSE
  BY DEF HashInv
<1> QED BY <1>2, <1>3, <1>4 DEF HashInv, TableFit

(* What an iteration returns, in terms of the entry that it is at.         *)
LEMMA ReturnIs ==
    ASSUME NEW i, NEW todo, NEW seen, Return(i, todo, seen)
    PROVE  /\ it' = IF i.on THEN i ELSE NoIt
           /\ view' = NextView(table, i, view, todo, seen)
BY DEF Return, NextView, KeysAt

(* scl_hash_first keeps the invariant.                                     *)
LEMMA FirstKeeps ==
    ASSUME HashInv, ~crashed, NEW internal \in BOOLEAN, scl_hash_first(internal), UNCHANGED crashed
    PROVE  HashInv'
<1> PICK i : i = Starting(internal)
  OBVIOUS
<1>1. TableSound(table) /\ ViewSound(table, it, view)
  BY DEF HashInv
<1>2. /\ i \in IterType /\ i.on /\ i.next = NULL
      /\ CalmSound(table, i, KeysOf(table), {}) /\ KeysOf(table) \in SUBSET Keys
  BY <1>1, StartsSound
<1>3. Return(Stepped(table, i), KeysOf(table), {}) /\ table' = table
  BY DEF scl_hash_first, Starting
<1>4. view \in ViewType /\ ~view.wrong /\ (view.calm \/ view.todo = {})
  BY <1>1 DEF ViewSound
<1>5. ViewSound(table, it', view')
  <2> PICK r : r = Stepped(table, i)
    OBVIOUS
  <2>1. /\ it' = IF r.on THEN r ELSE NoIt
        /\ view' = NextView(table, r, view, KeysOf(table), {})
    BY <1>3, ReturnIs
  <2>2. {} \in SUBSET Keys
    OBVIOUS
  <2> QED BY <1>1, <1>2, <1>4, <2>1, <2>2, StepView
<1> QED BY <1>3, <1>5 DEF HashInv, TableFit

(* scl_hash_next keeps the invariant.                                      *)
LEMMA NextKeeps ==
    ASSUME HashInv, ~crashed, scl_hash_next, UNCHANGED crashed
    PROVE  HashInv'
<1>1. TableSound(table) /\ ViewSound(table, it, view) /\ it.on
  BY DEF HashInv, scl_hash_next
<1>2. it \in IterType /\ it.next \in Ids(table) \cup {NULL}
  BY <1>1 DEF ViewSound
<1>3. Return(Stepped(table, it), view.todo, view.seen) /\ table' = table
  BY DEF scl_hash_next
<1>4. /\ view \in ViewType /\ ~view.wrong /\ (view.calm \/ view.todo = {})
      /\ view.todo \in SUBSET Keys /\ view.seen \in SUBSET Keys
  BY <1>1 DEF ViewSound, ViewType
<1>5. view.calm \/ view.todo # {} => CalmSound(table, it, view.todo, view.seen)
  BY <1>1, <1>4 DEF ViewSound
<1>6. ViewSound(table, it', view')
  <2> PICK r : r = Stepped(table, it)
    OBVIOUS
  <2> PICK todo, seen : todo = view.todo /\ seen = view.seen
    OBVIOUS
  <2>1. /\ it' = IF r.on THEN r ELSE NoIt
        /\ view' = NextView(table, r, view, todo, seen)
    BY <1>3, ReturnIs
  <2> QED BY <1>1, <1>2, <1>4, <1>5, <2>1, StepView
<1> QED BY <1>3, <1>6 DEF HashInv, TableFit

(* scl_hash_copy keeps the invariant.                                      *)
LEMMA CopyKeeps ==
    ASSUME HashInv, ~crashed, scl_hash_copy, UNCHANGED crashed
    PROVE  HashInv'
<1>1. TableFit(table) /\ TableSound(table)
  BY DEF HashInv
<1>2. TableSound(table') /\ table'.max = table.max /\ table'.count = table.count
  BY <1>1, CopiedSound DEF scl_hash_copy
<1>3. it' = NoIt /\ view' = NoView
  BY DEF scl_hash_copy
<1>4. ViewSound(table', it', view')
  BY <1>3, NobodyIterates
<1> QED BY <1>1, <1>2, <1>4 DEF HashInv, TableFit

(* scl_hash_merge keeps the invariant.                                     *)
LEMMA MergeKeeps ==
    ASSUME HashInv, ~crashed, scl_hash_merge, UNCHANGED crashed
    PROVE  HashInv'
<1>1. TableFit(table)
  BY DEF HashInv
<1>2. PICK overlay \in MadeTables, m \in Vals \cup {NULL} : table' = Merged(table, overlay, m)
  BY DEF scl_hash_merge
<1>3. PICK pairs \in Overlays : overlay = Made(pairs)
  BY <1>2 DEF MadeTables
<1>4. TableFit(overlay)
  BY <1>3, HashAssumption, MadeFit
<1>5. TableFit(table')
  BY <1>1, <1>2, <1>4, MergedSound
<1>6. it' = NoIt /\ view' = NoView
  BY DEF scl_hash_merge
<1>7. ViewSound(table', it', view')
  BY <1>6, NobodyIterates
<1> QED BY <1>5, <1>7 DEF HashInv, TableFit

(* A call that fails for want of memory keeps what is left of the          *)
(* invariant.                                                              *)
LEMMA PoolKeeps ==
    ASSUME HashInv, ~crashed, PoolFails
    PROVE  HashInv'
<1>1. TableSound(table)
  BY DEF HashInv
<1>2. TableSound(table')
  <2>1. CASE UNCHANGED table
    BY <1>1, <2>1
  <2>2. ASSUME NEW k \in Keys \ KeysOf(table), NEW v \in Vals, table' = Added(table, k, v)
        PROVE  TableSound(table')
    BY <1>1, <2>2, AddedSound
  <2> QED BY <2>1, <2>2 DEF PoolFails
<1>3. it' = NoIt /\ view' = NoView /\ crashed' = TRUE
  BY DEF PoolFails
<1>4. ViewSound(table', it', view')
  BY <1>3, NobodyIterates
<1> QED BY <1>2, <1>3, <1>4 DEF HashInv

(* Every step keeps the invariant.                                         *)
LEMMA HashInvNext == HashInv /\ [Next]_vars => HashInv'
<1> SUFFICES ASSUME HashInv, [Next]_vars PROVE HashInv'
  OBVIOUS
<1>1. CASE UNCHANGED vars
  <2>1. table' = table /\ it' = it /\ view' = view /\ crashed' = crashed
    BY <1>1 DEF vars
  <2> QED BY <2>1 DEF HashInv
<1>2. CASE ~crashed /\ Served /\ UNCHANGED crashed
  <2>1. ASSUME NEW k \in Keys, NEW v \in Vals, scl_hash_set(k, v) PROVE HashInv'
    BY <1>2, <2>1, SetKeeps
  <2>2. ASSUME NEW k \in Keys, scl_hash_delete(k) PROVE HashInv'
    BY <1>2, <2>2, DeleteKeeps
  <2>3. CASE scl_hash_clear
    BY <1>2, <2>3, ClearKeeps
  <2>4. ASSUME NEW internal \in BOOLEAN, scl_hash_first(internal) PROVE HashInv'
    BY <1>2, <2>4, FirstKeeps
  <2>5. CASE scl_hash_next
    BY <1>2, <2>5, NextKeeps
  <2>6. CASE scl_hash_copy
    BY <1>2, <2>6, CopyKeeps
  <2>7. CASE scl_hash_merge
    BY <1>2, <2>7, MergeKeeps
  <2> QED BY <1>2, <2>1, <2>2, <2>3, <2>4, <2>5, <2>6, <2>7 DEF Served
<1>3. CASE ~crashed /\ PoolFails
  BY <1>3, PoolKeeps
<1> QED BY <1>1, <1>2, <1>3 DEF Next
-----------------------------------------------------------------------------
(* What the invariant says of the runs' own formulas.                      *)
LEMMA HashTyped == HashInv => TypeOK
<1> SUFFICES ASSUME HashInv PROVE TypeOK
  OBVIOUS
<1>1. /\ Entries(table) \subseteq HashEntry /\ OnceEach(Entries(table))
      /\ table.count = Cardinality(Entries(table))
  BY SoundParts DEF HashInv
<1>2. \A e \in Entries(table) : e.key \in Keys /\ e.val \in Vals
  BY <1>1 DEF HashEntry
<1>3. Cardinality(Entries(table)) \in Nat /\ Cardinality(Entries(table)) <= Cardinality(Keys)
  BY <1>1, EntriesCounted
<1>4. Cardinality(Keys) \in Nat
  BY HashAssumption, FS_CardinalityType
<1>5. table.count \in 0 .. Cardinality(Keys)
  BY <1>1, <1>3, <1>4
<1>6. it.next # NULL => it.next \in Ids(table)
  BY DEF HashInv, ViewSound
<1> QED BY <1>2, <1>5, <1>6 DEF TypeOK, HashInv

(* By the invariant, chains and free list have every entry and every       *)
(* address once.                                                           *)
LEMMA HashSound == HashInv => ChainsSound
<1> SUFFICES ASSUME HashInv PROVE ChainsSound
  OBVIOUS
<1> PICK t : t = table
  OBVIOUS
<1>1. TableSound(t) /\ ArraySound(t.max, t.array)
  BY DEF HashInv, TableSound
<1>2. /\ t.max \in Nat /\ t.array \in [0 .. t.max -> Seq(HashEntry)] /\ t.free \in Seq(Nat \ {0})
      /\ Entries(t) = AllOf(t.max, t.array) /\ Entries(t) \subseteq HashEntry
      /\ OnceEach(Entries(t)) /\ t.count = Cardinality(Entries(t))
      /\ Ids(t) = {e.id : e \in Entries(t)} \cup Elements(t.free)
  BY <1>1, SoundParts
<1>3. DOMAIN t.array = Indexes(t.max)
  BY <1>2 DEF Indexes
<1>4. \A i \in Indexes(t.max) : \A e \in ToSet(t.array[i]) : Bucket(t, e.key) = i
  <2> SUFFICES ASSUME NEW i \in 0 .. t.max, NEW e \in ToSet(t.array[i]) PROVE Bucket(t, e.key) = i
    BY DEF Indexes
  <2>1. ToSet(t.array[i]) = Elements(t.array[i])
    BY <1>2, ElementsAre
  <2> QED BY <1>1, <2>1 DEF ArraySound, Bucket
<1> PICK w : w = Walk(t)
  OBVIOUS
<1>5. w \in Seq(HashEntry) /\ NoneTwice(w) /\ Elements(w) = Entries(t)
  BY <1>1, <1>2, WalkMeetsAll
<1>6. Len(w) = Cardinality(Entries(t))
  BY <1>5, ElementsFinite
<1>7. Cardinality(KeysOf(t)) = Cardinality(Entries(t))
  BY <1>2, EntriesCounted DEF KeysOf
<1>8. Len(w \o t.free) = Cardinality(Ids(t))
  <2> PICK u : u = SeqOfIds(w)
    OBVIOUS
  <2>1. u \in Seq(Nat \ {0}) /\ NoneTwice(u) /\ Elements(u) = {e.id : e \in Entries(t)}
    BY <1>2, <1>5, IdsInOrder
  <2>2. Len(u) = Len(w)
    BY <1>5 DEF SeqOfIds
  <2>3. NoneTwice(t.free) /\ \A e \in Entries(t) : e.id \notin Elements(t.free)
    BY <1>1, <1>2 DEF TableSound, FreeSound
  <2>4. Elements(u) \cap Elements(t.free) = {}
    BY <2>1, <2>3
  <2> PICK z : z = u \o t.free
    OBVIOUS
  <2>8. JoinedLists(Nat \ {0}, u, t.free, z)
    BY <1>2, <2>1 DEF JoinedLists
  <2>5. z \in Seq(Nat \ {0}) /\ NoneTwice(z) /\ Elements(z) = Ids(t)
    BY <1>2, <2>1, <2>3, <2>4, <2>8, ConcatApart
  <2>6. Len(z) = Cardinality(Ids(t))
    BY <2>5, ElementsFinite
  <2>7. Len(z) = Len(u) + Len(t.free) /\ Len(w \o t.free) = Len(w) + Len(t.free)
    BY <1>2, <1>5, <2>1
  <2> QED BY <2>2, <2>6, <2>7
<1>9. ~crashed => t.count <= t.max
  BY DEF HashInv, TableFit
<1> QED BY <1>2, <1>3, <1>4, <1>6, <1>7, <1>8, <1>9 DEF ChainsSound

(* By the invariant, no iteration went wrong.                              *)
LEMMA HashIterates == HashInv => IterationComplete
BY DEF HashInv, ViewSound, IterationComplete

(* The pairs of a set of entries, and what a search for a key answers.     *)
KeysIn(E) == {e.key : e \in E}

ValIn(E, k) == (CHOOSE e \in E : e.key = k).val

MapOf(E) == [k \in KeysIn(E) |-> ValIn(E, k)]

(* Where each key is once, a search finds the value of the entry.          *)
LEMMA MapIs ==
    ASSUME NEW E, KeysOnce(E), NEW e \in E
    PROVE  ValIn(E, e.key) = e.val
<1>1. (CHOOSE x \in E : x.key = e.key) = e
  BY DEF KeysOnce
<1> QED BY <1>1 DEF ValIn

(* A key of a map is that of an entry, whose value it has.                 *)
LEMMA KeyHasEntry ==
    ASSUME NEW E, KeysOnce(E), NEW k \in KeysIn(E)
    PROVE  \E e \in E : e.key = k /\ ValIn(E, k) = e.val
<1>1. PICK e \in E : e.key = k
  BY DEF KeysIn
<1> QED BY <1>1, MapIs

Searched(t, k) ==
    LET chain == t.array[Bucket(t, k)]
        found == {j \in DOMAIN chain : chain[j].key = k}
    IN  IF found = {} THEN NULL ELSE chain[Min(found)].val

(* A search of the one chain of its hash finds the value of a key in the   *)
(* table.                                                                  *)
LEMMA SearchedIs ==
    ASSUME NEW t, TableSound(t), NEW k \in Keys
    PROVE  Searched(t, k) = IF k \in KeysIn(Entries(t)) THEN ValIn(Entries(t), k) ELSE NULL
<1> PICK b : b = Bucket(t, k)
  OBVIOUS
<1> PICK d : d = t.array[b]
  OBVIOUS
<1>1. /\ t.max \in Nat /\ t.array \in [0 .. t.max -> Seq(HashEntry)]
      /\ Entries(t) = AllOf(t.max, t.array) /\ OnceEach(Entries(t))
  BY SoundParts
<1>2. b \in 0 .. t.max
  BY <1>1, BucketIn DEF Bucket
<1>3. d \in Seq(HashEntry) /\ \A j \in 1 .. Len(d) : d[j] \in Entries(t)
  BY <1>1, <1>2 DEF AllOf, Elements
<1>4. KeysOnce(Entries(t))
  BY <1>1 DEF OnceEach, KeysOnce
<1> PICK n \in Nat : n = Len(d)
  BY <1>3
<1> PICK found : found = {j \in 1 .. n : d[j].key = k}
  OBVIOUS
<1>5. Searched(t, k) = IF found = {} THEN NULL ELSE d[Min(found)].val
  <2>1. DOMAIN d = 1 .. n
    BY <1>3
  <2> QED BY <2>1 DEF Searched
<1>6. CASE k \in KeysIn(Entries(t))
  <2>1. k \in KeysOf(t)
    BY <1>6 DEF KeysOf, KeysIn
  <2>2. PICK e \in Entries(t) : e \in Elements(d) /\ e.key = k
    BY <2>1, EntryFound
  <2>3. PICK j \in 1 .. n : e = d[j]
    BY <2>2 DEF Elements
  <2>4. found # {} /\ found \in SUBSET Nat
    BY <2>2, <2>3
  <2>5. Min(found) \in found
    BY <2>4, MinIsLeast
  <2>6. Min(found) \in 1 .. n /\ d[Min(found)].key = k
    BY <2>5
  <2>7. ValIn(Entries(t), k) = d[Min(found)].val
    BY <1>3, <1>4, <2>6, MapIs
  <2> QED BY <1>5, <1>6, <2>4, <2>7
<1>7. CASE k \notin KeysIn(Entries(t))
  <2>1. found = {}
    BY <1>3, <1>7 DEF KeysIn
  <2> QED BY <1>5, <1>7, <2>1
<1> QED BY <1>6, <1>7

(* The contents of a sound table are the pairs of its entries.             *)
ContentsOf(t) ==
    LET there == {k \in Keys : Searched(t, k) # NULL} IN [k \in there |-> Searched(t, k)]

(* The contents of a sound table, as searches tell them, are its pairs.    *)
LEMMA ContentsAre ==
    ASSUME NEW t, TableSound(t)
    PROVE  ContentsOf(t) = MapOf(Entries(t))
<1>1. Entries(t) \subseteq HashEntry /\ KeysOnce(Entries(t))
  BY SoundParts DEF OnceEach, KeysOnce
<1>2. KeysIn(Entries(t)) \subseteq Keys
  BY <1>1 DEF KeysIn, HashEntry
<1>3. \A k \in KeysIn(Entries(t)) : ValIn(Entries(t), k) \in Vals
  BY <1>1, KeyHasEntry DEF HashEntry
<1>4. \A k \in Keys : Searched(t, k) = IF k \in KeysIn(Entries(t)) THEN ValIn(Entries(t), k) ELSE NULL
  BY SearchedIs
<1>5. {k \in Keys : Searched(t, k) # NULL} = KeysIn(Entries(t))
  BY <1>2, <1>3, <1>4, HashAssumption
<1>6. [k \in KeysIn(Entries(t)) |-> Searched(t, k)] = [k \in KeysIn(Entries(t)) |-> ValIn(Entries(t), k)]
  BY <1>2, <1>4
<1> QED BY <1>5, <1>6 DEF ContentsOf, MapOf

(* Two sets of entries that have the same pairs are the same map.          *)
LEMMA SamePairs ==
    ASSUME NEW E, NEW F, KeysOnce(E), KeysOnce(F),
           \A e \in E : \E f \in F : f.key = e.key /\ f.val = e.val,
           \A f \in F : \E e \in E : f.key = e.key
    PROVE  MapOf(F) = MapOf(E)
<1>1. KeysIn(F) = KeysIn(E)
  BY DEF KeysIn
<1>2. \A k \in KeysIn(E) : ValIn(F, k) = ValIn(E, k)
  <2> SUFFICES ASSUME NEW k \in KeysIn(E) PROVE ValIn(F, k) = ValIn(E, k)
    OBVIOUS
  <2>1. PICK e \in E : e.key = k /\ ValIn(E, k) = e.val
    BY KeyHasEntry
  <2>2. PICK f \in F : f.key = e.key /\ f.val = e.val
    OBVIOUS
  <2>3. ValIn(F, f.key) = f.val
    BY MapIs
  <2> QED BY <2>1, <2>2, <2>3
<1> QED BY <1>1, <1>2 DEF MapOf

(* New addresses leave the map as it was.                                  *)
LEMMA ReaddressedMap ==
    ASSUME NEW E, NEW F, E \subseteq HashEntry, KeysOnce(E), KeysOnce(F), Readdressed(E, F)
    PROVE  MapOf(F) = MapOf(E)
<1>1. PICK p : (\A e \in E : p[e] \in Nat \ {0}) /\ F = {WithId(e, p[e]) : e \in E}
  BY DEF Readdressed
<1>2. \A e \in E : WithId(e, p[e]).key = e.key /\ WithId(e, p[e]).val = e.val
  BY <1>1, WithIdKeeps
<1>3. \A e \in E : \E f \in F : f.key = e.key /\ f.val = e.val
  BY <1>1, <1>2
<1>4. \A f \in F : \E e \in E : f.key = e.key
  BY <1>1, <1>2
<1> QED BY <1>3, <1>4, SamePairs

(* Setting a key binds it in the map.                                      *)
LEMMA PutMap ==
    ASSUME NEW t, TableSound(t), NEW k \in Keys, NEW v \in Vals, NEW F, F = PutEntries(t, k, v),
           KeysOnce(F), NEW m, m = MapOf(Entries(t))
    PROVE  MapOf(F) = [x \in DOMAIN m \cup {k} |-> IF x = k THEN v ELSE m[x]]
<1> PICK E : E = Entries(t)
  OBVIOUS
<1>1. E \subseteq HashEntry /\ KeysOnce(E)
  BY SoundParts DEF OnceEach, KeysOnce
<1>2. DOMAIN m = KeysIn(E) /\ \A x \in KeysIn(E) : m[x] = ValIn(E, x)
  BY DEF MapOf
<1>3. /\ \A e \in E : \E f \in F : f.key = e.key /\ (e.key # k => f.val = e.val)
      /\ \E f \in F : f.key = k /\ f.val = v
      /\ \A f \in F : f.key = k \/ \E e \in E : f.key = e.key
  <2>1. CASE k \in KeysOf(t)
    <3>1. F = {WithVal(e, k, v) : e \in E}
      BY <2>1 DEF PutEntries
    <3>2. \A e \in E : /\ WithVal(e, k, v).key = e.key
                       /\ WithVal(e, k, v).val = IF e.key = k THEN v ELSE e.val
      BY <1>1, WithValKeeps
    <3>3. \E e \in E : e.key = k
      BY <2>1 DEF KeysOf
    <3> HIDE DEF HashEntry
    <3>4. \A e \in E : WithVal(e, k, v) \in F
      BY <3>1
    <3>5. \A f \in F : \E e \in E : f = WithVal(e, k, v)
      BY <3>1
    <3> QED BY <3>2, <3>3, <3>4, <3>5
  <2>2. CASE k \notin KeysOf(t)
    <3>1. F = E \cup {NewEntry(t, k, v)}
      BY <2>2 DEF PutEntries
    <3>2. NewEntry(t, k, v).key = k /\ NewEntry(t, k, v).val = v
      BY DEF NewEntry
    <3> QED BY <3>1, <3>2
  <2> QED BY <2>1, <2>2
<1>4. KeysIn(F) = KeysIn(E) \cup {k}
  <2>1. ASSUME NEW x \in KeysIn(F) PROVE x \in KeysIn(E) \cup {k}
    BY <2>1, <1>3 DEF KeysIn
  <2>2. ASSUME NEW x \in KeysIn(E) PROVE x \in KeysIn(F)
    BY <2>2, <1>3 DEF KeysIn
  <2>3. k \in KeysIn(F)
    BY <1>3 DEF KeysIn
  <2> QED BY <2>1, <2>2, <2>3
<1>5. \A x \in KeysIn(F) : ValIn(F, x) = IF x = k THEN v ELSE m[x]
  <2> SUFFICES ASSUME NEW x \in KeysIn(F) PROVE ValIn(F, x) = IF x = k THEN v ELSE m[x]
    OBVIOUS
  <2>1. CASE x = k
    <3>1. PICK f \in F : f.key = k /\ f.val = v
      BY <1>3
    <3> QED BY <2>1, <3>1, MapIs
  <2>2. CASE x # k
    <3>1. x \in KeysIn(E)
      BY <1>4, <2>2
    <3>2. PICK e \in E : e.key = x /\ ValIn(E, x) = e.val
      BY <1>1, <3>1, KeyHasEntry
    <3>3. PICK f \in F : f.key = e.key /\ f.val = e.val
      BY <1>3, <2>2, <3>2
    <3>4. ValIn(F, f.key) = f.val
      BY MapIs
    <3> QED BY <1>2, <2>2, <3>1, <3>2, <3>3, <3>4
  <2> QED BY <2>1, <2>2
<1> QED BY <1>2, <1>4, <1>5 DEF MapOf

(* Deleting a key unbinds it in the map.                                   *)
LEMMA DeletedMap ==
    ASSUME NEW t, TableSound(t), NEW k \in KeysOf(t), NEW m, m = MapOf(Entries(t)),
           NEW F, F = Entries(t) \ {EntryOf(t, k)}
    PROVE  MapOf(F) = [x \in DOMAIN m \ {k} |-> m[x]]
<1> PICK E : E = Entries(t)
  OBVIOUS
<1>1. KeysOnce(E) /\ KeysOnce(F)
  BY SoundParts DEF OnceEach, KeysOnce
<1>2. DOMAIN m = KeysIn(E) /\ \A x \in KeysIn(E) : m[x] = ValIn(E, x)
  BY DEF MapOf
<1>3. EntryOf(t, k).key = k /\ \A e \in E : e.key = k => e = EntryOf(t, k)
  BY EntryFound
<1>4. KeysIn(F) = KeysIn(E) \ {k}
  BY <1>3 DEF KeysIn
<1>5. \A x \in KeysIn(F) : ValIn(F, x) = m[x]
  <2> SUFFICES ASSUME NEW x \in KeysIn(F) PROVE ValIn(F, x) = m[x]
    OBVIOUS
  <2>1. PICK f \in F : f.key = x /\ ValIn(F, x) = f.val
    BY <1>1, KeyHasEntry
  <2>2. ValIn(E, f.key) = f.val
    BY <1>1, MapIs
  <2> QED BY <1>2, <1>4, <2>1, <2>2
<1> QED BY <1>2, <1>4, <1>5 DEF MapOf

(* No entries are the empty map.                                           *)
LEMMA EmptyMap == MapOf({}) = << >> /\ \A m : [x \in {} |-> m[x]] = << >>
<1>1. KeysIn({}) = {}
  BY DEF KeysIn
<1>2. MapOf({}) = [x \in {} |-> ValIn({}, x)]
  BY <1>1 DEF MapOf
<1> QED BY <1>2

(* What a merge leaves: the pairs of the other table, but where both have  *)
(* a key what the callback made of them, if there is one.                  *)
OverlaidOn(m, overlay, r) ==
    [k \in DOMAIN m \cup KeysOf(overlay) |->
        IF k \notin KeysOf(overlay) THEN m[k]
        ELSE IF k \in DOMAIN m /\ r # NULL THEN r
        ELSE EntryOf(overlay, k).val]

(* The entries that a merge takes are the map laid over the other.         *)
LEMMA MergedMap ==
    ASSUME NEW t, TableSound(t), NEW overlay, TableSound(overlay), NEW r \in Vals \cup {NULL},
           NEW m, m = MapOf(Entries(t)),
           NEW F, F = MixedIn(t, overlay, r) \cup OnlyIn(t, overlay)
    PROVE  KeysOnce(F) /\ F \subseteq HashEntry /\ MapOf(F) = OverlaidOn(m, overlay, r)
<1> PICK E, G : E = Entries(t) /\ G = Entries(overlay)
  OBVIOUS
<1>1. E \subseteq HashEntry /\ G \subseteq HashEntry /\ KeysOnce(E) /\ KeysOnce(G)
  BY SoundParts DEF OnceEach, KeysOnce
<1>2. DOMAIN m = KeysIn(E) /\ \A x \in KeysIn(E) : m[x] = ValIn(E, x)
  BY DEF MapOf
<1>3. KeysOf(overlay) = KeysIn(G) /\ KeysOf(t) = KeysIn(E)
  BY DEF KeysOf, KeysIn
<1>4. \A k \in KeysIn(G) : EntryOf(overlay, k).val = ValIn(G, k)
  BY DEF EntryOf, ValIn
<1>5. \A e \in E : Mixed(e, overlay, r) \in HashEntry /\ Mixed(e, overlay, r).key = e.key
  BY <1>1, MixedKeeps
<1>6. \A e \in E : Mixed(e, overlay, r).val
                     = IF e.key \notin KeysIn(G) THEN e.val ELSE IF r # NULL THEN r ELSE ValIn(G, e.key)
  <2> SUFFICES ASSUME NEW e \in E
               PROVE  Mixed(e, overlay, r).val
                        = IF e.key \notin KeysIn(G) THEN e.val ELSE IF r # NULL THEN r ELSE ValIn(G, e.key)
    OBVIOUS
  <2>1. CASE e.key \notin KeysIn(G)
    BY <1>3, <2>1 DEF Mixed
  <2>2. CASE e.key \in KeysIn(G)
    <3> PICK v : v = IF r = NULL THEN EntryOf(overlay, e.key).val ELSE r
      OBVIOUS
    <3>1. Mixed(e, overlay, r) = [e EXCEPT !.val = v]
      BY <1>3, <2>2 DEF Mixed
    <3>2. Mixed(e, overlay, r).val = v
      BY <1>1, <3>1 DEF HashEntry
    <3> QED BY <1>4, <2>2, <3>2
  <2> QED BY <2>1, <2>2
<1>7. \A f \in F : (\E e \in E : f = Mixed(e, overlay, r)) \/ (f \in G /\ f.key \notin KeysIn(E))
  BY <1>3 DEF MixedIn, OnlyIn
<1>8. /\ \A e \in E : Mixed(e, overlay, r) \in F
      /\ \A f \in G : f.key \notin KeysIn(E) => f \in F
  BY <1>3 DEF MixedIn, OnlyIn
<1>9. F \subseteq HashEntry
  BY <1>1, <1>5, <1>7
<1>10. KeysOnce(F)
  <2> SUFFICES ASSUME NEW f \in F, NEW g \in F, f.key = g.key PROVE f = g
    BY DEF KeysOnce
  <2>1. \A e \in E : e.key \in KeysIn(E)
    BY DEF KeysIn
  <2>2. CASE f.key \in KeysIn(E)
    <3>1. PICK d \in E, e \in E : f = Mixed(d, overlay, r) /\ g = Mixed(e, overlay, r)
      BY <1>7, <2>2
    <3>2. d.key = e.key
      BY <1>5, <3>1
    <3> QED BY <1>1, <3>1, <3>2 DEF KeysOnce
  <2>3. CASE f.key \notin KeysIn(E)
    <3>1. f \in G /\ g \in G
      BY <1>5, <1>7, <2>1, <2>3
    <3> QED BY <1>1, <3>1 DEF KeysOnce
  <2> QED BY <2>2, <2>3
<1>11. KeysIn(F) = KeysIn(E) \cup KeysIn(G)
  <2>1. ASSUME NEW f \in F PROVE f.key \in KeysIn(E) \cup KeysIn(G)
    BY <1>5, <1>7 DEF KeysIn
  <2>2. ASSUME NEW e \in E PROVE e.key \in KeysIn(F)
    <3>1. Mixed(e, overlay, r) \in F /\ Mixed(e, overlay, r).key = e.key
      BY <1>5, <1>8
    <3> QED BY <3>1 DEF KeysIn
  <2>3. ASSUME NEW e \in G, e.key \notin KeysIn(E) PROVE e.key \in KeysIn(F)
    BY <1>8, <2>3 DEF KeysIn
  <2>4. \A k \in KeysIn(F) : \E f \in F : k = f.key
    BY DEF KeysIn
  <2>5. \A k \in KeysIn(E) : \E e \in E : k = e.key
    BY DEF KeysIn
  <2>6. \A k \in KeysIn(G) : \E e \in G : k = e.key
    BY DEF KeysIn
  <2>7. KeysIn(F) \subseteq KeysIn(E) \cup KeysIn(G)
    <3> SUFFICES ASSUME NEW k \in KeysIn(F) PROVE k \in KeysIn(E) \cup KeysIn(G)
      OBVIOUS
    <3> QED BY <2>1, <2>4
  <2>8. KeysIn(E) \subseteq KeysIn(F)
    <3> SUFFICES ASSUME NEW k \in KeysIn(E) PROVE k \in KeysIn(F)
      OBVIOUS
    <3> QED BY <2>2, <2>5
  <2>9. KeysIn(G) \subseteq KeysIn(F) \cup KeysIn(E)
    <3> SUFFICES ASSUME NEW k \in KeysIn(G), k \notin KeysIn(E) PROVE k \in KeysIn(F)
      OBVIOUS
    <3> QED BY <2>3, <2>6
  <2> QED BY <2>7, <2>8, <2>9
<1> DEFINE value(k) == IF k \notin KeysIn(G) THEN m[k]
                       ELSE IF k \in KeysIn(E) /\ r # NULL THEN r ELSE ValIn(G, k)
<1>12. \A k \in KeysIn(F) : ValIn(F, k) = value(k)
  <2> SUFFICES ASSUME NEW k \in KeysIn(F) PROVE ValIn(F, k) = value(k)
    OBVIOUS
  <2>1. CASE k \in KeysIn(E)
    <3>1. PICK e \in E : e.key = k /\ ValIn(E, k) = e.val
      BY <1>1, <2>1, KeyHasEntry
    <3>2. ValIn(F, k) = Mixed(e, overlay, r).val
      BY <1>5, <1>8, <1>10, <3>1, MapIs
    <3> QED BY <1>2, <1>6, <2>1, <3>1, <3>2
  <2>2. CASE k \notin KeysIn(E)
    <3>1. k \in KeysIn(G)
      BY <1>11, <2>2
    <3>2. PICK e \in G : e.key = k /\ ValIn(G, k) = e.val
      BY <1>1, <3>1, KeyHasEntry
    <3>3. ValIn(F, k) = e.val
      BY <1>8, <1>10, <2>2, <3>2, MapIs
    <3> QED BY <2>2, <3>1, <3>2, <3>3
  <2> QED BY <2>1, <2>2
<1>13. MapOf(F) = [k \in KeysIn(E) \cup KeysIn(G) |-> value(k)]
  <2> HIDE DEF value
  <2> QED BY <1>11, <1>12 DEF MapOf
<1>14. \A k \in KeysIn(E) \cup KeysIn(G) :
          value(k) = IF k \notin KeysOf(overlay) THEN m[k]
                     ELSE IF k \in DOMAIN m /\ r # NULL THEN r ELSE EntryOf(overlay, k).val
  BY <1>2, <1>3, <1>4
<1>15. MapOf(F) = OverlaidOn(m, overlay, r)
  <2> HIDE DEF value
  <2> QED BY <1>2, <1>3, <1>13, <1>14 DEF OverlaidOn
<1> QED BY <1>9, <1>10, <1>15

(* The contents before and after a step are those of the table then.       *)
LEMMA ContentsHere ==
    /\ Contents = ContentsOf(table)
    /\ Contents' = ContentsOf(table')
    /\ \A overlay, m : Overlaid(overlay, m) = OverlaidOn(Contents, overlay, m)
BY DEF Contents, ContentsOf, Searched, scl_hash_get, Bucket, Overlaid, OverlaidOn

(* Calls that leave the pairs alone leave the map alone.                   *)
LEMMA SameContents ==
    ASSUME TableSound(table), TableSound(table'),
           Entries(table') = Entries(table) \/ Readdressed(Entries(table), Entries(table'))
    PROVE  Contents' = Contents
<1>1. /\ Entries(table) \subseteq HashEntry
      /\ KeysOnce(Entries(table)) /\ KeysOnce(Entries(table'))
  BY SoundParts DEF OnceEach, KeysOnce
<1>2. Contents = MapOf(Entries(table)) /\ Contents' = MapOf(Entries(table'))
  BY ContentsHere, ContentsAre
<1>3. CASE Entries(table') = Entries(table)
  BY <1>2, <1>3
<1>4. CASE Readdressed(Entries(table), Entries(table'))
  BY <1>1, <1>2, <1>4, ReaddressedMap
<1> QED BY <1>3, <1>4

(* scl_hash_set is Bind.                                                   *)
LEMMA SetBinds ==
    ASSUME TableSound(table), TableSound(table'), NEW k \in Keys, NEW v \in Vals,
           Entries(table') = PutEntries(table, k, v)
    PROVE  Map!Bind(k, v)
<1>1. Contents = MapOf(Entries(table)) /\ Contents' = MapOf(Entries(table'))
  BY ContentsHere, ContentsAre
<1>2. KeysOnce(Entries(table'))
  BY SoundParts DEF OnceEach, KeysOnce
<1> PICK m, F : m = MapOf(Entries(table)) /\ F = Entries(table')
  OBVIOUS
<1>3. MapOf(F) = [x \in DOMAIN m \cup {k} |-> IF x = k THEN v ELSE m[x]]
  BY <1>2, PutMap
<1>4. Contents' = [x \in DOMAIN Contents \cup {k} |-> IF x = k THEN v ELSE Contents[x]]
  BY <1>1, <1>3
<1> QED BY <1>4 DEF Map!Bind

(* scl_hash_set of NULL is Unbind of its key.                              *)
LEMMA DeleteUnbinds ==
    ASSUME TableSound(table), NEW k \in KeysOf(table), table' = Deleted(table, k)
    PROVE  k \in Keys /\ Map!Unbind({k})
<1>1. TableSound(table') /\ Entries(table') = Entries(table) \ {EntryOf(table, k)} /\ k \in Keys
  BY DeletedSound, EntryFound
<1>2. Contents = MapOf(Entries(table)) /\ Contents' = MapOf(Entries(table'))
  BY <1>1, ContentsHere, ContentsAre
<1> PICK m, F : m = MapOf(Entries(table)) /\ F = Entries(table')
  OBVIOUS
<1>3. MapOf(F) = [x \in DOMAIN m \ {k} |-> m[x]]
  BY <1>1, DeletedMap
<1>4. Contents' = [x \in DOMAIN Contents \ {k} |-> Contents[x]]
  BY <1>2, <1>3
<1> QED BY <1>1, <1>4 DEF Map!Unbind

(* scl_hash_clear is Unbind of every key.                                  *)
LEMMA ClearUnbinds ==
    ASSUME TableSound(table), table' = Cleared(table)
    PROVE  Map!Unbind(Keys)
<1>1. TableSound(table') /\ Entries(table') = {} /\ Entries(table) \subseteq HashEntry
  BY ClearedSound, SoundParts
<1>2. Contents = MapOf(Entries(table)) /\ Contents' = << >>
  BY <1>1, ContentsHere, ContentsAre, EmptyMap
<1>3. DOMAIN Contents \subseteq Keys
  BY <1>1, <1>2 DEF MapOf, KeysIn, HashEntry
<1> PICK m : m = Contents
  OBVIOUS
<1>4. [x \in DOMAIN m \ Keys |-> m[x]] = << >>
  <2>1. DOMAIN m \ Keys = {}
    BY <1>3
  <2> QED BY <2>1, EmptyMap
<1>5. Contents' = [x \in DOMAIN Contents \ Keys |-> Contents[x]]
  BY <1>2, <1>4
<1> QED BY <1>5 DEF Map!Unbind

(* scl_hash_merge is Merge.                                                *)
LEMMA MergeOverlays ==
    ASSUME TableFit(table), scl_hash_merge
    PROVE  Merge
<1>1. PICK overlay \in MadeTables, r \in Vals \cup {NULL} : table' = Merged(table, overlay, r)
  BY DEF scl_hash_merge
<1>2. PICK pairs \in Overlays : overlay = Made(pairs)
  BY <1>1 DEF MadeTables
<1>3. TableFit(overlay)
  BY <1>2, HashAssumption, MadeFit
<1> PICK F : F = MixedIn(table, overlay, r) \cup OnlyIn(table, overlay)
  OBVIOUS
<1>4. TableSound(table') /\ Readdressed(F, Entries(table')) /\ TableSound(table) /\ TableSound(overlay)
  BY <1>1, <1>3, MergedSound DEF TableFit
<1> PICK m : m = MapOf(Entries(table))
  OBVIOUS
<1>5. KeysOnce(F) /\ F \subseteq HashEntry /\ MapOf(F) = OverlaidOn(m, overlay, r)
  BY <1>4, MergedMap
<1>6. KeysOnce(Entries(table'))
  BY <1>4, SoundParts DEF OnceEach, KeysOnce
<1>7. MapOf(Entries(table')) = MapOf(F)
  BY <1>4, <1>5, <1>6, ReaddressedMap
<1>8. Contents = m /\ Contents' = MapOf(Entries(table'))
  BY <1>4, ContentsHere, ContentsAre
<1>9. Contents' = Overlaid(overlay, r)
  BY <1>5, <1>7, <1>8, ContentsHere
<1> QED BY <1>9 DEF Merge

(* Each step of the table is one of the map, or none.                      *)
LEMMA HashRefines == HashInv /\ [Next]_vars => [Map!Next \/ Merge]_Contents
<1> SUFFICES ASSUME HashInv, [Next]_vars PROVE Map!Next \/ Merge \/ Contents' = Contents
  OBVIOUS
<1>0. HashInv' /\ TableSound(table) /\ TableSound(table')
  <2>1. HashInv'
    BY HashInvNext
  <2> QED BY <2>1 DEF HashInv
<1>1. CASE table' = table
  BY <1>0, <1>1, SameContents
<1>2. ASSUME ~crashed, NEW k \in Keys, NEW v \in Vals, scl_hash_set(k, v) PROVE Map!Next
  <2>1. TableFit(table) /\ table' = Put(table, k, v)
    BY <1>2 DEF HashInv, scl_hash_set
  <2>2. Map!Bind(k, v)
    BY <1>0, <2>1, PutSound, SetBinds
  <2> QED BY <2>2 DEF Map!Next
<1>3. ASSUME NEW k \in Keys, scl_hash_delete(k) PROVE Map!Next
  <2>1. k \in KeysOf(table) /\ table' = Deleted(table, k)
    BY <1>3 DEF scl_hash_delete
  <2>2. Map!Unbind({k})
    BY <1>0, <2>1, DeleteUnbinds
  <2> QED BY <2>2 DEF Map!Next
<1>4. CASE scl_hash_clear
  <2>1. Map!Unbind(Keys)
    BY <1>0, <1>4, ClearUnbinds DEF scl_hash_clear
  <2> QED BY <2>1 DEF Map!Next
<1>5. CASE scl_hash_copy
  <2>1. Readdressed(Entries(table), Entries(table'))
    BY <1>0, <1>5, CopiedSound DEF scl_hash_copy
  <2> QED BY <1>0, <2>1, SameContents
<1>6. CASE ~crashed /\ scl_hash_merge
  BY <1>6, MergeOverlays DEF HashInv
<1>7. ASSUME NEW k \in Keys \ KeysOf(table), NEW v \in Vals, table' = Added(table, k, v)
      PROVE  Map!Next
  <2>1. Entries(table') = PutEntries(table, k, v)
    BY <1>0, <1>7, AddedSound DEF PutEntries
  <2>2. Map!Bind(k, v)
    BY <1>0, <2>1, SetBinds
  <2> QED BY <2>2 DEF Map!Next
<1>8. CASE UNCHANGED vars
  BY <1>1, <1>8 DEF vars
<1>9. CASE ~crashed /\ Served
  <2>1. CASE \E internal \in BOOLEAN : scl_hash_first(internal)
    BY <1>1, <2>1 DEF scl_hash_first
  <2>2. CASE scl_hash_next
    BY <1>1, <2>2 DEF scl_hash_next
  <2> QED BY <1>2, <1>3, <1>4, <1>5, <1>6, <1>9, <2>1, <2>2 DEF Served
<1>10. CASE PoolFails
  BY <1>1, <1>7, <1>10 DEF PoolFails
<1> QED BY <1>8, <1>9, <1>10 DEF Next

(* A new table is the empty map.                                           *)
LEMMA HashStartsEmpty == Init => Map!Init
<1> SUFFICES ASSUME Init PROVE Map!Init
  OBVIOUS
<1>1. TableSound(table) /\ Entries(table) = {}
  BY EmptyFit DEF Init, TableFit
<1>2. Contents = << >>
  BY <1>1, ContentsHere, ContentsAre, EmptyMap
<1> QED BY <1>2 DEF Map!Init
-----------------------------------------------------------------------------
(* A run of the containers is one of the hash table, or leaves it alone.   *)
LEMMA HashRuns ==
    /\ AllInit => Init
    /\ [AllNext]_<<which, vars, s_vars, c_vars, d_vars, l_vars>> => [Next]_vars
BY DEF AllInit, AllNext, HashStep, SkipStep, ChainedStep, RingStep, SingleStep

(* In every run entries have keys and values, an iterator holds an address *)
(* of the table, and count is at most the number of keys.                  *)
THEOREM HashStaysTyped == AllSpec => []TypeOK
<1>1. AllInit => HashInv
  BY HashRuns, HashInvInit
<1>2. HashInv /\ [AllNext]_<<which, vars, s_vars, c_vars, d_vars, l_vars>> => HashInv'
  BY HashRuns, HashInvNext
<1> QED BY <1>1, <1>2, HashTyped, PTL DEF AllSpec

(* In every run each entry is in the chain of its hash, no key and no      *)
(* address is there twice, not on the free list either, the count is right *)
(* and, unless memory ran out, the table is not crowded                    *)
(* (scl_hashmap.c:296-326, 383-408).                                       *)
THEOREM HashStaysSound == AllSpec => []ChainsSound
<1>1. AllInit => HashInv
  BY HashRuns, HashInvInit
<1>2. HashInv /\ [AllNext]_<<which, vars, s_vars, c_vars, d_vars, l_vars>> => HashInv'
  BY HashRuns, HashInvNext
<1> QED BY <1>1, <1>2, HashSound, PTL DEF AllSpec

(* An iteration gives every key that was there when it began, and was not  *)
(* deleted, once, beside sets and deletions, unless the table grew, was    *)
(* cleared or lost the very next entry (scl_hashmap.h:109-112).            *)
THEOREM IterationStaysComplete == AllSpec => []IterationComplete
<1>1. AllInit => HashInv
  BY HashRuns, HashInvInit
<1>2. HashInv /\ [AllNext]_<<which, vars, s_vars, c_vars, d_vars, l_vars>> => HashInv'
  BY HashRuns, HashInvNext
<1> QED BY <1>1, <1>2, HashIterates, PTL DEF AllSpec

(* As searches tell its contents, the table is a finite map: each call     *)
(* binds a key, unbinds one or all, or lays another map over it; growing,  *)
(* copying, iterating and recycling change nothing (scl_hashmap.h:60-83,   *)
(* 205-240).                                                               *)
THEOREM HashIsMap == AllSpec => ImplementsMap
<1>1. AllInit => HashInv /\ Map!Init
  BY HashRuns, HashInvInit, HashStartsEmpty
<1>2. HashInv /\ [AllNext]_<<which, vars, s_vars, c_vars, d_vars, l_vars>> => HashInv'
  BY HashRuns, HashInvNext
<1>3. HashInv /\ [AllNext]_<<which, vars, s_vars, c_vars, d_vars, l_vars>>
         => [Map!Next \/ Merge]_Contents
  BY HashRuns, HashRefines
<1> QED BY <1>1, <1>2, <1>3, PTL DEF AllSpec, ImplementsMap
=============================================================================
