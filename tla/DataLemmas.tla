------------------------------ MODULE DataLemmas ------------------------------
(***************************************************************************)
(* Facts about data that the proofs of the components share: induction     *)
(* over numbers and finite sets, stated for sets instead of predicates,    *)
(* least and greatest elements, and how many elements a bag has.           *)
(***************************************************************************)
EXTENDS Integers, SequencesExt, Bags, FiniteSetTheorems, SequenceTheorems,
        WellFoundedInduction, TLAPS

(* Among numbers there is a least one: the intervals below them are finite *)
(* sets, of which one contains no other.                                   *)
LEMMA LeastNumber ==
    ASSUME NEW T \in SUBSET Nat, T # {}
    PROVE  \E n \in T : \A m \in T : n <= m
<1> DEFINE below(n) == 0 .. n - 1
           Belows == {below(n) : n \in T}
<1>1. \A n \in T : below(n) \in FiniteSubsetsOf(Nat)
  <2> TAKE n \in T
  <2>1. IsFiniteSet(below(n))
    BY FS_Interval
  <2> QED BY <2>1 DEF FiniteSubsetsOf
<1>2. Belows \subseteq FiniteSubsetsOf(Nat) /\ Belows # {}
  BY <1>1
<1>3. PICK b \in Belows : \A c \in Belows : <<c, b>> \notin StrictSubsetOrdering(Nat)
  <2> HIDE DEF Belows
  <2> QED BY <1>2, FS_StrictSubsetOrderingWellFounded, WFMin
<1>4. PICK n \in T : b = below(n)
  OBVIOUS
<1>5. \A m \in T : n <= m
  <2> SUFFICES ASSUME NEW m \in T, ~(n <= m) PROVE FALSE
    OBVIOUS
  <2>1. below(m) \subseteq below(n) /\ below(m) # below(n)
    OBVIOUS
  <2>2. <<below(m), below(n)>> \in StrictSubsetOrdering(Nat)
    BY <2>1 DEF StrictSubsetOrdering
  <2> QED BY <2>2, <1>3, <1>4
<1> QED BY <1>5

(* Induction: a set of numbers with 0 and each successor has them all.     *)
LEMMA Induction ==
    ASSUME NEW T \in SUBSET Nat, 0 \in T, \A n \in T : n + 1 \in T
    PROVE  T = Nat
<1> SUFFICES ASSUME Nat \ T # {} PROVE FALSE
  OBVIOUS
<1>1. PICK n \in Nat \ T : \A m \in Nat \ T : n <= m
  BY LeastNumber
<1>2. n - 1 \in Nat /\ n - 1 \in T
  BY <1>1
<1> QED BY <1>2

(* Induction over a finite set, one element at a time.                     *)
LEMMA FiniteInduction ==
    ASSUME NEW S, IsFiniteSet(S), NEW T \in SUBSET SUBSET S,
           {} \in T, \A U \in T, x \in S : U \cup {x} \in T
    PROVE  S \in T
<1> DEFINE Rests == {S \ U : U \in T}
<1>1. \A U \in T : S \ U \in FiniteSubsetsOf(S)
  <2> TAKE U \in T
  <2>1. IsFiniteSet(S \ U)
    BY FS_Subset
  <2> QED BY <2>1 DEF FiniteSubsetsOf
<1>2. Rests \subseteq FiniteSubsetsOf(S) /\ Rests # {}
  <2>1. Rests \subseteq FiniteSubsetsOf(S)
    BY <1>1
  <2>2. S \ {} \in Rests
    OBVIOUS
  <2> QED BY <2>1, <2>2
<1>3. PICK b \in Rests : \A c \in Rests : <<c, b>> \notin StrictSubsetOrdering(S)
  <2> HIDE DEF Rests
  <2> QED BY <1>2, FS_StrictSubsetOrderingWellFounded, WFMin
<1>4. PICK U \in T : b = S \ U
  OBVIOUS
<1>5. S \ U = {}
  <2> SUFFICES ASSUME NEW x \in S \ U PROVE FALSE
    OBVIOUS
  <2>1. U \cup {x} \in T
    OBVIOUS
  <2> DEFINE c == S \ (U \cup {x})
  <2>2. c \in Rests
    BY <2>1
  <2>3. c \subseteq b /\ c # b /\ c \in SUBSET S /\ b \in SUBSET S
    BY <1>4
  <2>4. <<c, b>> \in StrictSubsetOrdering(S)
    BY <2>3 DEF StrictSubsetOrdering
  <2> QED BY <2>2, <2>4, <1>3
<1> QED BY <1>5

(* The least member of a set of numbers is in it and below all others.     *)
LEMMA MinIsLeast ==
    ASSUME NEW T \in SUBSET Nat, T # {}
    PROVE  Min(T) \in T /\ \A m \in T : Min(T) <= m
BY LeastNumber DEF Min

(* The greatest member of a bounded set of numbers is in it and above all  *)
(* others.                                                                 *)
LEMMA MaxIsGreatest ==
    ASSUME NEW T \in SUBSET Nat, T # {}, NEW top \in Nat, \A m \in T : m <= top
    PROVE  Max(T) \in T /\ \A m \in T : m <= Max(T)
<1> DEFINE Above == {top - m : m \in T}
<1>1. Above \in SUBSET Nat /\ Above # {}
  <2>1. \A m \in T : top - m \in Nat
    OBVIOUS
  <2> QED BY <2>1
<1>2. PICK a \in Above : \A b \in Above : a <= b
  <2> HIDE DEF Above
  <2> QED BY <1>1, LeastNumber
<1>3. PICK n \in T : a = top - n
  OBVIOUS
<1>4. \A m \in T : m <= n
  <2> TAKE m \in T
  <2>1. a <= top - m
    BY <1>2
  <2> QED BY <2>1, <1>3
<1> QED BY <1>4 DEF Max

(* A function can be iterated any number of times.                         *)
Iterates(g, n, x0, f) == g[0] = x0 /\ \A i \in 1 .. n : g[i] = f[g[i - 1]]

(* There is a function that starts at x0 and goes on by f, N times.        *)
LEMMA Iteration ==
    ASSUME NEW N \in Nat, NEW x0, NEW f
    PROVE  \E Y : \E g \in [0 .. N -> Y] : Iterates(g, N, x0, f)
<1> DEFINE Good(g, n) == g[0] = x0 /\ \A i \in 1 .. n : g[i] = f[g[i - 1]]
           T == {n \in Nat : \E Y : \E g \in [0 .. n -> Y] : Good(g, n)}
<1>1. 0 \in T
  <2> DEFINE g == [i \in 0 .. 0 |-> x0]
  <2>1. g \in [0 .. 0 -> {x0}] /\ Good(g, 0)
    OBVIOUS
  <2> HIDE DEF g, Good
  <2> QED BY <2>1
<1>2. ASSUME NEW n \in T PROVE n + 1 \in T
  <2> PICK Y : \E g \in [0 .. n -> Y] : Good(g, n)
    OBVIOUS
  <2>1. PICK g \in [0 .. n -> Y] : Good(g, n)
    OBVIOUS
  <2> DEFINE y == f[g[n]]
             h == [i \in 0 .. n + 1 |-> IF i = n + 1 THEN y ELSE g[i]]
  <2>2. h \in [0 .. n + 1 -> Y \cup {y}] /\ h[0] = x0
    BY <2>1
  <2>3. ASSUME NEW i \in 1 .. n + 1 PROVE h[i] = f[h[i - 1]]
    <3>1. CASE i = n + 1
      BY <3>1
    <3>2. CASE i \in 1 .. n
      <4>1. h[i] = g[i] /\ h[i - 1] = g[i - 1]
        BY <3>2
      <4> QED BY <3>2, <4>1, <2>1
    <3> QED BY <3>1, <3>2
  <2> HIDE DEF h, y
  <2>4. Good(h, n + 1) /\ n + 1 \in Nat
    BY <2>2, <2>3
  <2> HIDE DEF Good
  <2> QED BY <2>2, <2>4
<1>3. T = Nat
  <2>1. T \in SUBSET Nat
    OBVIOUS
  <2> HIDE DEF T
  <2> QED BY <2>1, <1>1, <1>2, Induction
<1> QED BY <1>3 DEF Iterates

(* A sequence without repetitions is no longer than its set is large.      *)
LEMMA InjectiveSeqBounded ==
    ASSUME NEW S, IsFiniteSet(S), NEW s \in Seq(S),
           \A i, j \in 1 .. Len(s) : s[i] = s[j] => i = j
    PROVE  Len(s) <= Cardinality(S)
<1>1. IsFiniteSet(1 .. Len(s)) /\ Cardinality(1 .. Len(s)) = Len(s)
  <2>1. PICK n \in Nat : n = Len(s)
    OBVIOUS
  <2>2. IsFiniteSet(1 .. n) /\ Cardinality(1 .. n) = n
    BY FS_Interval
  <2> QED BY <2>1, <2>2
<1>2. Cardinality(S) \in Nat
  BY FS_CardinalityType
<1> SUFFICES ASSUME Cardinality(S) < Len(s) PROVE FALSE
  BY <1>2
<1>3. s \in [1 .. Len(s) -> S]
  OBVIOUS
<1> QED BY <1>1, <1>3, FS_PigeonHole
(* The elements of a sequence without repetitions are as many as it is     *)
(* long.                                                                   *)
LEMMA InjectiveSeqCardinality ==
    ASSUME NEW S, NEW s \in Seq(S),
           \A i, j \in 1 .. Len(s) : s[i] = s[j] => i = j,
           NEW U, U = {s[i] : i \in 1 .. Len(s)}
    PROVE  IsFiniteSet(U) /\ Cardinality(U) = Len(s)
<1>1. PICK n \in Nat : n = Len(s)
  OBVIOUS
<1>2. IsFiniteSet(1 .. n) /\ Cardinality(1 .. n) = n
  <2> QED BY 1 \in Int, n \in Int, FS_Interval
<1>3. s \in [1 .. n -> U]
  BY <1>1
<1>4. s \in Surjection(1 .. n, U)
  BY <1>1, <1>3 DEF Surjection
<1>5. s \in Injection(1 .. n, U)
  BY <1>1, <1>3 DEF Injection, IsInjective
<1> QED BY <1>1, <1>2, <1>4, <1>5, FS_Surjection
-----------------------------------------------------------------------------
(* Place(s, i) is the element at place i of a list, or NULL behind its end *)
(* and in front of its start.                                              *)
Place(s, i) == IF i \in 1 .. Len(s) THEN s[i] ELSE 0

NoneTwice(s) == \A i, j \in 1 .. Len(s) : s[i] = s[j] => i = j

(* A piece of memory cut into k chunks of c: chunk i begins at a + i * c.  *)
Slice(a, c, i) == a + i * c .. a + i * c + c - 1

(* The slices of c numbers from a on share none, and k of them cover k * c *)
(* numbers.                                                                *)
LEMMA Slices ==
    ASSUME NEW a \in Nat, NEW c \in Nat \ {0}, NEW k \in Nat
    PROVE  /\ \A i, j \in 0 .. k - 1 : i # j => Slice(a, c, i) \cap Slice(a, c, j) = {}
           /\ \A i \in 0 .. k - 1 : Slice(a, c, i) \subseteq a .. a + k * c - 1
           /\ \A x \in a .. a + k * c - 1 : \E i \in 0 .. k - 1 : x \in Slice(a, c, i)
<1>1. ASSUME NEW i \in Nat, NEW j \in Nat, i < j PROVE i * c + c <= j * c /\ i * c \in Nat /\ j * c \in Nat
  <2>1. PICK d \in Nat : j = i + 1 + d
    <3>1. j - i - 1 \in Nat /\ j = i + 1 + (j - i - 1)
      BY <1>1
    <3> QED BY <3>1
  <2>2. j * c = i * c + c + d * c /\ d * c \in Nat /\ i * c \in Nat
    BY <2>1
  <2> QED BY <2>2
<1>2. ASSUME NEW i \in 0 .. k - 1, NEW j \in 0 .. k - 1, i # j
      PROVE  Slice(a, c, i) \cap Slice(a, c, j) = {}
  <2>1. CASE i < j
    <3>1. i * c + c <= j * c /\ i * c \in Nat /\ j * c \in Nat
      BY <2>1, <1>1
    <3> QED BY <3>1 DEF Slice
  <2>2. CASE j < i
    <3>1. j * c + c <= i * c /\ i * c \in Nat /\ j * c \in Nat
      BY <2>2, <1>1
    <3> QED BY <3>1 DEF Slice
  <2> QED BY <2>1, <2>2, <1>2
<1>3. ASSUME NEW i \in 0 .. k - 1 PROVE Slice(a, c, i) \subseteq a .. a + k * c - 1
  <2>1. i * c + c <= k * c /\ i * c \in Nat /\ k * c \in Nat
    BY <1>1
  <2> QED BY <2>1 DEF Slice
<1>4. ASSUME NEW x \in a .. a + k * c - 1 PROVE \E i \in 0 .. k - 1 : x \in Slice(a, c, i)
  <2> DEFINE q == (x - a) \div c
             r == (x - a) % c
  <2>1. k * c \in Nat
    OBVIOUS
  <2>2. q \in Int /\ r \in 0 .. c - 1 /\ x - a = c * q + r
    BY <2>1
  <2> HIDE DEF q, r
  <2>3. q >= 0
    BY <2>2, <2>1
  <2>4. q < k
    <3> SUFFICES ASSUME k <= q PROVE FALSE
      BY <2>2
    <3>1. k * c <= q * c
      <4>1. CASE k = q
        BY <4>1, <2>2
      <4>2. CASE k < q
        BY <4>2, <1>1, <2>2, <2>3
      <4> QED BY <4>1, <4>2, <2>2
    <3> QED BY <3>1, <2>1, <2>2
  <2>5. x \in Slice(a, c, q)
    BY <2>2 DEF Slice
  <2> QED BY <2>2, <2>3, <2>4, <2>5
<1> QED BY <1>2, <1>3, <1>4
-----------------------------------------------------------------------------
(* The elements of a finite bag that has one copy of each are as many as   *)
(* those of its set: the recursion that counts them has that solution, and *)
(* no other.                                                               *)
LEMMA BagOfSingles ==
    ASSUME NEW f, IsFiniteSet(DOMAIN f), \A x \in DOMAIN f : f[x] = 1
    PROVE  BagCardinality(f) = Cardinality(DOMAIN f)
<1> DEFINE D == DOMAIN f
           elt(U) == CHOOSE e \in U : TRUE
           Step(g) == [U \in SUBSET D |-> IF U = {} THEN 0
                                          ELSE f[elt(U)] + g[U \ {elt(U)}]]
           Z == CHOOSE g : g = Step(g)
           Card == [U \in SUBSET D |-> Cardinality(U)]
<1>1. \A U \in SUBSET D : IsFiniteSet(U) /\ Cardinality(U) \in Nat
  BY FS_Subset, FS_CardinalityType
<1>2. Card = Step(Card)
  <2>1. ASSUME NEW U \in SUBSET D PROVE Card[U] = Step(Card)[U]
    <3>1. CASE U = {}
      BY <3>1, FS_EmptySet
    <3>2. CASE U # {}
      <4>1. elt(U) \in U /\ U \ {elt(U)} \in SUBSET D
        BY <3>2
      <4> HIDE DEF elt
      <4>2. Cardinality(U \ {elt(U)}) = Cardinality(U) - 1
        BY <4>1, <1>1, FS_RemoveElement
      <4> QED BY <3>2, <4>1, <4>2, <1>1
    <3> QED BY <3>1, <3>2
  <2> QED BY <2>1
<1>3. Z = Step(Z)
  BY <1>2
<1>4. BagCardinality(f) = Z[D]
  BY DEF BagCardinality
<1> DEFINE T == {n \in Nat : \A U \in SUBSET D : Cardinality(U) = n => Z[U] = n}
<1> HIDE DEF Z
<1>5. \A U \in SUBSET D : Z[U] = IF U = {} THEN 0 ELSE f[elt(U)] + Z[U \ {elt(U)}]
  <2>1. \A U \in SUBSET D : Z[U] = Step(Z)[U]
    BY <1>3
  <2> QED BY <2>1
<1>6. 0 \in T
  BY <1>1, <1>5, FS_EmptySet
<1>7. ASSUME NEW n \in T PROVE n + 1 \in T
  <2> SUFFICES ASSUME NEW U \in SUBSET D, Cardinality(U) = n + 1 PROVE Z[U] = n + 1
    OBVIOUS
  <2>1. U # {}
    BY FS_EmptySet
  <2>2. elt(U) \in U /\ U \ {elt(U)} \in SUBSET D
    BY <2>1
  <2> HIDE DEF elt
  <2>3. Cardinality(U \ {elt(U)}) = n
    BY <2>2, <1>1, FS_RemoveElement
  <2>4. Z[U \ {elt(U)}] = n
    BY <2>2, <2>3
  <2>5. f[elt(U)] = 1
    BY <2>2
  <2>6. Z[U] = f[elt(U)] + Z[U \ {elt(U)}]
    BY <2>1, <1>5
  <2> QED BY <2>4, <2>5, <2>6
<1>8. T = Nat
  <2>1. T \in SUBSET Nat
    OBVIOUS
  <2> HIDE DEF T
  <2> QED BY <2>1, <1>6, <1>7, Induction
<1> QED BY <1>1, <1>4, <1>8

(* A finite set of numbers has a greatest one.                             *)
LEMMA FiniteMax ==
    ASSUME NEW S \in SUBSET Nat, IsFiniteSet(S), S # {}
    PROVE  Max(S) \in S /\ \A m \in S : m <= Max(S)
<1> DEFINE T == {U \in SUBSET S : \E top \in Nat : \A m \in U : m <= top}
<1>1. {} \in T
  <2>1. \E top \in Nat : \A m \in {} : m <= top
    <3> WITNESS 0 \in Nat
    <3> QED OBVIOUS
  <2> QED BY <2>1
<1>2. ASSUME NEW U \in T, NEW x \in S PROVE U \cup {x} \in T
  <2>1. PICK top \in Nat : \A m \in U : m <= top
    OBVIOUS
  <2>2. CASE x <= top
    BY <2>1, <2>2
  <2>3. CASE ~(x <= top)
    <3>1. x \in Nat /\ \A m \in U \cup {x} : m <= x
      BY <2>1, <2>3
    <3> QED BY <3>1
  <2> QED BY <2>2, <2>3
<1>3. S \in T
  <2>1. T \in SUBSET SUBSET S
    OBVIOUS
  <2> HIDE DEF T
  <2> QED BY <2>1, <1>1, <1>2, FiniteInduction
<1>4. PICK top \in Nat : \A m \in S : m <= top
  BY <1>3
<1> QED BY <1>4, MaxIsGreatest

(* The sum of F over S, counted out: as many marks at each x as F[x] says. *)
Marks(F, S) == UNION {{x} \X (1 .. F[x]) : x \in S}

(* A member put into S adds as many marks as F gives it.                   *)
LEMMA MarksAdded ==
    ASSUME NEW U, NEW x, x \notin U, NEW F, F[x] \in Nat, IsFiniteSet(Marks(F, U))
    PROVE  /\ IsFiniteSet(Marks(F, U \cup {x}))
           /\ Cardinality(Marks(F, U \cup {x})) = F[x] + Cardinality(Marks(F, U))
<1> DEFINE X == {x} \X (1 .. F[x])
<1>1. Marks(F, U \cup {x}) = Marks(F, U) \cup X
  BY DEF Marks
<1>2. Marks(F, U) \cap X = {}
  BY DEF Marks
<1>3. IsFiniteSet(X) /\ Cardinality(X) = F[x]
  <2> PICK n \in Nat : n = F[x]
    OBVIOUS
  <2>1. IsFiniteSet({x}) /\ Cardinality({x}) = 1
    BY FS_Singleton
  <2>2. IsFiniteSet(1 .. n) /\ Cardinality(1 .. n) = n
    <3>1. 1 \in Int /\ n \in Int
      OBVIOUS
    <3>2. /\ IsFiniteSet(1 .. n)
          /\ Cardinality(1 .. n) = IF 1 > n THEN 0 ELSE n - 1 + 1
      BY <3>1, FS_Interval
    <3> QED BY <3>2
  <2>3. IsFiniteSet({x} \X (1 .. n)) /\ Cardinality({x} \X (1 .. n)) = 1 * n
    BY <2>1, <2>2, FS_Product
  <2> QED BY <2>3
<1> HIDE DEF X
<1>4. /\ IsFiniteSet(Marks(F, U) \cup X)
      /\ Cardinality(Marks(F, U) \cup X)
            = Cardinality(Marks(F, U)) + Cardinality(X) - Cardinality(Marks(F, U) \cap X)
  BY <1>3, FS_Union
<1>5. Cardinality(Marks(F, U)) \in Nat /\ Cardinality({}) = 0
  BY FS_CardinalityType, FS_EmptySet
<1>6. Cardinality(Marks(F, U) \cup X) = F[x] + Cardinality(Marks(F, U))
  <2>1. Cardinality(Marks(F, U) \cap X) = 0
    BY <1>2, <1>5
  <2> QED BY <1>3, <1>4, <1>5, <2>1
<1> QED BY <1>1, <1>4, <1>6

(* The marks of a finite set are finitely many.                            *)
LEMMA MarksFinite ==
    ASSUME NEW S, IsFiniteSet(S), NEW F, \A x \in S : F[x] \in Nat
    PROVE  IsFiniteSet(Marks(F, S)) /\ Cardinality(Marks(F, S)) \in Nat
<1> DEFINE T == {U \in SUBSET S : IsFiniteSet(Marks(F, U))}
<1>1. {} \in T
  BY FS_EmptySet DEF Marks
<1>2. ASSUME NEW U \in T, NEW x \in S PROVE U \cup {x} \in T
  <2>1. CASE x \in U
    <3>1. U \cup {x} = U
      BY <2>1
    <3> QED BY <3>1
  <2>2. CASE x \notin U
    BY <2>2, MarksAdded
  <2> QED BY <2>1, <2>2
<1>3. S \in T
  <2>1. T \in SUBSET SUBSET S
    OBVIOUS
  <2> HIDE DEF T
  <2> QED BY <2>1, <1>1, <1>2, FiniteInduction
<1> QED BY <1>3, FS_CardinalityType

(* What MapThenSumSet computes, whatever element it takes first.           *)
LEMMA SumCountsMarks ==
    ASSUME NEW S, IsFiniteSet(S), NEW F, \A x \in S : F[x] \in Nat
    PROVE  MapThenSumSet(LAMBDA x : F[x], S) = Cardinality(Marks(F, S))
<1> DEFINE elt(U) == CHOOSE e \in U : TRUE
           Step(g) == [U \in SUBSET S |-> IF U = {} THEN 0
                                          ELSE F[elt(U)] + g[U \ {elt(U)}]]
           Z == CHOOSE g : g = Step(g)
           Card == [U \in SUBSET S |-> Cardinality(Marks(F, U))]
<1>1. \A U \in SUBSET S : IsFiniteSet(U) /\ Cardinality(U) \in Nat
  BY FS_Subset, FS_CardinalityType
<1>2. \A U \in SUBSET S : U # {} =>
         /\ elt(U) \in U /\ U \ {elt(U)} \in SUBSET S
         /\ Cardinality(Marks(F, U)) = F[elt(U)] + Cardinality(Marks(F, U \ {elt(U)}))
  <2> SUFFICES ASSUME NEW U \in SUBSET S, U # {}
               PROVE  /\ elt(U) \in U /\ U \ {elt(U)} \in SUBSET S
                      /\ Cardinality(Marks(F, U)) = F[elt(U)] + Cardinality(Marks(F, U \ {elt(U)}))
    OBVIOUS
  <2>1. elt(U) \in U
    OBVIOUS
  <2> DEFINE V == U \ {elt(U)}
  <2>2. U = V \cup {elt(U)} /\ V \in SUBSET S /\ elt(U) \notin V
    BY <2>1
  <2> HIDE DEF V, elt
  <2>3. IsFiniteSet(Marks(F, V)) /\ F[elt(U)] \in Nat
    BY <2>1, <2>2, <1>1, MarksFinite
  <2>4. Cardinality(Marks(F, V \cup {elt(U)})) = F[elt(U)] + Cardinality(Marks(F, V))
    BY <2>2, <2>3, MarksAdded
  <2> QED BY <2>1, <2>2, <2>4 DEF V
<1>3. Marks(F, {}) = {} /\ Cardinality({}) = 0
  BY FS_EmptySet DEF Marks
<1>4. Card = Step(Card)
  <2> SUFFICES ASSUME NEW U \in SUBSET S PROVE Card[U] = Step(Card)[U]
    OBVIOUS
  <2> HIDE DEF elt
  <2> QED BY <1>2, <1>3
<1>5. Z = Step(Z)
  BY <1>4
<1>6. MapThenSumSet(LAMBDA x : F[x], S) = Z[S]
  BY DEF MapThenSumSet, MapThenFoldSet
<1> HIDE DEF Z
<1> DEFINE T == {n \in Nat : \A U \in SUBSET S : Cardinality(U) = n => Z[U] = Cardinality(Marks(F, U))}
<1>7. \A U \in SUBSET S : Z[U] = IF U = {} THEN 0 ELSE F[elt(U)] + Z[U \ {elt(U)}]
  <2>1. \A U \in SUBSET S : Z[U] = Step(Z)[U]
    BY <1>5
  <2> QED BY <2>1
<1>8. 0 \in T
  BY <1>1, <1>3, <1>7, FS_EmptySet
<1> HIDE DEF elt
<1>9. ASSUME NEW n \in T PROVE n + 1 \in T
  <2> SUFFICES ASSUME NEW U \in SUBSET S, Cardinality(U) = n + 1
               PROVE  Z[U] = Cardinality(Marks(F, U))
    OBVIOUS
  <2>1. U # {}
    <3>1. n + 1 # 0
      BY <1>9
    <3> QED BY <3>1, <1>3
  <2>2. elt(U) \in U /\ U \ {elt(U)} \in SUBSET S
    BY <2>1, <1>2
  <2>3. Cardinality(U \ {elt(U)}) = n
    BY <2>2, <1>1, FS_RemoveElement
  <2>4. Z[U \ {elt(U)}] = Cardinality(Marks(F, U \ {elt(U)}))
    BY <2>2, <2>3
  <2> QED BY <2>1, <2>4, <1>2, <1>7
<1>10. T = Nat
  <2>1. T \in SUBSET Nat
    OBVIOUS
  <2> HIDE DEF T
  <2> QED BY <2>1, <1>8, <1>9, Induction
<1> QED BY <1>1, <1>6, <1>10

(* The sum of F over S, as a value.                                        *)
SumOver(F, S) == MapThenSumSet(LAMBDA x : F[x], S)

(* A sum grows by what is added to its set.                                *)
LEMMA SumAdded ==
    ASSUME NEW U, IsFiniteSet(U), NEW x, x \notin U, NEW F, \A y \in U \cup {x} : F[y] \in Nat
    PROVE  /\ SumOver(F, U) \in Nat
           /\ SumOver(F, U \cup {x}) = F[x] + SumOver(F, U)
<1>1. IsFiniteSet(Marks(F, U)) /\ Cardinality(Marks(F, U)) \in Nat
  BY MarksFinite
<1>2. Cardinality(Marks(F, U \cup {x})) = F[x] + Cardinality(Marks(F, U))
  BY <1>1, MarksAdded
<1>3. SumOver(F, U) = Cardinality(Marks(F, U))
  BY SumCountsMarks DEF SumOver
<1>4. SumOver(F, U \cup {x}) = Cardinality(Marks(F, U \cup {x}))
  <2> DEFINE V == U \cup {x}
  <2>1. IsFiniteSet(V) /\ \A y \in V : F[y] \in Nat
    BY FS_AddElement
  <2> HIDE DEF V
  <2>2. SumOver(F, V) = Cardinality(Marks(F, V))
    BY <2>1, SumCountsMarks DEF SumOver
  <2> QED BY <2>2 DEF V
<1> QED BY <1>1, <1>2, <1>3, <1>4

(* A sum depends on no value outside its set.                              *)
LEMMA SumSame ==
    ASSUME NEW S, IsFiniteSet(S), NEW F, NEW G, \A x \in S : F[x] \in Nat /\ F[x] = G[x]
    PROVE  SumOver(F, S) = SumOver(G, S)
<1>1. Marks(F, S) = Marks(G, S)
  BY DEF Marks
<1>2. SumOver(F, S) = Cardinality(Marks(F, S))
  BY SumCountsMarks DEF SumOver
<1>3. \A x \in S : G[x] \in Nat
  OBVIOUS
<1>4. SumOver(G, S) = Cardinality(Marks(G, S))
  BY <1>3, SumCountsMarks DEF SumOver
<1> QED BY <1>1, <1>2, <1>4

(* The sum over nothing.                                                   *)
LEMMA SumOfNone == ASSUME NEW F PROVE SumOver(F, {}) = 0
<1>1. SumOver(F, {}) = Cardinality(Marks(F, {}))
  <2>1. IsFiniteSet({}) /\ \A x \in {} : F[x] \in Nat
    BY FS_EmptySet
  <2> QED BY <2>1, SumCountsMarks DEF SumOver
<1>2. Marks(F, {}) = {}
  BY DEF Marks
<1> QED BY <1>1, <1>2, FS_EmptySet

(* A sequence without repetition, with one element put before it and with  *)
(* the i-th taken out.                                                     *)
Elements(s) == {s[i] : i \in 1 .. Len(s)}

Prefixed(x, s) == <<x>> \o s

WithoutPlace(s, i) == SubSeq(s, 1, i - 1) \o SubSeq(s, i + 1, Len(s))

(* What is in a sequence with x put before it, and where.                  *)
LEMMA PutBefore ==
    ASSUME NEW S, NEW s \in Seq(S), NoneTwice(s), NEW x \in S, x \notin Elements(s),
           NEW t, t = Prefixed(x, s)
    PROVE  /\ t \in Seq(S) /\ t # << >> /\ NoneTwice(t)
           /\ Elements(t) = Elements(s) \cup {x}
           /\ s # << >> => t[Len(t)] = s[Len(s)]
<1> DEFINE m == Len(s)
<1>1. /\ t \in Seq(S) /\ Len(t) = m + 1 /\ t[1] = x /\ m \in Nat
      /\ \A i \in 1 .. m : t[i + 1] = s[i]
  BY DEF Prefixed
<1>2. \A i \in 1 .. m + 1 : i # 1 => i - 1 \in 1 .. m /\ t[i] = s[i - 1]
  <2> SUFFICES ASSUME NEW i \in 1 .. m + 1, i # 1 PROVE i - 1 \in 1 .. m /\ t[i] = s[i - 1]
    OBVIOUS
  <2>1. i - 1 \in 1 .. m /\ i = (i - 1) + 1
    BY <1>1
  <2> QED BY <2>1, <1>1
<1> HIDE DEF m
<1>3. NoneTwice(t)
  <2> SUFFICES ASSUME NEW i \in 1 .. m + 1, NEW j \in 1 .. m + 1, t[i] = t[j] PROVE i = j
    BY <1>1 DEF NoneTwice
  <2>1. \A k \in 1 .. m : s[k] # x
    BY DEF Elements, m
  <2>2. CASE i = 1 \/ j = 1
    <3>1. \A k \in 1 .. m + 1 : k # 1 => t[k] # x
      BY <1>2, <2>1
    <3> QED BY <3>1, <1>1, <2>2
  <2>3. CASE i # 1 /\ j # 1
    <3>1. i - 1 = j - 1
      BY <1>2, <2>3 DEF NoneTwice, m
    <3> QED BY <3>1
  <2> QED BY <2>2, <2>3
<1>4. Elements(t) = Elements(s) \cup {x}
  <2>1. ASSUME NEW i \in 1 .. m + 1 PROVE t[i] \in Elements(s) \cup {x}
    BY <1>1, <1>2 DEF Elements, m
  <2>2. ASSUME NEW i \in 1 .. m PROVE s[i] \in Elements(t)
    <3>1. i + 1 \in 1 .. Len(t) /\ t[i + 1] = s[i]
      BY <1>1
    <3> QED BY <3>1 DEF Elements
  <2>3. x \in Elements(t)
    <3>1. 1 \in 1 .. Len(t)
      BY <1>1
    <3> QED BY <3>1, <1>1 DEF Elements
  <2>4. Elements(s) \subseteq Elements(t)
    BY <2>2 DEF Elements, m
  <2>5. Elements(t) \subseteq Elements(s) \cup {x}
    BY <2>1, <1>1 DEF Elements
  <2> QED BY <2>3, <2>4, <2>5
<1>5. s # << >> => t[Len(t)] = s[Len(s)]
  <2> SUFFICES ASSUME s # << >> PROVE t[Len(t)] = s[Len(s)]
    OBVIOUS
  <2>1. m \in 1 .. m
    BY <1>1 DEF m
  <2> QED BY <2>1, <1>1 DEF m
<1> QED BY <1>1, <1>3, <1>4, <1>5

(* The same sequence with the element at i taken out: where the others go. *)
LEMMA TakenPlaces ==
    ASSUME NEW S, NEW s \in Seq(S), NEW i \in 1 .. Len(s), NEW t, t = WithoutPlace(s, i)
    PROVE  /\ t \in Seq(S) /\ Len(t) = Len(s) - 1
           /\ \A j \in 1 .. Len(t) : t[j] = IF j < i THEN s[j] ELSE s[j + 1]
<1> PICK p \in Nat, q \in Nat : i = p + 1 /\ Len(s) = p + 1 + q
  <2>1. i - 1 \in Nat /\ Len(s) - i \in Nat /\ i = (i - 1) + 1 /\ Len(s) = (i - 1) + 1 + (Len(s) - i)
    OBVIOUS
  <2> QED BY <2>1
<1> DEFINE before == SubSeq(s, 1, p)
           behind == SubSeq(s, p + 2, p + 1 + q)
<1>1. before \in Seq(S) /\ Len(before) = p /\ \A j \in 1 .. p : before[j] = s[j]
  <2>1. 1 \in Int /\ p \in Int
    OBVIOUS
  <2> QED BY <2>1, SubSeqProperties
<1>2. /\ behind \in Seq(S) /\ Len(behind) = q
      /\ \A j \in 1 .. q : behind[j] = s[p + 1 + j]
  <2> PICK lo \in Int, hi \in Int : lo = p + 2 /\ hi = p + 1 + q
    OBVIOUS
  <2> DEFINE u == SubSeq(s, lo, hi)
  <2>1. \A j \in lo .. hi : s[j] \in S
    OBVIOUS
  <2>2. /\ u \in Seq(S)
        /\ Len(u) = IF lo <= hi THEN hi - lo + 1 ELSE 0
        /\ \A j \in 1 .. hi - lo + 1 : u[j] = s[lo + j - 1]
    BY <2>1, SubSeqProperties
  <2> HIDE DEF u
  <2>3. hi - lo + 1 = q /\ (lo <= hi <=> q > 0)
    OBVIOUS
  <2>4. \A j \in 1 .. q : lo + j - 1 = p + 1 + j
    OBVIOUS
  <2>5. u \in Seq(S) /\ Len(u) = q /\ \A j \in 1 .. q : u[j] = s[p + 1 + j]
    <3>1. Len(u) = q
      BY <2>2, <2>3
    <3>2. 1 .. hi - lo + 1 = 1 .. q
      BY <2>3
    <3> QED BY <2>2, <2>4, <3>1, <3>2
  <2> QED BY <2>5 DEF u
<1>3. t = before \o behind
  <2>1. i - 1 = p /\ i + 1 = p + 2
    OBVIOUS
  <2> QED BY <2>1 DEF WithoutPlace
<1> HIDE DEF before, behind
<1>4. /\ t \in Seq(S) /\ Len(t) = p + q
      /\ \A j \in 1 .. p + q : t[j] = IF j <= p THEN s[j] ELSE s[j + 1]
  <2>1. /\ t \in Seq(S) /\ Len(t) = p + q
        /\ \A j \in 1 .. p + q : t[j] = IF j <= p THEN before[j] ELSE behind[j - p]
    <3>1. before \in Seq(S) /\ behind \in Seq(S) /\ Len(before) = p /\ Len(behind) = q
      BY <1>1, <1>2
    <3>2. before \o behind \in Seq(S) /\ Len(before \o behind) = p + q
      BY <3>1, ConcatProperties
    <3>3. ASSUME NEW j \in 1 .. p + q
          PROVE  (before \o behind)[j] = IF j <= p THEN before[j] ELSE behind[j - p]
      <4> PICK a, z : a = before /\ z = behind
        OBVIOUS
      <4>1. (a \o z)[j] = IF j <= p THEN a[j] ELSE z[j - p]
        BY <3>1
      <4> QED BY <4>1
    <3> QED BY <3>2, <3>3, <1>3
  <2>2. ASSUME NEW j \in 1 .. p + q PROVE t[j] = IF j <= p THEN s[j] ELSE s[j + 1]
    <3>1. CASE j <= p
      BY <3>1, <2>1, <1>1
    <3>2. CASE ~(j <= p)
      <4>1. j - p \in 1 .. q /\ p + 1 + (j - p) = j + 1
        BY <3>2
      <4> QED BY <3>2, <4>1, <2>1, <1>2
    <3> QED BY <3>1, <3>2
  <2> QED BY <2>1, <2>2
<1>5. \A j \in 1 .. p + q : j <= p <=> j < i
  OBVIOUS
<1>6. Len(t) = p + q /\ p + q = Len(s) - 1
  BY <1>4
<1>7. \A j \in 1 .. Len(t) : t[j] = IF j < i THEN s[j] ELSE s[j + 1]
  BY <1>4, <1>5, <1>6
<1> QED BY <1>4, <1>6, <1>7

(* ... and that it is out.                                                 *)
LEMMA TakeOut ==
    ASSUME NEW S, NEW s \in Seq(S), NoneTwice(s), NEW i \in 1 .. Len(s),
           NEW t, t = WithoutPlace(s, i)
    PROVE  /\ t \in Seq(S) /\ NoneTwice(t) /\ Len(t) = Len(s) - 1
           /\ Elements(t) = Elements(s) \ {s[i]}
           /\ i # Len(s) => t # << >> /\ t[Len(t)] = s[Len(s)]
<1> PICK p \in Nat, q \in Nat : i = p + 1 /\ Len(s) = p + 1 + q
  <2>1. i - 1 \in Nat /\ Len(s) - i \in Nat /\ i = (i - 1) + 1 /\ Len(s) = (i - 1) + 1 + (Len(s) - i)
    OBVIOUS
  <2> QED BY <2>1
<1>4. /\ t \in Seq(S) /\ Len(t) = p + q
      /\ \A j \in 1 .. p + q : t[j] = IF j <= p THEN s[j] ELSE s[j + 1]
  <2>1. /\ t \in Seq(S) /\ Len(t) = Len(s) - 1
        /\ \A j \in 1 .. Len(t) : t[j] = IF j < i THEN s[j] ELSE s[j + 1]
    BY TakenPlaces
  <2>2. \A j \in 1 .. p + q : j <= p <=> j < i
    OBVIOUS
  <2>3. Len(t) = p + q
    BY <2>1
  <2> QED BY <2>1, <2>2, <2>3
<1> DEFINE from(j) == IF j <= p THEN j ELSE j + 1
<1>5. \A j \in 1 .. p + q : from(j) \in 1 .. p + 1 + q /\ from(j) # i /\ t[j] = s[from(j)]
  <2>1. ASSUME NEW j \in 1 .. p + q PROVE from(j) \in 1 .. p + 1 + q /\ from(j) # i
    OBVIOUS
  <2>2. ASSUME NEW j \in 1 .. p + q PROVE t[j] = s[from(j)]
    BY <1>4
  <2> QED BY <2>1, <2>2
<1>6. \A k \in 1 .. p + 1 + q : k # i => \E j \in 1 .. p + q : from(j) = k
  <2> SUFFICES ASSUME NEW k \in 1 .. p + 1 + q, k # i PROVE \E j \in 1 .. p + q : from(j) = k
    OBVIOUS
  <2>1. CASE k <= p
    <3>1. k \in 1 .. p + q /\ from(k) = k
      BY <2>1
    <3> HIDE DEF from
    <3> QED BY <3>1
  <2>2. CASE k > p + 1
    <3>1. k - 1 \in 1 .. p + q /\ from(k - 1) = k
      BY <2>2
    <3> HIDE DEF from
    <3> QED BY <3>1
  <2> QED BY <2>1, <2>2
<1>7. \A j, k \in 1 .. p + q : from(j) = from(k) => j = k
  OBVIOUS
<1> HIDE DEF from
<1>8. NoneTwice(t)
  <2> SUFFICES ASSUME NEW j \in 1 .. p + q, NEW k \in 1 .. p + q, t[j] = t[k] PROVE j = k
    <3>1. Len(t) = p + q
      BY <1>4
    <3> QED BY <3>1 DEF NoneTwice
  <2>1. from(j) = from(k)
    <3>1. s[from(j)] = s[from(k)] /\ from(j) \in 1 .. Len(s) /\ from(k) \in 1 .. Len(s)
      BY <1>5
    <3> QED BY <3>1 DEF NoneTwice
  <2> QED BY <2>1, <1>7
<1>9. Elements(t) = Elements(s) \ {s[i]}
  <2>1. ASSUME NEW j \in 1 .. p + q PROVE t[j] \in Elements(s) \ {s[i]}
    BY <1>5 DEF Elements, NoneTwice
  <2>2. ASSUME NEW k \in 1 .. Len(s), s[k] # s[i] PROVE s[k] \in Elements(t)
    <3>1. PICK j \in 1 .. p + q : from(j) = k
      BY <1>6, <2>2
    <3> QED BY <3>1, <1>4, <1>5 DEF Elements
  <2>3. Elements(t) \subseteq Elements(s) \ {s[i]}
    BY <2>1, <1>4 DEF Elements
  <2>4. Elements(s) \ {s[i]} \subseteq Elements(t)
    BY <2>2 DEF Elements
  <2> QED BY <2>3, <2>4
<1>10. i # Len(s) => t # << >> /\ t[Len(t)] = s[Len(s)]
  <2> SUFFICES ASSUME i # Len(s) PROVE t # << >> /\ t[Len(t)] = s[Len(s)]
    OBVIOUS
  <2>1. p + q \in 1 .. p + q /\ ~(p + q <= p) /\ (p + q) + 1 = p + 1 + q
    OBVIOUS
  <2>2. t[p + q] = s[p + 1 + q]
    BY <2>1, <1>4
  <2> QED BY <2>1, <2>2, <1>4
<1>11. Len(t) = Len(s) - 1
  BY <1>4
<1> QED BY <1>4, <1>8, <1>9, <1>10, <1>11

(* The elements of a sequence are as many as its length.                   *)
LEMMA ElementsFinite ==
    ASSUME NEW S, NEW s \in Seq(S), NoneTwice(s)
    PROVE  IsFiniteSet(Elements(s)) /\ Cardinality(Elements(s)) = Len(s)
BY InjectiveSeqCardinality DEF Elements, NoneTwice

(* A fold over the places 1 to n takes them in their order: the recursion  *)
(* over sets of places that defines it has a solution.                     *)
SolvesFold(g, n, x0, F) ==
    /\ g[{}] = x0
    /\ \A U \in SUBSET (1 .. n) : U # {} => g[U] = F[<<Max(U), g[U \ {Max(U)}]>>]

(* That recursion over the sets of places has a solution.                  *)
LEMMA Folding ==
    ASSUME NEW N \in Nat, NEW Y, NEW x0 \in Y, NEW F \in [(1 .. N) \X Y -> Y]
    PROVE  \E g \in [SUBSET (1 .. N) -> Y] : SolvesFold(g, N, x0, F)
<1> DEFINE Good(n) == \E g \in [SUBSET (1 .. n) -> Y] : SolvesFold(g, n, x0, F)
           T == {n \in Nat : n <= N => Good(n)}
<1>1. 0 \in T
  <2> DEFINE g == [U \in SUBSET (1 .. 0) |-> x0]
  <2>1. 1 .. 0 = {} /\ g \in [SUBSET (1 .. 0) -> Y]
    OBVIOUS
  <2>2. g[{}] = x0 /\ \A U \in SUBSET (1 .. 0) : U = {}
    BY <2>1
  <2>3. SolvesFold(g, 0, x0, F)
    BY <2>2 DEF SolvesFold
  <2> HIDE DEF g
  <2> QED BY <2>1, <2>3
<1>2. ASSUME NEW n \in T PROVE n + 1 \in T
  <2>a. n \in Nat
    OBVIOUS
  <2>b. n <= N => Good(n)
    OBVIOUS
  <2> HIDE DEF T, Good
  <2> SUFFICES ASSUME n + 1 <= N PROVE Good(n + 1)
    BY <2>a DEF T
  <2>c. n <= N
    BY <2>a
  <2>d. Good(n)
    BY <2>b, <2>c
  <2> USE DEF Good
  <2>1. PICK g \in [SUBSET (1 .. n) -> Y] : SolvesFold(g, n, x0, F)
    BY <2>d
  <2> DEFINE m == n + 1
             h == [U \in SUBSET (1 .. m) |-> IF m \in U THEN F[<<m, g[U \ {m}]>>] ELSE g[U]]
  <2>2. m \in 1 .. N /\ m \in Nat /\ \A U \in SUBSET (1 .. m) : U \ {m} \in SUBSET (1 .. n)
    BY <2>a
  <2>3. h \in [SUBSET (1 .. m) -> Y]
    BY <2>2
  <2>4. h[{}] = x0
    BY <2>1 DEF SolvesFold
  <2>5. ASSUME NEW U \in SUBSET (1 .. m), U # {} PROVE h[U] = F[<<Max(U), h[U \ {Max(U)}]>>]
    <3>1. CASE m \in U
      <4>1. Max(U) = m
        <5>1. Max(U) \in U /\ \A x \in U : x <= Max(U)
          <6>1. U \in SUBSET Nat /\ \A x \in U : x <= m
            BY <2>2
          <6> HIDE DEF m
          <6> QED BY <6>1, <2>2, <2>5, MaxIsGreatest
        <5>2. \A x \in U : x <= m /\ x \in Nat
          BY <2>2
        <5> QED BY <5>1, <5>2, <3>1, <2>2
      <4>2. h[U \ {m}] = g[U \ {m}]
        BY <2>2
      <4> QED BY <4>1, <4>2, <3>1
    <3>2. CASE m \notin U
      <4>1. U \in SUBSET (1 .. n) /\ U \in SUBSET Nat /\ \A x \in U : x <= m
        BY <3>2, <2>a
      <4>2. Max(U) \in U
        <5> HIDE DEF m
        <5> QED BY <4>1, <2>2, <2>5, MaxIsGreatest
      <4>3. h[U] = g[U] /\ h[U \ {Max(U)}] = g[U \ {Max(U)}]
        BY <3>2, <4>1
      <4> QED BY <4>1, <4>3, <2>1, <2>5 DEF SolvesFold
    <3> QED BY <3>1, <3>2
  <2> HIDE DEF h
  <2>6. SolvesFold(h, m, x0, F)
    BY <2>4, <2>5 DEF SolvesFold
  <2> QED BY <2>3, <2>6
<1>3. T = Nat
  <2>1. T \in SUBSET Nat
    OBVIOUS
  <2> HIDE DEF T
  <2> QED BY <2>1, <1>1, <1>2, Induction
<1>4. N \in T
  BY <1>3
<1>5. Good(N)
  <2> HIDE DEF Good
  <2> QED BY <1>4
<1> QED BY <1>5

(* What a fold has computed when it has taken the first n places.          *)
FoldOf(g, N, Y, x0, F) ==
    /\ g \in [SUBSET (1 .. N) -> Y] /\ SolvesFold(g, N, x0, F)

FoldingSteps(p, N, Y, x0, F) ==
    /\ p \in [0 .. N -> Y] /\ p[0] = x0
    /\ \A n \in 1 .. N : p[n] = F[<<n, p[n - 1]>>]

(* A fold over the places 1 to n is the last of values that each come from *)
(* the one before.                                                         *)
LEMMA FoldSteps ==
    ASSUME NEW N \in Nat, NEW Y, NEW x0, NEW F, NEW g, FoldOf(g, N, Y, x0, F)
    PROVE  \E p : FoldingSteps(p, N, Y, x0, F) /\ p[N] = g[1 .. N]
<1> DEFINE p == [n \in 0 .. N |-> g[1 .. n]]
<1>0. g \in [SUBSET (1 .. N) -> Y] /\ SolvesFold(g, N, x0, F)
  BY DEF FoldOf
<1>1. \A n \in 0 .. N : 1 .. n \in SUBSET (1 .. N)
  OBVIOUS
<1>2. p[0] = x0
  BY <1>0 DEF SolvesFold
<1>3. ASSUME NEW n \in 1 .. N PROVE p[n] = F[<<n, p[n - 1]>>]
  <2>0. n \in Nat /\ n >= 1
    OBVIOUS
  <2>1. 1 .. n # {} /\ 1 .. n \in SUBSET Nat /\ n \in 1 .. n /\ n \in Nat
    BY <2>0
  <2>4. (1 .. n) \ {n} = 1 .. (n - 1)
    OBVIOUS
  <2>2. Max(1 .. n) = n
    <3>1. Max(1 .. n) \in 1 .. n /\ \A x \in 1 .. n : x <= Max(1 .. n)
      <4>1. \A x \in 1 .. n : x <= n
        OBVIOUS
      <4> QED BY <2>1, <4>1, MaxIsGreatest
    <3> QED BY <3>1
  <2>3. g[1 .. n] = F[<<n, g[1 .. (n - 1)]>>]
    <3> DEFINE U == 1 .. n
    <3>1. U \in SUBSET (1 .. N) /\ U # {} /\ Max(U) = n /\ U \ {n} = 1 .. (n - 1)
      BY <1>1, <2>1, <2>2, <2>4
    <3> HIDE DEF U
    <3>2. g[U] = F[<<Max(U), g[U \ {Max(U)}]>>]
      BY <1>0, <3>1 DEF SolvesFold
    <3>3. g[U] = F[<<n, g[1 .. (n - 1)]>>]
      BY <3>1, <3>2
    <3> QED BY <3>3 DEF U
  <2>5. n \in 0 .. N /\ n - 1 \in 0 .. N
    OBVIOUS
  <2> QED BY <2>3, <2>5
<1>4. p \in [0 .. N -> Y] /\ p[N] = g[1 .. N]
  BY <1>0, <1>1
<1> HIDE DEF p
<1> QED BY <1>2, <1>3, <1>4 DEF FoldingSteps

(* Two solutions of such a recursion are one.                              *)
LEMMA FoldsAgree ==
    ASSUME NEW N \in Nat, NEW f, NEW g, f[{}] = g[{}],
           \A U \in SUBSET (1 .. N) :
              U # {} /\ f[U \ {Max(U)}] = g[U \ {Max(U)}] => f[U] = g[U]
    PROVE  f[1 .. N] = g[1 .. N]
<1> DEFINE T == {n \in Nat : n <= N => \A U \in SUBSET (1 .. n) : f[U] = g[U]}
<1>1. 0 \in T
  <2>1. \A U \in SUBSET (1 .. 0) : U = {}
    OBVIOUS
  <2> QED BY <2>1
<1>2. ASSUME NEW n \in T PROVE n + 1 \in T
  <2>1. n \in Nat /\ n + 1 \in Nat
    OBVIOUS
  <2> SUFFICES ASSUME n + 1 <= N, NEW U \in SUBSET (1 .. n + 1) PROVE f[U] = g[U]
    BY <2>1
  <2>2. n <= N
    BY <2>1
  <2>3. \A V \in SUBSET (1 .. n) : f[V] = g[V]
    BY <2>2
  <2> HIDE DEF T
  <2>4. CASE U # {}
    <3>1. U \in SUBSET Nat /\ U \in SUBSET (1 .. N) /\ \A x \in U : x <= N /\ x \in Nat
      BY <2>1
    <3>2. Max(U) \in U /\ \A x \in U : x <= Max(U)
      BY <3>1, <2>4, MaxIsGreatest
    <3>3. \A x \in U \ {Max(U)} : x \in 1 .. n
      <4>1. PICK m \in 1 .. n + 1 : m = Max(U)
        BY <3>2
      <4> QED BY <4>1, <3>1, <3>2, <2>1
    <3>4. f[U \ {Max(U)}] = g[U \ {Max(U)}]
      BY <3>3, <2>3
    <3> QED BY <3>1, <3>4, <2>4
  <2> QED BY <2>4
<1>3. T = Nat
  <2>1. T \in SUBSET Nat
    OBVIOUS
  <2> HIDE DEF T
  <2> QED BY <2>1, <1>1, <1>2, Induction
<1>4. \A U \in SUBSET (1 .. N) : f[U] = g[U]
  BY <1>3
<1> QED BY <1>4

\* the elements of a list that are in P
SiftOf(list, P) == FoldLeft(LAMBDA kept, e : IF e \in P THEN Append(kept, e) ELSE kept, << >>, list)

(* A list without what is not in P.                                        *)
LEMMA SiftSteps ==
    ASSUME NEW S, NEW list \in Seq(S), NEW P
    PROVE  \E p \in [0 .. Len(list) -> Seq(S)] :
              /\ p[0] = << >>
              /\ \A n \in 1 .. Len(list) :
                    p[n] = IF list[n] \in P THEN Append(p[n - 1], list[n]) ELSE p[n - 1]
              /\ p[Len(list)] = SiftOf(list, P)
<1> PICK N \in Nat : N = Len(list)
  OBVIOUS
<1> DEFINE Y == Seq(S)
           F == [q \in (1 .. N) \X Y |-> IF list[q[1]] \in P THEN Append(q[2], list[q[1]]) ELSE q[2]]
           Step(g) == [U \in SUBSET (1 .. N) |->
                          IF U = {} THEN << >>
                          ELSE IF list[Max(U)] \in P THEN Append(g[U \ {Max(U)}], list[Max(U)])
                                                     ELSE g[U \ {Max(U)}]]
           Z == CHOOSE g : g = Step(g)
<1>1. F \in [(1 .. N) \X Y -> Y] /\ << >> \in Y
  OBVIOUS
<1>2. PICK g \in [SUBSET (1 .. N) -> Y] : SolvesFold(g, N, << >>, F)
  <2> HIDE DEF F, Y
  <2> QED BY <1>1, Folding
<1>3. g = Step(g)
  <2> SUFFICES ASSUME NEW U \in SUBSET (1 .. N) PROVE g[U] = Step(g)[U]
    OBVIOUS
  <2>1. CASE U = {}
    BY <2>1, <1>2 DEF SolvesFold
  <2>2. CASE U # {}
    <3>1. Max(U) \in U
      <4>1. U \in SUBSET Nat /\ \A x \in U : x <= N
        OBVIOUS
      <4> HIDE DEF F, Y, Step
      <4> QED BY <4>1, <2>2, MaxIsGreatest
    <3>2. U \ {Max(U)} \in SUBSET (1 .. N) /\ Max(U) \in 1 .. N
      BY <3>1
    <3>3. g[U] = F[<<Max(U), g[U \ {Max(U)}]>>]
      BY <1>2, <2>2 DEF SolvesFold
    <3> QED BY <2>2, <3>2, <3>3
  <2> QED BY <2>1, <2>2
<1>4. Z = Step(Z)
  BY <1>3
<1>5. SiftOf(list, P) = Z[1 .. N]
  <2>1. DOMAIN list = 1 .. N
    OBVIOUS
  <2> QED BY <2>1 DEF SiftOf, FoldLeft, MapThenFoldSet
<1> HIDE DEF Z
<1>6. Z[{}] = g[{}]
  <2>1. Step(Z)[{}] = << >> /\ Step(g)[{}] = << >>
    OBVIOUS
  <2> HIDE DEF Step
  <2> QED BY <2>1, <1>3, <1>4
<1>7. ASSUME NEW U \in SUBSET (1 .. N), U # {}, Z[U \ {Max(U)}] = g[U \ {Max(U)}]
      PROVE  Z[U] = g[U]
  <2>1. Step(Z)[U] = Step(g)[U]
    BY <1>7
  <2> HIDE DEF Step
  <2> QED BY <2>1, <1>3, <1>4
<1>8. Z[1 .. N] = g[1 .. N]
  <2> HIDE DEF Step, F, Y
  <2> QED BY <1>6, <1>7, FoldsAgree
<1>9. PICK p : FoldingSteps(p, N, Y, << >>, F) /\ p[N] = g[1 .. N]
  <2> HIDE DEF F, Y, Step
  <2>1. FoldOf(g, N, Y, << >>, F)
    BY <1>2 DEF FoldOf
  <2>2. ASSUME NEW e, FoldOf(g, N, Y, e, F) PROVE \E p : FoldingSteps(p, N, Y, e, F) /\ p[N] = g[1 .. N]
    BY <2>2, FoldSteps
  <2> QED BY <2>1, <2>2
<1> HIDE DEF Step
<1>11. \A n \in 1 .. N : n - 1 \in 0 .. N /\ p[n - 1] \in Y
  <2> HIDE DEF Y, F
  <2>1. \A n \in 1 .. N : n - 1 \in 0 .. N
    OBVIOUS
  <2> QED BY <1>9, <2>1 DEF FoldingSteps
<1>12. \A n \in 1 .. N : p[n] = IF list[n] \in P THEN Append(p[n - 1], list[n]) ELSE p[n - 1]
  BY <1>9, <1>11 DEF FoldingSteps
<1>13. p \in [0 .. N -> Seq(S)] /\ p[0] = << >>
  BY <1>9 DEF FoldingSteps
<1> QED BY <1>5, <1>8, <1>9, <1>12, <1>13

(* Two lists without repetitions that share nothing, one behind the other. *)
JoinedLists(S, a, b, c) == a \in Seq(S) /\ b \in Seq(S) /\ c = a \o b

(* Two lists without repetitions that share nothing make one without       *)
(* repetitions.                                                            *)
LEMMA ConcatApart ==
    ASSUME NEW S, NEW a, NEW b, NEW c, JoinedLists(S, a, b, c)
    PROVE  /\ c \in Seq(S) /\ Len(c) = Len(a) + Len(b) /\ Elements(c) = Elements(a) \cup Elements(b)
           /\ NoneTwice(a) /\ NoneTwice(b) /\ Elements(a) \cap Elements(b) = {} => NoneTwice(c)
<1> a \in Seq(S) /\ b \in Seq(S) /\ c = a \o b
  BY DEF JoinedLists
<1> PICK m \in Nat, n \in Nat : m = Len(a) /\ n = Len(b)
  OBVIOUS
<1>1. /\ c \in Seq(S) /\ Len(c) = m + n
      /\ \A i \in 1 .. m + n : c[i] = IF i <= m THEN a[i] ELSE b[i - m]
  BY ConcatProperties
<1>2. \A i \in 1 .. m : i \in 1 .. m + n /\ c[i] = a[i]
  BY <1>1
<1>3. \A j \in 1 .. n : m + j \in 1 .. m + n /\ c[m + j] = b[j]
  <2> SUFFICES ASSUME NEW j \in 1 .. n PROVE m + j \in 1 .. m + n /\ c[m + j] = b[j]
    OBVIOUS
  <2>1. m + j \in 1 .. m + n /\ ~(m + j <= m) /\ (m + j) - m = j
    OBVIOUS
  <2> QED BY <2>1, <1>1
<1>4. Elements(c) \subseteq Elements(a) \cup Elements(b)
  <2> SUFFICES ASSUME NEW i \in 1 .. m + n PROVE c[i] \in Elements(a) \cup Elements(b)
    BY <1>1 DEF Elements
  <2>1. CASE i <= m
    BY <2>1, <1>1 DEF Elements
  <2>2. CASE ~(i <= m)
    <3>1. i - m \in 1 .. n
      BY <2>2
    <3> QED BY <2>2, <3>1, <1>1 DEF Elements
  <2> QED BY <2>1, <2>2
<1>5. Elements(a) \subseteq Elements(c)
  BY <1>1, <1>2 DEF Elements
<1>6. Elements(b) \subseteq Elements(c)
  <2> SUFFICES ASSUME NEW j \in 1 .. n PROVE b[j] \in Elements(c)
    BY DEF Elements
  <2> QED BY <1>1, <1>3 DEF Elements
<1>7. ASSUME NoneTwice(a), NoneTwice(b), Elements(a) \cap Elements(b) = {}
      PROVE  NoneTwice(c)
  <2> SUFFICES ASSUME NEW i \in 1 .. m + n, NEW j \in 1 .. m + n, c[i] = c[j] PROVE i = j
    BY <1>1 DEF NoneTwice
  <2>1. ASSUME NEW k \in 1 .. m + n
        PROVE  IF k <= m THEN k \in 1 .. m /\ c[k] = a[k] /\ c[k] \in Elements(a)
               ELSE k - m \in 1 .. n /\ c[k] = b[k - m] /\ c[k] \in Elements(b)
    <3>1. CASE k <= m
      BY <3>1, <1>1 DEF Elements
    <3>2. CASE ~(k <= m)
      <4>1. k - m \in 1 .. n
        BY <3>2
      <4> QED BY <3>2, <4>1, <1>1 DEF Elements
    <3> QED BY <3>1, <3>2
  <2>2. CASE i <= m /\ j <= m
    BY <2>1, <2>2, <1>7 DEF NoneTwice
  <2>3. CASE ~(i <= m) /\ ~(j <= m)
    <3>1. i - m = j - m
      BY <2>1, <2>3, <1>7 DEF NoneTwice
    <3> QED BY <3>1
  <2>4. (i <= m) = (j <= m)
    BY <2>1, <1>7
  <2> QED BY <2>2, <2>3, <2>4
<1> QED BY <1>1, <1>4, <1>5, <1>6, <1>7

(* One more element behind a list.                                         *)
LongerList(S, a, x, c) == a \in Seq(S) /\ x \in S /\ c = Append(a, x)

(* A new last element leaves a list without repetitions, if it is new to   *)
(* it.                                                                     *)
LEMMA AppendApart ==
    ASSUME NEW S, NEW a, NEW x, NEW c, LongerList(S, a, x, c)
    PROVE  /\ c \in Seq(S) /\ Len(c) = Len(a) + 1 /\ Elements(c) = Elements(a) \cup {x}
           /\ NoneTwice(a) /\ x \notin Elements(a) => NoneTwice(c)
<1> a \in Seq(S) /\ x \in S /\ c = Append(a, x)
  BY DEF LongerList
<1> PICK m \in Nat : m = Len(a)
  OBVIOUS
<1>1. c \in Seq(S) /\ Len(c) = m + 1 /\ c[m + 1] = x /\ \A i \in 1 .. m : c[i] = a[i]
  OBVIOUS
<1>2. \A i \in 1 .. m + 1 : i = m + 1 \/ i \in 1 .. m
  OBVIOUS
<1>3. m + 1 \in 1 .. m + 1 /\ \A i \in 1 .. m : i \in 1 .. m + 1
  OBVIOUS
<1>4. Elements(c) = Elements(a) \cup {x}
  BY <1>1, <1>2, <1>3 DEF Elements
<1>5. ASSUME NoneTwice(a), x \notin Elements(a) PROVE NoneTwice(c)
  <2> SUFFICES ASSUME NEW i \in 1 .. m + 1, NEW j \in 1 .. m + 1, c[i] = c[j] PROVE i = j
    BY <1>1 DEF NoneTwice
  <2>1. \A k \in 1 .. m : c[k] # x
    BY <1>1, <1>5 DEF Elements
  <2> QED BY <2>1, <1>1, <1>2, <1>5 DEF NoneTwice
<1> QED BY <1>1, <1>4, <1>5

(* A list turned round.                                                    *)
LEMMA ReverseApart ==
    ASSUME NEW S, NEW a \in Seq(S), NEW c, c = Reverse(a)
    PROVE  /\ c \in Seq(S) /\ Len(c) = Len(a) /\ Elements(c) = Elements(a)
           /\ NoneTwice(a) => NoneTwice(c)
<1> PICK m \in Nat : m = Len(a)
  OBVIOUS
<1>1. c = [i \in 1 .. m |-> a[(m - i) + 1]]
  BY DEF Reverse
<1>2. \A i \in 1 .. m : (m - i) + 1 \in 1 .. m /\ (m - ((m - i) + 1)) + 1 = i
  OBVIOUS
<1>3. c \in Seq(S) /\ Len(c) = m
  BY <1>1, <1>2, SeqDef
<1>4. \A i \in 1 .. m : c[i] = a[(m - i) + 1] /\ c[(m - i) + 1] = a[i]
  BY <1>1, <1>2
<1>5. Elements(c) = Elements(a)
  <2>1. ASSUME NEW i \in 1 .. m PROVE c[i] \in Elements(a) /\ a[i] \in Elements(c)
    <3>1. c[i] \in Elements(a)
      BY <1>2, <1>4 DEF Elements
    <3>2. a[i] \in Elements(c)
      BY <1>2, <1>3, <1>4 DEF Elements
    <3> QED BY <3>1, <3>2
  <2> QED BY <2>1, <1>3 DEF Elements
<1>6. ASSUME NoneTwice(a) PROVE NoneTwice(c)
  <2> SUFFICES ASSUME NEW i \in 1 .. m, NEW j \in 1 .. m, c[i] = c[j] PROVE i = j
    BY <1>3 DEF NoneTwice
  <2>1. (m - i) + 1 = (m - j) + 1
    BY <1>2, <1>4, <1>6 DEF NoneTwice
  <2> QED BY <2>1
<1> QED BY <1>3, <1>5, <1>6

(* What is kept of a list without repetitions.                             *)
LEMMA SiftApart ==
    ASSUME NEW S, NEW list \in Seq(S), NEW P, NEW c, c = SiftOf(list, P)
    PROVE  /\ c \in Seq(S) /\ Elements(c) = Elements(list) \cap P
           /\ NoneTwice(list) => NoneTwice(c)
<1> PICK N \in Nat : N = Len(list)
  OBVIOUS
<1>1. PICK p \in [0 .. N -> Seq(S)] :
              /\ p[0] = << >>
              /\ \A n \in 1 .. N :
                    p[n] = IF list[n] \in P THEN Append(p[n - 1], list[n]) ELSE p[n - 1]
              /\ p[N] = c
  BY SiftSteps
<1> DEFINE Upto(n) == {list[i] : i \in 1 .. n}
           Good(n) == Elements(p[n]) = Upto(n) \cap P /\ (NoneTwice(list) => NoneTwice(p[n]))
           T == {n \in Nat : n <= N => Good(n)}
<1>2. 0 \in T
  BY <1>1 DEF Elements, NoneTwice
<1>3. ASSUME NEW n \in T PROVE n + 1 \in T
  <2>1. n \in Nat /\ n + 1 \in Nat /\ (n <= N => Good(n))
    OBVIOUS
  <2> SUFFICES ASSUME n + 1 <= N PROVE Good(n + 1)
    BY <2>1
  <2>2. n + 1 \in 1 .. N /\ n \in 0 .. N /\ (n + 1) - 1 = n /\ n <= N
    BY <2>1
  <2>3. Good(n) /\ p[n] \in Seq(S) /\ list[n + 1] \in S
    BY <2>1, <2>2
  <2>4. p[n + 1] = IF list[n + 1] \in P THEN Append(p[n], list[n + 1]) ELSE p[n]
    BY <1>1, <2>2
  <2>5. Upto(n + 1) = Upto(n) \cup {list[n + 1]}
    <3>1. 1 .. n + 1 = (1 .. n) \cup {n + 1}
      BY <2>1
    <3> QED BY <3>1
  <2>6. NoneTwice(list) => list[n + 1] \notin Upto(n)
    <3>1. \A i \in 1 .. n : i \in 1 .. N /\ i # n + 1
      BY <2>2
    <3> QED BY <3>1, <2>2 DEF NoneTwice
  <2> HIDE DEF T, Upto
  <2>7. CASE list[n + 1] \in P
    <3>1. /\ Elements(p[n + 1]) = Elements(p[n]) \cup {list[n + 1]}
          /\ NoneTwice(p[n]) /\ list[n + 1] \notin Elements(p[n]) => NoneTwice(p[n + 1])
      <4>1. PICK u, v, x : u \in Seq(S) /\ x \in S /\ u = p[n] /\ v = p[n + 1] /\ x = list[n + 1]
        BY <2>3
      <4>2. v = Append(u, x)
        BY <4>1, <2>4, <2>7
      <4>3. /\ Elements(v) = Elements(u) \cup {x}
            /\ NoneTwice(u) /\ x \notin Elements(u) => NoneTwice(v)
        <5> HIDE DEF Good
        <5>1. LongerList(S, u, x, v)
          BY <4>1, <4>2 DEF LongerList
        <5> QED BY <5>1, AppendApart
      <4> QED BY <4>1, <4>3
    <3> QED BY <3>1, <2>3, <2>5, <2>6, <2>7
  <2>8. CASE list[n + 1] \notin P
    BY <2>3, <2>4, <2>5, <2>8
  <2> QED BY <2>7, <2>8
<1>4. T = Nat
  <2>1. T \in SUBSET Nat
    OBVIOUS
  <2> HIDE DEF T
  <2> QED BY <2>1, <1>2, <1>3, Induction
<1>5. Good(N)
  <2>1. N \in T
    BY <1>4
  <2> HIDE DEF Good
  <2> QED BY <2>1
<1>6. Upto(N) = Elements(list) /\ p[N] \in Seq(S)
  BY <1>1 DEF Elements
<1> QED BY <1>1, <1>5, <1>6

(* The lists of a family, one behind the other.                            *)
LEMMA FlattenSteps ==
    ASSUME NEW S, NEW n \in Nat \ {0}, NEW f \in [1 .. n -> Seq(S)]
    PROVE  \E p \in [0 .. n -> Seq(S)] :
              /\ p[0] = << >>
              /\ \A i \in 1 .. n : p[i] = p[i - 1] \o f[i]
              /\ p[n] = FlattenSeq(f)
<1> DEFINE Y == Seq(S)
           F == [q \in (1 .. n) \X Y |-> q[2] \o f[q[1]]]
           Step(g) == [i \in 1 .. n |-> IF i = 1 THEN f[i] ELSE g[i - 1] \o f[i]]
           Z == CHOOSE g : g = Step(g)
<1>1. F \in [(1 .. n) \X Y -> Y] /\ << >> \in Y
  BY ConcatProperties
<1>2. PICK g \in [SUBSET (1 .. n) -> Y] : SolvesFold(g, n, << >>, F)
  <2> HIDE DEF F, Y
  <2> QED BY <1>1, Folding
<1>3. PICK p : FoldingSteps(p, n, Y, << >>, F)
  <2> HIDE DEF F, Y, Step
  <2>1. FoldOf(g, n, Y, << >>, F)
    BY <1>2 DEF FoldOf
  <2>2. ASSUME NEW e, FoldOf(g, n, Y, e, F) PROVE \E p : FoldingSteps(p, n, Y, e, F)
    BY <2>2, FoldSteps
  <2> QED BY <2>1, <2>2
<1>4. p \in [0 .. n -> Y] /\ p[0] = << >>
  BY <1>3 DEF FoldingSteps
<1>5. ASSUME NEW i \in 1 .. n PROVE p[i] = p[i - 1] \o f[i]
  <2>1. i - 1 \in 0 .. n
    OBVIOUS
  <2>2. p[i - 1] \in Y
    BY <1>4, <2>1
  <2>3. p[i] = F[<<i, p[i - 1]>>]
    BY <1>3 DEF FoldingSteps
  <2> QED BY <2>2, <2>3
<1> HIDE DEF F
<1>6. p[1] = f[1]
  <2>1. 1 \in 1 .. n /\ 1 - 1 = 0
    OBVIOUS
  <2>2. p[1] = << >> \o f[1] /\ f[1] \in Seq(S)
    BY <2>1, <1>4, <1>5
  <2> QED BY <2>2
<1> DEFINE q == [i \in 1 .. n |-> p[i]]
<1>7. q = Step(q)
  <2> SUFFICES ASSUME NEW i \in 1 .. n PROVE q[i] = Step(q)[i]
    OBVIOUS
  <2>1. CASE i = 1
    BY <2>1, <1>6
  <2>2. CASE i # 1
    <3>1. i - 1 \in 1 .. n
      BY <2>2
    <3> QED BY <2>2, <3>1, <1>5
  <2> QED BY <2>1, <2>2
<1>8. Z = Step(Z)
  <2> HIDE DEF q, Step
  <2> QED BY <1>7
<1>9. FlattenSeq(f) = Z[n]
  <2>1. Len(f) = n /\ Len(f) # 0
    OBVIOUS
  <2> QED BY <2>1 DEF FlattenSeq
<1> HIDE DEF Z
<1> DEFINE T == {i \in Nat : i + 1 <= n => Z[i + 1] = q[i + 1]}
<1>10. 0 \in T
  <2>1. Step(Z)[1] = f[1] /\ q[1] = f[1]
    BY <1>6
  <2> HIDE DEF Step, q
  <2> QED BY <2>1, <1>8
<1>11. ASSUME NEW i \in T PROVE i + 1 \in T
  <2>1. i \in Nat /\ (i + 1 <= n => Z[i + 1] = q[i + 1])
    OBVIOUS
  <2> HIDE DEF T
  <2> SUFFICES ASSUME i + 2 <= n PROVE Z[i + 2] = q[i + 2]
    <3>1. (i + 1) + 1 = i + 2 /\ i + 1 \in Nat
      BY <2>1
    <3> QED BY <3>1 DEF T
  <2>2. i + 2 \in 1 .. n /\ i + 2 # 1 /\ (i + 2) - 1 = i + 1 /\ i + 1 <= n
    BY <2>1
  <2>3. Step(Z)[i + 2] = Z[i + 1] \o f[i + 2] /\ Step(q)[i + 2] = q[i + 1] \o f[i + 2]
    <3> HIDE DEF q
    <3> QED BY <2>2
  <2> HIDE DEF Step, q
  <2> QED BY <2>1, <2>2, <2>3, <1>7, <1>8
<1>12. T = Nat
  <2>1. T \in SUBSET Nat
    OBVIOUS
  <2> HIDE DEF T
  <2> QED BY <2>1, <1>10, <1>11, Induction
<1>13. Z[n] = p[n]
  <2>1. n - 1 \in Nat /\ (n - 1) + 1 = n
    OBVIOUS
  <2>2. n - 1 \in T
    <3> HIDE DEF T
    <3> QED BY <2>1, <1>12
  <2> QED BY <2>1, <2>2
<1> QED BY <1>4, <1>5, <1>9, <1>13

(* What is in them, and that none of it is twice if each list has nothing  *)
(* twice and no two lists share anything.                                  *)
Flattened(S, n, f, c) == n \in Nat \ {0} /\ f \in [1 .. n -> Seq(S)] /\ c = FlattenSeq(f)

ApartLists(n, f) ==
    /\ \A i \in 1 .. n : NoneTwice(f[i])
    /\ \A i, j \in 1 .. n : i # j => Elements(f[i]) \cap Elements(f[j]) = {}

UnionOf(n, f) == UNION {Elements(f[i]) : i \in 1 .. n}

(* Lists that share nothing, one behind the other, are all their elements, *)
(* once.                                                                   *)
LEMMA FlattenApart ==
    ASSUME NEW S, NEW n, NEW f, NEW c, Flattened(S, n, f, c)
    PROVE  /\ c \in Seq(S) /\ Elements(c) = UnionOf(n, f)
           /\ ApartLists(n, f) => NoneTwice(c)
<1> n \in Nat \ {0} /\ f \in [1 .. n -> Seq(S)]
  BY DEF Flattened
<1>1. PICK p \in [0 .. n -> Seq(S)] :
              /\ p[0] = << >>
              /\ \A i \in 1 .. n : p[i] = p[i - 1] \o f[i]
              /\ p[n] = c
  <2>1. \E p \in [0 .. n -> Seq(S)] :
              /\ p[0] = << >>
              /\ \A i \in 1 .. n : p[i] = p[i - 1] \o f[i]
              /\ p[n] = FlattenSeq(f)
    BY Zenon, FlattenSteps
  <2> QED BY <2>1 DEF Flattened
<1> DEFINE Apart == /\ \A i \in 1 .. n : NoneTwice(f[i])
                    /\ \A i, j \in 1 .. n : i # j => Elements(f[i]) \cap Elements(f[j]) = {}
           Upto(k) == UNION {Elements(f[i]) : i \in 1 .. k}
           Good(k) == Elements(p[k]) = Upto(k) /\ (Apart => NoneTwice(p[k]))
           T == {k \in Nat : k <= n => Good(k)}
<1>2. 0 \in T
  <2>1. Elements(p[0]) = {} /\ NoneTwice(p[0])
    BY <1>1 DEF Elements, NoneTwice
  <2>2. Upto(0) = {}
    OBVIOUS
  <2> HIDE DEF Upto, Apart
  <2> QED BY <2>1, <2>2
<1>3. ASSUME NEW k \in T PROVE k + 1 \in T
  <2>1. k \in Nat /\ k + 1 \in Nat /\ (k <= n => Good(k))
    OBVIOUS
  <2> SUFFICES ASSUME k + 1 <= n PROVE Good(k + 1)
    BY <2>1
  <2>2. k + 1 \in 1 .. n /\ k \in 0 .. n /\ (k + 1) - 1 = k /\ k <= n
    <3> HIDE DEF T, Good
    <3> QED BY <2>1
  <2>3. Good(k) /\ p[k] \in Seq(S) /\ f[k + 1] \in Seq(S) /\ p[k + 1] = p[k] \o f[k + 1]
    BY <2>1, <2>2, <1>1
  <2>4. Upto(k + 1) = Upto(k) \cup Elements(f[k + 1])
    <3>1. 1 .. k + 1 = (1 .. k) \cup {k + 1}
      BY <2>1
    <3> QED BY <3>1
  <2>5. Apart => Upto(k) \cap Elements(f[k + 1]) = {} /\ NoneTwice(f[k + 1])
    <3>1. \A i \in 1 .. k : i \in 1 .. n /\ i # k + 1
      BY <2>2
    <3> QED BY <3>1, <2>2
  <2> HIDE DEF T, Upto, Apart
  <2>6. PICK a, b, d : a \in Seq(S) /\ b \in Seq(S) /\ a = p[k] /\ b = f[k + 1] /\ d = p[k + 1]
    BY <2>3
  <2>7. /\ Elements(d) = Elements(a) \cup Elements(b)
        /\ NoneTwice(a) /\ NoneTwice(b) /\ Elements(a) \cap Elements(b) = {} => NoneTwice(d)
    <3>1. d = a \o b
      BY <2>3, <2>6
    <3> HIDE DEF Good
    <3>2. JoinedLists(S, a, b, d)
      BY <3>1, <2>6 DEF JoinedLists
    <3> QED BY <3>2, ConcatApart
  <2> QED BY <2>3, <2>4, <2>5, <2>6, <2>7
<1>4. T = Nat
  <2>1. T \in SUBSET Nat
    OBVIOUS
  <2> HIDE DEF T
  <2> QED BY <2>1, <1>2, <1>3, Induction
<1>5. Good(n)
  <2>1. n \in T
    BY <1>4
  <2> HIDE DEF Good
  <2> QED BY <2>1
<1> QED BY <1>1, <1>5 DEF UnionOf, ApartLists
=============================================================================
