------------------------------- MODULE IniProofs -------------------------------
(***************************************************************************)
(* IniReader, for all its sections, keys, values and texts and any calls.  *)
(* What a text says of a key depends on the headers before its lines: the  *)
(* first part is about texts of which lines are put in or joined.          *)
(***************************************************************************)
EXTENDS MCReaders, DataLemmas, FiniteSetTheorems

(* The headers among the first i lines of a text.                          *)
HeadersTo(t, i) == {k \in 1 .. i : t[k].kind = "section"}

(* A line is in the section of the last header up to it.                   *)
LEMMA SectionOfHeader ==
    ASSUME NEW S, NEW t \in Seq(S), NEW i \in 0 .. Len(t)
    PROVE  SectionAt(t, i) = IF HeadersTo(t, i) = {} THEN None ELSE t[Max(HeadersTo(t, i))].name
<1>1. PICK u : u = SubSeq(t, 1, i)
  OBVIOUS
<1>2. PICK n \in Nat : n = Len(t)
  OBVIOUS
<1>3. Len(u) = i /\ \A k \in 1 .. i : u[k] = t[k]
  <2>1. 1 \in 1 .. n + 1 /\ i \in 0 .. n /\ i \in Nat
    BY <1>2
  <2>2. /\ Len(u) = IF 1 <= i THEN i - 1 + 1 ELSE 0
        /\ \A k \in 1 .. i - 1 + 1 : u[k] = t[1 + k - 1]
    BY <1>1, <1>2, <2>1, SubSeqProperties
  <2>3. ASSUME NEW k \in 1 .. i PROVE u[k] = t[k]
    <3>1. k \in 1 .. i - 1 + 1 /\ 1 + k - 1 = k
      BY <2>1
    <3> QED BY <3>1, <2>2
  <2> QED BY <2>1, <2>2, <2>3
<1>4. {k \in 1 .. Len(u) : u[k].kind = "section"} = HeadersTo(t, i)
  BY <1>3 DEF HeadersTo
<1>5. PICK H : H = HeadersTo(t, i)
  OBVIOUS
<1>6. SelectLastInSeq(u, LAMBDA l : l.kind = "section") = IF H # {} THEN Max(H) ELSE 0
  BY <1>4, <1>5 DEF SelectLastInSeq
<1>7. SectionAt(t, i) = IF (IF H # {} THEN Max(H) ELSE 0) = 0 THEN None ELSE t[IF H # {} THEN Max(H) ELSE 0].name
  BY <1>1, <1>6 DEF SectionAt
<1>8. H # {} => Max(H) # 0
  <2>1. H \in SUBSET Nat /\ \A m \in H : m <= i /\ m # 0
    BY <1>2, <1>5 DEF HeadersTo
  <2>2. i \in Nat
    BY <1>2
  <2> QED BY <2>1, <2>2, MaxIsGreatest
<1> QED BY <1>5, <1>7, <1>8

(* The headers of t up to i are carried by s to those of u up to j.        *)
Carries(s, t, i, u, j) ==
    /\ \A k \in HeadersTo(t, i) : s[k] \in HeadersTo(u, j) /\ u[s[k]].name = t[k].name
    /\ \A l \in HeadersTo(u, j) : \E k \in HeadersTo(t, i) : s[k] = l
    /\ \A k, m \in HeadersTo(t, i) : k <= m => s[k] <= s[m]

(* Then both lines are in the same section.                                *)
LEMMA SectionCarried ==
    ASSUME NEW S, NEW t \in Seq(S), NEW u \in Seq(S), NEW i \in 0 .. Len(t), NEW j \in 0 .. Len(u),
           NEW s, Carries(s, t, i, u, j)
    PROVE  SectionAt(u, j) = SectionAt(t, i)
<1>1. PICK H, G : H = HeadersTo(t, i) /\ G = HeadersTo(u, j)
  OBVIOUS
<1>2. /\ \A k \in H : s[k] \in G /\ u[s[k]].name = t[k].name
      /\ \A l \in G : \E k \in H : s[k] = l
      /\ \A k, m \in H : k <= m => s[k] <= s[m]
  BY <1>1 DEF Carries
<1>3. /\ H \in SUBSET Nat /\ i \in Nat /\ \A m \in H : m <= i
      /\ G \in SUBSET Nat /\ j \in Nat /\ \A m \in G : m <= j
  BY <1>1 DEF HeadersTo
<1>4. /\ SectionAt(t, i) = IF H = {} THEN None ELSE t[Max(H)].name
      /\ SectionAt(u, j) = IF G = {} THEN None ELSE u[Max(G)].name
  BY <1>1, SectionOfHeader
<1>5. CASE H = {}
  BY <1>2, <1>4, <1>5
<1>6. CASE H # {}
  <2>1. PICK x : x = Max(H)
    OBVIOUS
  <2>2. x \in H /\ \A m \in H : m <= x
    BY <1>3, <1>6, <2>1, MaxIsGreatest
  <2>3. G # {} /\ s[x] \in G /\ u[s[x]].name = t[x].name
    BY <1>2, <2>2
  <2>4. PICK y : y = Max(G)
    OBVIOUS
  <2>5. y \in G /\ \A m \in G : m <= y
    BY <1>3, <2>3, <2>4, MaxIsGreatest
  <2>6. PICK k \in H : s[k] = y
    BY <1>2, <2>5
  <2>7. y <= s[x]
    BY <1>2, <2>2, <2>6
  <2>8. y = s[x]
    <3>1. PICK z : z = s[x]
      OBVIOUS
    <3>2. y \in Nat /\ z \in Nat /\ z <= y /\ y <= z
      BY <1>3, <2>3, <2>5, <2>7, <3>1
    <3> QED BY <3>1, <3>2
  <2> QED BY <1>4, <1>6, <2>1, <2>3, <2>4, <2>8
<1> QED BY <1>5, <1>6

(* Two lines may differ in what they give and still have the same place.   *)
SameShape(l, m) ==
    /\ (l.kind = "section") = (m.kind = "section")
    /\ (l.kind = "field") = (m.kind = "field")
    /\ l.kind = "section" \/ l.kind = "field" => m.name = l.name

(* u is t with n lines that are no headers put in before line at, while    *)
(* the others keep their shape.                                            *)
Grown(t, u, at, n) ==
    /\ Len(u) = Len(t) + n
    /\ \A j \in 1 .. at - 1 : SameShape(t[j], u[j])
    /\ \A j \in at .. Len(t) : SameShape(t[j], u[j + n])
    /\ \A j \in at .. at + (n - 1) : u[j].kind # "section"

(* The lines stay in their sections, and those put in are in the section   *)
(* of the line before them.                                                *)
LEMMA GrownSections ==
    ASSUME NEW S, NEW t \in Seq(S), NEW u \in Seq(S), NEW n \in Nat, NEW at \in 1 .. Len(t) + 1,
           Grown(t, u, at, n)
    PROVE  /\ \A j \in 0 .. at - 1 : SectionAt(u, j) = SectionAt(t, j)
           /\ \A j \in at .. at + (n - 1) : SectionAt(u, j) = SectionAt(t, at - 1)
           /\ \A j \in at .. Len(t) : SectionAt(u, j + n) = SectionAt(t, j)
<1>1. PICK N \in Nat : N = Len(t)
  OBVIOUS
<1>2. /\ at \in 1 .. N + 1 /\ at \in Nat /\ Len(u) = N + n /\ Len(t) = N
      /\ \A j \in 1 .. at - 1 : SameShape(t[j], u[j])
      /\ \A j \in at .. N : SameShape(t[j], u[j + n])
      /\ \A j \in at .. at + (n - 1) : u[j].kind # "section"
  BY <1>1 DEF Grown
<1>3. PICK s : s = [k \in 1 .. N |-> IF k < at THEN k ELSE k + n]
  OBVIOUS
<1>4. \A k \in 1 .. N : s[k] = IF k < at THEN k ELSE k + n
  BY <1>3
<1>5. \A k, m \in 1 .. N : k <= m => s[k] <= s[m]
  BY <1>4, <1>2
<1>6. ASSUME NEW k \in 1 .. N PROVE SameShape(t[k], u[s[k]])
  BY <1>2, <1>4
<1>7. ASSUME NEW i \in 0 .. N, NEW j \in 0 .. N + n,
             \A k \in 1 .. i : s[k] <= j,
             \A l \in 1 .. j : u[l].kind = "section" => \E k \in 1 .. i : s[k] = l
      PROVE  SectionAt(u, j) = SectionAt(t, i)
  <2>1. \A k \in HeadersTo(t, i) : s[k] \in HeadersTo(u, j) /\ u[s[k]].name = t[k].name
    <3> SUFFICES ASSUME NEW k \in HeadersTo(t, i)
                 PROVE  s[k] \in HeadersTo(u, j) /\ u[s[k]].name = t[k].name
      OBVIOUS
    <3>1. k \in 1 .. i /\ k \in 1 .. N /\ t[k].kind = "section"
      BY <1>1 DEF HeadersTo
    <3>2. s[k] \in 1 .. j
      BY <3>1, <1>4, <1>7, <1>2
    <3>3. u[s[k]].kind = "section" /\ u[s[k]].name = t[k].name
      BY <3>1, <1>6 DEF SameShape
    <3> QED BY <3>2, <3>3 DEF HeadersTo
  <2>2. \A l \in HeadersTo(u, j) : \E k \in HeadersTo(t, i) : s[k] = l
    <3> SUFFICES ASSUME NEW l \in HeadersTo(u, j) PROVE \E k \in HeadersTo(t, i) : s[k] = l
      OBVIOUS
    <3>1. l \in 1 .. j /\ u[l].kind = "section"
      BY DEF HeadersTo
    <3>2. PICK k \in 1 .. i : s[k] = l
      BY <3>1, <1>7
    <3>3. k \in 1 .. N
      OBVIOUS
    <3>4. t[k].kind = "section"
      BY <3>1, <3>2, <3>3, <1>6 DEF SameShape
    <3> QED BY <3>2, <3>4 DEF HeadersTo
  <2>3. \A k, m \in HeadersTo(t, i) : k <= m => s[k] <= s[m]
    <3>1. HeadersTo(t, i) \subseteq 1 .. N
      BY DEF HeadersTo
    <3> QED BY <3>1, <1>5
  <2>4. Carries(s, t, i, u, j)
    BY <2>1, <2>2, <2>3 DEF Carries
  <2>5. i \in 0 .. Len(t) /\ j \in 0 .. Len(u)
    BY <1>2
  <2> QED BY <2>4, <2>5, SectionCarried
<1>8. ASSUME NEW j \in 0 .. at - 1 PROVE SectionAt(u, j) = SectionAt(t, j)
  <2>1. j \in 0 .. N /\ j \in 0 .. N + n
    BY <1>2
  <2>2. \A k \in 1 .. j : s[k] = k
    BY <1>2, <1>4, <2>1
  <2> QED BY <2>1, <2>2, <1>7
<1>9. ASSUME NEW j \in at .. at + (n - 1) PROVE SectionAt(u, j) = SectionAt(t, at - 1)
  <2>1. at - 1 \in 0 .. N /\ j \in 0 .. N + n
    BY <1>2
  <2>2. \A k \in 1 .. at - 1 : s[k] = k /\ s[k] <= j
    BY <1>2, <1>4, <2>1
  <2>3. ASSUME NEW l \in 1 .. j, u[l].kind = "section" PROVE \E k \in 1 .. at - 1 : s[k] = l
    <3>1. l \notin at .. at + (n - 1)
      BY <2>3, <1>2
    <3>2. l \in 1 .. at - 1
      BY <3>1, <1>2
    <3> QED BY <3>2, <2>2
  <2> QED BY <2>1, <2>2, <2>3, <1>7
<1>10. ASSUME NEW j \in at .. N PROVE SectionAt(u, j + n) = SectionAt(t, j)
  <2>1. j \in 0 .. N /\ j + n \in 0 .. N + n
    BY <1>2
  <2>2. \A k \in 1 .. j : s[k] <= j + n
    BY <1>2, <1>4, <2>1
  <2>3. ASSUME NEW l \in 1 .. j + n, u[l].kind = "section" PROVE \E k \in 1 .. j : s[k] = l
    <3>1. l \notin at .. at + (n - 1)
      BY <2>3, <1>2
    <3>2. CASE l < at
      <4>1. l \in 1 .. j /\ l \in 1 .. N
        BY <3>2, <1>2
      <4> QED BY <3>2, <4>1, <1>4
    <3>3. CASE l >= at + n
      <4>1. l - n \in 1 .. j /\ ~(l - n < at) /\ (l - n) + n = l /\ l - n \in 1 .. N
        BY <3>3, <1>2
      <4>2. s[l - n] = l
        BY <4>1, <1>4
      <4> QED BY <4>1, <4>2
    <3> QED BY <3>1, <3>2, <3>3, <1>2
  <2> QED BY <2>1, <2>2, <2>3, <1>7
<1> QED BY <1>1, <1>8, <1>9, <1>10

(* The values that lines of a text give to a key of a section: at these    *)
(* lines.                                                                  *)
Giving(t, section, key) ==
    {i \in DOMAIN t : t[i].kind = "field" /\ t[i].name = key /\ SectionAt(t, i) = section}

(* What a text says of a key is on the first line that gives it a value.   *)
LEMMA SaysFirst ==
    ASSUME NEW t, DOMAIN t \subseteq Nat, NEW section, NEW key,
           NEW G, G = Giving(t, section, key)
    PROVE  /\ G = {} => Says(t, section, key) = {}
           /\ \A m \in G : (\A i \in G : m <= i) => Says(t, section, key) = {t[m].val}
<1>1. G \in SUBSET Nat /\ Says(t, section, key) = {t[i].val : i \in {j \in G : \A x \in G : j <= x}}
  BY DEF Giving, Says
<1>2. ASSUME NEW m \in G, \A i \in G : m <= i PROVE Says(t, section, key) = {t[m].val}
  <2>1. \A j \in G : (\A x \in G : j <= x) => j = m
    <3> SUFFICES ASSUME NEW j \in G, \A x \in G : j <= x PROVE j = m
      OBVIOUS
    <3>1. j \in Nat /\ m \in Nat /\ j <= m /\ m <= j
      BY <1>1, <1>2
    <3> QED BY <3>1
  <2>2. {j \in G : \A x \in G : j <= x} = {m}
    BY <1>2, <2>1
  <2> QED BY <1>1, <2>2
<1> QED BY <1>1, <1>2

(* A sequence with another put in before place at.                         *)
Widened(t, at, x) == SubSeq(t, 1, at - 1) \o x \o SubSeq(t, at, Len(t))

\* u is t with the n lines of x put in there
PutIn(t, at, x, n, u) ==
    /\ Len(u) = Len(t) + n
    /\ \A j \in 1 .. at - 1 : u[j] = t[j]
    /\ \A j \in at .. Len(t) : u[j + n] = t[j]
    /\ \A j \in 1 .. n : u[at - 1 + j] = x[j]

(* Where the lines of the wider text come from.                            *)
LEMMA WidenedPlaces ==
    ASSUME NEW S, NEW t \in Seq(S), NEW at \in 1 .. Len(t) + 1, NEW x \in Seq(S),
           NEW u, u = Widened(t, at, x)
    PROVE  u \in Seq(S) /\ PutIn(t, at, x, Len(x), u)
<1> PICK p \in Nat, q \in Nat, n \in Nat : at = p + 1 /\ Len(t) = p + q /\ Len(x) = n
  <2>1. PICK N \in Nat : N = Len(t)
    OBVIOUS
  <2>2. at - 1 \in Nat /\ N - (at - 1) \in Nat /\ at = (at - 1) + 1 /\ N = (at - 1) + (N - (at - 1))
    BY <2>1
  <2>3. Len(x) \in Nat
    OBVIOUS
  <2> QED BY <2>1, <2>2, <2>3
<1>1. PICK a : a = SubSeq(t, 1, p)
  OBVIOUS
<1>2. PICK z : z = SubSeq(t, p + 1, p + q)
  OBVIOUS
<1>3. a \in Seq(S) /\ Len(a) = p /\ \A j \in 1 .. p : a[j] = t[j]
  <2>1. \A i \in 1 .. p : t[i] \in S
    BY ElementOfSeq
  <2>2. /\ a \in Seq(S) /\ Len(a) = IF 1 <= p THEN p - 1 + 1 ELSE 0
        /\ \A j \in 1 .. p - 1 + 1 : a[j] = t[1 + j - 1]
    BY <1>1, <2>1, SubSeqProperties
  <2>3. \A j \in 1 .. p : j \in 1 .. p - 1 + 1 /\ 1 + j - 1 = j
    OBVIOUS
  <2> QED BY <2>2, <2>3
<1>4. z \in Seq(S) /\ Len(z) = q /\ \A j \in 1 .. q : z[j] = t[p + j]
  <2> PICK lo \in Int, hi \in Int : lo = p + 1 /\ hi = p + q
    OBVIOUS
  <2>1. \A i \in lo .. hi : t[i] \in S
    BY ElementOfSeq
  <2>2. /\ z \in Seq(S) /\ Len(z) = IF lo <= hi THEN hi - lo + 1 ELSE 0
        /\ \A j \in 1 .. hi - lo + 1 : z[j] = t[lo + j - 1]
    <3>1. z = SubSeq(t, lo, hi)
      BY <1>2
    <3> QED BY <2>1, <3>1, SubSeqProperties
  <2>3. \A j \in 1 .. q : j \in 1 .. hi - lo + 1 /\ lo + j - 1 = p + j
    OBVIOUS
  <2> QED BY <2>2, <2>3
<1>5. u = (a \o x) \o z
  <2>1. at - 1 = p
    OBVIOUS
  <2> QED BY <1>1, <1>2, <2>1 DEF Widened
<1>6. PICK y : y = a \o x
  OBVIOUS
<1>7. y \in Seq(S) /\ Len(y) = p + n /\ \A j \in 1 .. p + n : y[j] = IF j <= p THEN a[j] ELSE x[j - p]
  BY <1>3, <1>6
<1>8. u = y \o z
  BY <1>5, <1>6
<1>9. /\ u \in Seq(S) /\ Len(u) = p + n + q
      /\ \A j \in 1 .. p + n + q : u[j] = IF j <= p + n THEN y[j] ELSE z[j - (p + n)]
  <2>1. y \o z \in Seq(S) /\ Len(y \o z) = p + n + q
    BY <1>4, <1>7, ConcatProperties
  <2>2. ASSUME NEW j \in 1 .. p + n + q
        PROVE  (y \o z)[j] = IF j <= p + n THEN y[j] ELSE z[j - (p + n)]
    <3>1. j \in 1 .. Len(y) + Len(z)
      BY <1>4, <1>7
    <3>2. (y \o z)[j] = IF j <= Len(y) THEN y[j] ELSE z[j - Len(y)]
      BY <3>1, <1>4, <1>7, ConcatProperties
    <3> QED BY <3>2, <1>7
  <2> QED BY <2>1, <2>2, <1>8
<1>10. ASSUME NEW j \in 1 .. p PROVE u[j] = t[j]
  <2>1. j \in 1 .. p + n /\ j \in 1 .. p + n + q
    OBVIOUS
  <2> QED BY <2>1, <1>3, <1>7, <1>9
<1>11. ASSUME NEW j \in p + 1 .. p + q PROVE u[j + n] = t[j]
  <2>1. j + n \in 1 .. p + n + q /\ ~(j + n <= p + n) /\ (j + n) - (p + n) = j - p /\ j - p \in 1 .. q /\ p + (j - p) = j
    OBVIOUS
  <2>2. u[j + n] = z[j - p]
    BY <2>1, <1>9
  <2> QED BY <2>1, <2>2, <1>4
<1>12. ASSUME NEW j \in 1 .. n PROVE u[p + j] = x[j]
  <2>1. p + j \in 1 .. p + n /\ p + j \in 1 .. p + n + q /\ ~(p + j <= p) /\ (p + j) - p = j
    OBVIOUS
  <2>2. u[p + j] = y[p + j] /\ y[p + j] = x[j]
    BY <2>1, <1>7, <1>9
  <2> QED BY <2>2
<1>13. at - 1 = p /\ Len(u) = Len(t) + Len(x)
  <2>1. Len(u) = p + n + q
    BY <1>9
  <2> QED BY <2>1
<1> QED BY <1>9, <1>10, <1>11, <1>12, <1>13 DEF PutIn

(* Lines that are the same in two texts, from the first on, are in the     *)
(* same sections.                                                          *)
LEMMA PrefixSections ==
    ASSUME NEW S, NEW t \in Seq(S), NEW u \in Seq(S), NEW m \in Nat, m <= Len(t), m <= Len(u),
           \A k \in 1 .. m : u[k] = t[k], NEW j \in 0 .. m
    PROVE  SectionAt(u, j) = SectionAt(t, j)
<1>1. j \in 0 .. Len(t) /\ j \in 0 .. Len(u)
  <2>1. Len(t) \in Nat /\ Len(u) \in Nat
    OBVIOUS
  <2> QED BY <2>1
<1>2. PICK H : H = HeadersTo(t, j)
  OBVIOUS
<1>3. HeadersTo(u, j) = H /\ H \in SUBSET (1 .. j)
  BY <1>2 DEF HeadersTo
<1>4. H # {} => u[Max(H)].name = t[Max(H)].name
  <2>1. H \in SUBSET Nat /\ j \in Nat /\ \A k \in H : k <= j
    BY <1>3
  <2>2. H # {} => Max(H) \in 1 .. j
    BY <2>1, <1>3, MaxIsGreatest
  <2>3. 1 .. j \subseteq 1 .. m
    OBVIOUS
  <2> QED BY <2>2, <2>3
<1> QED BY <1>1, <1>2, <1>3, <1>4, SectionOfHeader

(* u is t with w behind it.                                                *)
Joined(t, w, u) ==
    /\ Len(u) = Len(t) + Len(w)
    /\ \A j \in 1 .. Len(t) : u[j] = t[j]
    /\ \A j \in 1 .. Len(w) : u[Len(t) + j] = w[j]

(* A text with another behind it.                                          *)
LEMMA ConcatJoined ==
    ASSUME NEW S, NEW t \in Seq(S), NEW w \in Seq(S), NEW u, u = t \o w
    PROVE  u \in Seq(S) /\ Joined(t, w, u)
<1> PICK n \in Nat, m \in Nat : n = Len(t) /\ m = Len(w)
  <2>1. Len(t) \in Nat /\ Len(w) \in Nat
    OBVIOUS
  <2> QED BY <2>1
<1>1. u \in Seq(S) /\ Len(u) = n + m
  BY ConcatProperties
<1>2. ASSUME NEW j \in 1 .. n + m PROVE u[j] = IF j <= n THEN t[j] ELSE w[j - n]
  <2>1. j \in 1 .. Len(t) + Len(w)
    OBVIOUS
  <2>2. u[j] = IF j <= Len(t) THEN t[j] ELSE w[j - Len(t)]
    BY <2>1, ConcatProperties
  <2> QED BY <2>2
<1>3. \A j \in 1 .. n : u[j] = t[j]
  <2>1. \A j \in 1 .. n : j \in 1 .. n + m /\ j <= n
    OBVIOUS
  <2> QED BY <1>2, <2>1
<1>4. \A j \in 1 .. m : u[n + j] = w[j]
  <2>1. \A j \in 1 .. m : n + j \in 1 .. n + m /\ ~(n + j <= n) /\ (n + j) - n = j
    OBVIOUS
  <2> QED BY <1>2, <2>1
<1> QED BY <1>1, <1>3, <1>4 DEF Joined

(* A line that has a section keeps it behind another text.                 *)
LEMMA JoinedSections ==
    ASSUME NEW S, NEW t \in Seq(S), NEW w \in Seq(S), NEW u \in Seq(S), Joined(t, w, u),
           NEW i \in 1 .. Len(w), SectionAt(w, i) # None
    PROVE  SectionAt(u, Len(t) + i) = SectionAt(w, i)
<1>1. PICK n \in Nat, m \in Nat : n = Len(t) /\ m = Len(w)
  <2>1. Len(t) \in Nat /\ Len(w) \in Nat
    OBVIOUS
  <2> QED BY <2>1
<1>2. /\ Len(u) = n + m /\ i \in 1 .. m
      /\ \A j \in 1 .. m : u[n + j] = w[j]
  BY <1>1 DEF Joined
<1>3. PICK H, G : H = HeadersTo(w, i) /\ G = HeadersTo(u, n + i)
  OBVIOUS
<1>4. i \in 0 .. Len(w) /\ n + i \in 0 .. Len(u)
  BY <1>1, <1>2
<1>5. /\ SectionAt(w, i) = IF H = {} THEN None ELSE w[Max(H)].name
      /\ SectionAt(u, n + i) = IF G = {} THEN None ELSE u[Max(G)].name
  BY <1>3, <1>4, SectionOfHeader
<1>6. H # {}
  BY <1>5
<1>7. PICK x : x = Max(H)
  OBVIOUS
<1>8. x \in H /\ \A k \in H : k <= x
  <2>1. H \in SUBSET Nat /\ i \in Nat /\ \A k \in H : k <= i
    BY <1>2, <1>3 DEF HeadersTo
  <2> QED BY <2>1, <1>6, <1>7, MaxIsGreatest
<1>9. x \in 1 .. i /\ w[x].kind = "section"
  BY <1>3, <1>8 DEF HeadersTo
<1>10. n + x \in G
  <2>1. n + x \in 1 .. n + i /\ x \in 1 .. m
    BY <1>2, <1>9
  <2> QED BY <2>1, <1>2, <1>3, <1>9 DEF HeadersTo
<1>11. PICK y : y = Max(G)
  OBVIOUS
<1>12. y \in G /\ \A k \in G : k <= y
  <2>1. G \in SUBSET Nat /\ n + i \in Nat /\ \A k \in G : k <= n + i
    BY <1>2, <1>3 DEF HeadersTo
  <2> QED BY <2>1, <1>10, <1>11, MaxIsGreatest
<1>13. y \in 1 .. n + i /\ u[y].kind = "section" /\ n + x <= y
  BY <1>3, <1>10, <1>12 DEF HeadersTo
<1>14. y - n \in 1 .. i /\ y - n \in 1 .. m /\ n + (y - n) = y
  BY <1>2, <1>9, <1>13
<1>15. y - n \in H
  <2>1. w[y - n].kind = "section"
    BY <1>2, <1>13, <1>14
  <2> QED BY <2>1, <1>3, <1>14 DEF HeadersTo
<1>16. y = n + x
  <2>1. y - n <= x
    BY <1>8, <1>15
  <2>2. x \in Nat /\ y \in Nat /\ n + x <= y
    BY <1>9, <1>13
  <2> QED BY <2>1, <2>2
<1>17. u[y] = w[x]
  <2>1. x \in 1 .. m
    BY <1>2, <1>9
  <2> QED BY <2>1, <1>2, <1>16
<1> QED BY <1>1, <1>3, <1>5, <1>6, <1>7, <1>10, <1>11, <1>17

-----------------------------------------------------------------------------
Fields(t) == {i \in DOMAIN t : t[i].kind = "field"}
PairAt(t, i) == <<SectionAt(t, i), t[i].name>>

(* A dictionary has the value of every field of a text, of which no two    *)
(* have the same key and section, and nothing else.                        *)
IsDictOf(d, t) ==
    /\ \A i \in Fields(t) : PairAt(t, i) \in DOMAIN d /\ d[PairAt(t, i)] = t[i].val
    /\ \A i, j \in Fields(t) : PairAt(t, i) = PairAt(t, j) => i = j
    /\ \A p \in DOMAIN d : \E i \in Fields(t) : PairAt(t, i) = p

(* Line i of t is line s[i] of u, which has no other fields than these and *)
(* those of W.                                                             *)
MovedFields(s, t, u, W) ==
    /\ \A i \in Fields(t) : s[i] \in Fields(u) \ W /\ PairAt(u, s[i]) = PairAt(t, i)
    /\ \A j \in Fields(u) \ W : \E i \in Fields(t) : j = s[i]
    /\ W \subseteq Fields(u) /\ \A i, j \in W : PairAt(u, i) = PairAt(u, j) => i = j

MovedDict(s, t, u, W, d, e) ==
    /\ DOMAIN e = DOMAIN d \cup {PairAt(u, j) : j \in W}
    /\ \A j \in W : PairAt(u, j) \notin DOMAIN d /\ e[PairAt(u, j)] = u[j].val
    /\ \A i \in Fields(t) : e[PairAt(t, i)] = u[s[i]].val

(* Then the dictionary with the values of the new fields is that of the    *)
(* new text.                                                               *)
LEMMA MovedIsDict ==
    ASSUME NEW t, NEW u, NEW s, NEW W, NEW d, NEW e, IsDictOf(d, t),
           MovedFields(s, t, u, W), MovedDict(s, t, u, W, d, e)
    PROVE  IsDictOf(e, u)
<1>1. ASSUME NEW j \in Fields(u) PROVE PairAt(u, j) \in DOMAIN e /\ e[PairAt(u, j)] = u[j].val
  <2>1. CASE j \in W
    BY <2>1 DEF MovedDict
  <2>2. CASE j \notin W
    <3>1. PICK i \in Fields(t) : j = s[i]
      BY <2>2 DEF MovedFields
    <3>2. PairAt(u, j) = PairAt(t, i)
      BY <3>1 DEF MovedFields
    <3>3. PairAt(t, i) \in DOMAIN d
      BY DEF IsDictOf
    <3> QED BY <3>1, <3>2, <3>3 DEF MovedDict
  <2> QED BY <2>1, <2>2
<1>2. ASSUME NEW i \in Fields(u), NEW j \in Fields(u), PairAt(u, i) = PairAt(u, j) PROVE i = j
  <2>1. ASSUME NEW k \in Fields(u) \ W PROVE \E l \in Fields(t) : k = s[l] /\ PairAt(u, k) = PairAt(t, l)
    BY DEF MovedFields
  <2>2. ASSUME NEW k \in Fields(u) \ W PROVE PairAt(u, k) \in DOMAIN d
    BY <2>1 DEF IsDictOf
  <2>3. ASSUME NEW k \in W PROVE PairAt(u, k) \notin DOMAIN d
    BY DEF MovedDict
  <2>4. CASE i \in W /\ j \in W
    BY <1>2, <2>4 DEF MovedFields
  <2>5. CASE i \notin W /\ j \notin W
    <3>1. PICK k \in Fields(t) : i = s[k] /\ PairAt(u, i) = PairAt(t, k)
      BY <2>1, <2>5
    <3>2. PICK l \in Fields(t) : j = s[l] /\ PairAt(u, j) = PairAt(t, l)
      BY <2>1, <2>5
    <3>3. k = l
      BY <1>2, <3>1, <3>2 DEF IsDictOf
    <3> QED BY <3>1, <3>2, <3>3
  <2>6. ~(i \in W /\ j \notin W) /\ ~(i \notin W /\ j \in W)
    BY <1>2, <2>2, <2>3
  <2> QED BY <2>4, <2>5, <2>6
<1>3. ASSUME NEW p \in DOMAIN e PROVE \E j \in Fields(u) : PairAt(u, j) = p
  <2>1. CASE p \in DOMAIN d
    <3>1. PICK i \in Fields(t) : PairAt(t, i) = p
      BY <2>1 DEF IsDictOf
    <3>2. s[i] \in Fields(u) /\ PairAt(u, s[i]) = p
      BY <3>1 DEF MovedFields
    <3> QED BY <3>2
  <2>2. CASE p \notin DOMAIN d
    <3>1. PICK j \in W : p = PairAt(u, j)
      BY <2>2 DEF MovedDict
    <3> QED BY <3>1 DEF MovedFields
  <2> QED BY <2>1, <2>2
<1> QED BY <1>1, <1>2, <1>3 DEF IsDictOf

(* Where m lines go when n lines are put in before line at.                *)
Pushed(m, at, n) == [k \in 1 .. m |-> IF k < at THEN k ELSE k + n]

(* When lines are put into a text, the others keep their sections, so that *)
(* their fields are moved, and those among the new lines added.            *)
LEMMA GrownFields ==
    ASSUME NEW S, NEW t \in Seq(S), NEW u \in Seq(S), NEW n \in Nat, NEW at \in 1 .. Len(t) + 1,
           Grown(t, u, at, n),
           NEW s, s = Pushed(Len(t), at, n),
           NEW W, W = Fields(u) \cap (at .. at + (n - 1)),
           \A i, j \in W : PairAt(u, i) = PairAt(u, j) => i = j
    PROVE  MovedFields(s, t, u, W)
<1>1. PICK N \in Nat : N = Len(t)
  OBVIOUS
<1>2. /\ DOMAIN t = 1 .. N /\ DOMAIN u = 1 .. N + n /\ at \in 1 .. N + 1
      /\ \A k \in 1 .. N : s[k] = IF k < at THEN k ELSE k + n
      /\ \A j \in 1 .. at - 1 : SameShape(t[j], u[j])
      /\ \A j \in at .. N : SameShape(t[j], u[j + n])
  <2>1. Len(u) = N + n
    BY <1>1 DEF Grown
  <2> QED BY <1>1, <2>1 DEF Grown, Pushed
<1>3. ASSUME NEW i \in 1 .. N
      PROVE  /\ s[i] \in 1 .. N + n /\ s[i] \notin at .. at + (n - 1)
             /\ SameShape(t[i], u[s[i]]) /\ SectionAt(u, s[i]) = SectionAt(t, i)
  <2>1. CASE i < at
    <3>1. s[i] = i /\ i \in 0 .. at - 1 /\ i \in 1 .. at - 1 /\ i \in 1 .. N + n /\ i \notin at .. at + (n - 1)
      BY <2>1, <1>2
    <3> QED BY <3>1, <1>2, GrownSections
  <2>2. CASE ~(i < at)
    <3>1. s[i] = i + n /\ i \in at .. N /\ i + n \in 1 .. N + n /\ i + n \notin at .. at + (n - 1)
      BY <2>2, <1>2
    <3> QED BY <3>1, <1>1, <1>2, GrownSections
  <2> QED BY <2>1, <2>2
<1>4. ASSUME NEW i \in Fields(t) PROVE s[i] \in Fields(u) \ W /\ PairAt(u, s[i]) = PairAt(t, i)
  <2>1. i \in 1 .. N /\ t[i].kind = "field"
    BY <1>2 DEF Fields
  <2>2. s[i] \in 1 .. N + n /\ s[i] \notin W /\ u[s[i]].kind = "field" /\ u[s[i]].name = t[i].name
        /\ SectionAt(u, s[i]) = SectionAt(t, i)
    BY <2>1, <1>3 DEF SameShape
  <2> QED BY <2>2, <1>2 DEF Fields, PairAt
<1>5. ASSUME NEW j \in Fields(u) \ W PROVE \E i \in Fields(t) : j = s[i]
  <2>1. j \in 1 .. N + n /\ u[j].kind = "field" /\ j \notin at .. at + (n - 1)
    BY <1>2 DEF Fields
  <2>2. \E i \in 1 .. N : j = s[i]
    <3>1. CASE j < at
      <4>1. j \in 1 .. N /\ s[j] = j
        BY <3>1, <2>1, <1>2
      <4> QED BY <4>1
    <3>2. CASE j >= at + n
      <4>1. j - n \in 1 .. N /\ ~(j - n < at) /\ (j - n) + n = j
        BY <3>2, <2>1, <1>2
      <4>2. s[j - n] = j
        BY <4>1, <1>2
      <4> QED BY <4>1, <4>2
    <3>3. j < at \/ j >= at + n
      <4>1. j \in Int /\ at \in Int /\ ~(at <= j /\ j <= at + (n - 1))
        BY <2>1, <1>2
      <4> QED BY <4>1
    <3> QED BY <3>1, <3>2, <3>3
  <2>3. PICK i \in 1 .. N : j = s[i]
    BY <2>2
  <2>4. t[i].kind = "field"
    BY <2>1, <2>3, <1>3 DEF SameShape
  <2> QED BY <2>3, <2>4, <1>2 DEF Fields
<1> QED BY <1>4, <1>5 DEF MovedFields

\* the places of some lines of a text that is put behind m lines
Behind(m, U) == {m + i : i \in U}

(* The same of a text with another behind it, the fields of which all have *)
(* their sections there.                                                   *)
LEMMA JoinedFields ==
    ASSUME NEW S, NEW t \in Seq(S), NEW w \in Seq(S), NEW u \in Seq(S), Joined(t, w, u),
           \A i \in Fields(w) : SectionAt(w, i) # None,
           \A i, j \in Fields(w) : PairAt(w, i) = PairAt(w, j) => i = j,
           NEW s, s = Pushed(Len(t), 1, 0),
           NEW W, W = Behind(Len(t), Fields(w))
    PROVE  /\ MovedFields(s, t, u, W)
           /\ \A i \in Fields(w) : PairAt(u, Len(t) + i) = PairAt(w, i) /\ u[Len(t) + i].val = w[i].val
<1>1. PICK N \in Nat, m \in Nat : N = Len(t) /\ m = Len(w)
  <2>1. Len(t) \in Nat /\ Len(w) \in Nat
    OBVIOUS
  <2> QED BY <2>1
<1>2. /\ DOMAIN t = 1 .. N /\ DOMAIN w = 1 .. m /\ DOMAIN u = 1 .. N + m /\ Len(u) = N + m
      /\ \A j \in 1 .. N : u[j] = t[j] /\ s[j] = j
      /\ \A j \in 1 .. m : u[N + j] = w[j]
      /\ W = {N + i : i \in Fields(w)}
  <2>1. Len(u) = N + m
    BY <1>1 DEF Joined
  <2>2. \A j \in 1 .. N : s[j] = j
    <3>1. \A j \in 1 .. N : s[j] = IF j < 1 THEN j ELSE j + 0
      BY <1>1 DEF Pushed
    <3> QED BY <3>1
  <2> QED BY <1>1, <2>1, <2>2 DEF Joined, Behind
<1>3. ASSUME NEW i \in 1 .. N PROVE SectionAt(u, i) = SectionAt(t, i)
  <2>1. N <= Len(t) /\ N <= Len(u) /\ i \in 0 .. N
    BY <1>1, <1>2
  <2> QED BY <2>1, <1>2, PrefixSections
<1>4. ASSUME NEW i \in Fields(w)
      PROVE  /\ i \in 1 .. m /\ N + i \in Fields(u)
             /\ PairAt(u, N + i) = PairAt(w, i) /\ u[N + i].val = w[i].val
  <2>1. i \in 1 .. m /\ w[i].kind = "field"
    BY <1>2 DEF Fields
  <2>2. SectionAt(u, N + i) = SectionAt(w, i)
    BY <2>1, <1>1, JoinedSections
  <2>3. N + i \in 1 .. N + m
    BY <2>1
  <2> QED BY <2>1, <2>2, <2>3, <1>2 DEF Fields, PairAt
<1>5. ASSUME NEW i \in Fields(t) PROVE s[i] \in Fields(u) \ W /\ PairAt(u, s[i]) = PairAt(t, i)
  <2>1. i \in 1 .. N /\ t[i].kind = "field"
    BY <1>2 DEF Fields
  <2>2. i \notin W
    <3>1. \A k \in Fields(w) : k \in 1 .. m
      BY <1>4
    <3>2. \A k \in 1 .. m : i # N + k
      BY <2>1
    <3> QED BY <3>1, <3>2, <1>2
  <2>3. i \in 1 .. N + m
    BY <2>1
  <2> QED BY <2>1, <2>2, <2>3, <1>2, <1>3 DEF Fields, PairAt
<1>6. ASSUME NEW j \in Fields(u) \ W PROVE \E i \in Fields(t) : j = s[i]
  <2>1. j \in 1 .. N + m /\ u[j].kind = "field"
    BY <1>2 DEF Fields
  <2>2. j <= N
    <3> SUFFICES ASSUME ~(j <= N) PROVE FALSE
      BY <2>1
    <3>1. j - N \in 1 .. m /\ N + (j - N) = j
      BY <2>1
    <3>2. j - N \in Fields(w)
      BY <2>1, <3>1, <1>2 DEF Fields
    <3> QED BY <3>1, <3>2, <1>2
  <2>3. j \in 1 .. N
    BY <2>1, <2>2
  <2> QED BY <2>1, <2>3, <1>2 DEF Fields
<1>7. W \subseteq Fields(u) /\ \A i, j \in W : PairAt(u, i) = PairAt(u, j) => i = j
  <2>1. ASSUME NEW x \in W PROVE \E i \in Fields(w) : x = N + i /\ x \in Fields(u) /\ PairAt(u, x) = PairAt(w, i)
    BY <1>2, <1>4
  <2> QED BY <2>1
<1> QED BY <1>1, <1>4, <1>5, <1>6, <1>7 DEF MovedFields

(* The section that a line is in has its header before.                    *)
LEMMA SectionHasHeader ==
    ASSUME NEW S, NEW t \in Seq(S), NEW i \in 0 .. Len(t), SectionAt(t, i) # None
    PROVE  \E k \in 1 .. i : t[k].kind = "section" /\ t[k].name = SectionAt(t, i)
<1>1. PICK H : H = HeadersTo(t, i)
  OBVIOUS
<1>2. H # {} /\ SectionAt(t, i) = t[Max(H)].name
  BY <1>1, SectionOfHeader
<1>3. H \in SUBSET Nat /\ i \in Nat /\ \A k \in H : k <= i
  BY <1>1 DEF HeadersTo
<1>4. Max(H) \in H
  BY <1>2, <1>3, MaxIsGreatest
<1> QED BY <1>1, <1>2, <1>4 DEF HeadersTo

-----------------------------------------------------------------------------
(***************************************************************************)
(* IniReader.  IniInv says of items, sections and dictionary that each     *)
(* is what the others say; every call that does not stray keeps it.        *)
(***************************************************************************)
(* Its operators on texts are those of IniText ...                         *)
LEMMA IniSectionAt == ASSUME NEW t, NEW i PROVE Ini!SectionAt(t, i) = SectionAt(t, i)
BY DEF Ini!SectionAt, SectionAt, Ini!SelectLastInSeq, SelectLastInSeq, Ini!Max, Max, Ini!None, None

(* ... and so is what a text says ...                                      *)
LEMMA IniSays == ASSUME NEW t, NEW section, NEW key PROVE Ini!Says(t, section, key) = Says(t, section, key)
BY IniSectionAt DEF Ini!Says, Says

(* ... and the least of some numbers.                                      *)
LEMMA IniMin ==
    ASSUME NEW T \in SUBSET Nat, T # {}
    PROVE  Ini!Min(T) \in T /\ \A m \in T : Ini!Min(T) <= m
BY LeastNumber DEF Ini!Min

(* Strings; that the literals among them are strings is not known to the   *)
(* provers.                                                                *)
Strings == STRING \cup {"section", "field", "comment", "blank", "bad", None}

(* Lines that a text may have: a header has a name, and a field a value.   *)
GoodLine(l) ==
    /\ l \in [kind : Strings, name : Strings, val : Strings]
    /\ l.kind = "section" => l = Section(l.name) /\ l.name # None
    /\ l.kind = "field" => l.val \in IniVals
GoodLines == {l \in [kind : Strings, name : Strings, val : Strings] : GoodLine(l)}

(* The lines that are made are such lines.                                 *)
LEMMA MadeLines ==
    /\ Comment \in GoodLines /\ Comment.kind = "comment"
    /\ Blank \in GoodLines /\ Blank.kind = "blank"
    /\ Bad \in GoodLines /\ Bad.kind = "bad"
    /\ \A name \in Strings \ {None} :
          /\ Section(name) \in GoodLines /\ Section(name).kind = "section" /\ Section(name).name = name
    /\ \A name \in Strings, val \in IniVals :
          /\ Field(name, val) \in GoodLines /\ Field(name, val).kind = "field"
          /\ Field(name, val).name = name /\ Field(name, val).val = val
<1>1. /\ None \in Strings /\ "section" \in Strings /\ "field" \in Strings /\ "comment" \in Strings
      /\ "blank" \in Strings /\ "bad" \in Strings
  BY DEF Strings
<1>2. IniVals \subseteq Strings
  <2>1. IniVals \subseteq STRING
    BY IniAssumption
  <2> QED BY <2>1 DEF Strings
<1>3. ASSUME NEW kind \in Strings, NEW name \in Strings, NEW val \in Strings, NEW l, l = Line(kind, name, val)
      PROVE  l \in [kind : Strings, name : Strings, val : Strings] /\ l.kind = kind /\ l.name = name /\ l.val = val
  BY <1>3 DEF Line
<1>4. ASSUME NEW l, l \in [kind : Strings, name : Strings, val : Strings],
             l.kind = "section" => l = Section(l.name) /\ l.name # None,
             l.kind = "field" => l.val \in IniVals
      PROVE  l \in GoodLines
  BY <1>4 DEF GoodLines, GoodLine
<1>5. Comment \in GoodLines /\ Comment.kind = "comment"
  BY <1>1, <1>3, <1>4 DEF Comment
<1>6. Blank \in GoodLines /\ Blank.kind = "blank"
  BY <1>1, <1>3, <1>4 DEF Blank
<1>7. Bad \in GoodLines /\ Bad.kind = "bad"
  BY <1>1, <1>3, <1>4 DEF Bad
<1>8. ASSUME NEW name \in Strings, NEW val \in IniVals
      PROVE  /\ Field(name, val) \in GoodLines /\ Field(name, val).kind = "field"
             /\ Field(name, val).name = name /\ Field(name, val).val = val
  <2>1. PICK l : l = Field(name, val)
    OBVIOUS
  <2>2. l \in [kind : Strings, name : Strings, val : Strings] /\ l.kind = "field" /\ l.name = name /\ l.val = val
    BY <1>1, <1>2, <1>3, <2>1 DEF Field
  <2> QED BY <1>4, <2>1, <2>2
<1>9. ASSUME NEW name \in Strings \ {None}
      PROVE  Section(name) \in GoodLines /\ Section(name).kind = "section" /\ Section(name).name = name
  <2>1. PICK l : l = Section(name)
    OBVIOUS
  <2>2. l \in [kind : Strings, name : Strings, val : Strings] /\ l.kind = "section" /\ l.name = name
    BY <1>1, <1>3, <2>1 DEF Section
  <2> QED BY <1>4, <2>1, <2>2
<1> QED BY <1>5, <1>6, <1>7, <1>8, <1>9

GoodItems ==
    {x \in [type : Strings, src : GoodLines] :
        /\ (x.type = "section") = (x.src.kind = "section")
        /\ (x.type = "field") = (x.src.kind = "field")}

(* An item made with a type that fits its line.                            *)
LEMMA MadeItem ==
    ASSUME NEW type \in Strings, NEW src \in GoodLines, NEW x, x = Ini!Item(type, src),
           (type = "section") = (src.kind = "section"), (type = "field") = (src.kind = "field")
    PROVE  x \in GoodItems /\ x.type = type /\ x.src = src
BY DEF Ini!Item, GoodItems

SourcesOf(items) == [i \in DOMAIN items |-> items[i].src]

IniGood(file, items, names, dicts) ==
    /\ file \in Seq(GoodLines) /\ items \in Seq(GoodItems)
    /\ IsDictOf(dicts, SourcesOf(items))
    /\ \A s \in names : \E i \in DOMAIN items : items[i].src = Section(s)

(* The items, the sections and the dictionary agree until Set changes a    *)
(* line of another section, or uses the iterator.                          *)
IniInv == ~i_broken /\ ~i_strayed => IniGood(i_file, i_configs, i_names, i_dicts)

(* The lines of the items are such lines.                                  *)
LEMMA SourcesGood ==
    ASSUME NEW items \in Seq(GoodItems), NEW t, t = SourcesOf(items)
    PROVE  /\ t \in Seq(GoodLines) /\ Len(t) = Len(items) /\ DOMAIN t = DOMAIN items
           /\ \A i \in DOMAIN items : t[i] = items[i].src
<1>1. PICK n \in Nat : n = Len(items)
  OBVIOUS
<1>2. DOMAIN items = 1 .. n /\ \A i \in 1 .. n : items[i] \in GoodItems
  BY <1>1
<1>3. t = [i \in 1 .. n |-> items[i].src]
  BY <1>2 DEF SourcesOf
<1>4. \A i \in 1 .. n : items[i].src \in GoodLines
  BY <1>2 DEF GoodItems
<1>5. t \in [1 .. n -> GoodLines] /\ DOMAIN t = 1 .. n /\ \A i \in 1 .. n : t[i] = items[i].src
  BY <1>3, <1>4
<1>6. t \in Seq(GoodLines) /\ Len(t) = n
  BY <1>5
<1> QED BY <1>1, <1>2, <1>5, <1>6

(* The texts that the file may have are of such lines.                     *)
LEMMA TextsGood == ASSUME NEW text \in PlusTexts \cup IniTexts PROVE text \in Seq(GoodLines)
<1>1. PICK TextLines : TextLines = [kind : STRING, name : STRING, val : STRING]
  OBVIOUS
<1>2. text \in Seq(TextLines)
  BY <1>1, IniAssumption
<1>3. PICK n \in Nat : n = Len(text) /\ DOMAIN text = 1 .. n /\ text \in [1 .. n -> TextLines]
  BY <1>2
<1>4. \A i \in 1 .. n :
          /\ text[i].kind = "section" => text[i] = Section(text[i].name) /\ text[i].name # None
          /\ text[i].kind = "field" => text[i].val \in IniVals
  BY <1>3, IniAssumption
<1>5. ASSUME NEW i \in 1 .. n PROVE text[i] \in GoodLines
  <2>1. PICK l : l = text[i]
    OBVIOUS
  <2>2. l \in TextLines
    BY <1>3, <2>1
  <2>3. l \in [kind : Strings, name : Strings, val : Strings]
    BY <1>1, <2>2 DEF Strings
  <2>4. GoodLine(l)
    BY <1>4, <2>1, <2>3 DEF GoodLine
  <2> QED BY <2>1, <2>3, <2>4 DEF GoodLines
<1>6. text \in [1 .. n -> GoodLines]
  BY <1>3, <1>5
<1> QED BY <1>6

(* A reader has nothing at first.                                          *)
LEMMA IniInitially == Ini!Init => IniInv
<1> SUFFICES ASSUME Ini!Init PROVE IniInv
  OBVIOUS
<1>1. i_file \in IniTexts /\ i_configs = << >> /\ i_names = {} /\ i_dicts = << >>
  BY DEF Ini!Init
<1>2. i_file \in Seq(GoodLines)
  BY <1>1, TextsGood
<1>3. i_configs \in Seq(GoodItems) /\ DOMAIN i_configs = {} /\ DOMAIN i_dicts = {}
  BY <1>1
<1>4. DOMAIN SourcesOf(i_configs) = {}
  BY <1>3 DEF SourcesOf
<1>5. IsDictOf(i_dicts, SourcesOf(i_configs))
  BY <1>3, <1>4 DEF IsDictOf, Fields
<1> QED BY <1>1, <1>2, <1>3, <1>5 DEF IniInv, IniGood

(* A scan takes the lines before the first that stops it.                  *)
LEMMA ScannedLines ==
    ASSUME i_file \in Seq(GoodLines),
           NEW stops, stops = {i \in DOMAIN i_file : Ini!Stops(i)},
           NEW n, n = IF stops = {} THEN Len(i_file) ELSE Ini!Min(stops) - 1
    PROVE  n \in 0 .. Len(i_file) /\ \A i \in 1 .. n : ~Ini!Stops(i)
<1>1. PICK N \in Nat : N = Len(i_file)
  OBVIOUS
<1>2. stops \subseteq 1 .. N /\ \A i \in 1 .. N : i \notin stops => ~Ini!Stops(i)
  BY <1>1
<1>3. CASE stops = {}
  BY <1>1, <1>2, <1>3
<1>4. CASE stops # {}
  <2>1. PICK m : m = Ini!Min(stops)
    OBVIOUS
  <2>2. m \in 1 .. N /\ \A k \in stops : m <= k
    <3>1. stops \in SUBSET Nat
      BY <1>2
    <3>2. m \in stops /\ \A k \in stops : m <= k
      BY <3>1, <1>4, <2>1, IniMin
    <3> QED BY <3>2, <1>2
  <2>3. n = m - 1
    BY <1>4, <2>1
  <2>4. n \in 0 .. N
    BY <2>2, <2>3
  <2>5. ASSUME NEW i \in 1 .. n PROVE ~Ini!Stops(i)
    <3>1. i \in 1 .. N /\ ~(m <= i)
      BY <2>2, <2>3
    <3> QED BY <3>1, <1>2, <2>2
  <2> QED BY <1>1, <2>4, <2>5
<1> QED BY <1>3, <1>4

(* A scan keeps it: the lines it takes have keys that neither the          *)
(* dictionary has nor each other.                                          *)
LEMMA ParseKeeps ==
    ASSUME IniGood(i_file, i_configs, i_names, i_dicts), Ini!ParseIniFile
    PROVE  IniGood(i_file', i_configs', i_names', i_dicts')
<1>1. PICK f, items, d, e, names : f = i_file /\ items = i_configs /\ d = i_dicts /\ e = i_dicts' /\ names = i_names
  OBVIOUS
<1>2. /\ f \in Seq(GoodLines) /\ items \in Seq(GoodItems) /\ IsDictOf(d, SourcesOf(items))
      /\ \A s \in names : \E i \in DOMAIN items : items[i].src = Section(s)
  BY <1>1 DEF IniGood
<1>3. PICK stops : stops = {i \in DOMAIN i_file : Ini!Stops(i)}
  OBVIOUS
<1>4. PICK n : n = IF stops = {} THEN Len(i_file) ELSE Ini!Min(stops) - 1
  OBVIOUS
<1>5. n \in 0 .. Len(f) /\ n \in Nat /\ \A i \in 1 .. n : ~Ini!Stops(i) /\ i \in DOMAIN f
  <2>1. n \in 0 .. Len(f) /\ \A i \in 1 .. n : ~Ini!Stops(i)
    BY <1>1, <1>2, <1>3, <1>4, ScannedLines
  <2>2. PICK N \in Nat : N = Len(f) /\ DOMAIN f = 1 .. N
    BY <1>2
  <2> QED BY <2>1, <2>2
<1>6. PICK more : more = [i \in 1 .. n |-> Ini!Item(f[i].kind, f[i])]
  OBVIOUS
<1>7. PICK fields : fields = {i \in 1 .. n : f[i].kind = "field"}
  OBVIOUS
<1>8. /\ i_configs' = items \o more
      /\ i_names' = names \cup {p[1] : p \in {Ini!At(i) : i \in fields}}
      /\ e = [p \in DOMAIN d \cup {Ini!At(i) : i \in fields} |->
                 IF p \in DOMAIN d THEN d[p] ELSE f[CHOOSE i \in fields : Ini!At(i) = p].val]
      /\ i_file' = f
  BY <1>1, <1>3, <1>4, <1>6, <1>7 DEF Ini!ParseIniFile
<1>9. PICK w : w = [i \in 1 .. n |-> f[i]]
  OBVIOUS
<1>10. \A i \in 1 .. n : f[i] \in GoodLines /\ w[i] = f[i]
  BY <1>2, <1>5, <1>9
<1>11. w \in Seq(GoodLines) /\ Len(w) = n /\ DOMAIN w = 1 .. n
  <2>1. w \in [1 .. n -> GoodLines]
    BY <1>9, <1>10
  <2> QED BY <2>1, <1>5
<1>12. more \in Seq(GoodItems) /\ Len(more) = n /\ \A i \in 1 .. n : more[i].src = f[i]
  <2>1. ASSUME NEW i \in 1 .. n PROVE Ini!Item(f[i].kind, f[i]) \in GoodItems /\ Ini!Item(f[i].kind, f[i]).src = f[i]
    <3>1. f[i].kind \in Strings
      BY <1>10 DEF GoodLines
    <3> QED BY <1>10, <3>1 DEF GoodItems, Ini!Item
  <2>2. more \in [1 .. n -> GoodItems]
    BY <1>6, <2>1
  <2> QED BY <1>5, <1>6, <2>1, <2>2
<1>13. PICK now : now = items \o more
  OBVIOUS
<1>14. PICK N \in Nat : N = Len(items) /\ DOMAIN items = 1 .. N
  BY <1>2
<1>15. /\ now \in Seq(GoodItems) /\ Len(now) = N + n /\ DOMAIN now = 1 .. N + n
       /\ \A i \in 1 .. N : now[i] = items[i]
       /\ \A i \in 1 .. n : now[N + i] = more[i]
  <2>1. now \in Seq(GoodItems) /\ Joined(items, more, now)
    BY <1>2, <1>12, <1>13, ConcatJoined
  <2>2. Len(now) = N + n
    BY <1>12, <1>14, <2>1 DEF Joined
  <2> QED BY <1>12, <1>14, <2>1, <2>2 DEF Joined
<1>16. PICK t, u : t = SourcesOf(items) /\ u = SourcesOf(now)
  OBVIOUS
<1>17. /\ t \in Seq(GoodLines) /\ Len(t) = N /\ \A i \in 1 .. N : t[i] = items[i].src
       /\ u \in Seq(GoodLines) /\ Len(u) = N + n /\ \A i \in 1 .. N + n : u[i] = now[i].src
  BY <1>2, <1>14, <1>15, <1>16, SourcesGood
<1>18. Joined(t, w, u)
  <2>1. \A i \in 1 .. N : i \in 1 .. N + n /\ u[i] = t[i]
    BY <1>5, <1>15, <1>17
  <2>2. ASSUME NEW i \in 1 .. n PROVE u[N + i] = w[i]
    <3>1. N + i \in 1 .. N + n
      BY <1>5
    <3>2. u[N + i] = now[N + i].src
      BY <1>17, <3>1
    <3> QED BY <1>10, <1>12, <1>15, <3>2
  <2> QED BY <1>11, <1>17, <2>1, <2>2 DEF Joined
<1>19. ASSUME NEW i \in 0 .. n PROVE SectionAt(w, i) = SectionAt(f, i)
  BY <1>2, <1>5, <1>10, <1>11, PrefixSections
<1>20. Fields(w) = fields
  BY <1>7, <1>10, <1>11 DEF Fields
<1>21. ASSUME NEW i \in fields
       PROVE  /\ i \in 1 .. n /\ SectionAt(w, i) # None /\ PairAt(w, i) = Ini!At(i)
              /\ Ini!At(i) \notin DOMAIN d
              /\ \A j \in fields : j < i => Ini!At(j) # Ini!At(i)
  <2>1. i \in 1 .. n /\ i \in 0 .. n /\ f[i].kind = "field" /\ ~Ini!Stops(i)
    BY <1>5, <1>7
  <2>2. Ini!At(i) = PairAt(w, i)
    BY <1>1, <1>10, <1>19, <2>1, IniSectionAt DEF Ini!At, PairAt
  <2>3. SectionAt(f, i) # None
    BY <1>1, <2>1, IniSectionAt DEF Ini!Stops, Ini!None, None
  <2>4. Ini!At(i) \notin DOMAIN d
    BY <1>1, <2>1 DEF Ini!Stops
  <2>5. ASSUME NEW j \in fields, j < i PROVE Ini!At(j) # Ini!At(i)
    <3>1. j \in 1 .. i - 1 /\ f[j].kind = "field"
      BY <1>5, <1>7, <2>1, <2>5
    <3> QED BY <1>1, <2>1, <3>1 DEF Ini!Stops
  <2> QED BY <1>19, <2>1, <2>2, <2>3, <2>4, <2>5
<1>22. \A i, j \in fields : Ini!At(i) = Ini!At(j) => i = j
  <2> SUFFICES ASSUME NEW i \in fields, NEW j \in fields, Ini!At(i) = Ini!At(j), i # j PROVE FALSE
    OBVIOUS
  <2>1. i < j \/ j < i
    BY <1>5, <1>7
  <2> QED BY <1>21, <2>1
<1>23. PICK s : s = Pushed(Len(t), 1, 0)
  OBVIOUS
<1>24. PICK W : W = Behind(Len(t), Fields(w))
  OBVIOUS
<1>25. /\ MovedFields(s, t, u, W)
       /\ \A i \in Fields(w) : PairAt(u, Len(t) + i) = PairAt(w, i) /\ u[Len(t) + i].val = w[i].val
  <2>1. \A i \in Fields(w) : SectionAt(w, i) # None
    BY <1>20, <1>21
  <2>2. \A i, j \in Fields(w) : PairAt(w, i) = PairAt(w, j) => i = j
    <3>1. \A i \in Fields(w) : PairAt(w, i) = Ini!At(i)
      BY <1>20, <1>21
    <3> QED BY <1>20, <1>22, <3>1
  <2> QED BY <1>11, <1>17, <1>18, <1>23, <1>24, <2>1, <2>2, JoinedFields
<1>26. MovedDict(s, t, u, W, d, e)
  <2>1. \A i \in fields : PairAt(u, N + i) = Ini!At(i) /\ u[N + i].val = f[i].val
    BY <1>10, <1>17, <1>20, <1>21, <1>25
  <2>2. W = {N + i : i \in fields}
    BY <1>17, <1>20, <1>24 DEF Behind
  <2>3. {PairAt(u, j) : j \in W} = {Ini!At(i) : i \in fields}
    <3>1. \A i \in fields : N + i \in W
      BY <2>2
    <3>2. \A j \in W : \E i \in fields : j = N + i
      BY <2>2
    <3> QED BY <2>1, <3>1, <3>2
  <2>4. DOMAIN e = DOMAIN d \cup {PairAt(u, j) : j \in W}
    BY <1>8, <2>3
  <2>5. ASSUME NEW i \in fields PROVE e[Ini!At(i)] = f[i].val
    <3>1. e[Ini!At(i)] = f[CHOOSE k \in fields : Ini!At(k) = Ini!At(i)].val
      BY <1>8, <1>21
    <3>2. (CHOOSE k \in fields : Ini!At(k) = Ini!At(i)) = i
      BY <1>22
    <3> QED BY <3>1, <3>2
  <2>6. \A j \in W : PairAt(u, j) \notin DOMAIN d /\ e[PairAt(u, j)] = u[j].val
    BY <1>21, <2>1, <2>2, <2>5
  <2>7. ASSUME NEW i \in Fields(t) PROVE e[PairAt(t, i)] = u[s[i]].val
    <3>1. PairAt(t, i) \in DOMAIN d /\ d[PairAt(t, i)] = t[i].val
      BY <1>2, <1>16 DEF IsDictOf
    <3>2. i \in 1 .. N /\ s[i] = i
      <4>1. i \in 1 .. N
        BY <1>17 DEF Fields
      <4>2. s[i] = IF i < 1 THEN i ELSE i + 0
        BY <4>1, <1>17, <1>23 DEF Pushed
      <4> QED BY <4>1, <4>2
    <3>3. u[i] = t[i]
      BY <1>17, <1>18, <3>2 DEF Joined
    <3>4. e[PairAt(t, i)] = d[PairAt(t, i)]
      BY <1>8, <3>1
    <3> QED BY <3>1, <3>2, <3>3, <3>4
  <2> QED BY <2>4, <2>6, <2>7 DEF MovedDict
<1>27. IsDictOf(e, u)
  BY <1>2, <1>16, <1>25, <1>26, MovedIsDict
<1>28. ASSUME NEW sec \in i_names' PROVE \E i \in DOMAIN now : now[i].src = Section(sec)
  <2>1. CASE sec \in names
    <3>1. PICK i \in 1 .. N : items[i].src = Section(sec)
      BY <1>2, <1>14, <2>1
    <3>2. i \in DOMAIN now /\ now[i] = items[i]
      BY <1>5, <1>15, <3>1
    <3> QED BY <3>1, <3>2
  <2>2. CASE sec \notin names
    <3>1. PICK i \in fields : sec = Ini!At(i)[1]
      BY <1>8, <2>2
    <3>2. i \in 1 .. n /\ i \in 0 .. Len(w) /\ SectionAt(w, i) = sec /\ sec # None
      BY <1>5, <1>11, <1>21, <3>1 DEF PairAt
    <3>3. PICK k \in 1 .. i : w[k].kind = "section" /\ w[k].name = sec
      BY <1>11, <3>2, SectionHasHeader
    <3>4. k \in 1 .. n
      BY <1>5, <3>2
    <3>5. f[k] = Section(sec)
      BY <1>10, <3>3, <3>4 DEF GoodLines, GoodLine
    <3>6. N + k \in DOMAIN now /\ now[N + k].src = f[k]
      BY <1>5, <1>12, <1>15, <3>4
    <3> QED BY <3>5, <3>6
  <2> QED BY <2>1, <2>2
<1> QED BY <1>1, <1>2, <1>8, <1>13, <1>15, <1>16, <1>27, <1>28 DEF IniGood

(* What a new section, with a comment before it, leaves as it was.         *)
LEMMA SectionAdded ==
    ASSUME i_configs \in Seq(GoodItems), NEW d, IsDictOf(d, SourcesOf(i_configs)),
           NEW section \in IniSections, NEW now, now = Ini!WithSection(section)
    PROVE  /\ now \in Seq(GoodItems) /\ IsDictOf(d, SourcesOf(now))
           /\ \E i \in DOMAIN now : now[i].src = Section(section)
           /\ \A i \in DOMAIN i_configs : i \in DOMAIN now /\ now[i] = i_configs[i]
<1>1. PICK more, items : more = <<Ini!Item("comment", Ini!Comment), Ini!Item("section", Ini!Section(section))>>
                         /\ items = i_configs
  OBVIOUS
<1>2. now = items \o more
  BY <1>1 DEF Ini!WithSection
<1>3. Comment \in GoodLines /\ Section(section) \in GoodLines
  <2>1. section \in STRING /\ section # None
    BY IniAssumption
  <2>2. section \in Strings \ {None}
    BY <2>1 DEF Strings
  <2> QED BY <2>2, MadeLines
<1>4. PICK x, y : x = Ini!Item("comment", Ini!Comment) /\ y = Ini!Item("section", Ini!Section(section))
  OBVIOUS
<1>5. /\ x \in GoodItems /\ y \in GoodItems /\ x.src = Comment /\ y.src = Section(section)
      /\ Comment.kind = "comment"
  <2>1. Ini!Comment = Comment /\ Ini!Section(section) = Section(section)
    BY DEF Ini!Comment, Comment, Ini!Section, Section, Ini!Line, Line, Ini!None, None
  <2>2. Comment.kind = "comment" /\ Section(section).kind = "section"
    BY DEF Comment, Section, Line
  <2>5. "comment" \in Strings /\ "section" \in Strings
    BY DEF Strings
  <2>3. x \in GoodItems /\ x.src = Comment
    BY <2>5, <1>3, <1>4, <2>1, <2>2, MadeItem
  <2>4. y \in GoodItems /\ y.src = Section(section)
    BY <2>5, <1>3, <1>4, <2>1, <2>2, MadeItem
  <2> QED BY <2>2, <2>3, <2>4
<1>6. more \in Seq(GoodItems) /\ Len(more) = 2 /\ more[1] = x /\ more[2] = y
  BY <1>1, <1>4, <1>5
<1>7. PICK N \in Nat : N = Len(items) /\ DOMAIN items = 1 .. N
  BY <1>1
<1>8. items \in Seq(GoodItems) /\ now \in Seq(GoodItems) /\ Joined(items, more, now)
  BY <1>1, <1>2, <1>6, ConcatJoined
<1>9. /\ Len(now) = N + 2 /\ DOMAIN now = 1 .. N + 2
      /\ \A i \in 1 .. N : now[i] = items[i]
      /\ now[N + 1] = x /\ now[N + 2] = y
  <2>1. Len(now) = N + 2
    BY <1>6, <1>7, <1>8 DEF Joined
  <2>2. 1 \in 1 .. Len(more) /\ 2 \in 1 .. Len(more)
    BY <1>6
  <2> QED BY <1>6, <1>7, <1>8, <2>1, <2>2 DEF Joined
<1>10. PICK t, u : t = SourcesOf(items) /\ u = SourcesOf(now)
  OBVIOUS
<1>11. /\ t \in Seq(GoodLines) /\ Len(t) = N /\ \A i \in 1 .. N : t[i] = items[i].src
       /\ u \in Seq(GoodLines) /\ Len(u) = N + 2 /\ \A i \in 1 .. N + 2 : u[i] = now[i].src
  BY <1>7, <1>8, <1>9, <1>10, SourcesGood
<1>12. PICK w : w = <<Comment, Section(section)>>
  OBVIOUS
<1>13. w \in Seq(GoodLines) /\ Len(w) = 2 /\ w[1] = Comment /\ w[2] = Section(section)
  BY <1>3, <1>12
<1>14. Fields(w) = {}
  <2>1. \A i \in DOMAIN w : i = 1 \/ i = 2
    BY <1>13
  <2> QED BY <1>13, <2>1 DEF Fields, Comment, Section, Line
<1>15. Joined(t, w, u)
  <2>1. \A i \in 1 .. N : i \in 1 .. N + 2 /\ u[i] = t[i]
    BY <1>9, <1>11
  <2>2. u[N + 1] = Comment /\ u[N + 2] = Section(section)
    <3>1. N + 1 \in 1 .. N + 2 /\ N + 2 \in 1 .. N + 2
      OBVIOUS
    <3> QED BY <3>1, <1>5, <1>9, <1>11
  <2>3. \A i \in 1 .. Len(w) : i = 1 \/ i = 2
    BY <1>13
  <2> QED BY <1>11, <1>13, <2>1, <2>2, <2>3 DEF Joined
<1>16. PICK s, W : s = Pushed(Len(t), 1, 0) /\ W = Behind(Len(t), Fields(w))
  OBVIOUS
<1>17. MovedFields(s, t, u, W) /\ W = {}
  <2>1. MovedFields(s, t, u, W)
    BY <1>11, <1>13, <1>14, <1>15, <1>16, JoinedFields
  <2> QED BY <1>14, <1>16, <2>1 DEF Behind
<1>18. MovedDict(s, t, u, W, d, d)
  <2>1. ASSUME NEW i \in Fields(t) PROVE d[PairAt(t, i)] = u[s[i]].val
    <3>1. i \in 1 .. N /\ d[PairAt(t, i)] = t[i].val
      BY <1>1, <1>10, <1>11 DEF IsDictOf, Fields
    <3>2. s[i] = IF i < 1 THEN i ELSE i + 0
      BY <1>11, <1>16, <3>1 DEF Pushed
    <3>3. s[i] = i
      BY <3>1, <3>2
    <3>4. u[i] = t[i]
      BY <3>1, <1>11, <1>15 DEF Joined
    <3> QED BY <3>1, <3>3, <3>4
  <2> QED BY <1>17, <2>1 DEF MovedDict
<1>19. IsDictOf(d, u)
  BY <1>1, <1>10, <1>17, <1>18, MovedIsDict
<1>20. N + 2 \in DOMAIN now /\ now[N + 2].src = Section(section)
  BY <1>5, <1>9
<1>21. \A i \in DOMAIN items : i \in DOMAIN now /\ now[i] = items[i]
  BY <1>7, <1>9
<1> QED BY <1>1, <1>8, <1>10, <1>19, <1>20, <1>21

(* AddSection keeps the dictionary, and the section has its header.        *)
LEMMA AddSectionKeeps ==
    ASSUME IniGood(i_file, i_configs, i_names, i_dicts), NEW section \in IniSections,
           Ini!AddSection(section)
    PROVE  IniGood(i_file', i_configs', i_names', i_dicts')
<1>1. PICK now, d : now = Ini!WithSection(section) /\ d = i_dicts
  OBVIOUS
<1>2. i_configs' = now /\ i_names' = i_names \cup {section} /\ i_file' = i_file /\ i_dicts' = d
  BY <1>1 DEF Ini!AddSection
<1>3. i_configs \in Seq(GoodItems) /\ IsDictOf(d, SourcesOf(i_configs))
  BY <1>1 DEF IniGood
<1>4. /\ now \in Seq(GoodItems) /\ IsDictOf(d, SourcesOf(now))
      /\ \E i \in DOMAIN now : now[i].src = Section(section)
      /\ \A i \in DOMAIN i_configs : i \in DOMAIN now /\ now[i] = i_configs[i]
  BY <1>1, <1>3, SectionAdded
<1>5. \A s \in i_names \cup {section} : \E i \in DOMAIN now : now[i].src = Section(s)
  <2>1. \A s \in i_names : \E i \in DOMAIN i_configs : i_configs[i].src = Section(s)
    BY DEF IniGood
  <2> QED BY <1>4, <2>1
<1>6. i_file \in Seq(GoodLines)
  BY DEF IniGood
<1> QED BY <1>1, <1>2, <1>4, <1>5, <1>6 DEF IniGood

(* The line before the end of a section is in it.                          *)
LEMMA EndOfSection ==
    ASSUME NEW items \in Seq(GoodItems), NEW section, NEW k \in DOMAIN items,
           items[k].src = Section(section), NEW at, at = Ini!EndOf(items, section)
    PROVE  at \in 1 .. Len(items) + 1 /\ SectionAt(SourcesOf(items), at - 1) = section
<1>1. PICK N \in Nat : N = Len(items) /\ DOMAIN items = 1 .. N
  OBVIOUS
<1>2. PICK I : I = {i \in 1 .. Len(items) : items[i].src = Ini!Section(section)}
  OBVIOUS
<1>3. Ini!Section(section) = Section(section)
  BY DEF Ini!Section, Section, Ini!Line, Line, Ini!None, None
<1>4. I # {} /\ I \in SUBSET (1 .. N) /\ \A i \in I : items[i].src = Section(section)
  BY <1>1, <1>2, <1>3
<1>5. PICK first : first = Ini!Min(I)
  OBVIOUS
<1>6. first \in I /\ first \in 1 .. N /\ items[first].src = Section(section)
  <2>1. I \in SUBSET Nat
    BY <1>4
  <2> QED BY <1>4, <1>5, <2>1, IniMin
<1>7. PICK next : next = {i \in first + 1 .. Len(items) : items[i].type = "section"}
  OBVIOUS
<1>8. Ini!SelectInSeq(items, LAMBDA x : x.src = Ini!Section(section)) = first
  BY <1>2, <1>4, <1>5 DEF Ini!SelectInSeq
<1>9. at = IF next = {} THEN N + 1 ELSE Ini!Min(next)
  BY <1>1, <1>7, <1>8 DEF Ini!EndOf
<1>10. at \in first + 1 .. N + 1 /\ \A i \in first + 1 .. at - 1 : i \notin next
  <2>1. CASE next = {}
    BY <1>6, <1>9, <2>1
  <2>2. CASE next # {}
    <3>1. next \in SUBSET Nat /\ next \subseteq first + 1 .. N
      BY <1>1, <1>6, <1>7
    <3>2. at \in next /\ \A i \in next : at <= i
      <4>1. at = Ini!Min(next)
        BY <1>9, <2>2
      <4> QED BY <4>1, <2>2, <3>1, IniMin
    <3>3. at \in first + 1 .. N + 1
      BY <1>6, <3>1, <3>2
    <3>4. ASSUME NEW i \in first + 1 .. at - 1 PROVE i \notin next
      <4>1. ~(at <= i)
        BY <1>6, <3>3
      <4> QED BY <4>1, <3>2
    <3> QED BY <3>3, <3>4
  <2> QED BY <2>1, <2>2
<1>11. PICK t : t = SourcesOf(items)
  OBVIOUS
<1>12. t \in Seq(GoodLines) /\ Len(t) = N /\ \A i \in 1 .. N : t[i] = items[i].src
  BY <1>1, <1>11, SourcesGood
<1>13. PICK H : H = HeadersTo(t, at - 1)
  OBVIOUS
<1>14. at - 1 \in 0 .. Len(t)
  BY <1>6, <1>10, <1>12
<1>15. SectionAt(t, at - 1) = IF H = {} THEN None ELSE t[Max(H)].name
  BY <1>12, <1>13, <1>14, SectionOfHeader
<1>16. Section(section).kind = "section" /\ Section(section).name = section
  BY DEF Section, Line
<1>17. first \in H
  <2>1. first \in 1 .. at - 1
    BY <1>6, <1>10
  <2> QED BY <1>6, <1>12, <1>13, <1>16, <2>1 DEF HeadersTo
<1>18. ASSUME NEW m \in H PROVE m \in 1 .. N /\ m <= first
  <2>1. m \in 1 .. at - 1 /\ t[m].kind = "section"
    BY <1>13 DEF HeadersTo
  <2>2. m \in 1 .. N
    BY <2>1, <1>10, <1>6
  <2>3. items[m].type = "section"
    <3>1. items[m] \in GoodItems
      BY <2>2, <1>1
    <3> QED BY <3>1, <2>1, <2>2, <1>12 DEF GoodItems
  <2>4. m \notin first + 1 .. at - 1
    <3>1. m \in first + 1 .. at - 1 => m \in next
      BY <1>1, <1>7, <2>2, <2>3, <1>6
    <3> QED BY <3>1, <1>10
  <2> QED BY <2>1, <2>2, <2>4, <1>6, <1>10
<1>19. Max(H) = first
  <2>1. H \in SUBSET Nat /\ first \in Nat
    BY <1>6, <1>18
  <2>2. PICK x : x = Max(H)
    OBVIOUS
  <2>3. x \in H /\ first <= x
    BY <1>17, <1>18, <2>1, <2>2, MaxIsGreatest
  <2>4. x \in Nat /\ x <= first
    BY <1>18, <2>1, <2>3
  <2> QED BY <2>1, <2>2, <2>3, <2>4
<1>20. SectionAt(t, at - 1) = section
  BY <1>6, <1>12, <1>15, <1>16, <1>17, <1>19
<1>21. at \in 1 .. N + 1
  BY <1>6, <1>10
<1> QED BY <1>1, <1>11, <1>20, <1>21

(* Set of a new key keeps it: the line put into the text at the end of the *)
(* section is the only one that gives the key there.                       *)
LEMMA SetNewKeeps ==
    ASSUME IniGood(i_file, i_configs, i_names, i_dicts),
           NEW section \in IniSections, NEW key \in IniKeys, NEW val \in IniVals,
           Ini!SetNew(section, key, val), Ini!Set(section, key, val)
    PROVE  IniGood(i_file', i_configs', i_names', i_dicts')
<1>1. PICK d, e, p : d = i_dicts /\ e = i_dicts' /\ p = <<section, key>>
  OBVIOUS
<1>2. PICK items : items = IF section \in i_names THEN i_configs ELSE Ini!WithSection(section)
  OBVIOUS
<1>3. PICK at : at = Ini!EndOf(items, section)
  OBVIOUS
<1>4. PICK x, y : x = Ini!Item("comment", Ini!Comment) /\ y = Ini!Item("field", Ini!Field(key, val))
  OBVIOUS
<1>5. PICK now : now = Widened(items, at, <<x, y>>)
  OBVIOUS
<1>6. /\ p \notin DOMAIN d /\ i_configs' = now /\ i_names' = i_names \cup {section} /\ i_file' = i_file
      /\ e = [q \in DOMAIN d \cup {p} |-> IF q = p THEN val ELSE d[q]]
  BY <1>1, <1>2, <1>3, <1>4, <1>5 DEF Ini!SetNew, Ini!Set, Widened
<1>7. /\ items \in Seq(GoodItems) /\ IsDictOf(d, SourcesOf(items))
      /\ \E k \in DOMAIN items : items[k].src = Section(section)
      /\ \A s \in i_names : \E i \in DOMAIN items : items[i].src = Section(s)
  <2>1. /\ i_configs \in Seq(GoodItems) /\ IsDictOf(d, SourcesOf(i_configs))
        /\ \A s \in i_names : \E i \in DOMAIN i_configs : i_configs[i].src = Section(s)
    BY <1>1 DEF IniGood
  <2>2. CASE section \in i_names
    BY <1>2, <2>1, <2>2
  <2>3. CASE section \notin i_names
    <3>1. items = Ini!WithSection(section)
      BY <1>2, <2>3
    <3>2. /\ items \in Seq(GoodItems) /\ IsDictOf(d, SourcesOf(items))
          /\ \E i \in DOMAIN items : items[i].src = Section(section)
          /\ \A i \in DOMAIN i_configs : i \in DOMAIN items /\ items[i] = i_configs[i]
      BY <2>1, <3>1, SectionAdded
    <3> QED BY <2>1, <3>2
  <2> QED BY <2>2, <2>3
<1>8. PICK N \in Nat : N = Len(items) /\ DOMAIN items = 1 .. N
  BY <1>7
<1>9. at \in 1 .. N + 1 /\ SectionAt(SourcesOf(items), at - 1) = section
  BY <1>3, <1>7, <1>8, EndOfSection
<1>10. PICK c, f : c = Comment /\ f = Field(key, val)
  OBVIOUS
<1>11. /\ c \in GoodLines /\ c.kind = "comment"
       /\ f \in GoodLines /\ f.kind = "field" /\ f.name = key /\ f.val = val
  <2>1. key \in Strings
    BY IniAssumption DEF Strings
  <2> QED BY <1>10, <2>1, MadeLines
<1>12. x \in GoodItems /\ y \in GoodItems /\ x.src = c /\ y.src = f
  <2>1. Ini!Comment = c /\ Ini!Field(key, val) = f
    BY <1>10 DEF Ini!Comment, Comment, Ini!Field, Field, Ini!Line, Line, Ini!None, None
  <2>2. "comment" \in Strings /\ "field" \in Strings
    BY DEF Strings
  <2>3. x \in GoodItems /\ x.src = c
    BY <1>4, <1>11, <2>1, <2>2, MadeItem
  <2>4. y \in GoodItems /\ y.src = f
    BY <1>4, <1>11, <2>1, <2>2, MadeItem
  <2> QED BY <2>3, <2>4
<1>13. /\ now \in Seq(GoodItems) /\ Len(now) = N + 2 /\ DOMAIN now = 1 .. N + 2
       /\ \A j \in 1 .. at - 1 : now[j] = items[j]
       /\ \A j \in at .. N : now[j + 2] = items[j]
       /\ now[at] = x /\ now[at + 1] = y
  <2>1. PICK more : more = <<x, y>>
    OBVIOUS
  <2>2. more \in Seq(GoodItems) /\ Len(more) = 2 /\ more[1] = x /\ more[2] = y
    BY <1>12, <2>1
  <2>3. at \in 1 .. Len(items) + 1 /\ now = Widened(items, at, more)
    BY <1>5, <1>8, <1>9, <2>1
  <2>4. /\ now \in Seq(GoodItems) /\ Len(now) = N + 2
        /\ \A j \in 1 .. at - 1 : now[j] = items[j]
        /\ \A j \in at .. N : now[j + 2] = items[j]
        /\ \A j \in 1 .. 2 : now[at - 1 + j] = more[j]
    <3>1. now \in Seq(GoodItems) /\ PutIn(items, at, more, Len(more), now)
      BY <1>7, <2>2, <2>3, WidenedPlaces
    <3> QED BY <1>8, <2>2, <3>1 DEF PutIn
  <2>5. at - 1 + 1 = at /\ at - 1 + 2 = at + 1 /\ 1 \in 1 .. 2 /\ 2 \in 1 .. 2
    BY <1>9
  <2>6. now[at] = x /\ now[at + 1] = y
    BY <2>2, <2>4, <2>5
  <2> QED BY <2>4, <2>6
<1>14. PICK t, u : t = SourcesOf(items) /\ u = SourcesOf(now)
  OBVIOUS
<1>15. /\ t \in Seq(GoodLines) /\ Len(t) = N /\ DOMAIN t = 1 .. N /\ \A i \in 1 .. N : t[i] = items[i].src
       /\ u \in Seq(GoodLines) /\ Len(u) = N + 2 /\ DOMAIN u = 1 .. N + 2 /\ \A i \in 1 .. N + 2 : u[i] = now[i].src
  BY <1>7, <1>8, <1>13, <1>14, SourcesGood
<1>16. /\ \A j \in 1 .. at - 1 : u[j] = t[j]
       /\ \A j \in at .. N : u[j + 2] = t[j]
       /\ u[at] = c /\ u[at + 1] = f
  <2>1. at \in 1 .. N + 2 /\ at + 1 \in 1 .. N + 2
    BY <1>9
  <2>2. \A j \in 1 .. at - 1 : j \in 1 .. N /\ j \in 1 .. N + 2
    BY <1>9
  <2>3. \A j \in at .. N : j \in 1 .. N /\ j + 2 \in 1 .. N + 2
    BY <1>9
  <2>4. u[at] = c /\ u[at + 1] = f
    BY <1>12, <1>13, <1>15, <2>1
  <2>5. \A j \in 1 .. at - 1 : u[j] = t[j]
    BY <1>13, <1>15, <2>2
  <2>6. ASSUME NEW j \in at .. N PROVE u[j + 2] = t[j]
    <3>1. u[j + 2] = now[j + 2].src /\ t[j] = items[j].src
      BY <1>15, <2>3
    <3> QED BY <1>13, <3>1
  <2> QED BY <2>4, <2>5, <2>6
<1>17. Grown(t, u, at, 2)
  <2>1. \A j \in at .. at + (2 - 1) : j = at \/ j = at + 1
    BY <1>9
  <2> QED BY <1>11, <1>15, <1>16, <2>1 DEF Grown, SameShape
<1>18. PICK s, W : s = Pushed(Len(t), at, 2) /\ W = Fields(u) \cap (at .. at + (2 - 1))
  OBVIOUS
<1>19. W = {at + 1}
  <2>1. \A j \in at .. at + (2 - 1) : j = at \/ j = at + 1
    BY <1>9
  <2>2. at + 1 \in at .. at + (2 - 1) /\ at + 1 \in 1 .. N + 2
    BY <1>9
  <2> QED BY <1>11, <1>15, <1>16, <1>18, <2>1, <2>2 DEF Fields
<1>20. MovedFields(s, t, u, W)
  <2>1. at \in 1 .. Len(t) + 1 /\ 2 \in Nat
    BY <1>9, <1>15
  <2>2. \A i, j \in W : PairAt(u, i) = PairAt(u, j) => i = j
    BY <1>19
  <2> QED BY <1>15, <1>17, <1>18, <2>1, <2>2, GrownFields
<1>21. PairAt(u, at + 1) = p
  <2>1. at \in 1 .. Len(t) + 1 /\ 2 \in Nat /\ at + 1 \in at .. at + (2 - 1)
    BY <1>9, <1>15
  <2>2. SectionAt(u, at + 1) = SectionAt(t, at - 1)
    BY <1>15, <1>17, <2>1, GrownSections
  <2> QED BY <1>1, <1>9, <1>11, <1>14, <1>16, <2>2 DEF PairAt
<1>22. MovedDict(s, t, u, W, d, e)
  <2>1. e[p] = u[at + 1].val
    BY <1>6, <1>11, <1>16
  <2>2. ASSUME NEW i \in Fields(t) PROVE e[PairAt(t, i)] = u[s[i]].val
    <3>1. PairAt(t, i) \in DOMAIN d /\ d[PairAt(t, i)] = t[i].val
      BY <1>7, <1>14 DEF IsDictOf
    <3>2. i \in 1 .. N /\ s[i] = IF i < at THEN i ELSE i + 2
      BY <1>15, <1>18 DEF Fields, Pushed
    <3>3. u[s[i]] = t[i]
      <4>1. i \in 1 .. at - 1 \/ (i \in at .. N /\ ~(i < at))
        BY <1>9, <3>2
      <4>2. i \in 1 .. at - 1 => i < at
        BY <1>9
      <4> QED BY <4>1, <4>2, <1>16, <3>2
    <3>4. e[PairAt(t, i)] = d[PairAt(t, i)]
      BY <1>6, <3>1
    <3> QED BY <3>1, <3>3, <3>4
  <2>3. DOMAIN e = DOMAIN d \cup {PairAt(u, j) : j \in W}
    BY <1>6, <1>19, <1>21
  <2> QED BY <1>6, <1>19, <1>21, <2>1, <2>2, <2>3 DEF MovedDict
<1>23. IsDictOf(e, u)
  BY <1>7, <1>14, <1>20, <1>22, MovedIsDict
<1>24. ASSUME NEW sec \in i_names' PROVE \E i \in DOMAIN now : now[i].src = Section(sec)
  <2>1. PICK i \in 1 .. N : items[i].src = Section(sec)
    BY <1>6, <1>7, <1>8
  <2>2. CASE i < at
    <3>1. i \in 1 .. at - 1 /\ i \in 1 .. N + 2
      BY <1>9, <2>2
    <3> QED BY <1>13, <2>1, <3>1
  <2>3. CASE ~(i < at)
    <3>1. i \in at .. N /\ i + 2 \in 1 .. N + 2
      BY <1>9, <2>3
    <3> QED BY <1>13, <2>1, <3>1
  <2> QED BY <2>2, <2>3
<1>25. i_file \in Seq(GoodLines)
  BY DEF IniGood
<1> QED BY <1>1, <1>6, <1>13, <1>14, <1>23, <1>24, <1>25 DEF IniGood

(* Set of a key there is keeps it, as long as the last line of the key is  *)
(* in the section: no other line loses or gets a value.                    *)
LEMMA SetOldKeeps ==
    ASSUME IniGood(i_file, i_configs, i_names, i_dicts),
           NEW section \in IniSections, NEW key \in IniKeys, NEW val \in IniVals,
           Ini!SetOld(section, key, val), Ini!Set(section, key, val), ~i_broken', ~i_strayed'
    PROVE  IniGood(i_file', i_configs', i_names', i_dicts')
<1>1. PICK items, d, e, p, t : items = i_configs /\ d = i_dicts /\ e = i_dicts' /\ p = <<section, key>>
                               /\ t = SourcesOf(items)
  OBVIOUS
<1>2. items \in Seq(GoodItems) /\ IsDictOf(d, t) /\ \A s \in i_names : \E i \in DOMAIN items : items[i].src = Section(s)
  BY <1>1 DEF IniGood
<1>3. PICK N \in Nat : N = Len(items) /\ DOMAIN items = 1 .. N
  BY <1>2
<1>4. /\ t \in Seq(GoodLines) /\ Len(t) = N /\ DOMAIN t = 1 .. N
      /\ \A i \in 1 .. N : t[i] = items[i].src /\ items[i] \in GoodItems
  BY <1>1, <1>2, <1>3, SourcesGood
<1>5. PICK I : I = {i \in 1 .. Len(items) : items[i].type = "field" /\ items[i].src.name = key}
  OBVIOUS
<1>6. PICK at : at = IF I # {} THEN Ini!Max(I) ELSE 0
  OBVIOUS
<1>7. Ini!LastOf(key) = at
  BY <1>1, <1>5, <1>6 DEF Ini!LastOf, Ini!SelectLastInSeq
<1>8. PICK c, b, f : c = Ini!Item("comment", Ini!Comment) /\ b = Ini!Item("comment", Ini!Blank)
                     /\ f = Ini!Item("field", Ini!Field(key, val))
  OBVIOUS
<1>9. PICK commented, above : /\ commented = (items[at - 1].type = "comment")
                              /\ above = {i \in 1 .. at - 2 : \A j \in i .. at - 1 : items[j].type = "comment"}
  OBVIOUS
<1>10. PICK changed : changed = [i \in DOMAIN items |->
            CASE i = at -> f
              [] i = at - 1 /\ commented -> c
              [] i \in above -> b
              [] OTHER -> items[i]]
  OBVIOUS
<1>11. /\ p \in DOMAIN d
       /\ i_configs' = IF commented THEN changed ELSE InsertAt(changed, at + 1, c)
       /\ SectionAt(t, at) = section
       /\ i_names' = i_names /\ i_file' = i_file
       /\ e = [q \in DOMAIN d \cup {p} |-> IF q = p THEN val ELSE d[q]]
  <2>1. /\ p \in DOMAIN d /\ i_names' = i_names /\ i_file' = i_file
        /\ e = [q \in DOMAIN d \cup {p} |-> IF q = p THEN val ELSE d[q]]
    BY <1>1 DEF Ini!SetOld, Ini!Set
  <2>2. Ini!SectionAt(Ini!Sources(items), at) = section
    BY <1>1, <1>7 DEF Ini!SetOld
  <2>3. Ini!Sources(items) = t
    BY <1>1 DEF Ini!Sources, SourcesOf
  <2>4. Ini!Commented(at) = commented
    BY <1>1, <1>9 DEF Ini!Commented
  <2>5. Ini!Changed(at, Ini!Field(key, val)) = changed
    BY <1>1, <1>8, <1>9, <1>10, <2>4 DEF Ini!Changed
  <2>6. PICK z : z = Ini!Changed(Ini!LastOf(key), Ini!Field(key, val))
    OBVIOUS
  <2>7. i_configs' = IF Ini!Commented(at) THEN z ELSE Ini!InsertAt(z, at + 1, c)
    BY <1>7, <1>8, <2>6 DEF Ini!SetOld
  <2>8. Ini!InsertAt(changed, at + 1, c) = InsertAt(changed, at + 1, c)
    BY DEF Ini!InsertAt, InsertAt
  <2> QED BY <1>7, <2>1, <2>2, <2>3, <2>4, <2>5, <2>6, <2>7, <2>8, IniSectionAt
<1>12. at \in I /\ \A i \in I : i <= at
  <2>1. PICK i \in Fields(t) : PairAt(t, i) = p
    BY <1>2, <1>11 DEF IsDictOf
  <2>2. i \in 1 .. N /\ t[i].kind = "field" /\ t[i].name = key
    BY <1>1, <1>4, <2>1 DEF Fields, PairAt
  <2>3. i \in I
    BY <1>3, <1>4, <1>5, <2>2 DEF GoodItems
  <2>4. I \in SUBSET Nat /\ \A k \in I : k <= N
    BY <1>3, <1>5
  <2>5. Ini!Max(I) = Max(I)
    BY DEF Ini!Max, Max
  <2> QED BY <1>6, <2>3, <2>4, <2>5, MaxIsGreatest
<1>13. /\ at \in 1 .. N /\ items[at].type = "field" /\ t[at].kind = "field" /\ t[at].name = key
       /\ at \in Fields(t) /\ PairAt(t, at) = p
  <2>1. at \in 1 .. N /\ items[at].type = "field" /\ items[at].src.name = key
    BY <1>3, <1>5, <1>12
  <2>2. t[at].kind = "field" /\ t[at].name = key
    BY <1>4, <2>1 DEF GoodItems
  <2> QED BY <1>1, <1>4, <1>11, <2>1, <2>2 DEF Fields, PairAt
<1>14. /\ c \in GoodItems /\ c.type = "comment" /\ c.src.kind = "comment"
       /\ b \in GoodItems /\ b.type = "comment" /\ b.src.kind = "blank"
       /\ f \in GoodItems /\ f.src.kind = "field" /\ f.src.name = key /\ f.src.val = val
  <2>1. PICK x, y, z : x = Comment /\ y = Blank /\ z = Field(key, val)
    OBVIOUS
  <2>2. /\ x \in GoodLines /\ x.kind = "comment" /\ y \in GoodLines /\ y.kind = "blank"
        /\ z \in GoodLines /\ z.kind = "field" /\ z.name = key /\ z.val = val
    <3>1. key \in Strings
      BY IniAssumption DEF Strings
    <3> QED BY <2>1, <3>1, MadeLines
  <2>3. Ini!Comment = x /\ Ini!Blank = y /\ Ini!Field(key, val) = z
    BY <2>1 DEF Ini!Comment, Comment, Ini!Blank, Blank, Ini!Field, Field, Ini!Line, Line, Ini!None, None
  <2>4. "comment" \in Strings /\ "field" \in Strings
    BY DEF Strings
  <2>5. c \in GoodItems /\ c.type = "comment" /\ c.src = x
    BY <1>8, <2>2, <2>3, <2>4, MadeItem
  <2>6. b \in GoodItems /\ b.type = "comment" /\ b.src = y
    BY <1>8, <2>2, <2>3, <2>4, MadeItem
  <2>7. f \in GoodItems /\ f.src = z
    BY <1>8, <2>2, <2>3, <2>4, MadeItem
  <2> QED BY <2>2, <2>5, <2>6, <2>7
<1>15. ASSUME NEW i \in 1 .. N
       PROVE  /\ changed[i] \in GoodItems /\ SameShape(t[i], changed[i].src)
              /\ i # at /\ t[i].kind = "field" => changed[i] = items[i]
              /\ i = at => changed[i] = f
  <2>1. changed[i] = CASE i = at -> f
                       [] i = at - 1 /\ commented -> c
                       [] i \in above -> b
                       [] OTHER -> items[i]
    BY <1>3, <1>10
  <2>2. items[i] \in GoodItems /\ t[i] = items[i].src
    BY <1>4
  <2>3. (items[i].type = "section") = (t[i].kind = "section") /\ (items[i].type = "field") = (t[i].kind = "field")
    BY <2>2 DEF GoodItems
  <2>4. CASE i = at
    <3>1. changed[i] = f
      <4>1. i # at - 1 /\ i \notin 1 .. at - 2
        BY <1>13, <2>4
      <4>2. i \notin above
        BY <1>9, <4>1
      <4> QED BY <2>1, <2>4, <4>1, <4>2
    <3> QED BY <1>13, <1>14, <2>4, <3>1 DEF SameShape
  <2>5. CASE i = at - 1 /\ commented
    <3>1. i # at /\ changed[i] = c
      <4>1. i # at /\ i \notin 1 .. at - 2
        BY <1>13, <2>5
      <4>2. i \notin above
        BY <1>9, <4>1
      <4> QED BY <2>1, <2>5, <4>1, <4>2
    <3>2. items[i].type = "comment"
      BY <1>9, <2>5
    <3>3. t[i].kind # "section" /\ t[i].kind # "field"
      BY <2>3, <3>2
    <3> QED BY <1>14, <3>1, <3>3 DEF SameShape
  <2>6. CASE i \in above
    <3>1. i \in 1 .. at - 1 /\ i \in i .. at - 1 /\ i # at /\ i # at - 1
      BY <1>9, <1>13, <2>6
    <3>2. items[i].type = "comment" /\ changed[i] = b
      BY <1>9, <2>1, <2>6, <3>1
    <3>3. t[i].kind # "section" /\ t[i].kind # "field"
      BY <2>3, <3>2
    <3> QED BY <1>14, <3>1, <3>2, <3>3 DEF SameShape
  <2>7. CASE i # at /\ ~(i = at - 1 /\ commented) /\ i \notin above
    <3>1. changed[i] = items[i]
      BY <2>1, <2>7
    <3> QED BY <2>2, <2>7, <3>1 DEF SameShape
  <2> QED BY <2>4, <2>5, <2>6, <2>7
<1>16. changed \in Seq(GoodItems) /\ Len(changed) = N /\ DOMAIN changed = 1 .. N
  <2>1. DOMAIN changed = 1 .. N /\ changed = [i \in 1 .. N |-> changed[i]]
    BY <1>3, <1>10
  <2>2. changed \in [1 .. N -> GoodItems]
    BY <1>15, <2>1
  <2> QED BY <2>1, <2>2
<1>17. PICK now : now = i_configs'
  OBVIOUS
<1>31. PICK n \in Nat : n = IF commented THEN 0 ELSE 1
  OBVIOUS
<1>18. /\ now \in Seq(GoodItems) /\ Len(now) = N + n /\ DOMAIN now = 1 .. N + n
       /\ \A j \in 1 .. at : now[j] = changed[j]
       /\ \A j \in at + 1 .. N : now[j + n] = changed[j]
       /\ n = 1 => now[at + 1] = c
  <2>1. CASE commented
    <3>1. now = changed /\ n = 0
      BY <1>11, <1>17, <1>31, <2>1
    <3>2. \A j \in at + 1 .. N : j + 0 = j
      BY <1>13
    <3> QED BY <1>16, <3>1, <3>2
  <2>2. CASE ~commented
    <3>1. n = 1 /\ now = InsertAt(changed, at + 1, c)
      BY <1>11, <1>17, <1>31, <2>2
    <3>2. PICK more : more = <<c>>
      OBVIOUS
    <3>3. more \in Seq(GoodItems) /\ Len(more) = 1 /\ more[1] = c
      BY <1>14, <3>2
    <3>4. PICK k : k = at + 1
      OBVIOUS
    <3>5. k \in 1 .. Len(changed) + 1 /\ now = Widened(changed, k, more)
      BY <1>13, <1>16, <3>1, <3>2, <3>4 DEF InsertAt, Widened
    <3>6. now \in Seq(GoodItems) /\ PutIn(changed, k, more, Len(more), now)
      BY <1>16, <3>3, <3>5, WidenedPlaces
    <3>7. k - 1 = at /\ k - 1 + 1 = at + 1 /\ 1 \in 1 .. 1
      BY <1>13, <3>4
    <3>8. Len(now) = N + 1 /\ now[k - 1 + 1] = c
      BY <1>16, <3>3, <3>6, <3>7 DEF PutIn
    <3>9. /\ \A j \in 1 .. k - 1 : now[j] = changed[j]
          /\ \A j \in k .. N : now[j + 1] = changed[j]
      BY <1>16, <3>3, <3>6 DEF PutIn
    <3> QED BY <3>1, <3>4, <3>6, <3>7, <3>8, <3>9
  <2> QED BY <2>1, <2>2
<1>19. PICK u : u = SourcesOf(now)
  OBVIOUS
<1>20. /\ u \in Seq(GoodLines) /\ Len(u) = N + n /\ DOMAIN u = 1 .. N + n
       /\ \A i \in 1 .. N + n : u[i] = now[i].src
  BY <1>18, <1>19, SourcesGood
<1>21. PICK k \in Nat : k = at + 1
  BY <1>13
<1>22. /\ k \in 1 .. N + 1 /\ at = k - 1 /\ at < k
       /\ \A j \in 1 .. k - 1 : j \in 1 .. N /\ u[j] = changed[j].src
       /\ \A j \in k .. N : j \in 1 .. N /\ u[j + n] = changed[j].src
       /\ \A j \in k .. k + (n - 1) : u[j].kind = "comment"
  <2>1. k \in 1 .. N + 1 /\ at = k - 1 /\ at < k
    BY <1>13, <1>21
  <2>2. ASSUME NEW j \in 1 .. k - 1 PROVE j \in 1 .. N /\ u[j] = changed[j].src
    <3>1. j \in 1 .. N /\ j \in 1 .. N + n /\ j \in 1 .. at
      BY <2>1
    <3> QED BY <1>18, <1>20, <3>1
  <2>3. ASSUME NEW j \in k .. N PROVE j \in 1 .. N /\ u[j + n] = changed[j].src
    <3>1. j \in 1 .. N /\ j + n \in 1 .. N + n /\ j \in at + 1 .. N
      BY <1>21, <2>1
    <3>2. u[j + n] = now[j + n].src
      BY <1>20, <3>1
    <3> QED BY <1>18, <3>1, <3>2
  <2>4. ASSUME NEW j \in k .. k + (n - 1) PROVE u[j].kind = "comment"
    <3>1. n = 1 /\ j = at + 1 /\ j \in 1 .. N + n
      BY <1>31, <1>21, <2>1
    <3> QED BY <1>14, <1>18, <1>20, <3>1
  <2> QED BY <2>1, <2>2, <2>3, <2>4
<1>23. Grown(t, u, k, n)
  <2>1. Len(u) = Len(t) + n
    BY <1>4, <1>20
  <2>2. \A j \in 1 .. k - 1 : SameShape(t[j], u[j])
    BY <1>15, <1>22
  <2>3. \A j \in k .. Len(t) : SameShape(t[j], u[j + n])
    BY <1>4, <1>15, <1>22
  <2>4. \A j \in k .. k + (n - 1) : u[j].kind # "section"
    BY <1>22
  <2> QED BY <2>1, <2>2, <2>3, <2>4 DEF Grown
<1>24. PICK s, W : s = Pushed(Len(t), k, n) /\ W = Fields(u) \cap (k .. k + (n - 1))
  OBVIOUS
<1>25. W = {}
  BY <1>22, <1>24 DEF Fields
<1>26. MovedFields(s, t, u, W)
  <2>1. k \in 1 .. Len(t) + 1
    BY <1>4, <1>22
  <2>2. \A i, j \in W : PairAt(u, i) = PairAt(u, j) => i = j
    BY <1>25
  <2> QED BY <1>4, <1>20, <1>23, <1>24, <2>1, <2>2, GrownFields
<1>27. MovedDict(s, t, u, W, d, e)
  <2>1. ASSUME NEW i \in Fields(t) PROVE e[PairAt(t, i)] = u[s[i]].val
    <3>1. i \in 1 .. N /\ t[i].kind = "field" /\ PairAt(t, i) \in DOMAIN d /\ d[PairAt(t, i)] = t[i].val
      BY <1>2, <1>4 DEF IsDictOf, Fields
    <3>2. s[i] = IF i < k THEN i ELSE i + n
      BY <1>4, <1>24, <3>1 DEF Pushed
    <3>3. u[s[i]] = changed[i].src
      <4>1. (i \in 1 .. k - 1 /\ i < k) \/ (i \in k .. N /\ ~(i < k))
        BY <1>22, <3>1
      <4> QED BY <4>1, <1>22, <3>2
    <3>4. CASE i = at
      <4>1. e[PairAt(t, i)] = val
        BY <1>11, <1>13, <3>4
      <4>2. u[s[i]] = f.src
        BY <1>15, <3>1, <3>3, <3>4
      <4> QED BY <1>14, <4>1, <4>2
    <3>5. CASE i # at
      <4>1. PairAt(t, i) # p
        BY <1>2, <1>13, <3>5 DEF IsDictOf
      <4>2. e[PairAt(t, i)] = d[PairAt(t, i)]
        BY <1>11, <3>1, <4>1
      <4>3. u[s[i]] = t[i]
        BY <1>4, <1>15, <3>1, <3>3, <3>5
      <4> QED BY <3>1, <4>2, <4>3
    <3> QED BY <3>4, <3>5
  <2>2. DOMAIN e = DOMAIN d
    BY <1>11
  <2> QED BY <1>25, <2>1, <2>2 DEF MovedDict
<1>28. IsDictOf(e, u)
  BY <1>2, <1>26, <1>27, MovedIsDict
<1>29. ASSUME NEW sec \in i_names PROVE \E i \in DOMAIN now : now[i].src = Section(sec)
  <2>1. PICK i \in 1 .. N : t[i] = Section(sec)
    BY <1>2, <1>3, <1>4
  <2>2. t[i].kind = "section"
    BY <2>1 DEF Section, Line
  <2>3. s[i] = IF i < k THEN i ELSE i + n
    BY <1>4, <1>24 DEF Pushed
  <2>4. s[i] \in 1 .. N + n /\ u[s[i]] = changed[i].src
    <3>1. (i \in 1 .. k - 1 /\ i < k) \/ (i \in k .. N /\ ~(i < k))
      BY <1>22
    <3>2. i \in 1 .. N + n /\ i + n \in 1 .. N + n
      OBVIOUS
    <3> QED BY <3>1, <3>2, <1>22, <2>3
  <2>5. changed[i] = items[i]
    <3>1. items[i].type = "section" /\ i # at
      <4>1. items[i].type = "section"
        BY <1>4, <2>2 DEF GoodItems
      <4> QED BY <4>1, <1>13
    <3>2. ~(i = at - 1 /\ commented)
      BY <1>9, <3>1
    <3>3. i \notin above
      <4> SUFFICES ASSUME i \in above PROVE FALSE
        OBVIOUS
      <4>1. i \in 1 .. at - 1 /\ i \in i .. at - 1
        BY <1>9, <1>13
      <4> QED BY <1>9, <3>1, <4>1
    <3>4. changed[i] = CASE i = at -> f
                         [] i = at - 1 /\ commented -> c
                         [] i \in above -> b
                         [] OTHER -> items[i]
      BY <1>3, <1>10
    <3> QED BY <3>1, <3>2, <3>3, <3>4
  <2>6. now[s[i]].src = Section(sec)
    BY <1>4, <1>20, <2>1, <2>4, <2>5
  <2> QED BY <1>18, <2>4, <2>6
<1>30. i_file \in Seq(GoodLines)
  BY DEF IniGood
<1> QED BY <1>1, <1>11, <1>17, <1>18, <1>19, <1>28, <1>29, <1>30 DEF IniGood

(* No operation of the reader breaks it, nor does anyone who writes the    *)
(* file.                                                                   *)
LEMMA IniNextKeeps == IniInv /\ Ini!Next => IniInv'
<1> SUFFICES ASSUME IniInv, Ini!Next, ~i_broken', ~i_strayed'
             PROVE  IniGood(i_file', i_configs', i_names', i_dicts')
  BY DEF IniInv
<1>1. ~i_broken /\ ~i_strayed
  <2>1. ~i_broken
    BY DEF Ini!Next
  <2>2. \/ UNCHANGED i_strayed
        \/ \E section \in IniSections, key \in IniKeys, val \in IniVals : Ini!SetOld(section, key, val)
    BY DEF Ini!Next, Ini!ParseIniFile, Ini!AddSection, Ini!Set, Ini!SetNew, Ini!WriteToFile, Ini!Others
  <2>3. ASSUME NEW section, NEW key, NEW val, Ini!SetOld(section, key, val) PROVE ~i_strayed
    <3>1. PICK other : other = (Ini!SectionAt(Ini!Sources(i_configs), Ini!LastOf(key)) # section)
      OBVIOUS
    <3>2. i_strayed' = (i_strayed \/ other)
      BY <2>3, <3>1 DEF Ini!SetOld
    <3> QED BY <3>2
  <2> QED BY <2>1, <2>2, <2>3
<1>2. IniGood(i_file, i_configs, i_names, i_dicts)
  BY <1>1 DEF IniInv
<1>3. CASE Ini!ParseIniFile
  BY <1>2, <1>3, ParseKeeps
<1>4. ASSUME NEW section \in IniSections, Ini!AddSection(section)
      PROVE  IniGood(i_file', i_configs', i_names', i_dicts')
  BY <1>2, <1>4, AddSectionKeeps
<1>5. ASSUME NEW section \in IniSections, NEW key \in IniKeys, NEW val \in IniVals, Ini!Set(section, key, val)
      PROVE  IniGood(i_file', i_configs', i_names', i_dicts')
  <2>1. Ini!SetNew(section, key, val) \/ Ini!SetOld(section, key, val)
    BY <1>5 DEF Ini!Set
  <2>2. CASE Ini!SetNew(section, key, val)
    BY <1>2, <1>5, <2>2, SetNewKeeps
  <2>3. CASE Ini!SetOld(section, key, val)
    BY <1>2, <1>5, <2>3, SetOldKeeps
  <2> QED BY <2>1, <2>2, <2>3
<1>6. CASE Ini!WriteToFile
  <2>1. i_file' = SourcesOf(i_configs) /\ UNCHANGED <<i_configs, i_names, i_dicts>>
    BY <1>6 DEF Ini!WriteToFile, Ini!Sources, SourcesOf
  <2>2. i_file' \in Seq(GoodLines)
    BY <1>2, <2>1, SourcesGood DEF IniGood
  <2> QED BY <1>2, <2>1, <2>2 DEF IniGood
<1>7. CASE Ini!Others
  <2>1. i_file' \in Seq(GoodLines) /\ UNCHANGED <<i_configs, i_names, i_dicts>>
    BY <1>7, TextsGood DEF Ini!Others
  <2> QED BY <1>2, <2>1 DEF IniGood
<1> QED BY <1>3, <1>4, <1>5, <1>6, <1>7 DEF Ini!Next

(* What each key has in the dictionary is on the only line that gives it.  *)
LEMMA DictSays ==
    ASSUME NEW t \in Seq(GoodLines), NEW d, IsDictOf(d, t), NEW section, NEW key,
           NEW p, p = <<section, key>>
    PROVE  Says(t, section, key) = IF p \in DOMAIN d THEN {d[p]} ELSE {}
<1>1. PICK G : G = Giving(t, section, key)
  OBVIOUS
<1>2. \A i : i \in G <=> i \in Fields(t) /\ PairAt(t, i) = p
  BY <1>1 DEF Giving, Fields, PairAt
<1>3. DOMAIN t \subseteq Nat
  OBVIOUS
<1>4. /\ G = {} => Says(t, section, key) = {}
      /\ \A m \in G : (\A i \in G : m <= i) => Says(t, section, key) = {t[m].val}
  BY <1>1, <1>3, SaysFirst
<1>5. CASE p \in DOMAIN d
  <2>1. PICK m \in Fields(t) : PairAt(t, m) = p
    BY <1>5 DEF IsDictOf
  <2>2. m \in G /\ m \in Nat /\ d[p] = t[m].val
    BY <1>2, <1>3, <2>1 DEF IsDictOf, Fields
  <2>3. \A i \in G : i = m
    BY <1>2, <2>1 DEF IsDictOf
  <2>4. \A i \in G : m <= i
    BY <2>2, <2>3
  <2> QED BY <1>4, <1>5, <2>2, <2>4
<1>6. CASE p \notin DOMAIN d
  <2>1. G = {}
    BY <1>2, <1>6 DEF IsDictOf
  <2> QED BY <1>4, <1>6, <2>1
<1> QED BY <1>5, <1>6

(* There are as many fields as keys in the dictionary.                     *)
LEMMA DictCounts ==
    ASSUME NEW t \in Seq(GoodLines), NEW d, IsDictOf(d, t)
    PROVE  Cardinality(Fields(t)) = Cardinality(DOMAIN d)
<1>1. IsFiniteSet(Fields(t))
  <2>1. PICK n \in Nat : n = Len(t)
    OBVIOUS
  <2>2. IsFiniteSet(1 .. n)
    BY FS_Interval
  <2>3. Fields(t) \subseteq 1 .. n
    BY <2>1 DEF Fields
  <2> QED BY <2>2, <2>3, FS_Subset
<1>2. PICK f : f = [i \in Fields(t) |-> PairAt(t, i)]
  OBVIOUS
<1>3. f \in [Fields(t) -> DOMAIN d]
  BY <1>2 DEF IsDictOf
<1>4. \A i, j \in Fields(t) : f[i] = f[j] => i = j
  BY <1>2 DEF IsDictOf
<1>5. \A p \in DOMAIN d : \E i \in Fields(t) : f[i] = p
  BY <1>2 DEF IsDictOf
<1>6. f \in Bijection(Fields(t), DOMAIN d)
  BY <1>3, <1>4, <1>5 DEF Bijection, Injection, Surjection, IsInjective
<1>7. ExistsBijection(Fields(t), DOMAIN d)
  BY <1>6 DEF ExistsBijection
<1> QED BY <1>1, <1>7, FS_Bijection

(* Cardinality is the same in the instance.                                *)
LEMMA IniCardinality == ASSUME NEW S PROVE Ini!Cardinality(S) = Cardinality(S)
BY DEF Ini!Cardinality, Cardinality

\* says is what lookups answer of a key p of a section
Answered(p, says) ==
    /\ p \in DOMAIN i_dicts <=> says # {}
    /\ {Ini!GetOptValue(p[1], p[2], Ini!None)} = IF says \subseteq {Ini!Empty} THEN {Ini!None} ELSE says

(* The invariant gives the property.                                       *)
LEMMA IniRight == IniInv => Ini!TextIsDictionary
<1> SUFFICES ASSUME IniInv, ~i_broken, ~i_strayed
             PROVE  /\ Ini!Cardinality({i \in DOMAIN i_configs : i_configs[i].type = "field"}) = Ini!Cardinality(DOMAIN i_dicts)
                    /\ \A p \in IniSections \X IniKeys : Answered(p, Ini!Says(Ini!Sources(i_configs), p[1], p[2]))
  BY DEF Ini!TextIsDictionary, Answered
<1>1. PICK items, t, d : items = i_configs /\ t = SourcesOf(items) /\ d = i_dicts
  OBVIOUS
<1>2. items \in Seq(GoodItems) /\ IsDictOf(d, t)
  BY <1>1 DEF IniInv, IniGood
<1>3. t \in Seq(GoodLines) /\ DOMAIN t = DOMAIN items /\ \A i \in DOMAIN items : t[i] = items[i].src
  BY <1>1, <1>2, SourcesGood
<1>4. \A i \in DOMAIN items : items[i] \in GoodItems
  BY <1>2
<1>5. {i \in DOMAIN items : items[i].type = "field"} = Fields(t)
  BY <1>3, <1>4 DEF Fields, GoodItems
<1>6. Ini!Cardinality({i \in DOMAIN i_configs : i_configs[i].type = "field"}) = Ini!Cardinality(DOMAIN i_dicts)
  BY <1>1, <1>2, <1>3, <1>5, DictCounts, IniCardinality
<1>7. ASSUME NEW section \in IniSections, NEW key \in IniKeys, NEW p, p = <<section, key>>
      PROVE  Answered(p, Ini!Says(Ini!Sources(i_configs), section, key))
  <2>1. p[1] = section /\ p[2] = key
    BY <1>7
  <2>2. Ini!Says(Ini!Sources(i_configs), section, key) = Says(t, section, key)
    BY <1>1, IniSays DEF Ini!Sources, SourcesOf
  <2>3. Says(t, section, key) = IF p \in DOMAIN d THEN {d[p]} ELSE {}
    BY <1>2, <1>3, <1>7, DictSays
  <2>4. Ini!GetOptValue(section, key, Ini!None) = LET res == IF p \in DOMAIN d THEN d[p] ELSE Ini!Empty
                                                 IN  IF res = Ini!Empty THEN Ini!None ELSE res
    BY <1>1, <1>7 DEF Ini!GetOptValue
  <2>5. CASE p \in DOMAIN d
    <3>1. Ini!GetOptValue(section, key, Ini!None) = IF d[p] = Ini!Empty THEN Ini!None ELSE d[p]
      BY <2>4, <2>5
    <3>2. Says(t, section, key) = {d[p]}
      BY <2>3, <2>5
    <3> QED BY <1>1, <2>1, <2>2, <2>5, <3>1, <3>2 DEF Answered
  <2>6. CASE p \notin DOMAIN d
    <3>1. Ini!GetOptValue(section, key, Ini!None) = Ini!None
      BY <2>4, <2>6
    <3>2. Says(t, section, key) = {}
      BY <2>3, <2>6
    <3> QED BY <1>1, <2>1, <2>2, <2>6, <3>1, <3>2 DEF Answered
  <2> QED BY <2>5, <2>6
<1>8. ASSUME NEW p \in IniSections \X IniKeys
      PROVE  Answered(p, Ini!Says(Ini!Sources(i_configs), p[1], p[2]))
  <2>1. p[1] \in IniSections /\ p[2] \in IniKeys /\ p = <<p[1], p[2]>>
    OBVIOUS
  <2> QED BY <1>7, <2>1
<1> QED BY <1>6, <1>8

(* No step of any part breaks the invariant of the reader.                 *)
LEMMA IniStepKeeps ==
    ASSUME which = "ini" => IniInv,
           [AllNext]_all_vars
    PROVE  (which = "ini" => IniInv)'
<1>1. CASE IniStep
  BY <1>1, IniNextKeeps DEF IniStep
<1>2. CASE \/ HttpStep \/ PlusStep \/ CfgStep \/ RemovalStep \/ NodeStep \/ SelectStep \/ UuidsStep \/ PackerStep
           \/ UNCHANGED all_vars
  <2>1. which' = which /\ UNCHANGED i_vars
    BY <1>2 DEF HttpStep, PlusStep, CfgStep, RemovalStep, NodeStep, SelectStep, UuidsStep, PackerStep, all_vars
  <2> QED BY <2>1 DEF IniInv, i_vars
<1> QED BY <1>1, <1>2 DEF AllNext

(* The text that IniReader would write says what its lookups answer, or    *)
(* nothing or an empty value where they answer the default, for any texts  *)
(* and any calls (IniReader.cpp:199-334).                                  *)
THEOREM TextStaysDictionary == AllSpec => []IniTextIsDictionary
<1> DEFINE Inv == which = "ini" => IniInv
<1>1. AllInit => Inv
  BY IniInitially DEF AllInit
<1>2. Inv => IniTextIsDictionary
  BY IniRight DEF IniTextIsDictionary
<1>3. Inv /\ [AllNext]_all_vars => Inv'
  BY IniStepKeeps
<1> QED BY <1>1, <1>2, <1>3, PTL DEF AllSpec
-----------------------------------------------------------------------------
(***************************************************************************)
(* IniReaderPlus, for all its sections, keys, values and texts and any     *)
(* calls.  The dictionary leads to records, and stays right only as the    *)
(* list does: PlusInv relates the two with the sections of the text that   *)
(* the list makes.  That a removal takes the line that was named needs     *)
(* that the numbers of lines are distinct until one is added.              *)
(***************************************************************************)


(* u is t with one line more, no header, at place at.                      *)
OneMore(t, u, at) ==
    /\ Len(u) = Len(t) + 1
    /\ \A j \in 1 .. at - 1 : u[j] = t[j]
    /\ \A j \in at .. Len(t) : u[j + 1] = t[j]
    /\ u[at].kind # "section"

\* where the lines are then
MovedLines(s, t, u, at) ==
    /\ \A i \in DOMAIN t : /\ s[i] \in DOMAIN u \ {at} /\ u[s[i]] = t[i]
                           /\ SectionAt(u, s[i]) = SectionAt(t, i)
    /\ \A j \in DOMAIN u \ {at} : \E i \in DOMAIN t : j = s[i]
    /\ \A i, j \in DOMAIN t : i <= j => s[i] <= s[j]
    /\ SectionAt(u, at) = SectionAt(t, at - 1)

(* The others have moved, and stay in their sections.                      *)
LEMMA OneMoreMoves ==
    ASSUME NEW S, NEW t \in Seq(S), NEW u \in Seq(S), NEW at \in 1 .. Len(t) + 1, OneMore(t, u, at),
           NEW s, s = Pushed(Len(t), at, 1)
    PROVE  MovedLines(s, t, u, at)
<1>1. PICK N \in Nat : N = Len(t)
  OBVIOUS
<1>2. /\ DOMAIN t = 1 .. N /\ DOMAIN u = 1 .. N + 1 /\ at \in 1 .. N + 1
      /\ \A k \in 1 .. N : s[k] = IF k < at THEN k ELSE k + 1
      /\ \A j \in 1 .. at - 1 : u[j] = t[j]
      /\ \A j \in at .. N : u[j + 1] = t[j]
  <2>1. Len(u) = N + 1
    BY <1>1 DEF OneMore
  <2> QED BY <1>1, <2>1 DEF OneMore, Pushed
<1>3. Grown(t, u, at, 1)
  <2>1. \A j \in at .. at + (1 - 1) : j = at
    OBVIOUS
  <2> QED BY <2>1 DEF OneMore, Grown, SameShape
<1>4. /\ \A j \in 0 .. at - 1 : SectionAt(u, j) = SectionAt(t, j)
      /\ \A j \in at .. at + (1 - 1) : SectionAt(u, j) = SectionAt(t, at - 1)
      /\ \A j \in at .. N : SectionAt(u, j + 1) = SectionAt(t, j)
  <2>1. 1 \in Nat
    OBVIOUS
  <2> QED BY <1>1, <1>3, <2>1, GrownSections
<1>5. ASSUME NEW i \in 1 .. N
      PROVE  /\ s[i] \in 1 .. N + 1 /\ s[i] # at /\ u[s[i]] = t[i]
             /\ SectionAt(u, s[i]) = SectionAt(t, i)
  <2>1. CASE i < at
    <3>1. s[i] = i /\ i \in 0 .. at - 1 /\ i \in 1 .. at - 1 /\ i \in 1 .. N + 1 /\ i # at
      BY <2>1, <1>2
    <3> QED BY <3>1, <1>2, <1>4
  <2>2. CASE ~(i < at)
    <3>1. s[i] = i + 1 /\ i \in at .. N /\ i + 1 \in 1 .. N + 1 /\ i + 1 # at
      BY <2>2, <1>2
    <3> QED BY <3>1, <1>2, <1>4
  <2> QED BY <2>1, <2>2
<1>6. ASSUME NEW j \in 1 .. N + 1, j # at PROVE \E i \in 1 .. N : j = s[i]
  <2>1. CASE j < at
    <3>1. j \in 1 .. N /\ s[j] = j
      BY <2>1, <1>2
    <3> QED BY <3>1
  <2>2. CASE ~(j < at)
    <3>1. j - 1 \in 1 .. N /\ ~(j - 1 < at) /\ (j - 1) + 1 = j
      BY <2>2, <1>6, <1>2
    <3>2. s[j - 1] = j
      BY <3>1, <1>2
    <3> QED BY <3>1, <3>2
  <2> QED BY <2>1, <2>2
<1>7. \A i, j \in 1 .. N : i <= j => s[i] <= s[j]
  BY <1>2
<1>8. SectionAt(u, at) = SectionAt(t, at - 1)
  <2>1. at \in at .. at + (1 - 1)
    BY <1>2
  <2> QED BY <2>1, <1>4
<1> QED BY <1>2, <1>5, <1>6, <1>7, <1>8 DEF MovedLines

(* What a text says of a key stays when a line is put in that does not     *)
(* give it a value in this section, or is behind one that does.            *)
LEMMA OneMoreSays ==
    ASSUME NEW S, NEW t \in Seq(S), NEW u \in Seq(S), NEW at, NEW s, MovedLines(s, t, u, at),
           NEW section, NEW key,
           at \in Giving(u, section, key) => \E i \in Giving(t, section, key) : s[i] <= at
    PROVE  Says(u, section, key) = Says(t, section, key)
<1>1. PICK G, H : G = Giving(t, section, key) /\ H = Giving(u, section, key)
  OBVIOUS
<1>2. /\ G \subseteq DOMAIN t /\ H \subseteq DOMAIN u /\ DOMAIN t \subseteq Nat /\ DOMAIN u \subseteq Nat
  BY <1>1 DEF Giving
<1>3. \A i \in G : s[i] \in H
  BY <1>1 DEF Giving, MovedLines
<1>4. \A j \in H : \E i \in G : s[i] <= j
  <2> SUFFICES ASSUME NEW j \in H PROVE \E i \in G : s[i] <= j
    OBVIOUS
  <2>1. CASE j = at
    BY <1>1, <2>1
  <2>2. CASE j # at
    <3>1. PICK i \in DOMAIN t : j = s[i]
      BY <1>2, <2>2 DEF MovedLines
    <3>2. i \in G
      BY <1>1, <3>1 DEF Giving, MovedLines
    <3>3. j <= j
      BY <1>2
    <3> QED BY <3>1, <3>2, <3>3
  <2> QED BY <2>1, <2>2
<1>5. /\ G = {} => Says(t, section, key) = {}
      /\ \A m \in G : (\A i \in G : m <= i) => Says(t, section, key) = {t[m].val}
  BY <1>1, <1>2, SaysFirst
<1>6. /\ H = {} => Says(u, section, key) = {}
      /\ \A m \in H : (\A i \in H : m <= i) => Says(u, section, key) = {u[m].val}
  BY <1>1, <1>2, SaysFirst
<1>7. CASE G = {}
  BY <1>4, <1>5, <1>6, <1>7
<1>8. CASE G # {}
  <2>1. G \in SUBSET Nat
    BY <1>2
  <2>2. PICK m \in G : \A i \in G : m <= i
    BY <1>8, <2>1, LeastNumber
  <2>3. s[m] \in H /\ u[s[m]] = t[m]
    BY <1>2, <1>3 DEF MovedLines
  <2>4. ASSUME NEW j \in H PROVE s[m] <= j
    <3>1. PICK i \in G : s[i] <= j
      BY <1>4
    <3>2. m \in DOMAIN t /\ i \in DOMAIN t /\ m <= i
      BY <1>2, <2>2
    <3>3. s[m] <= s[i] /\ s[m] \in Nat /\ s[i] \in Nat /\ j \in Nat
      BY <1>2, <3>2 DEF MovedLines
    <3> QED BY <3>1, <3>3
  <2>5. PICK z : z = s[m]
    OBVIOUS
  <2>6. Says(u, section, key) = {u[z].val}
    BY <1>6, <2>3, <2>4, <2>5
  <2>7. Says(t, section, key) = {t[m].val}
    BY <1>5, <2>2
  <2> QED BY <2>3, <2>5, <2>6, <2>7
<1> QED BY <1>7, <1>8

(* A line that is no header is in the section of the line before it.       *)
LEMMA SameSection ==
    ASSUME NEW S, NEW t \in Seq(S), NEW i \in 1 .. Len(t), t[i].kind # "section"
    PROVE  SectionAt(t, i) = SectionAt(t, i - 1)
<1>1. i \in 0 .. Len(t) /\ i - 1 \in 0 .. Len(t)
  <2>1. Len(t) \in Nat
    OBVIOUS
  <2> QED BY <2>1
<1>2. HeadersTo(t, i) = HeadersTo(t, i - 1)
  <2>1. \A k \in HeadersTo(t, i) : k \in 1 .. i /\ k # i
    BY DEF HeadersTo
  <2>2. \A k \in 1 .. i : k # i => k \in 1 .. i - 1
    OBVIOUS
  <2>3. \A k \in 1 .. i - 1 : k \in 1 .. i
    OBVIOUS
  <2> QED BY <2>1, <2>2, <2>3 DEF HeadersTo
<1> QED BY <1>1, <1>2, SectionOfHeader

(* The section up to the next header.                                      *)
LEMMA SectionGoesOn ==
    ASSUME NEW S, NEW t \in Seq(S), NEW first \in 1 .. Len(t), NEW i \in first .. Len(t),
           t[first].kind = "section", \A k \in first + 1 .. i : t[k].kind # "section"
    PROVE  SectionAt(t, i) = t[first].name
<1>1. PICK N \in Nat : N = Len(t)
  OBVIOUS
<1>2. i \in 0 .. Len(t) /\ i \in Nat /\ first \in 1 .. i
  BY <1>1
<1>3. PICK H : H = HeadersTo(t, i)
  OBVIOUS
<1>4. first \in H
  BY <1>2, <1>3 DEF HeadersTo
<1>5. ASSUME NEW k \in H PROVE k <= first
  <2>1. k \in 1 .. i /\ t[k].kind = "section"
    BY <1>3 DEF HeadersTo
  <2>2. k \notin first + 1 .. i
    BY <2>1
  <2> QED BY <2>1, <2>2, <1>2
<1>6. H \in SUBSET Nat /\ first \in Nat
  BY <1>2, <1>3 DEF HeadersTo
<1>7. PICK x : x = Max(H)
  OBVIOUS
<1>8. x \in H /\ first <= x
  BY <1>4, <1>5, <1>6, <1>7, MaxIsGreatest
<1>9. x = first
  <2>1. x \in Nat /\ x <= first
    BY <1>5, <1>6, <1>8
  <2> QED BY <2>1, <1>6, <1>8
<1> QED BY <1>1, <1>2, <1>3, <1>4, <1>7, <1>9, SectionOfHeader

-----------------------------------------------------------------------------
(* Its operators on texts are those of IniText, too ...                    *)
LEMMA PlusSectionAt == ASSUME NEW t, NEW i PROVE Plus!SectionAt(t, i) = SectionAt(t, i)
BY DEF Plus!SectionAt, SectionAt, Plus!SelectLastInSeq, SelectLastInSeq, Plus!Max, Max, Plus!None, None

(* ... so that texts say the same ...                                      *)
LEMMA PlusSays == ASSUME NEW t, NEW section, NEW key PROVE Plus!Says(t, section, key) = Says(t, section, key)
BY PlusSectionAt DEF Plus!Says, Says

(* ... and the least of some numbers is in them and below all others.      *)
LEMMA PlusMin ==
    ASSUME NEW T \in SUBSET Nat, T # {}
    PROVE  Plus!Min(T) \in T /\ \A m \in T : Plus!Min(T) <= m
BY LeastNumber DEF Plus!Min

Records == [num : Int, src : GoodLines, section : Strings, val : Strings]

SourcesIn(list, heap) == [i \in DOMAIN list |-> heap[list[i]].src]

IsHistory(h) ==
    h = [expect |-> h.expect, text |-> h.text, added |-> h.added, misplaced |-> h.misplaced,
         strayed |-> h.strayed, again |-> h.again]

(* The list has every record once, and the dictionary only records.        *)
PlusShape(file, list, heap, dict, made, h) ==
    /\ file \in Seq(GoodLines)
    /\ made \in Nat /\ heap \in [1 .. made -> Records]
    /\ list \in Seq(1 .. made) /\ NoneTwice(list)
    /\ \A p \in DOMAIN dict : dict[p] \in 1 .. made
    /\ IsHistory(h)

(* Nothing is in the dictionary before a scan succeeds; if it was the      *)
(* first and nothing was added, the numbers of the lines are distinct.     *)
PlusFresh(list, heap, dict, scanned, made, h) ==
    /\ ~scanned => DOMAIN dict = {} /\ (list = << >> => made = 0 /\ ~h.added)
    /\ ~h.added /\ ~h.again => \A id \in 1 .. made : heap[id].num = id

Pairs == IniSections \X IniKeys

(* The dictionary leads to a line of its key, in its section unless it was *)
(* removed, with the value expected; and the text, t, says what it should, *)
(* unless a line was added elsewhere.                                      *)
PlusAgree(t, list, heap, dict, h) ==
    /\ \A p \in Pairs : (p \in DOMAIN dict) = (p \in DOMAIN h.expect)
    /\ \A p \in Pairs \cap DOMAIN dict :
          /\ heap[dict[p]].src.kind = "field" /\ heap[dict[p]].src.name = p[2]
          /\ heap[dict[p]].val = h.expect[p]
          /\ \A i \in DOMAIN list : list[i] = dict[p] => SectionAt(t, i) = p[1]
    /\ ~h.misplaced => \A p \in DOMAIN h.text : p = <<p[1], p[2]>> /\ Says(t, p[1], p[2]) = {h.text[p]}

PlusGood(file, list, heap, dict, scanned, made, h) ==
    /\ PlusShape(file, list, heap, dict, made, h)
    /\ PlusFresh(list, heap, dict, scanned, made, h)
    /\ scanned /\ ~h.again /\ ~h.strayed => PlusAgree(SourcesIn(list, heap), list, heap, dict, h)

PlusInv == ~p_destroyed => PlusGood(p_file, p_allLine, p_heap, p_cfgDict, p_bscan, p_made, p_h)

(* The lines of the listed records, in their order.                        *)
LEMMA ListedSources ==
    ASSUME NEW made \in Nat, NEW heap \in [1 .. made -> Records], NEW list \in Seq(1 .. made),
           NEW t, t = SourcesIn(list, heap)
    PROVE  /\ t \in Seq(GoodLines) /\ Len(t) = Len(list) /\ DOMAIN t = DOMAIN list
           /\ \A i \in DOMAIN list : list[i] \in 1 .. made /\ t[i] = heap[list[i]].src
<1>1. PICK n \in Nat : n = Len(list)
  OBVIOUS
<1>2. DOMAIN list = 1 .. n /\ \A i \in 1 .. n : list[i] \in 1 .. made
  BY <1>1
<1>3. \A i \in 1 .. n : heap[list[i]].src \in GoodLines
  <2>1. \A id \in 1 .. made : heap[id].src \in GoodLines
    BY DEF Records
  <2> QED BY <1>2, <2>1
<1>4. t = [i \in 1 .. n |-> heap[list[i]].src]
  BY <1>2 DEF SourcesIn
<1>5. t \in [1 .. n -> GoodLines] /\ DOMAIN t = 1 .. n /\ \A i \in 1 .. n : t[i] = heap[list[i]].src
  BY <1>3, <1>4
<1>6. t \in Seq(GoodLines) /\ Len(t) = n
  BY <1>5
<1> QED BY <1>1, <1>2, <1>5, <1>6

(* Nothing is listed and nothing scanned at first.                         *)
LEMMA PlusInitially == Plus!Init => PlusInv
<1> SUFFICES ASSUME Plus!Init PROVE PlusInv
  OBVIOUS
<1>1. /\ p_file \in PlusTexts /\ p_allLine = << >> /\ p_heap = << >> /\ p_cfgDict = << >>
      /\ p_bscan = FALSE /\ p_made = 0 /\ p_h = Plus!NoHistory
  BY DEF Plus!Init
<1>2. p_file \in Seq(GoodLines)
  BY <1>1, TextsGood
<1>3. /\ p_allLine \in Seq(1 .. p_made) /\ Len(p_allLine) = 0 /\ DOMAIN p_cfgDict = {}
      /\ p_heap \in [1 .. p_made -> Records]
  <2>1. 1 .. p_made = {} /\ DOMAIN p_heap = {}
    BY <1>1
  <2>2. p_heap = [i \in 1 .. p_made |-> p_heap[i]]
    BY <1>1
  <2> QED BY <1>1, <2>1, <2>2
<1>4. IsHistory(p_h) /\ ~p_h.added
  BY <1>1 DEF IsHistory, Plus!NoHistory
<1>5. PlusShape(p_file, p_allLine, p_heap, p_cfgDict, p_made, p_h)
  BY <1>1, <1>2, <1>3, <1>4 DEF PlusShape, NoneTwice
<1>6. PlusFresh(p_allLine, p_heap, p_cfgDict, p_bscan, p_made, p_h)
  BY <1>1, <1>3, <1>4 DEF PlusFresh
<1> QED BY <1>1, <1>5, <1>6 DEF PlusInv, PlusGood

(* The invariant gives the three properties.                               *)
LEMMA PlusRight == PlusInv => Plus!NoDangling /\ Plus!LookupsAnswer /\ Plus!TextKept
<1> SUFFICES ASSUME PlusInv PROVE Plus!NoDangling /\ Plus!LookupsAnswer /\ Plus!TextKept
  OBVIOUS
<1>1. CASE p_destroyed
  BY <1>1 DEF Plus!NoDangling, Plus!LookupsAnswer, Plus!TextKept
<1>2. CASE ~p_destroyed
  <2>1. PICK file, list, heap, dict, made, h, t :
           /\ file = p_file /\ list = p_allLine /\ heap = p_heap /\ dict = p_cfgDict
           /\ made = p_made /\ h = p_h /\ t = SourcesIn(list, heap)
    OBVIOUS
  <2>2. PlusGood(file, list, heap, dict, p_bscan, made, h)
    BY <1>2, <2>1 DEF PlusInv
  <2>3. /\ made \in Nat /\ heap \in [1 .. made -> Records] /\ list \in Seq(1 .. made)
        /\ \A p \in DOMAIN dict : dict[p] \in 1 .. made
    BY <2>2 DEF PlusGood, PlusShape
  <2>4. Plus!NoDangling
    <3>1. DOMAIN heap = 1 .. made
      BY <2>3
    <3>2. {list[i] : i \in DOMAIN list} \subseteq 1 .. made
      BY <2>3
    <3> QED BY <2>1, <2>3, <3>1, <3>2 DEF Plus!NoDangling, Plus!ToSet
  <2>5. CASE p_bscan /\ ~p_h.again /\ ~p_h.strayed
    <3>1. PlusAgree(t, list, heap, dict, h)
      BY <2>1, <2>2, <2>5 DEF PlusGood
    <3>2. ASSUME NEW p \in IniSections \X IniKeys
          PROVE  Plus!GetValue(p[1], p[2]) = IF p \in DOMAIN p_h.expect THEN p_h.expect[p] ELSE Plus!Empty
      <4>1. p = <<p[1], p[2]>>
        OBVIOUS
      <4>2. Plus!GetValue(p[1], p[2]) = IF p \in DOMAIN dict THEN heap[dict[p]].val ELSE Plus!Empty
        BY <2>1, <4>1 DEF Plus!GetValue
      <4>3. /\ (p \in DOMAIN dict) = (p \in DOMAIN h.expect)
            /\ p \in DOMAIN dict => heap[dict[p]].val = h.expect[p]
        BY <3>1 DEF PlusAgree, Pairs
      <4> QED BY <2>1, <4>2, <4>3
    <3>3. Plus!LookupsAnswer
      BY <2>5, <3>2 DEF Plus!LookupsAnswer
    <3>4. Plus!Sources = t
      BY <2>1 DEF Plus!Sources, SourcesIn
    <3>5. ~p_h.misplaced => \A p \in DOMAIN p_h.text : Plus!Says(t, p[1], p[2]) = {p_h.text[p]}
      BY <2>1, <3>1, PlusSays DEF PlusAgree
    <3> QED BY <2>4, <3>3, <3>4, <3>5 DEF Plus!TextKept
  <2>6. CASE ~(p_bscan /\ ~p_h.again /\ ~p_h.strayed)
    BY <2>4, <2>6 DEF Plus!LookupsAnswer, Plus!TextKept
  <2> QED BY <2>5, <2>6
<1> QED BY <1>1, <1>2

(* What others write to the file, and what Sync writes.                    *)
LEMMA PlusFileChanges ==
    ASSUME PlusGood(p_file, p_allLine, p_heap, p_cfgDict, p_bscan, p_made, p_h), Plus!Others \/ Plus!Sync
    PROVE  PlusGood(p_file', p_allLine', p_heap', p_cfgDict', p_bscan', p_made', p_h')
<1>1. PICK file, list, heap, dict, made, h, t, new :
         /\ file = p_file /\ list = p_allLine /\ heap = p_heap /\ dict = p_cfgDict
         /\ made = p_made /\ h = p_h /\ t = SourcesIn(list, heap) /\ new = p_file'
  OBVIOUS
<1>2. PlusGood(file, list, heap, dict, p_bscan, made, h)
  BY <1>1
<1>3. UNCHANGED <<p_allLine, p_heap, p_cfgDict, p_bscan, p_made, p_h>>
  BY DEF Plus!Others, Plus!Sync
<1>4. ASSUME Plus!Others PROVE new \in Seq(GoodLines)
  <2>1. new \in PlusTexts
    BY <1>1, <1>4 DEF Plus!Others
  <2> QED BY <2>1, TextsGood
<1>5. file \in Seq(GoodLines) /\ t \in Seq(GoodLines)
  <2>1. made \in Nat /\ heap \in [1 .. made -> Records] /\ list \in Seq(1 .. made) /\ file \in Seq(GoodLines)
    BY <1>2 DEF PlusGood, PlusShape
  <2> QED BY <1>1, <2>1, ListedSources
<1>6. ASSUME Plus!Sync PROVE new \in Seq(GoodLines)
  <2>1. Plus!Sources = t
    BY <1>1 DEF Plus!Sources, SourcesIn
  <2>2. PICK i \in 1 .. Len(file) + 1, cut \in BOOLEAN :
           /\ cut => SubSeq(file, i, Len(file)) # << >>
           /\ new = t \o (IF cut THEN <<Plus!Bad>> \o Tail(SubSeq(file, i, Len(file)))
                          ELSE SubSeq(file, i, Len(file)))
    BY <1>1, <1>6, <2>1 DEF Plus!Sync
  <2>3. PICK rest : rest = SubSeq(file, i, Len(file))
    OBVIOUS
  <2>4. rest \in Seq(GoodLines)
    <3>1. PICK n \in Int : n = Len(file)
      BY <1>5
    <3>2. PICK k \in Int : k = i
      OBVIOUS
    <3>3. \A j \in k .. n : file[j] \in GoodLines
      <4>1. \A j \in k .. n : j \in 1 .. Len(file)
        BY <3>1, <3>2
      <4> QED BY <1>5, <4>1
    <3>4. rest = SubSeq(file, k, n)
      BY <2>3, <3>1, <3>2
    <3> QED BY <3>3, <3>4, SubSeqProperties
  <2>5. Plus!Bad \in GoodLines
    <3>1. Plus!Bad = Bad
      BY DEF Plus!Bad, Bad, Plus!Line, Line, Plus!None, None
    <3> QED BY <3>1, MadeLines
  <2>6. PICK bad : bad = <<Plus!Bad>>
    OBVIOUS
  <2>7. bad \in Seq(GoodLines)
    BY <2>5, <2>6
  <2>8. PICK more : more = IF cut THEN bad \o Tail(rest) ELSE rest
    OBVIOUS
  <2>9. more \in Seq(GoodLines)
    <3>1. CASE cut
      <4>1. Tail(rest) \in Seq(GoodLines)
        BY <2>2, <2>3, <2>4, <3>1
      <4> QED BY <2>7, <2>8, <3>1, <4>1
    <3>2. CASE ~cut
      BY <2>4, <2>8, <3>2
    <3> QED BY <3>1, <3>2
  <2>10. new = t \o more
    BY <2>2, <2>3, <2>6, <2>8
  <2> QED BY <1>5, <2>9, <2>10
<1>7. new \in Seq(GoodLines)
  BY <1>4, <1>6
<1>8. PlusGood(new, list, heap, dict, p_bscan, made, h)
  BY <1>2, <1>7 DEF PlusGood, PlusShape
<1> QED BY <1>1, <1>3, <1>8

(* Sections have names that are strings.                                   *)
LEMMA SectionIsString ==
    ASSUME NEW t \in Seq(GoodLines), NEW i \in 0 .. Len(t)
    PROVE  SectionAt(t, i) \in Strings
<1>1. PICK H : H = HeadersTo(t, i)
  OBVIOUS
<1>2. SectionAt(t, i) = IF H = {} THEN None ELSE t[Max(H)].name
  BY <1>1, SectionOfHeader
<1>3. CASE H = {}
  BY <1>2, <1>3 DEF Strings
<1>4. CASE H # {}
  <2>1. H \in SUBSET Nat /\ i \in Nat /\ \A k \in H : k <= i
    BY <1>1 DEF HeadersTo
  <2>2. Max(H) \in 1 .. i
    <3>1. Max(H) \in H
      BY <1>4, <2>1, MaxIsGreatest
    <3> QED BY <1>1, <3>1 DEF HeadersTo
  <2>3. PICK k \in 1 .. Len(t) : k = Max(H)
    BY <2>2
  <2>4. t[k] \in GoodLines
    OBVIOUS
  <2> QED BY <1>2, <1>4, <2>3, <2>4 DEF GoodLines
<1> QED BY <1>3, <1>4

(* A scan takes the lines before the first that stops it.                  *)
LEMMA StopAfter ==
    ASSUME p_file \in Seq(GoodLines), NEW n, n = Plus!Stop - 1
    PROVE  n \in 0 .. Len(p_file)
<1>1. PICK N \in Nat : N = Len(p_file) /\ DOMAIN p_file = 1 .. N
  OBVIOUS
<1>2. PICK stops : stops = {i \in DOMAIN p_file : p_file[i].kind = "long" \/ Plus!Faulty(i)}
  OBVIOUS
<1>3. Plus!Stop = IF stops = {} THEN N + 1 ELSE Plus!Min(stops)
  BY <1>1, <1>2 DEF Plus!Stop
<1>4. CASE stops = {}
  BY <1>1, <1>3, <1>4
<1>5. CASE stops # {}
  <2>1. stops \in SUBSET Nat /\ stops \subseteq 1 .. N
    BY <1>1, <1>2
  <2>2. PICK m : m = Plus!Min(stops)
    OBVIOUS
  <2>3. m \in stops
    BY <1>5, <2>1, <2>2, PlusMin
  <2>4. m \in 1 .. N /\ n = m - 1
    BY <1>3, <1>5, <2>1, <2>2, <2>3
  <2> QED BY <1>1, <2>4
<1> QED BY <1>4, <1>5

\* the fields among the lines of a list, and the keys and sections they have
FieldsOf(list, records) == {i \in DOMAIN list : records[list[i]].src.kind = "field"}
PairOf(list, records, i) == <<records[list[i]].section, records[list[i]].src.name>>
FieldsAt(list, records, p) == {i \in FieldsOf(list, records) : PairOf(list, records, i) = p}

PairsOf(list, records) == {PairOf(list, records, i) : i \in FieldsOf(list, records)}

(* What the dictionary has after a scan.                                   *)
Transfers(dict, list, records, e) ==
    /\ DOMAIN e = DOMAIN dict \cup PairsOf(list, records)
    /\ \A p \in DOMAIN e :
          e[p] = IF p \in DOMAIN dict THEN dict[p] ELSE list[Plus!Min(FieldsAt(list, records, p))]

(* This is what transfer makes.                                            *)
LEMMA TransferredIs ==
    ASSUME NEW dict, NEW list, NEW records, NEW e, e = Plus!Transferred(dict, list, records)
    PROVE  Transfers(dict, list, records, e)
BY DEF Plus!Transferred, FieldsOf, PairOf, PairsOf, FieldsAt, Transfers

\* id is the first record of the list for p
FirstFor(list, records, p, id) ==
    \E m \in FieldsAt(list, records, p) : id = list[m] /\ \A i \in FieldsAt(list, records, p) : m <= i

(* It names records of the list, and for a new pair the first one.         *)
LEMMA TransferredGood ==
    ASSUME NEW dict, NEW made \in Nat, NEW list \in Seq(1 .. made), NEW records,
           \A p \in DOMAIN dict : dict[p] \in 1 .. made, NEW e, Transfers(dict, list, records, e),
           NEW p \in DOMAIN e
    PROVE  e[p] \in 1 .. made /\ (p \notin DOMAIN dict => FirstFor(list, records, p, e[p]))
<1>1. CASE p \in DOMAIN dict
  BY <1>1 DEF Transfers
<1>2. CASE p \notin DOMAIN dict
  <2>1. PICK T : T = FieldsAt(list, records, p)
    OBVIOUS
  <2>2. T # {} /\ e[p] = list[Plus!Min(T)]
    <3>1. p \in PairsOf(list, records)
      BY <1>2 DEF Transfers
    <3>2. T # {}
      BY <2>1, <3>1 DEF FieldsAt, PairsOf
    <3> QED BY <1>2, <2>1, <3>2 DEF Transfers
  <2>3. T \subseteq DOMAIN list /\ T \in SUBSET Nat
    BY <2>1 DEF FieldsAt, FieldsOf
  <2>4. PICK m : m = Plus!Min(T)
    OBVIOUS
  <2>5. m \in T /\ \A i \in T : m <= i
    BY <2>2, <2>3, <2>4, PlusMin
  <2>6. list[m] \in 1 .. made
    BY <2>3, <2>5
  <2> QED BY <2>1, <2>2, <2>4, <2>5, <2>6 DEF FirstFor
<1> QED BY <1>1, <1>2

\* a line that was read, as a record
ReadOf(file, i) == [num |-> i, src |-> file[i], section |-> SectionAt(file, i), val |-> file[i].val]

(* It is a good record, numbered by its line.                              *)
LEMMA ReadGood ==
    ASSUME NEW file \in Seq(GoodLines), NEW i \in 1 .. Len(file), NEW r, r = ReadOf(file, i)
    PROVE  /\ r \in Records /\ r.num = i /\ r.src = file[i]
           /\ r.section = SectionAt(file, i) /\ r.val = file[i].val
<1>1. file[i] \in GoodLines /\ i \in Int
  OBVIOUS
<1>2. file[i].val \in Strings
  BY <1>1 DEF GoodLines
<1>3. SectionAt(file, i) \in Strings
  <2>1. i \in 0 .. Len(file)
    OBVIOUS
  <2> QED BY <2>1, SectionIsString
<1> QED BY <1>1, <1>2, <1>3 DEF ReadOf, Records

(* What a text says of the keys.                                           *)
LEMMA SaysOneValue ==
    ASSUME NEW w \in Seq(GoodLines), NEW section, NEW key,
           NEW G, G = Giving(w, section, key)
    PROVE  /\ (G = {}) = (Says(w, section, key) = {})
           /\ \A m \in G : (\A i \in G : m <= i) => Says(w, section, key) = {w[m].val} /\ w[m].val \in IniVals
           /\ G # {} => \E m \in G : \A i \in G : m <= i
<1>1. DOMAIN w \subseteq Nat /\ \A i \in DOMAIN w : w[i] \in GoodLines
  OBVIOUS
<1>2. G \in SUBSET Nat /\ \A m \in G : w[m].val \in IniVals
  BY <1>1 DEF Giving, GoodLines, GoodLine
<1>3. /\ G = {} => Says(w, section, key) = {}
      /\ \A m \in G : (\A i \in G : m <= i) => Says(w, section, key) = {w[m].val}
  BY <1>1, SaysFirst
<1>4. G # {} => \E m \in G : \A i \in G : m <= i
  BY <1>2, LeastNumber
<1> QED BY <1>2, <1>3, <1>4

SaidOf(w, said) ==
    /\ DOMAIN said = {p \in Pairs : Says(w, p[1], p[2]) # {}}
    /\ \A p \in DOMAIN said : p = <<p[1], p[2]>> /\ Says(w, p[1], p[2]) = {said[p]}

(* Said has exactly the pairs that the text gives a value, and it.         *)
LEMMA SaidIs ==
    ASSUME NEW w \in Seq(GoodLines), NEW said, said = Plus!Said(w)
    PROVE  SaidOf(w, said)
<1>1. PICK D : D = {p \in Pairs : Says(w, p[1], p[2]) # {}}
  OBVIOUS
<1>2. DOMAIN said = D /\ \A p \in D : said[p] = CHOOSE v \in IniVals : v \in Says(w, p[1], p[2])
  BY <1>1, PlusSays DEF Plus!Said, Pairs
<1>3. ASSUME NEW p \in D PROVE p = <<p[1], p[2]>> /\ Says(w, p[1], p[2]) = {said[p]}
  <2>1. PICK section \in IniSections, key \in IniKeys : p = <<section, key>>
    BY <1>1 DEF Pairs
  <2>2. p[1] = section /\ p[2] = key
    BY <2>1
  <2>3. Says(w, section, key) # {}
    BY <1>1, <2>2
  <2>4. PICK G : G = Giving(w, section, key)
    OBVIOUS
  <2>5. PICK m \in G : \A i \in G : m <= i
    BY <2>3, <2>4, SaysOneValue
  <2>6. Says(w, section, key) = {w[m].val} /\ w[m].val \in IniVals
    BY <2>4, <2>5, SaysOneValue
  <2>7. (CHOOSE v \in IniVals : v \in Says(w, section, key)) = w[m].val
    BY <2>6
  <2>8. said[p] = w[m].val
    BY <1>2, <2>2, <2>7
  <2> QED BY <2>1, <2>2, <2>6, <2>8
<1> QED BY <1>1, <1>2, <1>3 DEF SaidOf

(* After the first scan the dictionary has the first line of every key,    *)
(* and lookups answer, and the text says, what was read.                   *)
LEMMA FirstRead ==
    ASSUME NEW n \in Nat, NEW w \in Seq(GoodLines), DOMAIN w = 1 .. n,
           NEW list \in Seq(1 .. n), DOMAIN list = 1 .. n, NEW heap,
           \A i \in 1 .. n : /\ list[i] = i /\ heap[i].src = w[i] /\ heap[i].section = SectionAt(w, i)
                            /\ heap[i].val = w[i].val,
           NEW none, DOMAIN none = {}, NEW dict, Transfers(none, list, heap, dict),
           NEW h, h.expect = Plus!Said(w), h.text = Plus!Said(w)
    PROVE  PlusAgree(w, list, heap, dict, h)
<1>1. PICK said : said = Plus!Said(w)
  OBVIOUS
<1>2. DOMAIN dict = PairsOf(list, heap) /\ SaidOf(w, said)
  BY <1>1, SaidIs DEF Transfers
<1>3. ASSUME NEW p \in Pairs
      PROVE  /\ (p \in DOMAIN dict) = (p \in DOMAIN said)
             /\ p \in DOMAIN dict =>
                   /\ heap[dict[p]].src.kind = "field" /\ heap[dict[p]].src.name = p[2]
                   /\ heap[dict[p]].val = said[p]
                   /\ \A i \in DOMAIN list : list[i] = dict[p] => SectionAt(w, i) = p[1]
  <2>1. PICK section \in IniSections, key \in IniKeys : p = <<section, key>>
    BY DEF Pairs
  <2>2. p[1] = section /\ p[2] = key
    BY <2>1
  <2>3. PICK G : G = Giving(w, section, key)
    OBVIOUS
  <2>4. FieldsAt(list, heap, p) = G
    <3>1. \A i \in 1 .. n : PairOf(list, heap, i) = <<SectionAt(w, i), w[i].name>>
      BY DEF PairOf
    <3>2. FieldsOf(list, heap) = {i \in 1 .. n : w[i].kind = "field"}
      BY DEF FieldsOf
    <3>3. \A i \in 1 .. n : PairOf(list, heap, i) = p <=> SectionAt(w, i) = section /\ w[i].name = key
      BY <2>1, <3>1
    <3> QED BY <2>3, <3>2, <3>3 DEF FieldsAt, Giving
  <2>5. p \in DOMAIN dict <=> G # {}
    <3>1. p \in PairsOf(list, heap) <=> FieldsAt(list, heap, p) # {}
      BY DEF PairsOf, FieldsAt
    <3> QED BY <1>2, <2>4, <3>1
  <2>6. (G = {}) = (Says(w, section, key) = {})
    BY <2>3, SaysOneValue
  <2>7. p \in DOMAIN said <=> Says(w, section, key) # {}
    BY <1>2, <2>2 DEF SaidOf
  <2>8. ASSUME p \in DOMAIN dict
        PROVE  /\ heap[dict[p]].src.kind = "field" /\ heap[dict[p]].src.name = key
               /\ heap[dict[p]].val = said[p]
               /\ \A i \in DOMAIN list : list[i] = dict[p] => SectionAt(w, i) = section
    <3>1. p \notin DOMAIN none /\ \A q \in DOMAIN none : none[q] \in 1 .. n
      OBVIOUS
    <3>2. PICK m \in G : dict[p] = list[m] /\ \A i \in G : m <= i
      <4>1. FirstFor(list, heap, p, dict[p])
        BY <2>8, <3>1, TransferredGood
      <4> QED BY <2>4, <4>1 DEF FirstFor
    <3>3. m \in 1 .. n /\ w[m].kind = "field" /\ w[m].name = key /\ SectionAt(w, m) = section
      BY <2>3 DEF Giving
    <3>4. dict[p] = m /\ heap[m].src = w[m] /\ heap[m].val = w[m].val
      BY <3>2, <3>3
    <3>5. Says(w, section, key) = {w[m].val}
      BY <2>3, <3>2, SaysOneValue
    <3>6. Says(w, section, key) = {said[p]}
      BY <1>2, <2>2, <2>5, <2>6, <2>7, <2>8 DEF SaidOf
    <3>7. said[p] = w[m].val
      BY <3>5, <3>6
    <3>8. \A i \in DOMAIN list : list[i] = dict[p] => SectionAt(w, i) = section
      BY <3>3, <3>4
    <3> QED BY <3>3, <3>4, <3>7, <3>8
  <2> QED BY <2>2, <2>5, <2>6, <2>7, <2>8
<1>4. \A p \in DOMAIN said : p = <<p[1], p[2]>> /\ Says(w, p[1], p[2]) = {said[p]}
  BY <1>2 DEF SaidOf
<1>5. h.expect = said /\ h.text = said
  BY <1>1
<1> QED BY <1>3, <1>4, <1>5 DEF PlusAgree

(* The same of the lines that a scan of the file takes.                    *)
LEMMA FirstScan ==
    ASSUME NEW file \in Seq(GoodLines), NEW n \in 0 .. Len(file), NEW w, w = SubSeq(file, 1, n),
           NEW list, list = [i \in 1 .. n |-> i],
           NEW heap, \A i \in 1 .. n : heap[i] = ReadOf(file, i),
           NEW none, DOMAIN none = {}, NEW dict, Transfers(none, list, heap, dict),
           NEW h, h.expect = Plus!Said(w), h.text = Plus!Said(w)
    PROVE  PlusAgree(SourcesIn(list, heap), list, heap, dict, h)
<1>1. n \in Nat /\ \A i \in 1 .. n : i \in 1 .. Len(file)
  OBVIOUS
<1>2. w \in Seq(GoodLines) /\ Len(w) = n /\ DOMAIN w = 1 .. n /\ \A i \in 1 .. n : w[i] = file[i]
  <2>1. PICK one \in Int, k \in Int : one = 1 /\ k = n
    OBVIOUS
  <2>2. \A i \in one .. k : file[i] \in GoodLines
    BY <1>1, <2>1
  <2>3. w = SubSeq(file, one, k)
    BY <2>1
  <2>4. /\ w \in Seq(GoodLines) /\ Len(w) = IF one <= k THEN k - one + 1 ELSE 0
        /\ \A i \in 1 .. k - one + 1 : w[i] = file[one + i - 1]
    BY <2>2, <2>3, SubSeqProperties
  <2>5. \A i \in 1 .. n : i \in 1 .. k - one + 1 /\ one + i - 1 = i
    BY <1>1, <2>1
  <2>6. Len(w) = n
    BY <1>1, <2>1, <2>4
  <2> QED BY <2>1, <2>4, <2>5, <2>6
<1>3. ASSUME NEW i \in 1 .. n
      PROVE  /\ list[i] = i /\ heap[i].src = w[i] /\ heap[i].section = SectionAt(w, i) /\ heap[i].val = w[i].val
  <2>1. SectionAt(w, i) = SectionAt(file, i)
    <3>1. n <= Len(file) /\ n <= Len(w) /\ i \in 0 .. n /\ \A k \in 1 .. n : w[k] = file[k]
      BY <1>1, <1>2
    <3> QED BY <1>1, <1>2, <3>1, PrefixSections
  <2> QED BY <1>1, <1>2, <2>1, ReadGood
<1>4. DOMAIN list = 1 .. n /\ list \in Seq(1 .. n)
  <2>1. list \in [1 .. n -> 1 .. n]
    OBVIOUS
  <2> QED BY <1>1, <2>1
<1>5. SourcesIn(list, heap) = w
  <2>1. SourcesIn(list, heap) = [i \in 1 .. n |-> w[i]]
    BY <1>3, <1>4 DEF SourcesIn
  <2>2. w = [i \in 1 .. n |-> w[i]]
    BY <1>2
  <2> QED BY <2>1, <2>2
<1>6. PlusAgree(w, list, heap, dict, h)
  BY <1>1, <1>2, <1>3, <1>4, FirstRead
<1> QED BY <1>5, <1>6

(* A scan keeps the invariant; the first one establishes what lookups and  *)
(* the text say.                                                           *)
LEMMA ScanKeeps ==
    ASSUME PlusGood(p_file, p_allLine, p_heap, p_cfgDict, p_bscan, p_made, p_h), ~p_destroyed,
           Plus!ScanCfgFile
    PROVE  PlusGood(p_file', p_allLine', p_heap', p_cfgDict', p_bscan', p_made', p_h')
<1>1. PICK file, list, heap, dict, made, h, n :
         /\ file = p_file /\ list = p_allLine /\ heap = p_heap /\ dict = p_cfgDict
         /\ made = p_made /\ h = p_h /\ n = Plus!Stop - 1
  OBVIOUS
<1>2. PICK new, records, e, g : new = p_allLine' /\ records = p_heap' /\ e = p_cfgDict' /\ g = p_h'
  OBVIOUS
<1>3. PICK more, said : more = [i \in 1 .. n |-> made + i] /\ said = Plus!Said(SubSeq(file, 1, n))
  OBVIOUS
<1>4. PICK again : again = (h.again \/ p_bscan \/ list # << >>)
  OBVIOUS
<1>5. PICK expect : expect = IF p_bscan THEN h.expect ELSE said
  OBVIOUS
<1>6. /\ PlusShape(file, list, heap, dict, made, h) /\ PlusFresh(list, heap, dict, p_bscan, made, h)
  BY <1>1 DEF PlusGood
<1>7. /\ file \in Seq(GoodLines) /\ made \in Nat /\ heap \in [1 .. made -> Records]
      /\ list \in Seq(1 .. made) /\ NoneTwice(list) /\ \A p \in DOMAIN dict : dict[p] \in 1 .. made
      /\ IsHistory(h)
  BY <1>6 DEF PlusShape
<1>8. n \in 0 .. Len(file) /\ n \in Nat
  BY <1>1, <1>7, StopAfter
<1>9. /\ new = list \o more /\ p_made' = made + n /\ p_file' = file
      /\ g = [h EXCEPT !.again = h.again \/ p_bscan \/ list # << >>, !.expect = expect, !.text = said]
  <2>1. \A t : Plus!SubSeq(t, 1, n) = SubSeq(t, 1, n)
    OBVIOUS
  <2> QED BY <1>1, <1>2, <1>3, <1>5 DEF Plus!ScanCfgFile
<1>10. /\ DOMAIN records = 1 .. made + n
       /\ \A id \in 1 .. made : records[id] = heap[id]
       /\ \A id \in (made + 1) .. (made + n) : records[id] = Plus!Rec(id - made, file[id - made], Plus!SectionAt(file, id - made))
  <2>1. records = [id \in DOMAIN heap \cup (made + 1) .. (made + n) |->
            IF id \in DOMAIN heap THEN heap[id]
            ELSE Plus!Rec(id - made, file[id - made], Plus!SectionAt(file, id - made))]
    BY <1>1, <1>2 DEF Plus!ScanCfgFile
  <2>2. DOMAIN heap = 1 .. made
    BY <1>7
  <2>3. DOMAIN heap \cup (made + 1) .. (made + n) = 1 .. made + n
    BY <1>7, <1>8, <2>2
  <2>4. DOMAIN records = 1 .. made + n
    BY <2>1, <2>3
  <2>5. \A id \in 1 .. made : records[id] = heap[id]
    BY <2>1, <2>2
  <2>6. \A id \in (made + 1) .. (made + n) : id \notin 1 .. made
    BY <1>7, <1>8
  <2>7. \A id \in (made + 1) .. (made + n) : records[id] = Plus!Rec(id - made, file[id - made], Plus!SectionAt(file, id - made))
    BY <2>1, <2>2, <2>6
  <2> QED BY <2>4, <2>5, <2>7
<1>22. ASSUME NEW i \in 1 .. n, NEW id, id = made + i PROVE records[id] = ReadOf(file, i)
  <2>1. id \in (made + 1) .. (made + n) /\ id - made = i
    BY <1>7, <1>8, <1>22
  <2>2. records[id] = Plus!Rec(id - made, file[id - made], Plus!SectionAt(file, id - made))
    BY <1>10, <2>1
  <2>3. Plus!Rec(i, file[i], Plus!SectionAt(file, i)) = ReadOf(file, i)
    BY PlusSectionAt DEF Plus!Rec, ReadOf
  <2> QED BY <2>1, <2>2, <2>3
<1>11. \/ e = dict /\ p_bscan' = p_bscan
       \/ Transfers(dict, new, records, e) /\ p_bscan'
  <2>1. \/ e = dict /\ p_bscan' = p_bscan
        \/ e = Plus!Transferred(dict, new, records) /\ p_bscan' = TRUE
    BY <1>1, <1>2 DEF Plus!ScanCfgFile
  <2> QED BY <2>1, TransferredIs
<1>12. /\ IsHistory(g) /\ g.expect = expect /\ g.text = said /\ g.added = h.added /\ g.misplaced = h.misplaced
       /\ g.strayed = h.strayed /\ g.again = again
  BY <1>4, <1>7, <1>9 DEF IsHistory
<1>13. PICK M \in Nat : M = made + n
  BY <1>7, <1>8
<1>14. records \in [1 .. M -> Records]
  <2>1. ASSUME NEW id \in 1 .. M PROVE records[id] \in Records
    <3>1. CASE id \in 1 .. made
      BY <1>7, <1>10, <3>1
    <3>2. CASE id \notin 1 .. made
      <4>1. PICK i \in 1 .. n : id = made + i
        <5>1. id - made \in 1 .. n /\ id = made + (id - made)
          BY <1>7, <1>8, <1>13, <3>2
        <5> QED BY <5>1
      <4>2. i \in 1 .. Len(file)
        BY <1>7, <1>8
      <4>3. records[id] = ReadOf(file, i)
        BY <1>22, <4>1
      <4> QED BY <1>7, <4>2, <4>3, ReadGood
    <3> QED BY <3>1, <3>2
  <2>2. records = [id \in 1 .. M |-> records[id]]
    <3>1. DOMAIN records = 1 .. M
      BY <1>10, <1>13
    <3>2. records = [id \in DOMAIN records |-> records[id]]
      BY <1>1, <1>2 DEF Plus!ScanCfgFile
    <3> QED BY <3>1, <3>2
  <2> QED BY <2>1, <2>2
<1>15. new \in Seq(1 .. M) /\ NoneTwice(new) /\ Len(new) = Len(list) + n
  <2>1. list \in Seq(1 .. M)
    <3>1. \A i \in DOMAIN list : list[i] \in 1 .. M
      BY <1>7, <1>8, <1>13
    <3> QED BY <1>7, <3>1
  <2>2. more \in Seq(1 .. M) /\ Len(more) = n /\ \A i \in 1 .. n : more[i] = made + i
    <3>1. \A i \in 1 .. n : made + i \in 1 .. M
      BY <1>7, <1>8, <1>13
    <3> QED BY <1>3, <1>8, <3>1
  <2>3. Elements(list) \cap Elements(more) = {}
    <3>1. \A x \in Elements(list) : x \in 1 .. made
      BY <1>7 DEF Elements
    <3>2. \A x \in Elements(more) : \E i \in 1 .. n : x = made + i
      BY <2>2 DEF Elements
    <3>3. \A i \in 1 .. n : made + i \notin 1 .. made
      BY <1>7, <1>8
    <3> QED BY <3>1, <3>2, <3>3
  <2>4. NoneTwice(more)
    <3>1. \A i, j \in 1 .. n : made + i = made + j => i = j
      BY <1>7, <1>8
    <3> QED BY <2>2, <3>1 DEF NoneTwice
  <2>5. JoinedLists(1 .. M, list, more, new)
    BY <1>9, <2>1, <2>2 DEF JoinedLists
  <2> QED BY <1>7, <2>2, <2>3, <2>4, <2>5, ConcatApart
<1>16. \A p \in DOMAIN e : e[p] \in 1 .. M
  <2>1. \A p \in DOMAIN dict : dict[p] \in 1 .. M
    BY <1>7, <1>8, <1>13
  <2>2. ASSUME Transfers(dict, new, records, e), NEW p \in DOMAIN e PROVE e[p] \in 1 .. M
    BY <1>13, <1>15, <2>1, <2>2, TransferredGood
  <2> QED BY <1>11, <2>1, <2>2
<1>17. PlusShape(file, new, records, e, M, g)
  BY <1>7, <1>12, <1>13, <1>14, <1>15, <1>16 DEF PlusShape
<1>18. ASSUME ~again PROVE ~p_bscan /\ list = << >> /\ DOMAIN dict = {} /\ made = 0 /\ ~h.added /\ ~h.again
  <2>1. ~p_bscan /\ list = << >> /\ ~h.again
    BY <1>4, <1>18
  <2> QED BY <1>6, <2>1 DEF PlusFresh
<1>19. PlusFresh(new, records, e, p_bscan', M, g)
  <2>1. ASSUME ~p_bscan' PROVE DOMAIN e = {} /\ (new = << >> => M = 0 /\ ~g.added)
    <3>1. ~p_bscan /\ e = dict
      BY <1>11, <2>1
    <3>2. DOMAIN e = {}
      BY <1>6, <3>1 DEF PlusFresh
    <3>3. ASSUME new = << >> PROVE M = 0 /\ ~g.added
      <4>1. list = << >> /\ n = 0
        <5>1. Len(list) + n = 0 /\ Len(list) \in Nat
          BY <1>7, <1>15, <3>3
        <5>2. Len(list) = 0 /\ n = 0
          BY <1>8, <5>1
        <5> QED BY <1>7, <5>2
      <4>2. made = 0 /\ ~h.added
        BY <1>6, <3>1, <4>1 DEF PlusFresh
      <4> QED BY <1>12, <1>13, <4>1, <4>2
    <3> QED BY <3>2, <3>3
  <2>2. ASSUME ~g.added, ~g.again, NEW id \in 1 .. M PROVE records[id].num = id
    <3>1. made = 0
      BY <1>12, <1>18, <2>2
    <3>2. id \in 1 .. n /\ made + id = id /\ id \in 1 .. Len(file)
      BY <1>8, <1>13, <3>1
    <3>3. records[id] = ReadOf(file, id)
      BY <1>22, <3>2
    <3> QED BY <1>7, <3>2, <3>3, ReadGood
  <2> QED BY <2>1, <2>2 DEF PlusFresh
<1>20. ASSUME p_bscan', ~g.again PROVE PlusAgree(SourcesIn(new, records), new, records, e, g)
  <2>1. ~p_bscan /\ list = << >> /\ DOMAIN dict = {} /\ made = 0
    BY <1>12, <1>18, <1>20
  <2>2. Transfers(dict, new, records, e)
    BY <1>11, <1>20, <2>1
  <2>3. new = [i \in 1 .. n |-> i]
    <3>1. \A i \in 1 .. n : made + i = i
      BY <1>8, <2>1
    <3>2. more = [i \in 1 .. n |-> i]
      BY <1>3, <3>1
    <3>3. more \in Seq(Nat)
      BY <1>8, <3>2
    <3> QED BY <1>9, <2>1, <3>2, <3>3
  <2>4. \A i \in 1 .. n : records[i] = ReadOf(file, i)
    <3>1. \A i \in 1 .. n : i = made + i
      BY <1>8, <2>1
    <3> QED BY <1>22, <3>1
  <2>5. g.expect = Plus!Said(SubSeq(file, 1, n)) /\ g.text = Plus!Said(SubSeq(file, 1, n))
    BY <1>3, <1>5, <1>12, <2>1
  <2> QED BY <1>7, <1>8, <2>1, <2>2, <2>3, <2>4, <2>5, FirstScan
<1>21. PlusGood(file, new, records, e, p_bscan', M, g)
  BY <1>17, <1>19, <1>20 DEF PlusGood
<1> QED BY <1>2, <1>9, <1>13, <1>21

(* What find finds: a line with this number, or with this key, if any.     *)
LEMMA PlaceFound ==
    ASSUME NEW S, p_allLine \in Seq(S), NEW num, NEW at, at = Plus!PlaceOf(num), at # 0
    PROVE  at \in 1 .. Len(p_allLine) /\ p_heap[p_allLine[at]].num = num
<1>1. PICK I : I = {i \in 1 .. Len(p_allLine) : p_heap[p_allLine[i]].num = num}
  OBVIOUS
<1>2. at = IF I # {} THEN Plus!Min(I) ELSE 0
  BY <1>1 DEF Plus!PlaceOf, Plus!SelectInSeq
<1>3. I \in SUBSET Nat
  BY <1>1
<1>4. at \in I
  BY <1>2, <1>3, PlusMin
<1> QED BY <1>1, <1>4

\* a line of the list has this key
Keyed(list, heap, i, key) == heap[list[i]].src.kind = "field" /\ heap[list[i]].src.name = key

(* The line that find finds for a key has it, or no line has.              *)
LEMMA KeyFound ==
    ASSUME NEW S, p_allLine \in Seq(S), NEW key \in IniKeys, NEW at, at = Plus!FindKey(key)
    PROVE  /\ at # 0 => at \in 1 .. Len(p_allLine) /\ Keyed(p_allLine, p_heap, at, key)
           /\ at = 0 => \A i \in 1 .. Len(p_allLine) : ~Keyed(p_allLine, p_heap, i, key)
<1>1. PICK I : I = {i \in 1 .. Len(p_allLine) : Plus!KeyOf(p_allLine[i]) = key}
  OBVIOUS
<1>2. at = IF I # {} THEN Plus!Min(I) ELSE 0
  BY <1>1 DEF Plus!FindKey, Plus!SelectInSeq
<1>3. I \in SUBSET Nat /\ \A i \in I : i # 0
  BY <1>1
<1>4. \A i \in 1 .. Len(p_allLine) : i \in I <=> Keyed(p_allLine, p_heap, i, key)
  <2>1. key # Plus!None
    BY IniAssumption DEF Plus!None, None
  <2> QED BY <1>1, <2>1 DEF Plus!KeyOf, Keyed
<1>5. CASE I = {}
  BY <1>2, <1>4, <1>5
<1>6. CASE I # {}
  <2>1. at \in I
    BY <1>2, <1>3, <1>6, PlusMin
  <2> QED BY <1>1, <1>3, <1>4, <2>1
<1> QED BY <1>5, <1>6

(* A key was removed: its line, and no other, is out of the list.          *)
LEMMA RemoveKeeps ==
    ASSUME PlusGood(p_file, p_allLine, p_heap, p_cfgDict, p_bscan, p_made, p_h),
           NEW section \in IniSections, NEW key \in IniKeys, Plus!RemoveKey(section, key)
    PROVE  PlusGood(p_file', p_allLine', p_heap', p_cfgDict', p_bscan', p_made', p_h')
<1>1. PICK file, list, heap, dict, made, h, t, p :
         /\ file = p_file /\ list = p_allLine /\ heap = p_heap /\ dict = p_cfgDict
         /\ made = p_made /\ h = p_h /\ t = SourcesIn(list, heap) /\ p = <<section, key>>
  OBVIOUS
<1>2. PICK named, at : named = dict[p] /\ at = Plus!PlaceOf(heap[named].num)
  OBVIOUS
<1>3. PICK new, g, u : new = p_allLine' /\ g = p_h' /\ u = SourcesIn(new, heap)
  OBVIOUS
<1>4. /\ p \in DOMAIN dict /\ at # 0 /\ new = WithoutPlace(list, at) /\ UNCHANGED p_heap
      /\ g = [h EXCEPT !.strayed = h.strayed \/ (h.added /\ list[at] # named),
                       !.text = [q \in DOMAIN h.text \ {p} |-> h.text[q]]]
      /\ UNCHANGED <<p_file, p_cfgDict, p_bscan, p_made>>
  BY <1>1, <1>2, <1>3 DEF Plus!RemoveKey, Plus!Forgotten, Plus!RemoveAt, WithoutPlace
<1>5. /\ PlusShape(file, list, heap, dict, made, h) /\ PlusFresh(list, heap, dict, p_bscan, made, h)
      /\ p_bscan /\ ~h.again /\ ~h.strayed => PlusAgree(t, list, heap, dict, h)
  BY <1>1 DEF PlusGood
<1>6. /\ made \in Nat /\ heap \in [1 .. made -> Records] /\ list \in Seq(1 .. made) /\ NoneTwice(list)
      /\ \A q \in DOMAIN dict : dict[q] \in 1 .. made /\ IsHistory(h)
  BY <1>5 DEF PlusShape
<1>7. p_bscan /\ IsHistory(h)
  BY <1>4, <1>5 DEF PlusFresh, PlusShape
<1>8. at \in 1 .. Len(list) /\ heap[list[at]].num = heap[named].num
  BY <1>1, <1>2, <1>4, <1>6, PlaceFound
<1>9. /\ new \in Seq(1 .. made) /\ NoneTwice(new) /\ Len(new) = Len(list) - 1
      /\ \A j \in 1 .. Len(new) : new[j] = IF j < at THEN list[j] ELSE list[j + 1]
  <2>1. list \in Seq(1 .. made) /\ NoneTwice(list) /\ at \in 1 .. Len(list) /\ new = WithoutPlace(list, at)
    BY <1>4, <1>6, <1>8
  <2>2. new \in Seq(1 .. made) /\ NoneTwice(new) /\ Len(new) = Len(list) - 1
    BY <2>1, TakeOut
  <2>3. \A j \in 1 .. Len(new) : new[j] = IF j < at THEN list[j] ELSE list[j + 1]
    BY <2>1, TakenPlaces
  <2> QED BY <2>2, <2>3
<1>10. /\ IsHistory(g) /\ g.expect = h.expect /\ g.text = [q \in DOMAIN h.text \ {p} |-> h.text[q]]
       /\ g.added = h.added /\ g.strayed = (h.strayed \/ (h.added /\ list[at] # named)) /\ g.again = h.again
       /\ g.misplaced = h.misplaced
  BY <1>4, <1>7 DEF IsHistory
<1>11. PlusShape(file, new, heap, dict, made, g)
  BY <1>5, <1>9, <1>10 DEF PlusShape
<1>12. PlusFresh(new, heap, dict, p_bscan, made, g)
  BY <1>5, <1>7, <1>10 DEF PlusFresh
<1>13. ASSUME ~g.again, ~g.strayed PROVE PlusAgree(u, new, heap, dict, g)
  <2>1. PlusAgree(t, list, heap, dict, h) /\ ~h.again /\ (h.added => list[at] = named)
    BY <1>5, <1>7, <1>10, <1>13
  <2>2. list[at] = named
    <3>1. list[at] \in 1 .. made /\ named \in 1 .. made
      BY <1>2, <1>4, <1>6, <1>8
    <3>2. ~h.added => \A id \in 1 .. made : heap[id].num = id
      BY <1>5, <2>1 DEF PlusFresh
    <3> QED BY <1>8, <2>1, <3>1, <3>2
  <2>3. /\ t \in Seq(GoodLines) /\ Len(t) = Len(list) /\ DOMAIN t = DOMAIN list
        /\ \A i \in DOMAIN list : t[i] = heap[list[i]].src
    BY <1>1, <1>6, ListedSources
  <2>4. /\ u \in Seq(GoodLines) /\ Len(u) = Len(new) /\ DOMAIN u = DOMAIN new
        /\ \A i \in DOMAIN new : u[i] = heap[new[i]].src
    <3>1. made \in Nat /\ heap \in [1 .. made -> Records] /\ new \in Seq(1 .. made) /\ u = SourcesIn(new, heap)
      BY <1>3, <1>6, <1>9
    <3> QED BY <3>1, ListedSources
  <2>5. p \in Pairs /\ p[1] = section /\ p[2] = key
    BY <1>1 DEF Pairs
  <2>6. t[at].kind = "field" /\ t[at].name = key /\ SectionAt(t, at) = section
    <3>1. heap[named].src.kind = "field" /\ heap[named].src.name = key
      BY <1>2, <1>4, <2>1, <2>5 DEF PlusAgree
    <3>2. at \in DOMAIN list
      BY <1>6, <1>8
    <3>3. SectionAt(t, at) = section
      BY <1>2, <1>4, <2>1, <2>2, <2>5, <3>2 DEF PlusAgree
    <3> QED BY <2>2, <2>3, <3>1, <3>2, <3>3
  <2>7. PICK N \in Nat : N = Len(new) /\ Len(list) = N + 1
    <3>1. Len(new) \in Nat /\ Len(list) \in Nat
      BY <1>6, <1>9
    <3> QED BY <1>9, <3>1
  <2>8. /\ DOMAIN list = 1 .. N + 1 /\ DOMAIN new = 1 .. N /\ at \in 1 .. N + 1
        /\ \A j \in 1 .. N : new[j] = IF j < at THEN list[j] ELSE list[j + 1]
    BY <1>6, <1>8, <1>9, <2>7
  <2>9. OneMore(u, t, at)
    <3>1. Len(t) = Len(u) + 1
      BY <2>3, <2>4, <2>7
    <3>2. ASSUME NEW j \in 1 .. at - 1 PROVE t[j] = u[j]
      <4>1. j \in 1 .. N /\ j \in 1 .. N + 1 /\ j < at
        BY <2>8
      <4>2. new[j] = list[j]
        BY <2>8, <4>1
      <4> QED BY <2>3, <2>4, <2>8, <4>1, <4>2
    <3>3. ASSUME NEW j \in at .. N PROVE t[j + 1] = u[j]
      <4>1. j \in 1 .. N /\ j + 1 \in 1 .. N + 1 /\ ~(j < at)
        BY <2>8
      <4>2. new[j] = list[j + 1]
        BY <2>8, <4>1
      <4> QED BY <2>3, <2>4, <2>8, <4>1, <4>2
    <3>4. Len(u) = N
      BY <2>4, <2>7
    <3> QED BY <2>6, <3>1, <3>2, <3>3, <3>4 DEF OneMore
  <2>10. PICK s : s = Pushed(Len(u), at, 1)
    OBVIOUS
  <2>11. MovedLines(s, u, t, at)
    <3>1. at \in 1 .. Len(u) + 1
      BY <2>4, <2>7, <2>8
    <3> QED BY <2>3, <2>4, <2>9, <2>10, <3>1, OneMoreMoves
  <2>12. \A j \in 1 .. N : s[j] \in 1 .. N + 1 /\ new[j] = list[s[j]]
    <3>1. Len(u) = N
      BY <2>4, <2>7
    <3>2. ASSUME NEW j \in 1 .. N PROVE s[j] \in 1 .. N + 1 /\ new[j] = list[s[j]]
      <4>1. s[j] = IF j < at THEN j ELSE j + 1
        BY <2>10, <3>1 DEF Pushed
      <4>2. j \in 1 .. N + 1 /\ j + 1 \in 1 .. N + 1
        BY <2>7
      <4> QED BY <2>8, <4>1, <4>2
    <3> QED BY <3>2
  <2>13. ASSUME NEW q \in Pairs \cap DOMAIN dict, NEW i \in DOMAIN new, new[i] = dict[q]
         PROVE  SectionAt(u, i) = q[1]
    <3>1. i \in 1 .. N /\ i \in DOMAIN u
      BY <2>4, <2>8
    <3>2. s[i] \in DOMAIN list /\ list[s[i]] = dict[q]
      BY <2>8, <2>12, <2>13, <3>1
    <3>3. SectionAt(t, s[i]) = SectionAt(u, i)
      BY <2>11, <3>1 DEF MovedLines
    <3> QED BY <2>1, <3>2, <3>3 DEF PlusAgree
  <2>14. ASSUME ~g.misplaced, NEW q \in DOMAIN g.text PROVE q = <<q[1], q[2]>> /\ Says(u, q[1], q[2]) = {g.text[q]}
    <3>1. q \in DOMAIN h.text /\ q # p /\ g.text[q] = h.text[q]
      BY <1>10
    <3>2. q = <<q[1], q[2]>> /\ Says(t, q[1], q[2]) = {h.text[q]}
      BY <1>10, <2>1, <2>14, <3>1 DEF PlusAgree
    <3>3. at \notin Giving(t, q[1], q[2])
      <4>1. at \in Giving(t, q[1], q[2]) => q[1] = section /\ q[2] = key
        BY <2>6 DEF Giving
      <4> QED BY <1>1, <3>1, <3>2, <4>1
    <3>4. Says(t, q[1], q[2]) = Says(u, q[1], q[2])
      BY <2>3, <2>4, <2>11, <3>3, OneMoreSays
    <3> QED BY <3>1, <3>2, <3>4
  <2> QED BY <1>10, <2>1, <2>13, <2>14 DEF PlusAgree
<1>14. PlusGood(file, new, heap, dict, p_bscan, made, g)
  BY <1>3, <1>11, <1>12, <1>13 DEF PlusGood
<1> QED BY <1>1, <1>3, <1>4, <1>14

(* A value was changed: that of the key in this section, or it strayed.    *)
LEMMA ModifyKeeps ==
    ASSUME PlusGood(p_file, p_allLine, p_heap, p_cfgDict, p_bscan, p_made, p_h),
           NEW section \in IniSections, NEW key \in IniKeys, NEW val \in IniVals,
           Plus!Modify(section, key, val)
    PROVE  PlusGood(p_file', p_allLine', p_heap', p_cfgDict', p_bscan', p_made', p_h')
<1>1. PICK file, list, heap, dict, made, h, t, p, at :
         /\ file = p_file /\ list = p_allLine /\ heap = p_heap /\ dict = p_cfgDict
         /\ made = p_made /\ h = p_h /\ t = SourcesIn(list, heap) /\ p = <<section, key>>
         /\ at = Plus!FindKey(key)
  OBVIOUS
<1>2. PICK records, g, id : records = p_heap' /\ g = p_h' /\ id = list[at]
  OBVIOUS
<1>3. /\ at # 0 /\ records = [heap EXCEPT ![id].val = val]
      /\ g = [h EXCEPT !.strayed = h.strayed \/ p \notin DOMAIN dict \/ dict[p] # id,
                       !.expect = IF p \in DOMAIN h.expect THEN [h.expect EXCEPT ![p] = val] ELSE h.expect]
      /\ UNCHANGED <<p_file, p_allLine, p_cfgDict, p_bscan, p_made>>
  BY <1>1, <1>2 DEF Plus!Modify
<1>4. /\ PlusShape(file, list, heap, dict, made, h) /\ PlusFresh(list, heap, dict, p_bscan, made, h)
      /\ p_bscan /\ ~h.again /\ ~h.strayed => PlusAgree(t, list, heap, dict, h)
  BY <1>1 DEF PlusGood
<1>5. /\ made \in Nat /\ heap \in [1 .. made -> Records] /\ list \in Seq(1 .. made) /\ IsHistory(h)
  BY <1>4 DEF PlusShape
<1>6. at \in DOMAIN list /\ Keyed(list, heap, at, key) /\ id \in 1 .. made
  <2>1. at \in 1 .. Len(list) /\ Keyed(list, heap, at, key)
    BY <1>1, <1>3, <1>5, KeyFound
  <2> QED BY <1>2, <1>5, <2>1
<1>7. ASSUME NEW x \in 1 .. made
      PROVE  /\ records[x].num = heap[x].num /\ records[x].src = heap[x].src
             /\ records[x].val = IF x = id THEN val ELSE heap[x].val
             /\ records[x] \in Records
  <2>1. heap[x] \in Records /\ heap[x] = [num |-> heap[x].num, src |-> heap[x].src,
                                           section |-> heap[x].section, val |-> heap[x].val]
    BY <1>5 DEF Records
  <2>2. val \in Strings
    BY IniAssumption DEF Strings
  <2>3. records[x] = IF x = id THEN [heap[x] EXCEPT !.val = val] ELSE heap[x]
    BY <1>3, <1>5
  <2>4. [heap[x] EXCEPT !.val = val] = [num |-> heap[x].num, src |-> heap[x].src,
                                       section |-> heap[x].section, val |-> val]
    BY <2>1
  <2>5. [num |-> heap[x].num, src |-> heap[x].src, section |-> heap[x].section, val |-> val] \in Records
    BY <2>1, <2>2 DEF Records
  <2> QED BY <2>1, <2>3, <2>4, <2>5
<1>8. records \in [1 .. made -> Records]
  <2>1. DOMAIN records = 1 .. made /\ records = [x \in 1 .. made |-> records[x]]
    BY <1>3, <1>5
  <2> QED BY <1>7, <2>1
<1>9. SourcesIn(list, records) = t
  <2>1. \A i \in DOMAIN list : list[i] \in 1 .. made
    BY <1>5
  <2>2. \A i \in DOMAIN list : records[list[i]].src = heap[list[i]].src
    BY <1>7, <2>1
  <2> QED BY <1>1, <2>2 DEF SourcesIn
<1>10. PICK expect : expect = IF p \in DOMAIN h.expect THEN [h.expect EXCEPT ![p] = val] ELSE h.expect
  OBVIOUS
<1>11. /\ IsHistory(g) /\ g.expect = expect /\ g.text = h.text /\ g.added = h.added /\ g.again = h.again
       /\ g.misplaced = h.misplaced
       /\ g.strayed = (h.strayed \/ p \notin DOMAIN dict \/ dict[p] # id)
  BY <1>3, <1>5, <1>10 DEF IsHistory
<1>12. PlusShape(file, list, records, dict, made, g)
  BY <1>4, <1>8, <1>11 DEF PlusShape
<1>13. PlusFresh(list, records, dict, p_bscan, made, g)
  BY <1>4, <1>7, <1>11 DEF PlusFresh
<1>14. ASSUME p_bscan, ~g.again, ~g.strayed PROVE PlusAgree(t, list, records, dict, g)
  <2>1. PlusAgree(t, list, heap, dict, h) /\ p \in DOMAIN dict /\ dict[p] = id
    BY <1>4, <1>11, <1>14
  <2>2. p \in Pairs /\ p[1] = section /\ p[2] = key
    BY <1>1 DEF Pairs
  <2>3. p \in DOMAIN h.expect /\ DOMAIN expect = DOMAIN h.expect
        /\ \A q \in DOMAIN h.expect : expect[q] = IF q = p THEN val ELSE h.expect[q]
    <3>1. p \in DOMAIN h.expect
      BY <2>1, <2>2 DEF PlusAgree
    <3> QED BY <1>10, <3>1
  <2>4. ASSUME NEW q \in Pairs \cap DOMAIN dict, dict[q] = id PROVE q = p
    <3>1. q = <<q[1], q[2]>>
      BY DEF Pairs
    <3>2. heap[id].src.name = q[2] /\ heap[id].src.name = key
      BY <2>1, <2>2, <2>4 DEF PlusAgree
    <3>3. SectionAt(t, at) = q[1] /\ SectionAt(t, at) = section
      BY <1>2, <1>6, <2>1, <2>2, <2>4 DEF PlusAgree
    <3> QED BY <1>1, <3>1, <3>2, <3>3
  <2>5. ASSUME NEW q \in Pairs \cap DOMAIN dict
        PROVE  /\ records[dict[q]].src.kind = "field" /\ records[dict[q]].src.name = q[2]
               /\ records[dict[q]].val = expect[q]
    <3>1. dict[q] \in 1 .. made
      BY <1>4 DEF PlusShape
    <3>2. /\ heap[dict[q]].src.kind = "field" /\ heap[dict[q]].src.name = q[2]
          /\ heap[dict[q]].val = h.expect[q] /\ q \in DOMAIN h.expect
      BY <2>1 DEF PlusAgree
    <3>3. q = p <=> dict[q] = id
      BY <2>1, <2>4
    <3> QED BY <1>7, <2>3, <3>1, <3>2, <3>3
  <2> QED BY <1>11, <2>1, <2>3, <2>5 DEF PlusAgree
<1>15. PlusGood(file, list, records, dict, p_bscan, made, g)
  BY <1>9, <1>12, <1>13, <1>14 DEF PlusGood
<1> QED BY <1>1, <1>2, <1>3, <1>15

\* one element more, at place at
PutOne(list, at, x, new) ==
    /\ Len(new) = Len(list) + 1
    /\ \A j \in 1 .. at - 1 : new[j] = list[j]
    /\ \A j \in at .. Len(list) : new[j + 1] = list[j]
    /\ new[at] = x

(* One element put into a list, which it had not.                          *)
LEMMA OneIsPut ==
    ASSUME NEW S, NEW list \in Seq(S), NEW x \in S, NEW at \in 1 .. Len(list) + 1,
           NEW one, one = <<x>>, NEW new, new = Widened(list, at, one)
    PROVE  new \in Seq(S) /\ PutOne(list, at, x, new)
<1>1. one \in Seq(S) /\ Len(one) = 1 /\ one[1] = x
  OBVIOUS
<1>2. new \in Seq(S) /\ PutIn(list, at, one, Len(one), new)
  BY <1>1, WidenedPlaces
<1>3. new[at - 1 + 1] = x /\ at - 1 + 1 = at
  <2>1. 1 \in 1 .. Len(one) /\ at \in Int
    BY <1>1
  <2>2. new[at - 1 + 1] = one[1]
    BY <1>2, <2>1 DEF PutIn
  <2> QED BY <1>1, <2>1, <2>2
<1> QED BY <1>1, <1>2, <1>3 DEF PutIn, PutOne

(* It is still there only once.                                            *)
LEMMA PutTwice ==
    ASSUME NEW S, NEW list \in Seq(S), NoneTwice(list), NEW x, \A i \in 1 .. Len(list) : list[i] # x,
           NEW at \in 1 .. Len(list) + 1, NEW T, NEW new \in Seq(T), PutOne(list, at, x, new)
    PROVE  NoneTwice(new)
<1>1. PICK N \in Nat : N = Len(list)
  OBVIOUS
<1>2. /\ Len(new) = N + 1 /\ at \in 1 .. N + 1 /\ new[at] = x
      /\ \A j \in 1 .. at - 1 : new[j] = list[j]
      /\ \A j \in at .. N : new[j + 1] = list[j]
  BY <1>1 DEF PutOne
<1>3. ASSUME NEW j \in 1 .. N + 1, j # at
      PROVE  \E i \in 1 .. N : new[j] = list[i] /\ j = IF i < at THEN i ELSE i + 1
  <2>1. CASE j < at
    <3>1. j \in 1 .. at - 1 /\ j \in 1 .. N
      BY <1>2, <2>1
    <3> QED BY <1>2, <2>1, <3>1
  <2>2. CASE ~(j < at)
    <3>1. j - 1 \in at .. N /\ j - 1 \in 1 .. N /\ ~(j - 1 < at) /\ j - 1 + 1 = j
      BY <1>2, <1>3, <2>2
    <3>2. new[j - 1 + 1] = list[j - 1]
      BY <1>2, <3>1
    <3> QED BY <3>1, <3>2
  <2> QED BY <2>1, <2>2
<1>4. ASSUME NEW j \in 1 .. N + 1, NEW k \in 1 .. N + 1, new[j] = new[k] PROVE j = k
  <2>1. \A l \in 1 .. N + 1 : l # at => new[l] # x
    BY <1>1, <1>3
  <2>2. CASE j = at \/ k = at
    BY <1>2, <1>4, <2>1, <2>2
  <2>3. CASE j # at /\ k # at
    <3>1. PICK i \in 1 .. N : new[j] = list[i] /\ j = IF i < at THEN i ELSE i + 1
      BY <1>3, <2>3
    <3>2. PICK l \in 1 .. N : new[k] = list[l] /\ k = IF l < at THEN l ELSE l + 1
      BY <1>3, <2>3
    <3>3. i = l
      BY <1>1, <1>4, <3>1, <3>2 DEF NoneTwice
    <3> QED BY <3>1, <3>2, <3>3
  <2> QED BY <2>2, <2>3
<1> QED BY <1>2, <1>4 DEF NoneTwice

\* t and u are the sources of the list without and with it
PutSources(list, new, at, x, t, u, N, heap, records) ==
    /\ PutOne(list, at, x, new) /\ N \in Nat /\ N = Len(list) /\ at \in 1 .. N + 1
    /\ Len(u) = Len(new) /\ Len(t) = Len(list)
    /\ \A i \in 1 .. N : t[i] = heap[list[i]].src /\ records[list[i]].src = heap[list[i]].src
    /\ \A i \in 1 .. N + 1 : u[i] = records[new[i]].src
    /\ records[x].src.kind # "section"

(* Then the sources have one line more.                                    *)
LEMMA SourcesPut ==
    ASSUME NEW list, NEW new, NEW at, NEW x, NEW t, NEW u, NEW N, NEW heap, NEW records,
           PutSources(list, new, at, x, t, u, N, heap, records)
    PROVE  OneMore(t, u, at) /\ u[at] = records[x].src
<1> USE DEF PutSources
<1>1. ASSUME NEW j \in 1 .. at - 1 PROVE u[j] = t[j]
  <2>1. j \in 1 .. N /\ j \in 1 .. N + 1 /\ new[j] = list[j]
    BY DEF PutOne
  <2> QED BY <2>1
<1>2. ASSUME NEW j \in at .. N PROVE u[j + 1] = t[j]
  <2>1. j \in 1 .. N /\ j + 1 \in 1 .. N + 1 /\ new[j + 1] = list[j]
    BY DEF PutOne
  <2> QED BY <2>1
<1>3. u[at] = records[x].src
  BY DEF PutOne
<1>4. Len(u) = Len(t) + 1
  BY DEF PutOne
<1> QED BY <1>1, <1>2, <1>3, <1>4 DEF OneMore

\* the line at place at of u, in section home, has no line of its key in front
PutLine(t, u, at, s, key, home) ==
    /\ OneMore(t, u, at) /\ MovedLines(s, t, u, at) /\ home = SectionAt(t, at - 1)
    /\ u[at].kind = "field" /\ u[at].name = key
    /\ \A i \in Giving(t, home, key) : at <= s[i]

(* The text says its key in the section of the line before it.             *)
LEMMA PutSays ==
    ASSUME NEW t \in Seq(GoodLines), NEW u \in Seq(GoodLines), NEW at \in 1 .. Len(t) + 1,
           NEW s, NEW key, NEW home, PutLine(t, u, at, s, key, home)
    PROVE  Says(u, home, key) = {u[at].val}
<1> USE DEF PutLine
<1>1. PICK G : G = Giving(u, home, key)
  OBVIOUS
<1>2. at \in DOMAIN u
  <2>1. Len(t) \in Nat /\ Len(u) = Len(t) + 1
    BY DEF OneMore
  <2> QED BY <2>1
<1>3. at \in G
  BY <1>1, <1>2 DEF Giving, MovedLines
<1>4. ASSUME NEW j \in G PROVE at <= j
  <2>1. j \in DOMAIN u /\ u[j].kind = "field" /\ u[j].name = key /\ SectionAt(u, j) = home
    BY <1>1 DEF Giving
  <2>2. CASE j = at
    BY <2>2
  <2>3. CASE j # at
    <3>1. PICK i \in DOMAIN t : j = s[i]
      BY <2>1, <2>3 DEF MovedLines
    <3>2. i \in Giving(t, home, key)
      BY <2>1, <3>1 DEF Giving, MovedLines
    <3> QED BY <3>1, <3>2
  <2> QED BY <2>2, <2>3
<1>5. DOMAIN u \subseteq Nat
  OBVIOUS
<1> QED BY <1>1, <1>3, <1>4, <1>5, SaysFirst

\* the records, up to their numbers, and the section of place at
Renumbered(records, at, home) ==
    /\ records \in [1 .. p_made -> Records]
    /\ \A x \in 1 .. p_made : records[x].src = p_heap[x].src /\ records[x].val = p_heap[x].val
    /\ home = SectionAt(SourcesIn(p_allLine, p_heap), at - 1)

(* A line was put into the list, and into the dictionary under its value.  *)
LEMMA InsertKeeps ==
    ASSUME PlusGood(p_file, p_allLine, p_heap, p_cfgDict, p_bscan, p_made, p_h),
           NEW at \in 1 .. Len(p_allLine) + 1, NEW num \in Int, NEW home, NEW section,
           NEW newkey \in IniKeys, NEW newval \in IniVals, NEW renumbered,
           Plus!Insert(at, num, home, section, newkey, newval, renumbered),
           Renumbered(renumbered, at, home)
    PROVE  PlusGood(p_file', p_allLine', p_heap', p_cfgDict', p_bscan', p_made', p_h')
<1> USE DEF Renumbered
<1>1. PICK file, list, heap, dict, made, h, t :
         /\ file = p_file /\ list = p_allLine /\ heap = p_heap /\ dict = p_cfgDict
         /\ made = p_made /\ h = p_h /\ t = SourcesIn(list, heap)
  OBVIOUS
<1>2. PICK new, records, e, g, u, id, one, added :
         /\ new = p_allLine' /\ records = p_heap' /\ e = p_cfgDict' /\ g = p_h'
         /\ u = SourcesIn(new, records) /\ id = made + 1 /\ one = <<id>>
         /\ added = <<section, newval>>
  OBVIOUS
<1>24. PICK hidden \in BOOLEAN : hidden = Plus!Hidden(at, home, section, newkey)
  BY DEF Plus!Hidden
<1>3. PICK rec : rec = [num |-> num, src |-> Field(newkey, newval), section |-> None, val |-> newval]
  OBVIOUS
<1>4. Plus!Rec(num, Plus!Field(newkey, newval), Plus!None) = rec
  BY <1>3 DEF Plus!Rec, Plus!Field, Field, Plus!Line, Line, Plus!None, None
<1>5. /\ new = Widened(list, at, one) /\ records = Plus!Bind(renumbered, id, rec) /\ p_made' = id
      /\ e = (IF added \in DOMAIN dict \/ \A q \in DOMAIN dict : q[1] # section
              THEN dict ELSE Plus!Bind(dict, added, id))
      /\ g = [h EXCEPT !.added = TRUE, !.misplaced = h.misplaced \/ home # section,
                       !.strayed = h.strayed \/ newval \in IniKeys,
                       !.text = IF hidden THEN h.text ELSE Plus!Bind(h.text, <<section, newkey>>, newval)]
      /\ UNCHANGED <<p_file, p_bscan>>
  BY <1>1, <1>2, <1>4, <1>24 DEF Plus!Insert, Plus!InsertAt, Widened
<1>6. /\ PlusShape(file, list, heap, dict, made, h) /\ PlusFresh(list, heap, dict, p_bscan, made, h)
      /\ p_bscan /\ ~h.again /\ ~h.strayed => PlusAgree(t, list, heap, dict, h)
  BY <1>1 DEF PlusGood
<1>7. /\ made \in Nat /\ heap \in [1 .. made -> Records] /\ list \in Seq(1 .. made) /\ NoneTwice(list)
      /\ IsHistory(h) /\ \A q \in DOMAIN dict : dict[q] \in 1 .. made
  BY <1>6 DEF PlusShape
<1>8. id \in Nat /\ 1 .. id = 1 .. made \cup {id} /\ id \notin 1 .. made
  BY <1>2, <1>7
<1>9. rec \in Records /\ rec.src.kind = "field" /\ rec.src.name = newkey /\ rec.src.val = newval
  <2>1. newkey \in Strings /\ newval \in Strings /\ None \in Strings
    BY IniAssumption DEF Strings
  <2>2. /\ Field(newkey, newval) \in GoodLines /\ Field(newkey, newval).kind = "field"
        /\ Field(newkey, newval).name = newkey /\ Field(newkey, newval).val = newval
    BY <2>1, MadeLines
  <2> QED BY <1>3, <2>1, <2>2 DEF Records
<1>10. /\ DOMAIN records = 1 .. id /\ records[id] = rec
       /\ \A x \in 1 .. made : records[x] = renumbered[x]
  <2>1. DOMAIN renumbered = 1 .. made
    BY <1>1
  <2> QED BY <1>5, <1>8, <2>1 DEF Plus!Bind
<1>11. records \in [1 .. id -> Records]
  <2>1. \A x \in 1 .. id : records[x] \in Records
    BY <1>1, <1>8, <1>9, <1>10
  <2>2. records = [x \in 1 .. id |-> records[x]]
    BY <1>5, <1>10 DEF Plus!Bind
  <2> QED BY <2>1, <2>2
<1>12. PICK N \in Nat : N = Len(list) /\ DOMAIN list = 1 .. N
  BY <1>7
<1>13. at \in 1 .. N + 1 /\ at \in 1 .. Len(list) + 1
  BY <1>1, <1>12
<1>14. new \in Seq(1 .. id) /\ PutOne(list, at, id, new) /\ Len(new) = N + 1 /\ DOMAIN new = 1 .. N + 1
  <2>2. new \in Seq(1 .. id) /\ PutOne(list, at, id, new)
    <3>1. PICK S : S = 1 .. id
      OBVIOUS
    <3>5. \A i \in DOMAIN list : list[i] \in S
      BY <1>7, <1>8, <3>1
    <3>2. list \in Seq(S) /\ id \in S
      <4>1. list \in Seq(1 .. made)
        BY <1>7
      <4>2. list \in Seq(S)
        BY <3>5, <4>1
      <4>3. id \in S
        BY <1>8, <3>1
      <4> QED BY <4>2, <4>3
    <3>3. at \in 1 .. Len(list) + 1 /\ one = <<id>> /\ new = Widened(list, at, one)
      BY <1>2, <1>5, <1>13
    <3>4. new \in Seq(S) /\ PutOne(list, at, id, new)
      BY <3>2, <3>3, OneIsPut
    <3> QED BY <3>1, <3>4
  <2>3. Len(new) = N + 1
    BY <1>12, <2>2 DEF PutOne
  <2> QED BY <2>2, <2>3
<1>15. NoneTwice(new)
  <2>1. \A i \in 1 .. Len(list) : list[i] # id
    BY <1>7, <1>8
  <2> QED BY <1>7, <1>13, <1>14, <2>1, PutTwice
<1>16. \A q \in DOMAIN dict : q \in DOMAIN e /\ e[q] = dict[q]
  BY <1>5 DEF Plus!Bind
<1>17. \A q \in DOMAIN e : q \in DOMAIN dict \/ (q = added /\ e[q] = id /\ DOMAIN dict # {})
  BY <1>5 DEF Plus!Bind
<1>18. /\ IsHistory(g) /\ g.expect = h.expect
       /\ g.text = (IF hidden THEN h.text ELSE Plus!Bind(h.text, <<section, newkey>>, newval))
       /\ g.misplaced = (h.misplaced \/ home # section)
       /\ g.added = TRUE /\ g.strayed = (h.strayed \/ newval \in IniKeys) /\ g.again = h.again
  BY <1>5, <1>7 DEF IsHistory
<1>19. PlusShape(file, new, records, e, id, g)
  <2>1. \A q \in DOMAIN e : e[q] \in 1 .. id
    BY <1>7, <1>8, <1>16, <1>17
  <2> QED BY <1>6, <1>8, <1>11, <1>14, <1>15, <1>18, <2>1 DEF PlusShape
<1>20. PlusFresh(new, records, e, p_bscan, id, g)
  <2>1. new # << >>
    BY <1>14
  <2>2. ASSUME ~p_bscan PROVE DOMAIN e = {}
    BY <1>6, <1>17, <2>2 DEF PlusFresh
  <2> QED BY <1>18, <2>1, <2>2 DEF PlusFresh
<1>21. ASSUME p_bscan, ~g.again, ~g.strayed PROVE PlusAgree(u, new, records, e, g)
  <2>1. PlusAgree(t, list, heap, dict, h) /\ newval \notin IniKeys
    BY <1>6, <1>18, <1>21
  <2>2. ASSUME NEW q \in Pairs
        PROVE  (q \in DOMAIN e) = (q \in DOMAIN dict) /\ (q \in DOMAIN dict => e[q] = dict[q])
    <3>1. q[2] \in IniKeys
      BY DEF Pairs
    <3>2. q # added
      BY <1>2, <2>1, <3>1
    <3> QED BY <1>16, <1>17, <3>2
  <2>3. /\ t \in Seq(GoodLines) /\ Len(t) = N /\ DOMAIN t = 1 .. N
        /\ \A i \in 1 .. N : list[i] \in 1 .. made /\ t[i] = heap[list[i]].src
    <3>1. made \in Nat /\ heap \in [1 .. made -> Records] /\ list \in Seq(1 .. made) /\ t = SourcesIn(list, heap)
      BY <1>1, <1>7
    <3>2. /\ t \in Seq(GoodLines) /\ Len(t) = Len(list) /\ DOMAIN t = DOMAIN list
          /\ \A i \in DOMAIN list : t[i] = heap[list[i]].src
      BY <3>1, ListedSources
    <3>3. \A i \in 1 .. N : list[i] \in 1 .. made
      BY <1>7, <1>12
    <3> QED BY <1>12, <3>2, <3>3
  <2>4. /\ u \in Seq(GoodLines) /\ Len(u) = N + 1 /\ DOMAIN u = 1 .. N + 1
        /\ \A i \in 1 .. N + 1 : u[i] = records[new[i]].src
    <3>1. id \in Nat /\ records \in [1 .. id -> Records] /\ new \in Seq(1 .. id) /\ u = SourcesIn(new, records)
      BY <1>2, <1>8, <1>11, <1>14
    <3>2. /\ u \in Seq(GoodLines) /\ Len(u) = Len(new) /\ DOMAIN u = DOMAIN new
          /\ \A i \in DOMAIN new : u[i] = records[new[i]].src
      BY <3>1, ListedSources
    <3> QED BY <1>14, <3>2
  <2>5. OneMore(t, u, at) /\ u[at] = rec.src
    <3>1. \A i \in 1 .. N : t[i] = heap[list[i]].src /\ records[list[i]].src = heap[list[i]].src
      BY <1>1, <1>10, <2>3
    <3>2. records[id].src.kind # "section"
      BY <1>9, <1>10
    <3>3. Len(u) = Len(new) /\ Len(t) = Len(list) /\ N = Len(list)
      BY <1>12, <1>14, <2>3, <2>4
    <3>4. OneMore(t, u, at) /\ u[at] = records[id].src
      <4>1. PutSources(list, new, at, id, t, u, N, heap, records)
        BY <1>13, <1>14, <2>4, <3>1, <3>2, <3>3 DEF PutSources
      <4> QED BY <4>1, SourcesPut
    <3> QED BY <1>10, <3>4
  <2>6. PICK s : s = Pushed(Len(t), at, 1)
    OBVIOUS
  <2>7. at \in 1 .. Len(t) + 1
    BY <1>13, <2>3
  <2>8. MovedLines(s, t, u, at)
    BY <2>3, <2>4, <2>5, <2>6, <2>7, OneMoreMoves
  <2>9. \A i \in 1 .. N : new[s[i]] = list[i]
    <3>1. ASSUME NEW i \in 1 .. N PROVE new[s[i]] = list[i]
      <4>1. s[i] = IF i < at THEN i ELSE i + 1
        BY <2>3, <2>6 DEF Pushed
      <4>2. CASE i < at
        <5>1. i \in 1 .. at - 1
          BY <1>13, <4>2
        <5> QED BY <1>14, <4>1, <4>2, <5>1 DEF PutOne
      <4>3. CASE ~(i < at)
        <5>1. i \in at .. Len(list)
          BY <1>12, <1>13, <4>3
        <5> QED BY <1>14, <4>1, <4>3, <5>1 DEF PutOne
      <4> QED BY <4>2, <4>3
    <3> QED BY <3>1
  <2>10. ASSUME NEW q \in Pairs \cap DOMAIN dict
         PROVE  /\ records[dict[q]].src.kind = "field" /\ records[dict[q]].src.name = q[2]
                /\ records[dict[q]].val = g.expect[q]
                /\ \A j \in DOMAIN new : new[j] = dict[q] => SectionAt(u, j) = q[1]
    <3>1. dict[q] \in 1 .. made
      BY <1>7
    <3>2. /\ heap[dict[q]].src.kind = "field" /\ heap[dict[q]].src.name = q[2]
          /\ heap[dict[q]].val = h.expect[q]
          /\ \A i \in DOMAIN list : list[i] = dict[q] => SectionAt(t, i) = q[1]
      BY <2>1 DEF PlusAgree
    <3>3. records[dict[q]].src = heap[dict[q]].src /\ records[dict[q]].val = heap[dict[q]].val
      BY <1>1, <1>10, <3>1
    <3>4. ASSUME NEW j \in DOMAIN new, new[j] = dict[q] PROVE SectionAt(u, j) = q[1]
      <4>1. j # at
        BY <1>8, <1>14, <3>1, <3>4 DEF PutOne
      <4>2. PICK i \in 1 .. N : j = s[i]
        BY <1>14, <2>3, <2>4, <2>8, <4>1 DEF MovedLines
      <4>3. list[i] = dict[q] /\ i \in DOMAIN list
        BY <1>12, <2>9, <3>4, <4>2
      <4>4. SectionAt(u, j) = SectionAt(t, i)
        BY <2>3, <2>8, <4>2 DEF MovedLines
      <4> QED BY <3>2, <4>3, <4>4
    <3> QED BY <1>18, <3>2, <3>3, <3>4
  <2>11. ASSUME ~g.misplaced, NEW q \in DOMAIN g.text
         PROVE  q = <<q[1], q[2]>> /\ Says(u, q[1], q[2]) = {g.text[q]}
    <3>1. PICK p : p = <<section, newkey>>
      OBVIOUS
    <3>2. /\ home = section /\ ~h.misplaced
          /\ DOMAIN g.text \subseteq DOMAIN h.text \cup {p}
          /\ g.text[q] = IF q = p /\ ~hidden THEN newval ELSE h.text[q]
          /\ q = p /\ hidden => q \in DOMAIN h.text
      BY <1>18, <2>11, <3>1 DEF Plus!Bind
    <3>3. u[at].kind = "field" /\ u[at].name = newkey /\ u[at].val = newval /\ SectionAt(u, at) = section
      BY <1>1, <1>9, <2>5, <2>8, <3>2 DEF MovedLines
    <3>4. hidden <=> \E i \in Giving(t, section, newkey) : i < at
      BY <1>1, <1>12, <1>24, <2>3, <3>2, PlusSectionAt DEF Plus!Hidden, Plus!Sources, SourcesIn, Giving
    <3>5. ASSUME NEW i \in Giving(t, section, newkey)
          PROVE  i \in Nat /\ s[i] = IF i < at THEN i ELSE i + 1
      BY <2>3, <2>6 DEF Giving, Pushed
    <3>6. CASE q = p /\ ~hidden
      <4>1. q[1] = section /\ q[2] = newkey /\ q = <<q[1], q[2]>>
        BY <3>1, <3>6
      <4>2. \A i \in Giving(t, section, newkey) : at <= s[i]
        BY <1>13, <3>4, <3>5, <3>6
      <4>3. Says(u, section, newkey) = {u[at].val}
        <5>1. PutLine(t, u, at, s, newkey, section)
          BY <1>1, <2>5, <2>8, <3>2, <3>3, <4>2 DEF PutLine
        <5> QED BY <2>3, <2>4, <2>7, <5>1, PutSays
      <4> QED BY <3>2, <3>3, <3>6, <4>1, <4>3
    <3>7. CASE ~(q = p /\ ~hidden)
      <4>1. q \in DOMAIN h.text /\ g.text[q] = h.text[q]
        BY <3>2, <3>7
      <4>2. q = <<q[1], q[2]>> /\ Says(t, q[1], q[2]) = {h.text[q]}
        BY <2>1, <3>2, <4>1 DEF PlusAgree
      <4>3. ASSUME at \in Giving(u, q[1], q[2]) PROVE \E i \in Giving(t, q[1], q[2]) : s[i] <= at
        <5>1. q[1] = section /\ q[2] = newkey
          BY <3>3, <4>3 DEF Giving
        <5>2. hidden
          BY <3>1, <3>7, <4>2, <5>1
        <5>3. PICK i \in Giving(t, section, newkey) : i < at
          BY <3>4, <5>2
        <5>4. s[i] = i /\ i \in Nat
          BY <3>5, <5>3
        <5> QED BY <1>13, <5>1, <5>3, <5>4
      <4>4. Says(u, q[1], q[2]) = Says(t, q[1], q[2])
        BY <2>3, <2>4, <2>8, <4>3, OneMoreSays
      <4> QED BY <4>1, <4>2, <4>4
    <3> QED BY <3>6, <3>7
  <2>12. \A q \in Pairs : (q \in DOMAIN e) = (q \in DOMAIN g.expect)
    BY <1>18, <2>1, <2>2 DEF PlusAgree
  <2>13. ASSUME NEW q \in Pairs \cap DOMAIN e
         PROVE  /\ records[e[q]].src.kind = "field" /\ records[e[q]].src.name = q[2]
                /\ records[e[q]].val = g.expect[q]
                /\ \A j \in DOMAIN new : new[j] = e[q] => SectionAt(u, j) = q[1]
    <3>1. q \in Pairs \cap DOMAIN dict /\ e[q] = dict[q]
      BY <2>2
    <3> QED BY <2>10, <3>1
  <2> QED BY <2>11, <2>12, <2>13 DEF PlusAgree
<1>22. PlusGood(file, new, records, e, p_bscan, id, g)
  BY <1>2, <1>19, <1>20, <1>21 DEF PlusGood
<1> QED BY <1>1, <1>2, <1>5, <1>22

\* the headers from a place on
HeadersFrom(list, heap, start) == {i \in start .. Len(list) : heap[list[i]].src.kind = "section"}

(* The next header, if there is one.                                       *)
LEMMA HeaderFound ==
    ASSUME NEW S, p_allLine \in Seq(S), NEW start \in Nat \ {0}, NEW at, at = Plus!FindSection(start), at # 0
    PROVE  /\ at \in 1 .. Len(p_allLine) /\ start <= at /\ p_heap[p_allLine[at]].src.kind = "section"
           /\ \A i \in start .. at - 1 : p_heap[p_allLine[i]].src.kind # "section"
<1>1. PICK I : I = HeadersFrom(p_allLine, p_heap, start)
  OBVIOUS
<1>2. at = IF I = {} THEN 0 ELSE Plus!Min(I)
  BY <1>1 DEF Plus!FindSection, HeadersFrom
<1>3. PICK N \in Nat : N = Len(p_allLine)
  OBVIOUS
<1>4. I \in SUBSET Nat /\ I \subseteq start .. N
  BY <1>1, <1>3 DEF HeadersFrom
<1>5. at \in I /\ \A i \in I : at <= i
  BY <1>2, <1>4, PlusMin
<1>6. at \in start .. N /\ p_heap[p_allLine[at]].src.kind = "section"
  BY <1>1, <1>3, <1>5 DEF HeadersFrom
<1>7. at \in 1 .. N /\ start <= at
  BY <1>3, <1>6
<1>8. ASSUME NEW i \in start .. at - 1 PROVE p_heap[p_allLine[i]].src.kind # "section"
  <2>1. i \in start .. N /\ ~(at <= i)
    BY <1>3, <1>6
  <2>2. i \notin I
    BY <1>5, <2>1
  <2> QED BY <1>1, <1>3, <2>1, <2>2 DEF HeadersFrom
<1> QED BY <1>3, <1>6, <1>7, <1>8

(* Nothing but the fault is noted when the end of the list is followed.    *)
LEMMA CrashKeeps ==
    ASSUME PlusGood(p_file, p_allLine, p_heap, p_cfgDict, p_bscan, p_made, p_h), Plus!Crash
    PROVE  PlusGood(p_file', p_allLine', p_heap', p_cfgDict', p_bscan', p_made', p_h')
BY DEF Plus!Crash

(* A line at the end or the start of the first section.                    *)
LEMMA AddSectionKeepsLines ==
    ASSUME PlusGood(p_file, p_allLine, p_heap, p_cfgDict, p_bscan, p_made, p_h),
           NEW section, NEW newkey \in IniKeys, NEW newval \in IniVals, NEW mode \in {0, 1},
           Plus!AddBaseSection(section, newkey, newval, mode)
    PROVE  PlusGood(p_file', p_allLine', p_heap', p_cfgDict', p_bscan', p_made', p_h')
<1>1. CASE Plus!Crash
  BY <1>1, CrashKeeps
<1>2. CASE ~Plus!Crash
  <2>1. PICK list, heap, made, t, N, first, at, num, records, home :
           /\ list = p_allLine /\ heap = p_heap /\ made = p_made /\ t = SourcesIn(list, heap)
           /\ N = Len(list) /\ first = Plus!FindSection(1)
           /\ at = (IF mode = 0 THEN Plus!EndOf(first) ELSE first + 1)
           /\ num = heap[list[at]].num + N - at + 1
           /\ records = [heap EXCEPT ![list[at]].num = num]
           /\ home = Plus!Sources[first].name
    OBVIOUS
  <2>2. /\ first # 0 /\ at \in DOMAIN list
        /\ Plus!Insert(at, num, home, section, newkey, newval, records)
    BY <1>2, <2>1 DEF Plus!AddBaseSection
  <2>3. made \in Nat /\ heap \in [1 .. made -> Records] /\ list \in Seq(1 .. made)
    BY <2>1 DEF PlusGood, PlusShape
  <2>4. N \in Nat /\ DOMAIN list = 1 .. N /\ at \in 1 .. N /\ list[at] \in 1 .. made
    BY <2>1, <2>2, <2>3
  <2>5. /\ t \in Seq(GoodLines) /\ Len(t) = N
        /\ \A i \in 1 .. N : t[i] = heap[list[i]].src
    BY <2>1, <2>3, <2>4, ListedSources
  <2>6. /\ first \in 1 .. N /\ t[first].kind = "section"
    <3>1. 1 \in Nat \ {0}
      OBVIOUS
    <3>2. first \in 1 .. N /\ heap[list[first]].src.kind = "section"
      BY <2>1, <2>2, <2>3, <3>1, HeaderFound
    <3> QED BY <2>5, <3>2
  <2>7. home = t[first].name
    <3>1. Plus!Sources = t
      BY <2>1 DEF Plus!Sources, SourcesIn
    <3> QED BY <2>1, <3>1
  <2>8. first <= at - 1 /\ \A i \in first + 1 .. at - 1 : t[i].kind # "section"
    <3>1. CASE mode = 0
      <4>1. at = Plus!FindSection(first + 1) /\ at # 0 /\ first + 1 \in Nat \ {0}
        BY <2>1, <2>4, <2>6, <3>1 DEF Plus!EndOf
      <4>2. first + 1 <= at /\ \A i \in first + 1 .. at - 1 : heap[list[i]].src.kind # "section"
        BY <2>1, <2>3, <4>1, HeaderFound
      <4>3. \A i \in first + 1 .. at - 1 : i \in 1 .. N
        BY <2>4, <2>6
      <4>4. first <= at - 1
        BY <2>4, <2>6, <4>2
      <4> QED BY <2>5, <4>2, <4>3, <4>4
    <3>2. CASE mode # 0
      <4>1. at = first + 1
        BY <2>1, <3>2
      <4>2. first <= at - 1 /\ first + 1 .. at - 1 = {}
        BY <2>6, <4>1
      <4> QED BY <4>2
    <3> QED BY <3>1, <3>2
  <2>9. home = SectionAt(t, at - 1)
    <3>1. PICK i \in Nat : i = at - 1
      BY <2>4
    <3>2. i \in first .. Len(t) /\ first \in 1 .. Len(t)
      BY <2>4, <2>5, <2>6, <2>8, <3>1
    <3>3. \A k \in first + 1 .. i : t[k].kind # "section"
      BY <2>8, <3>1
    <3>4. SectionAt(t, i) = t[first].name
      BY <2>5, <2>6, <3>2, <3>3, SectionGoesOn
    <3> QED BY <2>7, <3>1, <3>4
  <2>10. num \in Int
    <3>1. heap[list[at]] \in Records
      BY <2>3, <2>4
    <3>2. heap[list[at]].num \in Int
      BY <3>1 DEF Records
    <3> QED BY <2>1, <2>4, <3>2
  <2>11. ASSUME NEW x \in 1 .. made
         PROVE  records[x] \in Records /\ records[x].src = heap[x].src /\ records[x].val = heap[x].val
    <3>1. heap[x] \in Records /\ heap[x] = [num |-> heap[x].num, src |-> heap[x].src,
                                             section |-> heap[x].section, val |-> heap[x].val]
      BY <2>3 DEF Records
    <3>2. records[x] = IF x = list[at] THEN [heap[x] EXCEPT !.num = num] ELSE heap[x]
      BY <2>1, <2>3
    <3>3. [heap[x] EXCEPT !.num = num] = [num |-> num, src |-> heap[x].src,
                                         section |-> heap[x].section, val |-> heap[x].val]
      BY <3>1
    <3>4. [num |-> num, src |-> heap[x].src, section |-> heap[x].section, val |-> heap[x].val] \in Records
      BY <2>10, <3>1 DEF Records
    <3> QED BY <3>1, <3>2, <3>3, <3>4
  <2>12. records \in [1 .. made -> Records]
    <3>1. DOMAIN records = 1 .. made /\ records = [x \in 1 .. made |-> records[x]]
      BY <2>1, <2>3
    <3> QED BY <2>11, <3>1
  <2>13. at \in 1 .. Len(p_allLine) + 1
    BY <2>1, <2>4
  <2>14. Renumbered(records, at, home)
    BY <2>1, <2>9, <2>11, <2>12 DEF Renumbered
  <2> QED BY <2>2, <2>10, <2>13, <2>14, InsertKeeps
<1> QED BY <1>1, <1>2

(* A line behind or before the first line of a key.                        *)
LEMMA AddFieldKeeps ==
    ASSUME PlusGood(p_file, p_allLine, p_heap, p_cfgDict, p_bscan, p_made, p_h),
           NEW section, NEW key \in IniKeys, NEW newkey \in IniKeys, NEW newval \in IniVals,
           NEW mode \in {0, 1}, Plus!AddBaseField(section, key, newkey, newval, mode)
    PROVE  PlusGood(p_file', p_allLine', p_heap', p_cfgDict', p_bscan', p_made', p_h')
<1>1. CASE Plus!Crash
  BY <1>1, CrashKeeps
<1>2. CASE ~Plus!Crash
  <2>1. PICK list, heap, made, t, N, at, more, home, num :
           /\ list = p_allLine /\ heap = p_heap /\ made = p_made /\ t = SourcesIn(list, heap)
           /\ N = Len(list) /\ at = Plus!FindKey(key) /\ more = (IF mode = 0 THEN 1 ELSE 0)
           /\ home = SectionAt(t, at) /\ num = heap[list[at]].num + more
    OBVIOUS
  <2>2. Plus!Sources = t
    BY <2>1 DEF Plus!Sources, SourcesIn
  <2>3. at # 0 /\ Plus!Insert(at + more, num, home, section, newkey, newval, heap)
    <3>1. Plus!SectionAt(t, at) = home
      BY <2>1, PlusSectionAt
    <3> QED BY <1>2, <2>1, <2>2, <3>1 DEF Plus!AddBaseField
  <2>4. made \in Nat /\ heap \in [1 .. made -> Records] /\ list \in Seq(1 .. made)
    BY <2>1 DEF PlusGood, PlusShape
  <2>5. N \in Nat /\ DOMAIN list = 1 .. N /\ at \in 1 .. N /\ Keyed(list, heap, at, key)
    <3>1. at \in 1 .. Len(list) /\ Keyed(list, heap, at, key)
      BY <2>1, <2>3, <2>4, KeyFound
    <3> QED BY <2>1, <2>4, <3>1
  <2>6. /\ t \in Seq(GoodLines) /\ Len(t) = N /\ t[at] = heap[list[at]].src /\ list[at] \in 1 .. made
    BY <2>1, <2>4, <2>5, ListedSources
  <2>7. PICK place : place = at + more
    OBVIOUS
  <2>8. place \in 1 .. N + 1 /\ home = SectionAt(t, place - 1)
    <3>1. CASE mode = 0
      <4>1. place = at + 1 /\ place - 1 = at /\ place \in 1 .. N + 1
        BY <2>1, <2>5, <2>7, <3>1
      <4> QED BY <2>1, <4>1
    <3>2. CASE mode # 0
      <4>1. place = at /\ place \in 1 .. N + 1
        BY <2>1, <2>5, <2>7, <3>2
      <4>2. t[at].kind # "section" /\ at \in 1 .. Len(t)
        BY <2>5, <2>6 DEF Keyed
      <4>3. SectionAt(t, at) = SectionAt(t, at - 1)
        BY <2>6, <4>2, SameSection
      <4> QED BY <2>1, <4>1, <4>3
    <3> QED BY <3>1, <3>2
  <2>9. num \in Int
    <3>1. heap[list[at]].num \in Int
      BY <2>4, <2>6 DEF Records
    <3> QED BY <2>1, <3>1
  <2>10. place \in 1 .. Len(p_allLine) + 1 /\ Plus!Insert(place, num, home, section, newkey, newval, heap)
    BY <2>1, <2>3, <2>7, <2>8
  <2>11. Renumbered(heap, place, home)
    BY <2>1, <2>4, <2>8 DEF Renumbered
  <2> QED BY <2>1, <2>9, <2>10, <2>11, InsertKeeps
<1> QED BY <1>1, <1>2

(* Every call keeps the invariant.                                         *)
LEMMA PlusNextKeeps == PlusInv /\ Plus!Next => PlusInv'
<1> SUFFICES ASSUME PlusInv, Plus!Next, ~p_destroyed'
             PROVE  PlusGood(p_file', p_allLine', p_heap', p_cfgDict', p_bscan', p_made', p_h')
  BY DEF PlusInv
<1>1. ASSUME Plus!ScanCfgFile PROVE UNCHANGED p_destroyed
  BY <1>1 DEF Plus!ScanCfgFile
<1>2. ASSUME Plus!Crash PROVE UNCHANGED <<p_file, p_allLine, p_heap, p_cfgDict, p_bscan, p_made, p_h, p_destroyed>>
  BY <1>2 DEF Plus!Crash
<1>3. ASSUME NEW section, Plus!Lookup(section) PROVE Plus!ScanCfgFile \/ Plus!Crash
  BY <1>3 DEF Plus!Lookup
<1>4. ~Plus!Reload
  BY DEF Plus!Reload
<1>5. ASSUME Plus!AfterDestroy PROVE Plus!Crash
  BY <1>5 DEF Plus!AfterDestroy
<1>6. \/ Plus!ScanCfgFile \/ Plus!Crash
      \/ ~p_destroyed /\ Plus!Edit
      \/ Plus!Others
  <2>1. \/ Plus!ScanCfgFile
        \/ \E section \in IniSections : Plus!Lookup(section)
        \/ Plus!Reload
        \/ ~p_destroyed /\ Plus!Edit
        \/ Plus!AfterDestroy
        \/ Plus!Others
    BY DEF Plus!Next
  <2> QED BY <1>3, <1>4, <1>5, <2>1
<1>7. CASE Plus!ScanCfgFile
  <2>1. ~p_destroyed
    BY <1>1, <1>7
  <2>2. PlusGood(p_file, p_allLine, p_heap, p_cfgDict, p_bscan, p_made, p_h)
    BY <2>1 DEF PlusInv
  <2> QED BY <1>7, <2>1, <2>2, ScanKeeps
<1>8. CASE Plus!Crash
  <2>1. ~p_destroyed
    BY <1>2, <1>8
  <2>2. PlusGood(p_file, p_allLine, p_heap, p_cfgDict, p_bscan, p_made, p_h)
    BY <2>1 DEF PlusInv
  <2> QED BY <1>8, <2>2, CrashKeeps
<1>9. CASE Plus!Others
  <2>1. ~p_destroyed
    BY <1>9 DEF Plus!Others
  <2>2. PlusGood(p_file, p_allLine, p_heap, p_cfgDict, p_bscan, p_made, p_h)
    BY <2>1 DEF PlusInv
  <2> QED BY <1>9, <2>2, PlusFileChanges
<1>10. ASSUME ~p_destroyed, Plus!Edit
       PROVE  PlusGood(p_file', p_allLine', p_heap', p_cfgDict', p_bscan', p_made', p_h')
  <2>1. PlusGood(p_file, p_allLine, p_heap, p_cfgDict, p_bscan, p_made, p_h)
    BY <1>10 DEF PlusInv
  <2>2. ASSUME NEW section \in IniSections, NEW key \in IniKeys, Plus!RemoveKey(section, key)
        PROVE  PlusGood(p_file', p_allLine', p_heap', p_cfgDict', p_bscan', p_made', p_h')
    BY <2>1, <2>2, RemoveKeeps
  <2>3. ASSUME NEW section \in IniSections, NEW key \in IniKeys, NEW v \in IniVals, Plus!Modify(section, key, v)
        PROVE  PlusGood(p_file', p_allLine', p_heap', p_cfgDict', p_bscan', p_made', p_h')
    BY <2>1, <2>3, ModifyKeeps
  <2>4. ASSUME NEW section \in IniSections, NEW newkey \in IniKeys, NEW v \in IniVals, NEW mode \in {0, 1},
               \/ Plus!AddBaseSection(section, newkey, v, mode)
               \/ \E key \in IniKeys : Plus!AddBaseField(section, key, newkey, v, mode)
        PROVE  PlusGood(p_file', p_allLine', p_heap', p_cfgDict', p_bscan', p_made', p_h')
    <3>3. CASE Plus!AddBaseSection(section, newkey, v, mode)
      BY <2>1, <3>3, AddSectionKeepsLines
    <3>4. ASSUME NEW key \in IniKeys, Plus!AddBaseField(section, key, newkey, v, mode)
          PROVE  PlusGood(p_file', p_allLine', p_heap', p_cfgDict', p_bscan', p_made', p_h')
      BY <2>1, <3>4, AddFieldKeeps
    <3> QED BY <2>4, <3>3, <3>4
  <2>5. CASE Plus!Sync
    BY <2>1, <2>5, PlusFileChanges
  <2> QED BY <1>10, <2>2, <2>3, <2>4, <2>5 DEF Plus!Edit
<1> QED BY <1>6, <1>7, <1>8, <1>9, <1>10

(* No step of any part breaks it.                                          *)
LEMMA PlusStepKeeps ==
    ASSUME which = "plus" => PlusInv,
           [AllNext]_all_vars
    PROVE  (which = "plus" => PlusInv)'
<1>1. CASE PlusStep
  BY <1>1, PlusNextKeeps DEF PlusStep
<1>2. CASE \/ HttpStep \/ IniStep \/ CfgStep \/ RemovalStep \/ NodeStep \/ SelectStep \/ UuidsStep \/ PackerStep
           \/ UNCHANGED all_vars
  <2>1. which' = which /\ UNCHANGED p_vars
    BY <1>2 DEF HttpStep, IniStep, CfgStep, RemovalStep, NodeStep, SelectStep, UuidsStep, PackerStep, all_vars
  <2> QED BY <2>1 DEF PlusInv, p_vars
<1> QED BY <1>1, <1>2 DEF AllNext

(* The invariant holds in every state.                                     *)
LEMMA PlusStaysGood == AllSpec => [](which = "plus" => PlusInv)
<1> DEFINE Inv == which = "plus" => PlusInv
<1>1. AllInit => Inv
  BY PlusInitially DEF AllInit
<1>2. Inv /\ [AllNext]_all_vars => Inv'
  BY PlusStepKeeps
<1> QED BY <1>1, <1>2, PTL DEF AllSpec

(* Whatever IniReaderPlus is told to remove, add or modify, its list and   *)
(* its dictionary lead to lines that are not deleted, until a Reload       *)
(* (IniReaderPlus.cpp:26-42, 193-219, 256-264).                            *)
THEOREM LinesStayLive == AllSpec => []PlusNoDangling
<1>1. (which = "plus" => PlusInv) => PlusNoDangling
  BY PlusRight DEF PlusNoDangling
<1> QED BY <1>1, PlusStaysGood, PTL

(* Its lookups answer with the first value in the file, or the one the key *)
(* was last modified to, for any texts, sections, keys and values, and any *)
(* calls up to the conditions of the property (IniReaderPlus.cpp:65-89,    *)
(* 193-219, 269-292).                                                      *)
THEOREM LookupsStayRight == AllSpec => []PlusLookupsAnswer
<1>1. (which = "plus" => PlusInv) => PlusLookupsAnswer
  BY PlusRight DEF PlusLookupsAnswer
<1> QED BY <1>1, PlusStaysGood, PTL

(* And its text says what the file said of the keys that were not removed, *)
(* and each key that was added in the section that the call named, as long *)
(* as no line was put into another (IniReaderPlus.cpp:44-58, 244-267,      *)
(* 309-395).                                                               *)
THEOREM TextStaysKept == AllSpec => []PlusTextKept
<1>1. (which = "plus" => PlusInv) => PlusTextKept
  BY PlusRight DEF PlusTextKept
<1> QED BY <1>1, PlusStaysGood, PTL
================================================================================
