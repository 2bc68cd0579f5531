------------------------------- MODULE HttpProofs -------------------------------
(***************************************************************************)
(* What the phases of HttpResponse do with a part of any length of the     *)
(* text of a response: the text is laid out symbol by symbol, the searches *)
(* are shown to find the ends of its lines, the loop over its chunks to    *)
(* pass them one after another, and each phase to leave a state that is    *)
(* right for the symbols that were pushed, which Good says.                *)
(***************************************************************************)
EXTENDS MCReaders, DataLemmas

-----------------------------------------------------------------------------
(***************************************************************************)
(* The text of a response, symbol by symbol.                               *)
(***************************************************************************)
Symbols == STRING \cup {"cr", "lf", "length", "chunked", "json", "html", "host", "200", "line"}

Joined(S, a, m, b, n, c) ==
    /\ a \in Seq(S) /\ m \in Nat /\ m = Len(a)
    /\ b \in Seq(S) /\ n \in Nat /\ n = Len(b)
    /\ c = a \o b

Placed(S, a, m, b, n, c) ==
    /\ c \in Seq(S) /\ Len(c) = m + n
    /\ \A i \in 1 .. m : c[i] = a[i]
    /\ \A i \in 1 .. n : c[m + i] = b[i]

(* Where the members of two sequences are when they are joined.            *)
LEMMA JoinedPlaces ==
    ASSUME NEW S, NEW a, NEW m, NEW b, NEW n, NEW c, Joined(S, a, m, b, n, c)
    PROVE  Placed(S, a, m, b, n, c)
<1> USE DEF Joined
<1>1. \A i \in 1 .. m + n : c[i] = IF i <= m THEN a[i] ELSE b[i - m]
  OBVIOUS
<1>2. \A i \in 1 .. n : m + i \in 1 .. m + n /\ ~(m + i <= m) /\ (m + i) - m = i
  OBVIOUS
<1>3. \A i \in 1 .. m : i \in 1 .. m + n /\ i <= m
  OBVIOUS
<1>4. c \in Seq(S) /\ Len(c) = m + n
  OBVIOUS
<1> QED BY <1>1, <1>2, <1>3, <1>4 DEF Placed

\* list i of a family begins behind ends[i - 1] when they are put together
PlacesOf(S, n, f, c, ends) ==
    /\ ends \in [0 .. n -> Nat] /\ ends[0] = 0 /\ Len(c) = ends[n]
    /\ \A i \in 1 .. n : ends[i] = ends[i - 1] + Len(f[i])
    /\ \A i \in 1 .. n : \A j \in 1 .. Len(f[i]) : c[ends[i - 1] + j] = f[i][j]

(* A family of sequences put together has each of them in its place.       *)
LEMMA FlattenPlaces ==
    ASSUME NEW S, NEW n \in Nat, NEW f \in [1 .. n -> Seq(S)], NEW c, c = FlattenSeq(f)
    PROVE  c \in Seq(S) /\ \E ends : PlacesOf(S, n, f, c, ends)
<1>1. CASE n = 0
  <2>1. f = << >> /\ Len(f) = 0
    BY <1>1
  <2>2. c = << >>
    BY <2>1 DEF FlattenSeq
  <2> DEFINE e == [i \in 0 .. 0 |-> 0]
  <2>3. /\ e \in [0 .. n -> Nat] /\ e[0] = 0 /\ Len(c) = e[n] /\ 1 .. n = {}
    BY <1>1, <2>2
  <2> HIDE DEF e
  <2>4. PlacesOf(S, n, f, c, e)
    BY <2>3 DEF PlacesOf
  <2> QED BY <2>2, <2>4
<1>2. CASE n # 0
  <2>1. PICK p \in [0 .. n -> Seq(S)] :
              /\ p[0] = << >>
              /\ \A i \in 1 .. n : p[i] = p[i - 1] \o f[i]
              /\ p[n] = FlattenSeq(f)
    <3>1. n \in Nat \ {0}
      BY <1>2
    <3> QED BY <3>1, FlattenSteps
  <2> DEFINE e == [i \in 0 .. n |-> Len(p[i])]
             Good(k) == \A i \in 1 .. k : \A j \in 1 .. Len(f[i]) : p[k][e[i - 1] + j] = f[i][j]
             T == {k \in Nat : k <= n => Good(k)}
  <2>2. e \in [0 .. n -> Nat] /\ e[0] = 0 /\ \A i \in 0 .. n : e[i] = Len(p[i])
    BY <2>1
  <2>3. \A i \in 1 .. n : /\ i - 1 \in 0 .. n /\ i \in 0 .. n /\ p[i - 1] \in Seq(S)
                          /\ f[i] \in Seq(S) /\ e[i - 1] \in Nat /\ e[i - 1] = Len(p[i - 1])
    <3>1. \A i \in 1 .. n : i - 1 \in 0 .. n /\ i \in 0 .. n /\ f[i] \in Seq(S)
      OBVIOUS
    <3> HIDE DEF e
    <3> QED BY <3>1, <2>1, <2>2
  <2> HIDE DEF e
  <2>4. ASSUME NEW i \in 1 .. n
        PROVE  /\ Len(p[i]) = Len(p[i - 1]) + Len(f[i])
               /\ \A j \in 1 .. Len(p[i - 1]) : p[i][j] = p[i - 1][j]
               /\ \A j \in 1 .. Len(f[i]) : p[i][e[i - 1] + j] = f[i][j]
               /\ e[i] = e[i - 1] + Len(f[i]) /\ Len(f[i]) \in Nat
    <3>1. p[i] = p[i - 1] \o f[i]
      BY <2>1
    <3>2. PICK a \in Seq(S), b \in Seq(S) : a = p[i - 1] /\ b = f[i]
      BY <2>3
    <3>0. PICK d : d = p[i]
      OBVIOUS
    <3>3. Len(a) \in Nat /\ Len(b) \in Nat /\ d = a \o b /\ e[i - 1] = Len(a)
      BY <3>0, <3>1, <3>2, <2>3
    <3>4. /\ Len(d) = Len(a) + Len(b) /\ \A j \in 1 .. Len(a) : d[j] = a[j]
          /\ \A j \in 1 .. Len(b) : d[Len(a) + j] = b[j]
      <4>1. Joined(S, a, Len(a), b, Len(b), d)
        BY <3>3 DEF Joined
      <4>2. Placed(S, a, Len(a), b, Len(b), d)
        BY <4>1, JoinedPlaces
      <4> QED BY <4>2 DEF Placed
    <3>5. i \in 0 .. n /\ e[i] = Len(p[i])
      BY <2>2
    <3> QED BY <3>0, <3>2, <3>3, <3>4, <3>5
  <2>5. 0 \in T
    OBVIOUS
  <2>6. ASSUME NEW k \in T PROVE k + 1 \in T
    <3>1. k \in Nat /\ (k <= n => Good(k))
      OBVIOUS
    <3> HIDE DEF T
    <3> SUFFICES ASSUME k + 1 <= n PROVE Good(k + 1)
      BY <3>1 DEF T
    <3>2. k + 1 \in 1 .. n /\ (k + 1) - 1 = k /\ Good(k) /\ k \in 0 .. n
      BY <3>1
    <3> SUFFICES ASSUME NEW i \in 1 .. k + 1, NEW j \in 1 .. Len(f[i])
                 PROVE  p[k + 1][e[i - 1] + j] = f[i][j]
      OBVIOUS
    <3>3. CASE i = k + 1
      BY <3>2, <3>3, <2>4
    <3>4. CASE i # k + 1
      <4>1. i \in 1 .. k /\ i \in 1 .. n
        BY <3>1, <3>2, <3>4
      <4>2. p[k][e[i - 1] + j] = f[i][j]
        BY <4>1, <3>2
      <4>3. e[i - 1] + j \in 1 .. Len(p[k])
        <5>1. e[i] <= e[k]
          <6> DEFINE U == {m \in Nat : i + m <= n => e[i] <= e[i + m]}
          <6>1. 0 \in U
            BY <4>1, <2>2
          <6>2. ASSUME NEW m \in U PROVE m + 1 \in U
            <7>1. m \in Nat /\ (i + m <= n => e[i] <= e[i + m])
              OBVIOUS
            <7> HIDE DEF U
            <7> SUFFICES ASSUME i + (m + 1) <= n PROVE e[i] <= e[i + (m + 1)]
              BY <7>1 DEF U
            <7>2. i + (m + 1) \in 1 .. n /\ (i + (m + 1)) - 1 = i + m /\ i + m <= n /\ i + m \in 0 .. n
              BY <7>1, <4>1
            <7>3. e[i + (m + 1)] = e[i + m] + Len(f[i + (m + 1)]) /\ Len(f[i + (m + 1)]) \in Nat
              <8>1. ASSUME NEW x \in 1 .. n, x - 1 = i + m PROVE e[x] = e[i + m] + Len(f[x]) /\ Len(f[x]) \in Nat
                BY <8>1, <2>4
              <8> QED BY <7>2, <8>1
            <7>4. e[i] \in Nat /\ e[i + m] \in Nat
              BY <4>1, <7>2, <2>2
            <7>5. PICK a \in Nat, b \in Nat, x \in Nat :
                      a = e[i] /\ b = e[i + m] /\ x = Len(f[i + (m + 1)])
              BY <7>3, <7>4
            <7>6. a <= b /\ e[i + (m + 1)] = b + x
              BY <7>1, <7>2, <7>3, <7>5
            <7> QED BY <7>5, <7>6
          <6>3. U = Nat
            <7>1. U \in SUBSET Nat
              OBVIOUS
            <7> HIDE DEF U
            <7> QED BY <7>1, <6>1, <6>2, Induction
          <6>4. k - i \in Nat /\ i + (k - i) = k
            BY <4>1, <3>1
          <6>5. k - i \in U
            <7> HIDE DEF U
            <7> QED BY <6>3, <6>4
          <6> QED BY <6>4, <6>5, <3>2
        <5>2. e[i] = e[i - 1] + Len(f[i]) /\ e[i - 1] \in Nat /\ Len(f[i]) \in Nat /\ e[k] = Len(p[k])
          <6>1. e[i] = e[i - 1] + Len(f[i]) /\ e[i - 1] \in Nat /\ Len(f[i]) \in Nat
            BY <4>1, <2>3, <2>4
          <6> QED BY <6>1, <3>2, <2>2
        <5>3. PICK x \in Nat, y \in Nat, z \in Nat, w \in Nat :
                 x = e[i] /\ y = e[k] /\ z = e[i - 1] /\ w = Len(f[i])
          BY <2>2, <3>2, <4>1, <5>2
        <5>4. x <= y /\ x = z + w /\ y = Len(p[k]) /\ j \in 1 .. w
          BY <5>1, <5>2, <5>3
        <5>5. z + j \in 1 .. y
          BY <5>4
        <5> QED BY <5>3, <5>4, <5>5
      <4>4. p[k + 1][e[i - 1] + j] = p[k][e[i - 1] + j]
        <5>1. ASSUME NEW x \in 1 .. n, x - 1 = k, NEW y \in 1 .. Len(p[k]) PROVE p[x][y] = p[k][y]
          BY <5>1, <2>4
        <5> QED BY <3>2, <4>3, <5>1
      <4> QED BY <4>2, <4>4
    <3> QED BY <3>3, <3>4
  <2>7. T = Nat
    <3>1. T \in SUBSET Nat
      OBVIOUS
    <3> HIDE DEF T
    <3> QED BY <3>1, <2>5, <2>6, Induction
  <2>8. Good(n)
    <3>1. n \in T
      BY <2>7
    <3> HIDE DEF Good
    <3> QED BY <3>1
  <2>9. c \in Seq(S) /\ c = p[n] /\ Len(c) = e[n]
    BY <2>1, <2>2
  <2>10. \A i \in 1 .. n : e[i] = e[i - 1] + Len(f[i])
    BY <2>2, <2>3, <2>4
  <2>11. PlacesOf(S, n, f, c, e)
    <3> HIDE DEF T
    <3> QED BY <2>2, <2>8, <2>9, <2>10 DEF PlacesOf
  <2> QED BY <2>9, <2>11
<1> QED BY <1>1, <1>2

(* A symbol and the end of its line.                                       *)
LEMMA EndedLine ==
    ASSUME NEW x \in Symbols, NEW c, c = <<x>> \o Crlf
    PROVE  c \in Seq(Symbols) /\ Len(c) = 3 /\ c[1] = x /\ c[2] = "cr" /\ c[3] = "lf"
<1>1. PICK a, b : a = <<x>> /\ b = <<"cr", "lf">>
  OBVIOUS
<1>2. /\ a \in Seq(Symbols) /\ Len(a) = 1 /\ a[1] = x
      /\ b \in Seq(Symbols) /\ Len(b) = 2 /\ b[1] = "cr" /\ b[2] = "lf"
  BY <1>1 DEF Symbols
<1>3. c = a \o b
  BY <1>1 DEF Crlf
<1>4. /\ c \in Seq(Symbols) /\ Len(c) = 1 + 2
      /\ \A i \in 1 .. 1 : c[i] = a[i]
      /\ \A i \in 1 .. 2 : c[1 + i] = b[i]
  <2>1. PICK k \in Nat, l \in Nat : k = 1 /\ l = 2
    OBVIOUS
  <2>2. Joined(Symbols, a, k, b, l, c)
    BY <2>1, <1>2, <1>3 DEF Joined
  <2>3. /\ c \in Seq(Symbols) /\ Len(c) = k + l
        /\ \A i \in 1 .. k : c[i] = a[i]
        /\ \A i \in 1 .. l : c[k + i] = b[i]
    <3>1. Placed(Symbols, a, k, b, l, c)
      BY <2>2, JoinedPlaces
    <3> QED BY <3>1 DEF Placed
  <2> QED BY <2>1, <2>3
<1>5. 1 \in 1 .. 1 /\ 1 \in 1 .. 2 /\ 2 \in 1 .. 2 /\ 1 + 1 = 2 /\ 1 + 2 = 3
  OBVIOUS
<1> QED BY <1>2, <1>4, <1>5

LinesPlaced(ls, n, c) ==
    /\ c \in Seq(Symbols) /\ Len(c) = 3 * n
    /\ \A i \in 1 .. n : c[3 * i - 2] = ls[i] /\ c[3 * i - 1] = "cr" /\ c[3 * i] = "lf"

(* The lines of a head, each with its end.                                 *)
LEMMA LinesLaid ==
    ASSUME NEW ls \in Seq(Symbols), NEW n \in Nat, n = Len(ls), NEW c, c = Lines(ls)
    PROVE  LinesPlaced(ls, n, c)
<1> DEFINE f == [i \in 1 .. n |-> <<ls[i]>> \o Crlf]
<1>1. \A i \in 1 .. n : /\ f[i] \in Seq(Symbols) /\ Len(f[i]) = 3
                        /\ f[i][1] = ls[i] /\ f[i][2] = "cr" /\ f[i][3] = "lf"
  <2> TAKE i \in 1 .. n
  <2>1. ls[i] \in Symbols /\ f[i] = <<ls[i]>> \o Crlf
    OBVIOUS
  <2>2. PICK x \in Symbols : x = ls[i]
    BY <2>1
  <2>5. PICK d : d = f[i]
    OBVIOUS
  <2> HIDE DEF f
  <2>3. d = <<x>> \o Crlf
    BY <2>1, <2>2, <2>5
  <2>4. d \in Seq(Symbols) /\ Len(d) = 3 /\ d[1] = x /\ d[2] = "cr" /\ d[3] = "lf"
    BY <2>3, EndedLine
  <2> QED BY <2>2, <2>4, <2>5
<1>2. f \in [1 .. n -> Seq(Symbols)]
  BY <1>1
<1>3. DOMAIN ls = 1 .. n
  OBVIOUS
<1>4. c = FlattenSeq(f)
  BY <1>3 DEF Lines
<1> HIDE DEF f
<1>5. c \in Seq(Symbols) /\ \E ends : PlacesOf(Symbols, n, f, c, ends)
  BY <1>2, <1>4, FlattenPlaces
<1>6. PICK ends : PlacesOf(Symbols, n, f, c, ends)
  BY <1>5
<1>7. ends[0] = 0 /\ \A i \in 1 .. n : ends[i] = ends[i - 1] + 3
  <2>1. \A i \in 1 .. n : i - 1 \in 0 .. n
    OBVIOUS
  <2>2. ends[0] = 0 /\ \A i \in 1 .. n : ends[i] = ends[i - 1] + Len(f[i])
    BY <1>6 DEF PlacesOf
  <2> QED BY <2>1, <2>2, <1>1
<1> DEFINE T == {i \in Nat : i <= n => ends[i] = 3 * i}
<1>8. 0 \in T
  BY <1>7
<1>9. ASSUME NEW i \in T PROVE i + 1 \in T
  <2>1. i \in Nat /\ (i <= n => ends[i] = 3 * i)
    OBVIOUS
  <2> HIDE DEF T
  <2> SUFFICES ASSUME i + 1 <= n PROVE ends[i + 1] = 3 * (i + 1)
    BY <2>1 DEF T
  <2>2. i + 1 \in 1 .. n /\ (i + 1) - 1 = i /\ i <= n
    BY <2>1
  <2>3. ends[i + 1] = ends[i] + 3
    BY <2>2, <1>7
  <2> QED BY <2>1, <2>2, <2>3
<1>10. T = Nat
  <2>1. T \in SUBSET Nat
    OBVIOUS
  <2> HIDE DEF T
  <2> QED BY <2>1, <1>8, <1>9, Induction
<1>11. \A i \in 0 .. n : ends[i] = 3 * i
  BY <1>10
<1> HIDE DEF T
<1>12. Len(c) = 3 * n
  BY <1>6, <1>11 DEF PlacesOf
<1>13. ASSUME NEW i \in 1 .. n
       PROVE  c[3 * i - 2] = ls[i] /\ c[3 * i - 1] = "cr" /\ c[3 * i] = "lf"
  <2>1. i - 1 \in 0 .. n /\ ends[i - 1] = 3 * (i - 1)
    BY <1>11
  <2>2. /\ 3 * (i - 1) + 1 = 3 * i - 2 /\ 3 * (i - 1) + 2 = 3 * i - 1 /\ 3 * (i - 1) + 3 = 3 * i
        /\ 1 \in 1 .. 3 /\ 2 \in 1 .. 3 /\ 3 \in 1 .. 3
    OBVIOUS
  <2>3. \A j \in 1 .. 3 : c[ends[i - 1] + j] = f[i][j]
    BY <1>1, <1>6 DEF PlacesOf
  <2>4. /\ c[3 * (i - 1) + 1] = f[i][1] /\ c[3 * (i - 1) + 2] = f[i][2]
        /\ c[3 * (i - 1) + 3] = f[i][3]
    BY <2>1, <2>2, <2>3
  <2> QED BY <2>2, <2>4, <1>1
<1> QED BY <1>5, <1>12, <1>13 DEF LinesPlaced

\* symbol s[at + 1] begins the chunk c
ChunkAt(s, at, c) ==
    /\ s[at + 1] = Digit(Len(c)) /\ s[at + 2] = "cr" /\ s[at + 3] = "lf"
    /\ \A j \in 1 .. Len(c) : s[at + 3 + j] = c[j]
    /\ s[at + Len(c) + 4] = "cr" /\ s[at + Len(c) + 5] = "lf"

(* A chunk is its length and its bytes, each with the end of a line.       *)
LEMMA ChunkLaid ==
    ASSUME NEW c \in Seq(STRING), NEW m \in Nat, m = Len(c), Digit(m) \in STRING,
           NEW t, t = ChunkText(c)
    PROVE  t \in Seq(Symbols) /\ Len(t) = m + 5 /\ ChunkAt(t, 0, c)
<1>1. PICK x \in Symbols : x = Digit(m)
  BY DEF Symbols
<1>2. "cr" \in Symbols /\ "lf" \in Symbols /\ c \in Seq(Symbols)
  BY DEF Symbols
<1>3. PICK a, b, e : a = <<x>> \o Crlf /\ b = a \o c /\ e = <<"cr", "lf">>
  OBVIOUS
<1>4. /\ a \in Seq(Symbols) /\ Len(a) = 3 /\ a[1] = x /\ a[2] = "cr" /\ a[3] = "lf"
      /\ e \in Seq(Symbols) /\ Len(e) = 2 /\ e[1] = "cr" /\ e[2] = "lf"
  <2>1. e = <<"cr", "lf">> /\ a = <<x>> \o Crlf
    BY <1>3
  <2>2. a \in Seq(Symbols) /\ Len(a) = 3 /\ a[1] = x /\ a[2] = "cr" /\ a[3] = "lf"
    BY <2>1, EndedLine
  <2> QED BY <2>1, <2>2, <1>2
<1>5. t = b \o e
  BY <1>1, <1>3 DEF ChunkText, Crlf
<1>6. /\ b \in Seq(Symbols) /\ Len(b) = 3 + m
      /\ \A i \in 1 .. 3 : b[i] = a[i]
      /\ \A i \in 1 .. m : b[3 + i] = c[i]
  <2>1. Joined(Symbols, a, 3, c, m, b)
    BY <1>2, <1>3, <1>4 DEF Joined
  <2>9. Placed(Symbols, a, 3, c, m, b)
    BY <2>1, JoinedPlaces
  <2> QED BY <2>9 DEF Placed
<1>7. /\ t \in Seq(Symbols) /\ Len(t) = (3 + m) + 2
      /\ \A i \in 1 .. 3 + m : t[i] = b[i]
      /\ \A i \in 1 .. 2 : t[(3 + m) + i] = e[i]
  <2>1. PICK k \in Nat : k = 3 + m
    OBVIOUS
  <2>2. 2 \in Nat /\ Len(b) = k
    BY <2>1, <1>6
  <2>3. /\ t \in Seq(Symbols) /\ Len(t) = k + 2
        /\ \A i \in 1 .. k : t[i] = b[i]
        /\ \A i \in 1 .. 2 : t[k + i] = e[i]
    <3>1. Joined(Symbols, b, k, e, 2, t)
      BY <2>2, <1>4, <1>5, <1>6 DEF Joined
    <3>2. Placed(Symbols, b, k, e, 2, t)
      BY <3>1, JoinedPlaces
    <3> QED BY <3>2 DEF Placed
  <2> QED BY <2>1, <2>3
<1>8. /\ 1 \in 1 .. 3 /\ 2 \in 1 .. 3 /\ 3 \in 1 .. 3 /\ 1 .. 3 \subseteq 1 .. 3 + m
      /\ \A i \in 1 .. m : 3 + i \in 1 .. 3 + m
      /\ (3 + m) + 1 = 0 + m + 4 /\ (3 + m) + 2 = 0 + m + 5 /\ (3 + m) + 2 = m + 5
      /\ 1 \in 1 .. 2 /\ 2 \in 1 .. 2 /\ 0 + 1 = 1 /\ 0 + 2 = 2 /\ 0 + 3 = 3
  OBVIOUS
<1>9. t[1] = x /\ t[2] = "cr" /\ t[3] = "lf"
  BY <1>4, <1>6, <1>7, <1>8
<1>10. \A i \in 1 .. m : t[3 + i] = c[i]
  BY <1>6, <1>7, <1>8
<1>11. t[0 + m + 4] = "cr" /\ t[0 + m + 5] = "lf"
  BY <1>4, <1>7, <1>8
<1> QED BY <1>1, <1>7, <1>8, <1>9, <1>10, <1>11 DEF ChunkAt

\* the chunks of cs begin at these places in s, the first behind top
ChunksAt(s, top, cs, Q) ==
    /\ Q \in [0 .. Len(cs) -> Nat] /\ Q[0] = top
    /\ \A i \in 1 .. Len(cs) : Q[i] = Q[i - 1] + Len(cs[i]) + 5 /\ ChunkAt(s, Q[i - 1], cs[i])

(* The chunks, one behind the other.                                       *)
LEMMA ChunksLaid ==
    ASSUME NEW cs \in Seq(Seq(STRING)), \A i \in DOMAIN cs : Digit(Len(cs[i])) \in STRING,
           NEW c, c = FlattenSeq([i \in DOMAIN cs |-> ChunkText(cs[i])])
    PROVE  c \in Seq(Symbols) /\ \E Q : ChunksAt(c, 0, cs, Q) /\ Len(c) = Q[Len(cs)]
<1> DEFINE f == [i \in DOMAIN cs |-> ChunkText(cs[i])]
<1>1. PICK n \in Nat : n = Len(cs) /\ DOMAIN cs = 1 .. n
  OBVIOUS
<1>2. ASSUME NEW i \in 1 .. n
      PROVE  /\ f[i] \in Seq(Symbols) /\ Len(f[i]) = Len(cs[i]) + 5 /\ ChunkAt(f[i], 0, cs[i])
             /\ cs[i] \in Seq(STRING) /\ Len(cs[i]) \in Nat
  <2>1. cs[i] \in Seq(STRING) /\ Len(cs[i]) \in Nat /\ f[i] = ChunkText(cs[i]) /\ Digit(Len(cs[i])) \in STRING
    BY <1>1
  <2> QED BY <2>1, ChunkLaid
<1>3. f \in [1 .. n -> Seq(Symbols)]
  BY <1>1, <1>2
<1> HIDE DEF f
<1>4. c \in Seq(Symbols) /\ \E ends : PlacesOf(Symbols, n, f, c, ends)
  <2>1. c = FlattenSeq(f)
    BY DEF f
  <2> QED BY <2>1, <1>3, FlattenPlaces
<1>5. PICK ends : PlacesOf(Symbols, n, f, c, ends)
  BY <1>4
<1>6. ASSUME NEW i \in 1 .. n
      PROVE  ends[i] = ends[i - 1] + Len(cs[i]) + 5 /\ ChunkAt(c, ends[i - 1], cs[i])
  <2>1. PICK q \in Nat, m \in Nat : q = ends[i - 1] /\ m = Len(cs[i])
    <3>1. i - 1 \in 0 .. n
      OBVIOUS
    <3> QED BY <3>1, <1>2, <1>5 DEF PlacesOf
  <2>2. ends[i] = q + (m + 5) /\ \A j \in 1 .. m + 5 : c[q + j] = f[i][j]
    BY <2>1, <1>2, <1>5 DEF PlacesOf
  <2>3. /\ f[i][1] = Digit(m) /\ f[i][2] = "cr" /\ f[i][3] = "lf"
        /\ \A j \in 1 .. m : f[i][3 + j] = cs[i][j]
        /\ f[i][m + 4] = "cr" /\ f[i][m + 5] = "lf"
    <3>1. /\ f[i][0 + 1] = Digit(m) /\ f[i][0 + 2] = "cr" /\ f[i][0 + 3] = "lf"
          /\ \A j \in 1 .. m : f[i][0 + 3 + j] = cs[i][j]
          /\ f[i][0 + m + 4] = "cr" /\ f[i][0 + m + 5] = "lf"
      BY <2>1, <1>2 DEF ChunkAt
    <3>2. 0 + 1 = 1 /\ 0 + 2 = 2 /\ 0 + 3 = 3 /\ 0 + m + 4 = m + 4 /\ 0 + m + 5 = m + 5
      OBVIOUS
    <3> QED BY <3>1, <3>2
  <2>4. /\ 1 \in 1 .. m + 5 /\ 2 \in 1 .. m + 5 /\ 3 \in 1 .. m + 5 /\ m + 4 \in 1 .. m + 5 /\ m + 5 \in 1 .. m + 5
        /\ q + (m + 4) = q + m + 4 /\ q + (m + 5) = q + m + 5
        /\ \A j \in 1 .. m : 3 + j \in 1 .. m + 5 /\ q + (3 + j) = q + 3 + j
    OBVIOUS
  <2>5. c[q + 1] = Digit(m) /\ c[q + 2] = "cr" /\ c[q + 3] = "lf"
    BY <2>2, <2>3, <2>4
  <2>6. \A j \in 1 .. m : c[q + 3 + j] = cs[i][j]
    BY <2>2, <2>3, <2>4
  <2>7. c[q + m + 4] = "cr" /\ c[q + m + 5] = "lf"
    BY <2>2, <2>3, <2>4
  <2>8. ends[i] = q + m + 5
    BY <2>2, <2>4
  <2> QED BY <2>1, <2>5, <2>6, <2>7, <2>8 DEF ChunkAt
<1>7. ChunksAt(c, 0, cs, ends) /\ Len(c) = ends[Len(cs)]
  BY <1>1, <1>5, <1>6 DEF PlacesOf, ChunksAt
<1> QED BY <1>4, <1>7

(* What the text of a response r is, symbol by symbol: the head, whose     *)
(* last symbol is at Q[0], the chunks, and what comes behind them.         *)
HeadLen(r) == 3 * Len(r.headers) + 5

Laid(T, r, Q) ==
    /\ T \in Seq(Symbols)
    /\ T[1] = r.line /\ T[2] = "cr" /\ T[3] = "lf"
    /\ \A i \in 1 .. Len(r.headers) :
          T[3 * i + 1] = r.headers[i] /\ T[3 * i + 2] = "cr" /\ T[3 * i + 3] = "lf"
    /\ T[HeadLen(r) - 1] = "cr" /\ T[HeadLen(r)] = "lf"
    /\ ChunksAt(T, HeadLen(r), r.chunks, Q)
    /\ Len(T) = Q[Len(r.chunks)] + Len(r.body)
    /\ \A j \in 1 .. Len(r.body) : T[Q[Len(r.chunks)] + j] = r.body[j]

Typed(r) ==
    /\ r.line \in DOMAIN CodeOf /\ r.headers \in Seq(DOMAIN NameOf)
    /\ r.chunks \in Seq(Seq(STRING)) /\ r.body \in Seq(STRING)
    /\ \A i \in DOMAIN r.chunks : Digit(Len(r.chunks[i])) \in STRING

Behind(s, m, t, top) == \A i \in 1 .. m : t[top + i] = s[i]

ChunksUpTo(t, top, cs, end) == \E Q : ChunksAt(t, top, cs, Q) /\ Q[Len(cs)] = end

(* Chunks stay chunks when other symbols are put before them and behind.   *)
LEMMA ChunksMoved ==
    ASSUME NEW cs \in Seq(Seq(STRING)), NEW s, NEW Q, ChunksAt(s, 0, cs, Q),
           NEW top \in Nat, NEW t, NEW m \in Nat, m = Q[Len(cs)], Behind(s, m, t, top)
    PROVE  ChunksUpTo(t, top, cs, top + m)
<1>1. PICK n \in Nat : n = Len(cs)
  OBVIOUS
<1>2. Q \in [0 .. n -> Nat] /\ Q[0] = 0 /\ \A i \in 1 .. n : Q[i] = Q[i - 1] + Len(cs[i]) + 5 /\ ChunkAt(s, Q[i - 1], cs[i])
  BY <1>1 DEF ChunksAt
<1>3. \A i \in 1 .. n : Len(cs[i]) \in Nat /\ i - 1 \in 0 .. n
  BY <1>1
<1> DEFINE T == {x \in Nat : x <= n => \A i \in 0 .. x : Q[i] <= Q[x]}
<1>4. 0 \in T
  BY <1>2
<1>5. ASSUME NEW x \in T PROVE x + 1 \in T
  <2>1. x \in Nat /\ (x <= n => \A i \in 0 .. x : Q[i] <= Q[x])
    OBVIOUS
  <2> HIDE DEF T
  <2> SUFFICES ASSUME x + 1 <= n, NEW i \in 0 .. x + 1 PROVE Q[i] <= Q[x + 1]
    BY <2>1 DEF T
  <2>2. x + 1 \in 1 .. n /\ (x + 1) - 1 = x /\ x \in 0 .. n /\ x <= n /\ i \in 0 .. n
    BY <2>1
  <2>3. Q[x + 1] = Q[x] + Len(cs[x + 1]) + 5 /\ Len(cs[x + 1]) \in Nat /\ Q[x] \in Nat /\ Q[i] \in Nat
    BY <2>2, <1>2, <1>3
  <2>4. CASE i = x + 1
    BY <2>3, <2>4
  <2>5. CASE i \in 0 .. x
    <3>1. Q[i] <= Q[x]
      BY <2>1, <2>2, <2>5
    <3> QED BY <3>1, <2>3
  <2> QED BY <2>1, <2>4, <2>5
<1>6. T = Nat
  <2>1. T \in SUBSET Nat
    OBVIOUS
  <2> HIDE DEF T
  <2> QED BY <2>1, <1>4, <1>5, Induction
<1>7. \A i \in 0 .. n : Q[i] <= Q[n]
  BY <1>6
<1> HIDE DEF T
<1> DEFINE R == [i \in 0 .. n |-> top + Q[i]]
<1>8. R \in [0 .. n -> Nat] /\ R[0] = top /\ R[n] = top + Q[n]
  BY <1>2
<1>9. ASSUME NEW i \in 1 .. n PROVE R[i] = R[i - 1] + Len(cs[i]) + 5 /\ ChunkAt(t, R[i - 1], cs[i])
  <2>1. PICK q \in Nat, l \in Nat : q = Q[i - 1] /\ l = Len(cs[i])
    BY <1>2, <1>3
  <2>2. Q[i] = q + l + 5 /\ i \in 0 .. n /\ R[i] = top + Q[i] /\ R[i - 1] = top + q /\ q + l + 5 <= Q[n]
    <3>1. i \in 0 .. n /\ i - 1 \in 0 .. n
      BY <1>2
    <3>2. R[i] = top + Q[i] /\ R[i - 1] = top + Q[i - 1]
      BY <3>1
    <3> HIDE DEF R
    <3>3. Q[i] = q + l + 5
      BY <2>1, <1>2, <1>3
    <3>4. Q[i] <= Q[n]
      BY <3>1, <1>7
    <3> QED BY <2>1, <3>1, <3>2, <3>3, <3>4
  <2> HIDE DEF R
  <2>3. /\ s[q + 1] = Digit(l) /\ s[q + 2] = "cr" /\ s[q + 3] = "lf"
        /\ \A j \in 1 .. l : s[q + 3 + j] = cs[i][j]
        /\ s[q + l + 4] = "cr" /\ s[q + l + 5] = "lf"
    BY <2>1, <1>2 DEF ChunkAt
  <2>4. Q[n] \in Nat
    BY <1>2
  <2>5. ASSUME NEW j \in Nat, j # 0, j <= l + 5 PROVE t[(top + q) + j] = s[q + j]
    <3>1. q + j \in 1 .. Q[n] /\ top + (q + j) = (top + q) + j
      BY <2>2, <2>4, <2>5
    <3> QED BY <3>1, <1>1 DEF Behind
  <2>6. /\ t[(top + q) + 1] = Digit(l) /\ t[(top + q) + 2] = "cr" /\ t[(top + q) + 3] = "lf"
    <3>1. 1 <= l + 5 /\ 2 <= l + 5 /\ 3 <= l + 5
      OBVIOUS
    <3> QED BY <3>1, <2>3, <2>5
  <2>7. \A j \in 1 .. l : t[(top + q) + 3 + j] = cs[i][j]
    <3> TAKE j \in 1 .. l
    <3>1. 3 + j \in Nat /\ 3 + j # 0 /\ 3 + j <= l + 5 /\ (top + q) + (3 + j) = (top + q) + 3 + j /\ q + (3 + j) = q + 3 + j
      OBVIOUS
    <3> QED BY <3>1, <2>3, <2>5
  <2>8. t[(top + q) + l + 4] = "cr" /\ t[(top + q) + l + 5] = "lf"
    <3>1. PICK x \in Nat : x = q + l
      OBVIOUS
    <3>2. x + 4 \in 1 .. m /\ x + 5 \in 1 .. m /\ (top + q) + l = top + x
      BY <2>2, <3>1, <1>1
    <3>3. t[top + (x + 4)] = s[x + 4] /\ t[top + (x + 5)] = s[x + 5]
      BY <3>2 DEF Behind
    <3>4. top + (x + 4) = (top + x) + 4 /\ top + (x + 5) = (top + x) + 5
      OBVIOUS
    <3> QED BY <3>1, <3>2, <3>3, <3>4, <2>3
  <2>9. R[i] = R[i - 1] + l + 5
    BY <2>2
  <2> QED BY <2>1, <2>2, <2>6, <2>7, <2>8, <2>9 DEF ChunkAt
<1> HIDE DEF R
<1>10. ChunksAt(t, top, cs, R) /\ R[Len(cs)] = top + m
  BY <1>1, <1>8, <1>9 DEF ChunksAt
<1> QED BY <1>10 DEF ChunksUpTo

(* The symbols of the head are symbols.                                    *)
LEMMA SymbolsHave == {"length", "chunked", "json", "html", "host", "200", "line", "cr", "lf"} \subseteq Symbols
BY DEF Symbols

(* What lines of the head there are.                                       *)
LEMMA HeaderNames ==
    /\ DOMAIN CodeOf \subseteq Symbols \ {"cr", "lf"}
    /\ DOMAIN NameOf \subseteq Symbols \ {"cr", "lf"}
    /\ DOMAIN NameOf = {"length", "chunked", "json", "html", "host"}
    /\ NameOf["length"] = "Content-Length" /\ NameOf["chunked"] = "Transfer-Encoding"
    /\ NameOf["json"] = "Content-Type" /\ NameOf["html"] = "Content-Type" /\ NameOf["host"] = "Host"
<1>1. {"length", "chunked", "json", "html", "host", "200", "line"} \subseteq Symbols
  BY SymbolsHave
<1>2. DOMAIN NameOf = {"length", "chunked", "json", "html", "host"} /\ DOMAIN CodeOf = {"200", "line"}
  BY DEF NameOf, CodeOf
<1>3. /\ NameOf["length"] = "Content-Length" /\ NameOf["chunked"] = "Transfer-Encoding"
      /\ NameOf["json"] = "Content-Type" /\ NameOf["html"] = "Content-Type" /\ NameOf["host"] = "Host"
  BY DEF NameOf
<1> QED BY <1>1, <1>2, <1>3

(* The text of a response is laid out so.                                  *)
LEMMA TextLaid ==
    ASSUME NEW r, Typed(r), NEW T, T = Text(r)
    PROVE  \E Q : Laid(T, r, Q)
<1>1. PICK n \in Nat, k \in Nat : n = Len(r.headers) /\ k = Len(r.body)
  BY DEF Typed
<1>2. PICK L : L = Lines(r.headers)
  OBVIOUS
<1>3. /\ L \in Seq(Symbols) /\ Len(L) = 3 * n
      /\ \A i \in 1 .. n : L[3 * i - 2] = r.headers[i] /\ L[3 * i - 1] = "cr" /\ L[3 * i] = "lf"
  <2>1. DOMAIN NameOf \subseteq Symbols
    BY HeaderNames
  <2>2. r.headers \in Seq(Symbols)
    BY <2>1 DEF Typed
  <2>3. PICK ls \in Seq(Symbols) : ls = r.headers
    BY <2>2
  <2>4. LinesPlaced(ls, n, L)
    BY <2>3, <1>1, <1>2, LinesLaid
  <2> QED BY <2>3, <2>4 DEF LinesPlaced
<1>4. PICK C : C = FlattenSeq([i \in DOMAIN r.chunks |-> ChunkText(r.chunks[i])])
  OBVIOUS
<1>5. PICK cs \in Seq(Seq(STRING)) : cs = r.chunks
  BY DEF Typed
<1>6. C \in Seq(Symbols) /\ \E Q : ChunksAt(C, 0, cs, Q) /\ Len(C) = Q[Len(cs)]
  <2>1. \A i \in DOMAIN cs : Digit(Len(cs[i])) \in STRING
    BY <1>5 DEF Typed
  <2>2. C = FlattenSeq([i \in DOMAIN cs |-> ChunkText(cs[i])])
    BY <1>4, <1>5
  <2> QED BY <2>1, <2>2, ChunksLaid
<1>7. PICK Q0 : ChunksAt(C, 0, cs, Q0) /\ Len(C) = Q0[Len(cs)]
  BY <1>6
<1>8. PICK a, t2, t3, t4, e : /\ a = <<r.line>> \o Crlf /\ t2 = a \o L /\ e = <<"cr", "lf">> /\ t3 = t2 \o e
                              /\ t4 = t3 \o C
  OBVIOUS
<1>9. T = t4 \o r.body
  BY <1>2, <1>4, <1>8 DEF Text, Crlf
<1>10. a \in Seq(Symbols) /\ Len(a) = 3 /\ a[1] = r.line /\ a[2] = "cr" /\ a[3] = "lf"
  <2>1. PICK x \in Symbols : x = r.line
    BY HeaderNames DEF Typed
  <2>2. a = <<x>> \o Crlf
    BY <2>1, <1>8
  <2> QED BY <2>1, <2>2, EndedLine
<1>11. e \in Seq(Symbols) /\ Len(e) = 2 /\ e[1] = "cr" /\ e[2] = "lf"
  BY <1>8 DEF Symbols
<1>12a. PICK n3 \in Nat : n3 = 3 * n
  OBVIOUS
<1>12e. PICK m \in Nat : m = Len(C)
  BY <1>6
<1>12b. PICK h2 \in Nat : h2 = 3 + n3
  OBVIOUS
<1>12c. PICK h \in Nat : h = h2 + 2
  OBVIOUS
<1>12d. PICK u \in Nat : u = h + m
  OBVIOUS
<1>12. n3 = 3 * n /\ h2 = 3 + n3 /\ h = h2 + 2 /\ m = Len(C) /\ u = h + m
  BY <1>12a, <1>12b, <1>12c, <1>12d, <1>12e
<1>13. /\ t2 \in Seq(Symbols) /\ Len(t2) = h2
       /\ \A i \in 1 .. 3 : t2[i] = a[i]
       /\ \A i \in 1 .. n3 : t2[3 + i] = L[i]
  <2>1. Joined(Symbols, a, 3, L, n3, t2)
    BY <1>3, <1>8, <1>10, <1>12 DEF Joined
  <2>2. /\ t2 \in Seq(Symbols) /\ Len(t2) = 3 + n3
        /\ \A i \in 1 .. 3 : t2[i] = a[i]
        /\ \A i \in 1 .. n3 : t2[3 + i] = L[i]
    <3>1. Placed(Symbols, a, 3, L, n3, t2)
      BY <2>1, JoinedPlaces
    <3> QED BY <3>1 DEF Placed
  <2> QED BY <2>2, <1>12
<1>14. /\ t3 \in Seq(Symbols) /\ Len(t3) = h
       /\ \A i \in 1 .. h2 : t3[i] = t2[i]
       /\ \A i \in 1 .. 2 : t3[h2 + i] = e[i]
  <2>1. Joined(Symbols, t2, h2, e, 2, t3)
    BY <1>8, <1>11, <1>13 DEF Joined
  <2>2. /\ t3 \in Seq(Symbols) /\ Len(t3) = h2 + 2
        /\ \A i \in 1 .. h2 : t3[i] = t2[i]
        /\ \A i \in 1 .. 2 : t3[h2 + i] = e[i]
    <3>1. Placed(Symbols, t2, h2, e, 2, t3)
      BY <2>1, JoinedPlaces
    <3> QED BY <3>1 DEF Placed
  <2> QED BY <2>2, <1>12
<1>15. /\ t4 \in Seq(Symbols) /\ Len(t4) = u
       /\ \A i \in 1 .. h : t4[i] = t3[i]
       /\ \A i \in 1 .. m : t4[h + i] = C[i]
  <2>1. Joined(Symbols, t3, h, C, m, t4)
    BY <1>6, <1>8, <1>12, <1>14 DEF Joined
  <2>2. /\ t4 \in Seq(Symbols) /\ Len(t4) = h + m
        /\ \A i \in 1 .. h : t4[i] = t3[i]
        /\ \A i \in 1 .. m : t4[h + i] = C[i]
    <3>1. Placed(Symbols, t3, h, C, m, t4)
      BY <2>1, JoinedPlaces
    <3> QED BY <3>1 DEF Placed
  <2> QED BY <2>2, <1>12
<1>16. /\ T \in Seq(Symbols) /\ Len(T) = u + k
       /\ \A i \in 1 .. u : T[i] = t4[i]
       /\ \A i \in 1 .. k : T[u + i] = r.body[i]
  <2>1. r.body \in Seq(Symbols)
    BY DEF Typed, Symbols
  <2>2. Joined(Symbols, t4, u, r.body, k, T)
    BY <2>1, <1>1, <1>9, <1>15 DEF Joined
  <2>9. Placed(Symbols, t4, u, r.body, k, T)
    BY <2>2, JoinedPlaces
  <2> QED BY <2>9 DEF Placed
<1>17. \A i \in 1 .. h : T[i] = t3[i]
  BY <1>12, <1>15, <1>16
<1>18. \A i \in 1 .. h2 : T[i] = t2[i]
  BY <1>12, <1>14, <1>17
<1>19. T[1] = r.line /\ T[2] = "cr" /\ T[3] = "lf"
  <2>1. 1 \in 1 .. 3 /\ 2 \in 1 .. 3 /\ 3 \in 1 .. 3 /\ \A i \in 1 .. 3 : i \in 1 .. h2
    BY <1>12
  <2> QED BY <2>1, <1>10, <1>13, <1>18
<1>20. ASSUME NEW i \in 1 .. n
       PROVE  T[3 * i + 1] = r.headers[i] /\ T[3 * i + 2] = "cr" /\ T[3 * i + 3] = "lf"
  <2>1. /\ 3 * i - 2 \in 1 .. n3 /\ 3 * i - 1 \in 1 .. n3 /\ 3 * i \in 1 .. n3
        /\ 3 + (3 * i - 2) = 3 * i + 1 /\ 3 + (3 * i - 1) = 3 * i + 2 /\ 3 + 3 * i = 3 * i + 3
    BY <1>12
  <2>2. 3 * i + 1 \in 1 .. h2 /\ 3 * i + 2 \in 1 .. h2 /\ 3 * i + 3 \in 1 .. h2
    BY <1>12
  <2>3. /\ t2[3 + (3 * i - 2)] = L[3 * i - 2] /\ t2[3 + (3 * i - 1)] = L[3 * i - 1]
        /\ t2[3 + 3 * i] = L[3 * i]
    BY <2>1, <1>13
  <2> QED BY <2>1, <2>2, <2>3, <1>3, <1>18
<1>21. HeadLen(r) = h /\ T[h - 1] = "cr" /\ T[h] = "lf"
  <2>1. HeadLen(r) = h
    BY <1>1, <1>12 DEF HeadLen
  <2>2. h2 + 1 = h - 1 /\ h2 + 2 = h /\ h - 1 \in 1 .. h /\ h \in 1 .. h /\ 1 \in 1 .. 2 /\ 2 \in 1 .. 2
    BY <1>12
  <2>3. t3[h2 + 1] = e[1] /\ t3[h2 + 2] = e[2]
    BY <2>2, <1>14
  <2> QED BY <2>1, <2>2, <2>3, <1>11, <1>17
<1>22. ChunksUpTo(T, h, cs, h + m)
  <2>1. \A i \in 1 .. m : T[h + i] = C[i]
    <3> TAKE i \in 1 .. m
    <3>1. h + i \in 1 .. u
      BY <1>12
    <3> QED BY <3>1, <1>15, <1>16
  <2>2. m = Q0[Len(cs)] /\ Behind(C, m, T, h)
    BY <2>1, <1>7, <1>12 DEF Behind
  <2>3. ChunksAt(C, 0, cs, Q0)
    BY <1>7
  <2> QED BY <2>2, <2>3, ChunksMoved
<1>22a. PICK Q : ChunksAt(T, h, cs, Q) /\ Q[Len(cs)] = h + m
  BY <1>22 DEF ChunksUpTo
<1>23. Q[Len(r.chunks)] = u /\ ChunksAt(T, HeadLen(r), r.chunks, Q)
  BY <1>5, <1>7, <1>12, <1>21, <1>22a
<1>24. Laid(T, r, Q)
  BY <1>1, <1>16, <1>19, <1>20, <1>21, <1>23 DEF Laid
<1> QED BY <1>24

-----------------------------------------------------------------------------
(***************************************************************************)
(* The searches of the parser, in the part of the text that was pushed.    *)
(***************************************************************************)
(* The end of a line, and an empty line behind the end of another.         *)
EndAt(d, i) == d[i] = "cr" /\ d[i + 1] = "lf"
EmptyAt(d, i) == EndAt(d, i) /\ EndAt(d, i + 2)

FoundEnd(d, m, e) ==
    /\ e = 0 => \A i \in m + 1 .. Len(d) - 1 : ~EndAt(d, i)
    /\ e # 0 => e \in m + 1 .. Len(d) - 1 /\ EndAt(d, e) /\ \A i \in m + 1 .. e - 1 : ~EndAt(d, i)

FoundEmpty(d, m, e) ==
    /\ e = 0 => \A i \in m + 1 .. Len(d) - 3 : ~EmptyAt(d, i)
    /\ e # 0 => e \in m + 1 .. Len(d) - 3 /\ EmptyAt(d, e) /\ \A i \in m + 1 .. e - 1 : ~EmptyAt(d, i)

(* The least number of a set of places, or 0 if it is empty.               *)
LEMMA LeastPlace ==
    ASSUME NEW at \in SUBSET (Nat \ {0}), NEW e, e = IF at = {} THEN 0 ELSE Min(at)
    PROVE  /\ e = 0 => at = {}
           /\ e # 0 => e \in at /\ \A i \in at : e <= i
<1>1. CASE at = {}
  BY <1>1
<1>2. CASE at # {}
  <2>1. Min(at) \in at /\ \A i \in at : Min(at) <= i
    BY <1>2, MinIsLeast
  <2> QED BY <1>2, <2>1
<1> QED BY <1>1, <1>2

(* A search for the end of a line finds the first one.                     *)
LEMMA FindsEnd ==
    ASSUME NEW d \in Seq(Symbols), NEW m \in Nat, NEW e, e = Find(d, m, Crlf)
    PROVE  FoundEnd(d, m, e)
<1>1. PICK n \in Nat : n = Len(d)
  OBVIOUS
<1> DEFINE at == {i \in m + 1 .. n - 1 : EndAt(d, i)}
<1>2. \A i \in m + 1 .. n - 1 : (SubSeq(d, i, i + 1) = <<"cr", "lf">>) = EndAt(d, i)
  <2> TAKE i \in m + 1 .. n - 1
  <2>1. i \in 1 .. n /\ i + 1 \in 1 .. n /\ d[i] \in Symbols /\ d[i + 1] \in Symbols
    BY <1>1
  <2>2. PICK s : s = SubSeq(d, i, i + 1)
    OBVIOUS
  <2>3. s \in Seq(Symbols) /\ Len(s) = 2 /\ s[1] = d[i] /\ s[2] = d[i + 1]
    BY <1>1, <2>1, <2>2
  <2>4. PICK w : w = <<"cr", "lf">>
    OBVIOUS
  <2>5. w \in Seq(Symbols) /\ Len(w) = 2 /\ w[1] = "cr" /\ w[2] = "lf"
    BY <2>4, SymbolsHave
  <2>6. s = [j \in 1 .. 2 |-> s[j]] /\ w = [j \in 1 .. 2 |-> w[j]]
    BY <2>3, <2>5
  <2>7. (s = w) = (s[1] = w[1] /\ s[2] = w[2])
    <3>1. ASSUME s[1] = w[1], s[2] = w[2] PROVE s = w
      <4>1. \A j \in 1 .. 2 : j = 1 \/ j = 2
        OBVIOUS
      <4>2. \A j \in 1 .. 2 : s[j] = w[j]
        BY <3>1, <4>1
      <4> QED BY <2>6, <4>2
    <3> QED BY <3>1
  <2> QED BY <2>2, <2>3, <2>4, <2>5, <2>7 DEF EndAt
<1>3. Crlf = <<"cr", "lf">> /\ Len(Crlf) = 2
  BY DEF Crlf
<1>4. Len(d) - Len(Crlf) + 1 = n - 1 /\ \A i \in m + 1 .. n - 1 : i + Len(Crlf) - 1 = i + 1
  BY <1>1, <1>3
<1>5. e = IF at = {} THEN 0 ELSE Min(at)
  <2>1. at = {i \in m + 1 .. Len(d) - Len(Crlf) + 1 : SubSeq(d, i, i + Len(Crlf) - 1) = Crlf}
    BY <1>2, <1>3, <1>4
  <2> HIDE DEF at
  <2> QED BY <2>1, ZenonT(30) DEF Find
<1>6. at \in SUBSET (Nat \ {0})
  OBVIOUS
<1>7. /\ e = 0 => at = {}
      /\ e # 0 => e \in at /\ \A i \in at : e <= i
  <2> HIDE DEF at
  <2> QED BY <1>5, <1>6, LeastPlace
<1>8. e # 0 => \A i \in m + 1 .. e - 1 : ~EndAt(d, i)
  <2> SUFFICES ASSUME e # 0, NEW i \in m + 1 .. e - 1, EndAt(d, i) PROVE FALSE
    OBVIOUS
  <2>1. e \in m + 1 .. n - 1 /\ i \in m + 1 .. n - 1
    BY <1>7, <1>1
  <2>2. i \in at
    BY <2>1
  <2> HIDE DEF at
  <2>3. e <= i
    BY <1>7, <2>2
  <2> QED BY <2>1, <2>3
<1> QED BY <1>1, <1>7, <1>8 DEF FoundEnd

(* A search for an empty line finds the first one.                         *)
LEMMA FindsEmpty ==
    ASSUME NEW d \in Seq(Symbols), NEW m \in Nat, NEW e, e = Find(d, m, Crlf \o Crlf)
    PROVE  FoundEmpty(d, m, e)
<1>1. PICK n \in Nat : n = Len(d)
  OBVIOUS
<1> DEFINE at == {i \in m + 1 .. n - 3 : EmptyAt(d, i)}
<1>2. PICK w : w = Crlf \o Crlf
  OBVIOUS
<1>3. /\ w \in Seq(Symbols) /\ Len(w) = 4
      /\ w[1] = "cr" /\ w[2] = "lf" /\ w[3] = "cr" /\ w[4] = "lf"
  <2>1. PICK c : c = Crlf
    OBVIOUS
  <2>2. c \in Seq(Symbols) /\ Len(c) = 2 /\ c[1] = "cr" /\ c[2] = "lf"
    BY <2>1, SymbolsHave DEF Crlf
  <2>3. PICK k \in Nat : k = 2
    OBVIOUS
  <2>4. Joined(Symbols, c, k, c, k, w)
    BY <1>2, <2>1, <2>2, <2>3 DEF Joined
  <2>5. Placed(Symbols, c, k, c, k, w)
    BY <2>4, JoinedPlaces
  <2>6. w \in Seq(Symbols) /\ Len(w) = 2 + 2 /\ (\A i \in 1 .. 2 : w[i] = c[i]) /\ \A i \in 1 .. 2 : w[2 + i] = c[i]
    BY <2>3, <2>5 DEF Placed
  <2>7. 1 \in 1 .. 2 /\ 2 \in 1 .. 2 /\ 2 + 1 = 3 /\ 2 + 2 = 4
    OBVIOUS
  <2> QED BY <2>2, <2>6, <2>7
<1>4. \A i \in m + 1 .. n - 3 : (SubSeq(d, i, i + 3) = w) = EmptyAt(d, i)
  <2> TAKE i \in m + 1 .. n - 3
  <2>1. i \in 1 .. n /\ i + 3 \in 1 .. n /\ i \in Nat
    BY <1>1
  <2>2. PICK s : s = SubSeq(d, i, i + 3)
    OBVIOUS
  <2>3. s \in Seq(Symbols) /\ Len(s) = 4 /\ s[1] = d[i] /\ s[2] = d[i + 1] /\ s[3] = d[i + 2] /\ s[4] = d[i + 3]
    BY <1>1, <2>1, <2>2
  <2>4. s = [j \in 1 .. 4 |-> s[j]] /\ w = [j \in 1 .. 4 |-> w[j]]
    BY <1>3, <2>3
  <2>5. (s = w) = (s[1] = w[1] /\ s[2] = w[2] /\ s[3] = w[3] /\ s[4] = w[4])
    <3>1. ASSUME s[1] = w[1], s[2] = w[2], s[3] = w[3], s[4] = w[4] PROVE s = w
      <4>1. \A j \in 1 .. 4 : j = 1 \/ j = 2 \/ j = 3 \/ j = 4
        OBVIOUS
      <4>2. \A j \in 1 .. 4 : s[j] = w[j]
        BY <3>1, <4>1
      <4> QED BY <2>4, <4>2
    <3> QED BY <3>1
  <2>6. (i + 2) + 1 = i + 3
    BY <2>1
  <2> QED BY <1>3, <2>2, <2>3, <2>5, <2>6 DEF EmptyAt, EndAt
<1>5. Len(d) - Len(w) + 1 = n - 3 /\ \A i \in m + 1 .. n - 3 : i + Len(w) - 1 = i + 3
  BY <1>1, <1>3
<1>6. e = IF at = {} THEN 0 ELSE Min(at)
  <2>1. at = {i \in m + 1 .. Len(d) - Len(w) + 1 : SubSeq(d, i, i + Len(w) - 1) = w}
    BY <1>4, <1>5
  <2> HIDE DEF at
  <2> QED BY <2>1, <1>2 DEF Find
<1>7. at \in SUBSET (Nat \ {0})
  OBVIOUS
<1>8. /\ e = 0 => at = {}
      /\ e # 0 => e \in at /\ \A i \in at : e <= i
  <2> HIDE DEF at
  <2> QED BY <1>6, <1>7, LeastPlace
<1>9. e # 0 => \A i \in m + 1 .. e - 1 : ~EmptyAt(d, i)
  <2> SUFFICES ASSUME e # 0, NEW i \in m + 1 .. e - 1, EmptyAt(d, i) PROVE FALSE
    OBVIOUS
  <2>1. e \in m + 1 .. n - 3 /\ i \in m + 1 .. n - 3
    BY <1>8, <1>1
  <2>2. i \in at
    BY <2>1
  <2> HIDE DEF at
  <2>3. e <= i
    BY <1>8, <2>2
  <2> QED BY <2>1, <2>3
<1> QED BY <1>1, <1>8, <1>9 DEF FoundEmpty

(* The first n symbols of a text.                                          *)
Pushed(T, n, d) ==
    d \in Seq(Symbols) /\ n \in 0 .. Len(T) /\ Len(d) = n /\ \A i \in 1 .. n : d[i] = T[i]

(* The end of the first line.                                              *)
LEMMA FirstLine ==
    ASSUME NEW r, Typed(r), NEW T, NEW Q, Laid(T, r, Q), NEW n, NEW d, Pushed(T, n, d),
           NEW e, FoundEnd(d, 0, e)
    PROVE  IF n < 3 THEN e = 0 ELSE e = 2 /\ d[1] = r.line
<1>1. T[1] = r.line /\ T[2] = "cr" /\ T[3] = "lf" /\ r.line # "cr"
  BY HeaderNames DEF Laid, Typed
<1>2. Len(d) = n /\ n \in Nat /\ \A i \in 1 .. n : d[i] = T[i]
  BY DEF Pushed, Laid
<1>3. CASE n < 3
  <2> SUFFICES ASSUME e # 0 PROVE FALSE
    BY <1>3
  <2>1. e \in 1 .. n - 1 /\ d[e] = "cr"
    BY <1>2 DEF FoundEnd, EndAt
  <2>2. e = 1 /\ 1 \in 1 .. n
    BY <1>2, <1>3, <2>1
  <2> QED BY <1>1, <1>2, <2>1, <2>2
<1>4. CASE ~(n < 3)
  <2>1. d[1] = r.line /\ d[2] = "cr" /\ d[3] = "lf" /\ 2 \in 1 .. n - 1 /\ 1 \in 1 .. n
    BY <1>1, <1>2, <1>4
  <2>2. EndAt(d, 2) /\ ~EndAt(d, 1)
    BY <1>1, <2>1 DEF EndAt
  <2>3. e # 0 /\ e \in 1 .. n - 1 /\ EndAt(d, e) /\ \A i \in 1 .. e - 1 : ~EndAt(d, i)
    BY <1>2, <2>1, <2>2 DEF FoundEnd
  <2>4. e # 1
    BY <2>2, <2>3
  <2>5. ~(2 < e)
    <3> SUFFICES ASSUME 2 < e PROVE FALSE
      OBVIOUS
    <3>1. 2 \in 1 .. e - 1
      BY <2>3, <1>2
    <3> QED BY <3>1, <2>2, <2>3
  <2> QED BY <1>4, <2>1, <2>3, <2>4, <2>5, <1>2
<1> QED BY <1>3, <1>4

(* The end of the head: before it no line is empty.                        *)
LEMMA HeadEnds ==
    ASSUME NEW r, Typed(r), r.headers # << >>, NEW T, NEW Q, Laid(T, r, Q),
           NEW n, NEW d, Pushed(T, n, d), NEW e, FoundEmpty(d, 3, e)
    PROVE  IF n < HeadLen(r) THEN e = 0 ELSE e = HeadLen(r) - 3
<1>1. PICK k \in Nat : k = Len(r.headers) /\ k # 0
  <2>1. PICK hs \in Seq(DOMAIN NameOf) : hs = r.headers
    BY DEF Typed
  <2>2. Len(hs) \in Nat /\ Len(hs) # 0
    BY <2>1, EmptySeq
  <2> QED BY <2>1, <2>2
<1>2. PICK h \in Nat : h = 3 * k + 5 /\ h = HeadLen(r)
  BY <1>1 DEF HeadLen
<1>3. /\ \A i \in 1 .. k : T[3 * i + 1] # "cr" /\ T[3 * i + 2] = "cr" /\ T[3 * i + 3] = "lf"
      /\ T[h - 1] = "cr" /\ T[h] = "lf"
  <2>1. \A i \in 1 .. k : r.headers[i] # "cr"
    BY <1>1, HeaderNames DEF Typed
  <2> QED BY <2>1, <1>1, <1>2 DEF Laid
<1>4. ASSUME NEW i \in 4 .. h - 4 PROVE ~(T[i] = "cr" /\ T[i + 2] = "cr")
  <2>1. PICK j \in Nat : i = 3 * j + 1 \/ i = 3 * j + 2 \/ i = 3 * j + 3
    <3>1. PICK x \in Nat : x = i - 1
      OBVIOUS
    <3>2. (x \div 3) \in Nat /\ (x % 3) \in 0 .. 2 /\ x = 3 * (x \div 3) + (x % 3)
      OBVIOUS
    <3>3. i = x + 1 /\ ((x % 3) = 0 \/ (x % 3) = 1 \/ (x % 3) = 2)
      BY <3>1, <3>2
    <3> QED BY <3>2, <3>3
  <2>2. j \in 1 .. k
    BY <1>2, <2>1
  <2>3. CASE i = 3 * j + 1
    BY <2>2, <2>3, <1>3
  <2>4. CASE i = 3 * j + 2
    <3>1. j + 1 \in 1 .. k
      BY <1>2, <2>2, <2>4
    <3>2. 3 * (j + 1) + 1 = i + 2
      BY <2>4
    <3>3. \A x \in 1 .. k : T[3 * x + 1] # "cr"
      BY <1>3
    <3> QED BY <3>1, <3>2, <3>3
  <2>5. CASE i = 3 * j + 3
    <3>1. T[i] = "lf"
      BY <2>2, <2>5, <1>3
    <3> QED BY <3>1
  <2> QED BY <2>1, <2>3, <2>4, <2>5
<1>5. Len(d) = n /\ n \in Nat /\ \A i \in 1 .. n : d[i] = T[i]
  BY DEF Pushed, Laid
<1>6. \A i \in 4 .. h - 4 : i <= n - 3 => ~EmptyAt(d, i)
  <2> TAKE i \in 4 .. h - 4
  <2> SUFFICES ASSUME i <= n - 3 PROVE ~EmptyAt(d, i)
    OBVIOUS
  <2>1. i \in 1 .. n /\ i + 2 \in 1 .. n
    BY <1>2, <1>5
  <2>2. d[i] = T[i] /\ d[i + 2] = T[i + 2]
    BY <1>5, <2>1
  <2> QED BY <2>2, <1>4 DEF EmptyAt, EndAt
<1>7. CASE n < h
  <2> SUFFICES ASSUME e # 0 PROVE FALSE
    BY <1>2, <1>7
  <2>1. e \in 4 .. n - 3 /\ EmptyAt(d, e)
    BY <1>5 DEF FoundEmpty
  <2>2. e \in 4 .. h - 4 /\ e <= n - 3
    BY <1>2, <1>5, <1>7, <2>1
  <2> QED BY <1>6, <2>1, <2>2
<1>8. CASE ~(n < h)
  <2>1. EmptyAt(d, h - 3)
    <3>1. T[3 * k + 2] = "cr" /\ T[3 * k + 3] = "lf"
      BY <1>1, <1>3
    <3>2. h - 3 = 3 * k + 2 /\ (h - 3) + 1 = 3 * k + 3 /\ (h - 3) + 2 = h - 1 /\ ((h - 3) + 2) + 1 = h
      BY <1>2
    <3>3. h - 3 \in 1 .. n /\ (h - 3) + 1 \in 1 .. n /\ h - 1 \in 1 .. n /\ h \in 1 .. n
      BY <1>2, <1>5, <1>8
    <3> QED BY <3>1, <3>2, <3>3, <1>3, <1>5 DEF EmptyAt, EndAt
  <2>2. h - 3 \in 4 .. n - 3
    BY <1>1, <1>2, <1>5, <1>8
  <2>3. e # 0 /\ e \in 4 .. n - 3 /\ EmptyAt(d, e) /\ \A i \in 4 .. e - 1 : ~EmptyAt(d, i)
    BY <1>5, <2>1, <2>2 DEF FoundEmpty
  <2>4. ~(e < h - 3)
    <3> SUFFICES ASSUME e < h - 3 PROVE FALSE
      OBVIOUS
    <3>1. e \in 4 .. h - 4 /\ e <= n - 3
      BY <2>3, <1>2, <1>5
    <3> QED BY <3>1, <1>6, <2>3
  <2>5. ~(h - 3 < e)
    <3> SUFFICES ASSUME h - 3 < e PROVE FALSE
      OBVIOUS
    <3>1. h - 3 \in 4 .. e - 1
      BY <2>2, <2>3, <1>2, <1>5
    <3> QED BY <3>1, <2>1, <2>3
  <2>6. e = h - 3
    BY <2>3, <2>4, <2>5, <1>2, <1>5
  <2> QED BY <2>6, <1>2, <1>8
<1> QED BY <1>2, <1>7, <1>8

-----------------------------------------------------------------------------
(***************************************************************************)
(* Where chunks end, and what is kept of the headers.                      *)
(***************************************************************************)
(* Numbers that rise from each to the next rise throughout.                *)
LEMMA Rising ==
    ASSUME NEW n \in Nat, NEW Q \in [0 .. n -> Nat], \A i \in 1 .. n : Q[i - 1] <= Q[i]
    PROVE  \A i \in 0 .. n : \A j \in i .. n : Q[i] <= Q[j]
<1> DEFINE T == {x \in Nat : x <= n => \A i \in 0 .. x : Q[i] <= Q[x]}
<1>1. 0 \in T
  OBVIOUS
<1>2. ASSUME NEW x \in T PROVE x + 1 \in T
  <2>1. x \in Nat /\ (x <= n => \A i \in 0 .. x : Q[i] <= Q[x])
    OBVIOUS
  <2> HIDE DEF T
  <2> SUFFICES ASSUME x + 1 <= n, NEW i \in 0 .. x + 1 PROVE Q[i] <= Q[x + 1]
    BY <2>1 DEF T
  <2>2. x + 1 \in 1 .. n /\ (x + 1) - 1 = x /\ x <= n /\ i \in 0 .. n /\ x \in 0 .. n /\ x + 1 \in 0 .. n
    BY <2>1
  <2>3. Q[x] <= Q[x + 1] /\ Q[x] \in Nat /\ Q[x + 1] \in Nat /\ Q[i] \in Nat
    BY <2>2
  <2>4. CASE i = x + 1
    BY <2>3, <2>4
  <2>5. CASE i \in 0 .. x
    BY <2>1, <2>2, <2>3, <2>5
  <2> QED BY <2>1, <2>4, <2>5
<1>3. T = Nat
  <2>1. T \in SUBSET Nat
    OBVIOUS
  <2> HIDE DEF T
  <2> QED BY <2>1, <1>1, <1>2, Induction
<1> SUFFICES ASSUME NEW i \in 0 .. n, NEW j \in i .. n PROVE Q[i] <= Q[j]
  OBVIOUS
<1>4. j \in T
  <2> HIDE DEF T
  <2>1. j \in Nat
    OBVIOUS
  <2> QED BY <2>1, <1>3
<1>5. j <= n /\ i \in 0 .. j
  OBVIOUS
<1> QED BY <1>4, <1>5

(* Where the chunks end, in order.                                         *)
Order(T, r, Q, h, K) ==
    /\ h \in Nat /\ h = HeadLen(r) /\ K \in Nat /\ K = Len(r.chunks)
    /\ Q \in [0 .. K -> Nat] /\ Q[0] = h /\ h >= 5
    /\ \A i \in 1 .. K : Len(r.chunks[i]) \in Nat /\ Q[i] = Q[i - 1] + Len(r.chunks[i]) + 5
    /\ \A i \in 0 .. K : h <= Q[i] /\ Q[i] <= Q[K]
    /\ Len(T) = Q[K] + Len(r.body) /\ Len(r.body) \in Nat

(* The chunks of a text end in order, behind its head.                     *)
LEMMA LaidOrder ==
    ASSUME NEW r, Typed(r), NEW T, NEW Q, Laid(T, r, Q)
    PROVE  Order(T, r, Q, HeadLen(r), Len(r.chunks))
<1>1. PICK hs \in Seq(DOMAIN NameOf), cs \in Seq(Seq(STRING)), b \in Seq(STRING) :
          hs = r.headers /\ cs = r.chunks /\ b = r.body
  BY DEF Typed
<1>2. PICK K \in Nat, k \in Nat, m \in Nat : K = Len(cs) /\ k = Len(hs) /\ m = Len(b)
  OBVIOUS
<1>3. HeadLen(r) = 3 * k + 5 /\ 3 * k + 5 \in Nat /\ 3 * k + 5 >= 5
  BY <1>1, <1>2 DEF HeadLen
<1>4. Q \in [0 .. K -> Nat] /\ Q[0] = HeadLen(r) /\ \A i \in 1 .. K : Q[i] = Q[i - 1] + Len(cs[i]) + 5
  BY <1>1, <1>2 DEF Laid, ChunksAt
<1>5. \A i \in 1 .. K : cs[i] \in Seq(STRING) /\ Len(cs[i]) \in Nat
  BY <1>2
<1>6. \A i \in 1 .. K : Q[i - 1] <= Q[i]
  <2> TAKE i \in 1 .. K
  <2>1. i - 1 \in 0 .. K
    OBVIOUS
  <2>2. PICK q \in Nat, l \in Nat : q = Q[i - 1] /\ l = Len(cs[i])
    BY <2>1, <1>4, <1>5
  <2> QED BY <2>2, <1>4
<1>7. \A i \in 0 .. K : \A j \in i .. K : Q[i] <= Q[j]
  BY <1>4, <1>6, Rising
<1>8. \A i \in 0 .. K : i \in 0 .. i /\ 0 \in 0 .. K /\ i \in 0 .. K /\ K \in i .. K /\ i \in 0 .. K
  OBVIOUS
<1>9. \A i \in 0 .. K : Q[0] <= Q[i] /\ Q[i] <= Q[K]
  BY <1>7, <1>8
<1>10. Len(T) = Q[K] + Len(b)
  BY <1>1, <1>2 DEF Laid
<1> QED BY <1>1, <1>2, <1>3, <1>4, <1>5, <1>9, <1>10 DEF Order

(* The headers that are kept: the first of each name.                      *)
HeadersKept(r, kept) ==
    /\ DOMAIN kept = {NameOf[r.headers[i]] : i \in 1 .. Len(r.headers)}
    /\ \A i \in 1 .. Len(r.headers) :
          (\A j \in 1 .. i - 1 : NameOf[r.headers[j]] # NameOf[r.headers[i]])
              => kept[NameOf[r.headers[i]]] = r.headers[i]

LinesIn(d, top, end) == {i \in top + 1 .. end - 1 : d[i] \in DOMAIN NameOf}

(* The lines of a head that was pushed whole are those of the headers.     *)
LEMMA LinesRead ==
    ASSUME NEW r, Typed(r), NEW T, NEW Q, Laid(T, r, Q), NEW n, NEW d, Pushed(T, n, d),
           n >= HeadLen(r), NEW lines, lines = LinesIn(d, 3, HeadLen(r) - 3)
    PROVE  /\ lines = {3 * j + 1 : j \in 1 .. Len(r.headers)}
           /\ \A j \in 1 .. Len(r.headers) : d[3 * j + 1] = r.headers[j]
<1>1. PICK k \in Nat : k = Len(r.headers)
  BY DEF Typed
<1>2. PICK h \in Nat : h = 3 * k + 5 /\ h = HeadLen(r)
  BY <1>1 DEF HeadLen
<1>3. n \in Nat /\ \A i \in 1 .. n : d[i] = T[i]
  BY DEF Pushed, Laid
<1>4. \A j \in 1 .. k : /\ T[3 * j + 1] = r.headers[j] /\ T[3 * j + 2] = "cr" /\ T[3 * j + 3] = "lf"
                        /\ r.headers[j] \in DOMAIN NameOf
  BY <1>1 DEF Laid, Typed
<1>5. "cr" \notin DOMAIN NameOf /\ "lf" \notin DOMAIN NameOf
  BY HeaderNames
<1>6. ASSUME NEW j \in 1 .. k
      PROVE  /\ 3 * j + 1 \in 4 .. h - 4 /\ d[3 * j + 1] = r.headers[j]
             /\ d[3 * j + 2] = "cr" /\ d[3 * j + 3] = "lf"
  <2>1. /\ 3 * j + 1 \in 4 .. h - 4 /\ 3 * j + 1 \in 1 .. n
        /\ 3 * j + 2 \in 1 .. n /\ 3 * j + 3 \in 1 .. n
    BY <1>2, <1>3
  <2> QED BY <2>1, <1>3, <1>4
<1>7. ASSUME NEW i \in 4 .. h - 4, d[i] \in DOMAIN NameOf
      PROVE  \E j \in 1 .. k : i = 3 * j + 1
  <2>1. PICK x \in Nat : x = i - 1
    OBVIOUS
  <2>2. PICK j \in Nat, m \in 0 .. 2 : x = 3 * j + m
    <3>1. (x \div 3) \in Nat /\ (x % 3) \in 0 .. 2 /\ x = 3 * (x \div 3) + (x % 3)
      OBVIOUS
    <3> QED BY <3>1
  <2>3. j \in 1 .. k /\ (i = 3 * j + 1 \/ i = 3 * j + 2 \/ i = 3 * j + 3)
    BY <1>2, <2>1, <2>2
  <2>4. i # 3 * j + 2 /\ i # 3 * j + 3
    BY <1>5, <1>6, <1>7, <2>3
  <2> QED BY <2>3, <2>4
<1>8. lines = {i \in 4 .. h - 4 : d[i] \in DOMAIN NameOf}
  <2>1. 3 + 1 = 4 /\ (HeadLen(r) - 3) - 1 = h - 4
    BY <1>2
  <2> QED BY <2>1 DEF LinesIn
<1>9. \A j \in 1 .. k : d[3 * j + 1] \in DOMAIN NameOf
  BY <1>4, <1>6
<1>10. lines = {3 * j + 1 : j \in 1 .. k}
  <2>1. ASSUME NEW i \in lines PROVE \E j \in 1 .. k : i = 3 * j + 1
    BY <1>7, <1>8
  <2>2. ASSUME NEW j \in 1 .. k PROVE 3 * j + 1 \in lines
    BY <1>6, <1>8, <1>9
  <2> QED BY <2>1, <2>2
<1> QED BY <1>1, <1>6, <1>10

\* the first line of each name, as Parse keeps it
KeptOf(d, lines) ==
    [x \in {NameOf[d[i]] : i \in lines} |-> d[Min({i \in lines : NameOf[d[i]] = x})]]

(* Of them the headers are kept that should be.                            *)
LEMMA HeadersRead ==
    ASSUME NEW r, Typed(r), NEW T, NEW Q, Laid(T, r, Q), NEW n, NEW d, Pushed(T, n, d),
           n >= HeadLen(r), NEW lines, lines = LinesIn(d, 3, HeadLen(r) - 3),
           NEW kept, kept = KeptOf(d, lines)
    PROVE  HeadersKept(r, kept)
<1>1. PICK k \in Nat : k = Len(r.headers)
  BY DEF Typed
<1>2. lines = {3 * j + 1 : j \in 1 .. k} /\ \A j \in 1 .. k : d[3 * j + 1] = r.headers[j]
  BY <1>1, LinesRead
<1>3. {NameOf[d[i]] : i \in lines} = {NameOf[r.headers[j]] : j \in 1 .. k}
  BY <1>2
<1>4. ASSUME NEW i \in 1 .. k, \A j \in 1 .. i - 1 : NameOf[r.headers[j]] # NameOf[r.headers[i]]
      PROVE  kept[NameOf[r.headers[i]]] = r.headers[i]
  <2> DEFINE x == NameOf[r.headers[i]]
             at == {p \in lines : NameOf[d[p]] = x}
  <2>1. at \in SUBSET Nat /\ 3 * i + 1 \in at
    BY <1>2
  <2>2. \A p \in at : \E j \in i .. k : p = 3 * j + 1
    <3> TAKE p \in at
    <3>1. PICK j \in 1 .. k : p = 3 * j + 1 /\ NameOf[r.headers[j]] = x
      BY <1>2
    <3>2. j \notin 1 .. i - 1
      BY <1>4, <3>1
    <3> QED BY <3>1, <3>2
  <2>3. \A p \in at : 3 * i + 1 <= p
    BY <2>2
  <2>4. kept[x] = d[Min(at)]
    BY <1>3 DEF KeptOf
  <2> HIDE DEF at, x
  <2>5. Min(at) \in at /\ \A p \in at : Min(at) <= p
    BY <2>1, MinIsLeast
  <2>6. Min(at) = 3 * i + 1
    <3>1. PICK p \in Nat : p = Min(at)
      BY <2>1, <2>5
    <3>2. PICK q \in Nat : q = 3 * i + 1
      OBVIOUS
    <3>3. p <= q /\ q <= p
      BY <2>1, <2>3, <2>5, <3>1, <3>2
    <3> QED BY <3>1, <3>2, <3>3
  <2> QED BY <2>4, <2>6, <1>2 DEF x
<1>5. DOMAIN kept = {NameOf[r.headers[j]] : j \in 1 .. k}
  BY <1>3 DEF KeptOf
<1> QED BY <1>1, <1>4, <1>5 DEF HeadersKept

-----------------------------------------------------------------------------
(***************************************************************************)
(* The loop over the chunks.                                               *)
(***************************************************************************)
\* the length that a line gives: nothing but its first symbol counts
LengthAt(d, at, e, len) ==
    e # 0 => len = IF e = at + 1 \/ d[at + 1] \notin DOMAIN SizeOf THEN 0 ELSE SizeOf[d[at + 1]]

\* what one turn makes of l
TurnIs(l, t, d, n, at, e, len) ==
    IF e = 0 \/ len < 0 THEN t = [l EXCEPT !.turn = "stays"]
    ELSE IF len = 0 /\ n = e + 3 THEN t = [l EXCEPT !.turn = "finished", !.early = (e = at + 1)]
    ELSE IF len = 0 THEN t = [l EXCEPT !.at = e + 1]
    ELSE IF n < e + len + 3 THEN t = [l EXCEPT !.turn = "stays"]
    ELSE t = [l EXCEPT !.at = e + len + 1, !.handled = e + len + 1,
                       !.bodys = Append(@, SubSeq(d, e + 2, e + len + 1))]

TurnFound(l, t, d, n, at) ==
    \E e \in Nat, len \in Int : FoundEnd(d, at, e) /\ LengthAt(d, at, e, len) /\ TurnIs(l, t, d, n, at, e, len)

(* A turn of the loop is at the first end of a line behind its place.      *)
LEMMA TurnTaken ==
    ASSUME NEW d \in Seq(Symbols), d = Data, NEW n \in Nat, n = Len(d),
           NEW l, NEW at \in Nat, at = l.at, NEW t, t = Turn(l)
    PROVE  TurnFound(l, t, d, n, at)
<1>1. PICK e : e = Find(d, at, Crlf)
  OBVIOUS
<1>2. FoundEnd(d, at, e)
  BY <1>1, FindsEnd
<1>3. PICK key : key = SubSeq(d, at + 1, e - 1)
  OBVIOUS
<1>4. PICK len : len = IF key = << >> \/ Head(key) \notin DOMAIN SizeOf THEN 0 ELSE SizeOf[Head(key)]
  OBVIOUS
<1>5. len \in Int
  BY <1>4, SymbolsAssumption
<1>6. e \in Nat
  BY <1>2 DEF FoundEnd
<1>7. ASSUME e # 0
      PROVE  /\ (key = << >>) = (e = at + 1)
             /\ e # at + 1 => Head(key) = d[at + 1]
  <2>1. e \in at + 1 .. n - 1
    BY <1>2, <1>7 DEF FoundEnd
  <2>2. CASE e = at + 1
    <3>1. key = SubSeq(d, at + 1, at) /\ at < at + 1 /\ at + 1 \in Int
      BY <1>3, <2>2
    <3>2. key = << >>
      BY <3>1, SubSeqEmpty
    <3> QED BY <2>2, <3>2
  <2>3. CASE e # at + 1
    <3>1. at + 1 \in 1 .. n /\ e - 1 \in 1 .. n /\ at + 1 <= e - 1
      BY <2>1, <2>3
    <3>2. key \in Seq(Symbols) /\ Len(key) = (e - 1) - (at + 1) + 1 /\ key[1] = d[(at + 1) + 1 - 1]
      BY <1>3, <3>1
    <3>3. Len(key) # 0 /\ (at + 1) + 1 - 1 = at + 1
      BY <3>1, <3>2
    <3>4. key # << >> /\ Head(key) = key[1]
      BY <3>2, <3>3
    <3> QED BY <2>3, <3>2, <3>3, <3>4
  <2> QED BY <2>2, <2>3
<1>8. LengthAt(d, at, e, len)
  BY <1>4, <1>7 DEF LengthAt
<1>9. PICK start, surplus : start = e + 2 /\ surplus = n - start + 1
  OBVIOUS
<1>10. t = CASE e = 0 \/ len < 0 -> [l EXCEPT !.turn = "stays"]
             [] e # 0 /\ AtEnd(len, surplus) ->
                    [l EXCEPT !.turn = "finished", !.early = (key = << >> /\ surplus = 2)]
             [] e # 0 /\ len = 0 /\ ~AtEnd(len, surplus) -> [l EXCEPT !.at = start - 1]
             [] e # 0 /\ len > 0 /\ surplus < len + 2 -> [l EXCEPT !.turn = "stays"]
             [] OTHER -> [l EXCEPT !.at = start - 1 + len, !.handled = Handled(l, start, len),
                                   !.bodys = Append(@, SubSeq(d, start, start + len - 1))]
  BY <1>1, <1>3, <1>4, <1>9, Zenon DEF Turn
<1>11. /\ start - 1 = e + 1 /\ start - 1 + len = e + len + 1 /\ start = e + 2 /\ start + len - 1 = e + len + 1
       /\ (surplus = 2) = (n = e + 3) /\ (surplus < len + 2) = (n < e + len + 3)
       /\ Handled(l, start, len) = e + len + 1 /\ AtEnd(len, surplus) = (len = 0 /\ n = e + 3)
  BY <1>5, <1>6, <1>9 DEF Handled, AtEnd
<1>12. PICK stays, finished, passes, takes :
           /\ stays = [l EXCEPT !.turn = "stays"]
           /\ finished = [l EXCEPT !.turn = "finished", !.early = (key = << >> /\ surplus = 2)]
           /\ passes = [l EXCEPT !.at = start - 1]
           /\ takes = [l EXCEPT !.at = start - 1 + len, !.handled = Handled(l, start, len),
                                 !.bodys = Append(@, SubSeq(d, start, start + len - 1))]
  OBVIOUS
<1>13. t = CASE e = 0 \/ len < 0 -> stays
             [] e # 0 /\ AtEnd(len, surplus) -> finished
             [] e # 0 /\ len = 0 /\ ~AtEnd(len, surplus) -> passes
             [] e # 0 /\ len > 0 /\ surplus < len + 2 -> stays
             [] OTHER -> takes
  BY <1>10, <1>12, Zenon
<1>14. t = IF e = 0 \/ len < 0 THEN stays
           ELSE IF len = 0 /\ n = e + 3 THEN finished
           ELSE IF len = 0 THEN passes
           ELSE IF n < e + len + 3 THEN stays ELSE takes
  <2>1. t = CASE e = 0 \/ len < 0 -> stays
             [] e # 0 /\ len = 0 /\ surplus = 2 -> finished
             [] e # 0 /\ len = 0 /\ ~(len = 0 /\ surplus = 2) -> passes
             [] e # 0 /\ len > 0 /\ surplus < len + 2 -> stays
             [] OTHER -> takes
    BY <1>13 DEF AtEnd
  <2> QED BY <1>5, <1>6, <1>11, <2>1
<1>15. TurnIs(l, t, d, n, at, e, len)
  <2>1. CASE e = 0 \/ len < 0
    BY <1>12, <1>14, <2>1 DEF TurnIs
  <2>2. CASE e # 0 /\ ~(len < 0) /\ len = 0 /\ n = e + 3
    <3>1. t = [l EXCEPT !.turn = "finished", !.early = (key = << >> /\ surplus = 2)]
      BY <1>12, <1>14, <2>2
    <3>2. (key = << >> /\ surplus = 2) = (e = at + 1)
      BY <1>7, <1>11, <2>2
    <3>3. t = [l EXCEPT !.turn = "finished", !.early = (e = at + 1)]
      BY <3>1, <3>2
    <3> QED BY <3>3, <2>2 DEF TurnIs
  <2>3. CASE e # 0 /\ ~(len < 0) /\ len = 0 /\ n # e + 3
    <3>1. t = [l EXCEPT !.at = start - 1]
      BY <1>12, <1>14, <2>3
    <3> QED BY <3>1, <1>11, <2>3 DEF TurnIs
  <2>4. CASE e # 0 /\ ~(len < 0) /\ len # 0 /\ n < e + len + 3
    <3>1. t = [l EXCEPT !.turn = "stays"]
      BY <1>12, <1>14, <2>4
    <3> QED BY <3>1, <2>4 DEF TurnIs
  <2>5. CASE e # 0 /\ ~(len < 0) /\ len # 0 /\ ~(n < e + len + 3)
    <3>1. t = [l EXCEPT !.at = start - 1 + len, !.handled = Handled(l, start, len),
                        !.bodys = Append(@, SubSeq(d, start, start + len - 1))]
      BY <1>12, <1>14, <2>5
    <3> QED BY <3>1, <1>11, <2>5 DEF TurnIs
  <2> QED BY <2>1, <2>2, <2>3, <2>4, <2>5
<1> QED BY <1>2, <1>5, <1>6, <1>8, <1>15 DEF TurnFound

\* chunk i of a good response, whose length its first line gives
ChunkRead(T, q, c) ==
    /\ T[q + 1] \in DOMAIN SizeOf /\ SizeOf[T[q + 1]] = Len(c) /\ T[q + 1] # "cr"
    /\ T[q + 2] = "cr" /\ T[q + 3] = "lf"
    /\ \A j \in 1 .. Len(c) : T[q + 3 + j] = c[j]
    /\ T[q + Len(c) + 4] = "cr" /\ T[q + Len(c) + 5] = "lf"

\* the text T of a good response r, of which n symbols are in d
ChunksPushed(T, r, Q, h, K, n, d) ==
    /\ Order(T, r, Q, h, K) /\ K # 0 /\ Pushed(T, n, d) /\ h <= n
    /\ r.chunks \in Seq(Seq(STRING))
    /\ \A i \in 1 .. K : ChunkRead(T, Q[i - 1], r.chunks[i])
    /\ \A i \in 1 .. K : i # K => r.chunks[i] # << >>
    /\ \A i \in Nat : Q[K] < i /\ i <= Len(T) /\ T[i] \in DOMAIN SizeOf => SizeOf[T[i]] <= 0

(* The chunks of a response that is good are those of its text.            *)
LEMMA GoodChunks ==
    ASSUME NEW r, Typed(r), r.chunks # << >>, ChunksGood(r), NEW T, NEW Q, Laid(T, r, Q),
           NEW n, NEW d, Pushed(T, n, d), HeadLen(r) <= n
    PROVE  ChunksPushed(T, r, Q, HeadLen(r), Len(r.chunks), n, d)
<1>1. Order(T, r, Q, HeadLen(r), Len(r.chunks))
  BY LaidOrder
<1>2. PICK cs \in Seq(Seq(STRING)), K \in Nat : cs = r.chunks /\ K = Len(cs) /\ K # 0
  <2>1. PICK cs \in Seq(Seq(STRING)) : cs = r.chunks
    BY DEF Typed
  <2>2. Len(cs) \in Nat /\ Len(cs) # 0
    BY <2>1, EmptySeq
  <2> QED BY <2>1, <2>2
<1>3. \A i \in 1 .. K : /\ \E x \in DOMAIN SizeOf : SizeOf[x] = Len(cs[i])
                        /\ i # K => cs[i] # << >>
  <2>1. DOMAIN r.chunks = 1 .. K
    BY <1>2
  <2> QED BY <1>2, <2>1 DEF ChunksGood
<1>4. ASSUME NEW i \in 1 .. K PROVE ChunkRead(T, Q[i - 1], cs[i])
  <2>1. PICK q \in Nat, c \in Seq(STRING) : q = Q[i - 1] /\ c = cs[i]
    <3>1. i - 1 \in 0 .. K /\ cs[i] \in Seq(STRING)
      BY <1>2
    <3> QED BY <3>1, <1>1, <1>2 DEF Order
  <2>2. ChunkAt(T, q, c)
    BY <1>2, <2>1 DEF Laid, ChunksAt
  <2>3. PICK x : x = Digit(Len(c))
    OBVIOUS
  <2>4. x \in DOMAIN SizeOf /\ SizeOf[x] = Len(c)
    BY <1>3, <2>1, <2>3 DEF Digit
  <2>5. x # "cr"
    BY <2>4, SymbolsAssumption
  <2> QED BY <2>1, <2>2, <2>3, <2>4, <2>5 DEF ChunkAt, ChunkRead
<1>5. ASSUME NEW i \in Nat, Q[K] < i, i <= Len(T), T[i] \in DOMAIN SizeOf PROVE SizeOf[T[i]] <= 0
  <2>1. PICK b \in Seq(STRING), m \in Nat : b = r.body /\ m = Len(b)
    BY DEF Typed
  <2>2. PICK q \in Nat : q = Q[K]
    <3>1. K \in 0 .. K
      OBVIOUS
    <3> QED BY <3>1, <1>1, <1>2 DEF Order
  <2>3. Len(T) = q + m /\ \A j \in 1 .. m : T[q + j] = b[j]
    BY <1>2, <2>1, <2>2 DEF Laid
  <2>4. PICK j \in 1 .. m : i = q + j
    <3>1. i - q \in 1 .. m /\ i = q + (i - q)
      BY <1>5, <2>2, <2>3
    <3> QED BY <3>1
  <2>5. T[i] = b[j] /\ b[j] \in ToSet(b)
    BY <2>1, <2>3, <2>4 DEF ToSet
  <2> QED BY <1>5, <2>1, <2>5 DEF ChunksGood
<1> QED BY <1>1, <1>2, <1>3, <1>4, <1>5 DEF ChunksPushed

LoopStates == [turn : {"goes", "stays", "finished"}, early : BOOLEAN, at : Nat, handled : Nat,
               bodys : Seq(Seq(Symbols))]

After(Q, k) == IF k = 0 THEN Q[0] ELSE Q[k] - 2

\* the loop is at the end of chunk k, before the next, behind the line of an
\* empty one, or behind all of them
Stands(at, k, r, Q, K) ==
    \/ k > 0 /\ at = Q[k] - 2
    \/ k < K /\ at = Q[k]
    \/ k + 1 = K /\ r.chunks[K] = << >> /\ at = Q[k] + 3
    \/ (k = K \/ (k + 1 = K /\ r.chunks[K] = << >>)) /\ at >= Q[K]

OnWay(at, k, Q, K) == k < K /\ ((k > 0 /\ at = Q[k] - 2) \/ at = Q[k])

\* nothing is behind the last chunk, which is empty
Ends(r, K) == r.chunks[K] = << >> /\ Len(r.body) = 0

Taken(l, k, r, Q, K, n) ==
    /\ k \in 0 .. K /\ l.bodys = SubSeq(r.chunks, 1, k) /\ l.handled = After(Q, k)
    /\ k > 0 => Q[k] <= n
    /\ r.chunks[K] = << >> => k < K

LoopAt(l, i, k, r, Q, K, n) ==
    /\ l \in LoopStates /\ Taken(l, k, r, Q, K, n)
    /\ l.turn = "goes" => Stands(l.at, k, r, Q, K)
    /\ (Ends(r, K) /\ l.turn = "finished" /\ ~l.early) => n = Q[K] /\ k = K - 1
    /\ (Ends(r, K) /\ n = Q[K]) =>
           /\ l.turn # "stays"
           /\ l.turn = "goes" => OnWay(l.at, k, Q, K) /\ l.at >= i

Loop(l, i, r, Q, K, n) == \E k \in 0 .. K : LoopAt(l, i, k, r, Q, K, n)

(* A turn at the end of a chunk passes it.                                 *)
LEMMA TurnOnEnd ==
    ASSUME NEW T, NEW r, NEW Q, NEW h, NEW K, NEW n, NEW d, ChunksPushed(T, r, Q, h, K, n, d),
           NEW i \in Nat, NEW k, NEW l, LoopAt(l, i, k, r, Q, K, n), l.turn = "goes",
           k > 0, l.at = Q[k] - 2, NEW t, TurnFound(l, t, d, n, l.at)
    PROVE  Loop(t, i + 1, r, Q, K, n)
<1>1. PICK q \in Nat : q = Q[k] /\ q >= 10 /\ q <= n /\ k \in 1 .. K /\ K \in Nat
  <2>1. k \in 1 .. K /\ K \in Nat /\ k - 1 \in 0 .. K /\ k \in 0 .. K
    BY DEF LoopAt, Taken, ChunksPushed, Order
  <2>2. PICK p \in Nat, m \in Nat : p = Q[k - 1] /\ m = Len(r.chunks[k])
    BY <2>1 DEF ChunksPushed, Order
  <2>3. Q[k] = p + m + 5 /\ Q[k] \in Nat
    BY <2>1, <2>2 DEF ChunksPushed, Order
  <2>4. p >= 5
    <3>1. h \in Nat /\ h >= 5 /\ h <= Q[k - 1]
      BY <2>1 DEF ChunksPushed, Order
    <3> QED BY <2>2, <3>1
  <2>5. Q[k] <= n
    BY DEF LoopAt, Taken
  <2>6. PICK q \in Nat : q = Q[k]
    BY <2>3
  <2>7. q = p + m + 5
    BY <2>3, <2>6
  <2>8. q >= 10
    BY <2>4, <2>7
  <2> QED BY <2>1, <2>5, <2>6, <2>8
<1>2. n \in Nat /\ Len(d) = n /\ \A j \in 1 .. n : d[j] = T[j]
  BY DEF ChunksPushed, Pushed, Order
<1>3. d[q - 1] = "cr" /\ d[q] = "lf"
  <2>1. k - 1 \in 0 .. K
    BY <1>1
  <2>2. PICK p \in Nat, m \in Nat : p = Q[k - 1] /\ m = Len(r.chunks[k]) /\ q = p + m + 5
    BY <1>1, <2>1 DEF ChunksPushed, Order
  <2>3. T[p + m + 4] = "cr" /\ T[p + m + 5] = "lf"
    BY <1>1, <2>2 DEF ChunksPushed, ChunkRead
  <2>4. q - 1 = p + m + 4 /\ q - 1 \in 1 .. n /\ q \in 1 .. n
    <3>1. q <= n /\ q >= 10 /\ n \in Nat /\ q = p + m + 5
      BY <1>1, <1>2, <2>2
    <3> QED BY <3>1
  <2> QED BY <1>2, <2>2, <2>3, <2>4
<1>4. PICK e \in Nat, len \in Int :
          FoundEnd(d, q - 2, e) /\ LengthAt(d, q - 2, e, len) /\ TurnIs(l, t, d, n, q - 2, e, len)
  BY <1>1 DEF TurnFound
<1>5. e = q - 1
  <2>1. q - 1 \in (q - 2) + 1 .. n - 1 /\ EndAt(d, q - 1) /\ (q - 1) + 1 = q /\ (q - 2) + 1 = q - 1
    BY <1>1, <1>2, <1>3 DEF EndAt
  <2>2. e # 0
    BY <1>2, <1>4, <2>1 DEF FoundEnd
  <2>3. e \in q - 1 .. n - 1 /\ \A j \in q - 1 .. e - 1 : ~EndAt(d, j)
    BY <1>2, <1>4, <2>1, <2>2 DEF FoundEnd
  <2>4. ~(q - 1 < e)
    <3> SUFFICES ASSUME q - 1 < e PROVE FALSE
      OBVIOUS
    <3>1. q - 1 \in q - 1 .. e - 1
      BY <1>1
    <3> QED BY <3>1, <2>1, <2>3
  <2> QED BY <1>1, <2>3, <2>4
<1>6. len = 0 /\ e # 0 /\ (e = (q - 2) + 1) = TRUE /\ e + 1 = q /\ e + 3 = q + 2
  BY <1>1, <1>4, <1>5 DEF LengthAt
<1>7. l \in LoopStates /\ Taken(l, k, r, Q, K, n)
  BY DEF LoopAt
<1>8. CASE n = q + 2
  <2>1. t = [l EXCEPT !.turn = "finished", !.early = TRUE]
    <3>1. t = [l EXCEPT !.turn = "finished", !.early = (e = (q - 2) + 1)]
      BY <1>4, <1>6, <1>8 DEF TurnIs
    <3> QED BY <3>1, <1>6
  <2>2. t \in LoopStates /\ t.turn = "finished" /\ t.early = TRUE /\ t.bodys = l.bodys /\ t.handled = l.handled
    BY <1>7, <2>1 DEF LoopStates
  <2>3. Taken(t, k, r, Q, K, n)
    BY <1>7, <2>2 DEF Taken
  <2>4. LoopAt(t, i + 1, k, r, Q, K, n)
    BY <2>2, <2>3 DEF LoopAt
  <2> QED BY <2>4, <1>1 DEF Loop
<1>9. CASE n # q + 2
  <2>1. t = [l EXCEPT !.at = q]
    BY <1>4, <1>6, <1>9 DEF TurnIs
  <2>2. t \in LoopStates /\ t.turn = "goes" /\ t.at = q /\ t.bodys = l.bodys /\ t.handled = l.handled
    BY <1>7, <2>1 DEF LoopStates
  <2>3. Taken(t, k, r, Q, K, n)
    BY <1>7, <2>2 DEF Taken
  <2>4. Stands(q, k, r, Q, K)
    <3>1. k < K \/ k = K
      BY <1>1
    <3>2. CASE k < K
      BY <3>2, <1>1 DEF Stands
    <3>3. CASE k = K
      <4>1. q >= Q[K]
        BY <3>3, <1>1
      <4> QED BY <3>3, <4>1 DEF Stands
    <3> QED BY <3>1, <3>2, <3>3
  <2>5. ASSUME Ends(r, K), n = Q[K] PROVE OnWay(q, k, Q, K) /\ q >= i + 1
    <3>1. k < K
      BY <1>7, <2>5 DEF Ends, Taken
    <3>2. q - 2 >= i
      BY <1>1, <2>5 DEF LoopAt
    <3> QED BY <3>1, <3>2, <1>1 DEF OnWay
  <2>6. LoopAt(t, i + 1, k, r, Q, K, n)
    BY <2>2, <2>3, <2>4, <2>5 DEF LoopAt
  <2> QED BY <2>6, <1>1 DEF Loop
<1> QED BY <1>8, <1>9

(* The next chunk of a list that was taken to chunk k.                     *)
LEMMA NextTaken ==
    ASSUME NEW cs \in Seq(Seq(STRING)), NEW k \in Nat, k < Len(cs), NEW c, c = cs[k + 1],
           NEW b, b = SubSeq(cs, 1, k)
    PROVE  Append(b, c) = SubSeq(cs, 1, k + 1)
<1>1. PICK K \in Nat : K = Len(cs)
  OBVIOUS
<1>2. \A i \in 1 .. K : cs[i] \in Seq(STRING)
  BY <1>1
<1>3. b \in Seq(Seq(STRING)) /\ Len(b) = k /\ \A i \in 1 .. k : b[i] = cs[i]
  BY <1>1
<1>4. PICK e : e = SubSeq(cs, 1, k + 1)
  OBVIOUS
<1>5. e \in Seq(Seq(STRING)) /\ Len(e) = k + 1 /\ \A i \in 1 .. k + 1 : e[i] = cs[i]
  BY <1>1, <1>4
<1>6. PICK a : a = Append(b, c)
  OBVIOUS
<1>7. /\ a \in Seq(Seq(STRING)) /\ Len(a) = k + 1
      /\ a[k + 1] = c /\ \A i \in 1 .. k : a[i] = b[i]
  <2>1. k + 1 \in 1 .. K
    BY <1>1
  <2>2. c \in Seq(STRING)
    BY <1>2, <2>1
  <2> QED BY <2>2, <1>3, <1>6
<1>8. \A i \in 1 .. k + 1 : a[i] = e[i]
  <2> TAKE i \in 1 .. k + 1
  <2>1. i = k + 1 \/ i \in 1 .. k
    OBVIOUS
  <2> QED BY <2>1, <1>3, <1>5, <1>7
<1>9. a = e
  <2>1. a \in [1 .. k + 1 -> Seq(STRING)] /\ e \in [1 .. k + 1 -> Seq(STRING)]
    BY <1>5, <1>7
  <2> QED BY <2>1, <1>8
<1> QED BY <1>4, <1>6, <1>9

(* The bytes of a chunk that is there in whole.                            *)
LEMMA ChunkThere ==
    ASSUME NEW T, NEW q \in Nat, NEW c \in Seq(STRING), ChunkRead(T, q, c),
           NEW n, NEW d, Pushed(T, n, d), q + Len(c) + 5 <= n
    PROVE  SubSeq(d, q + 4, q + Len(c) + 3) = c
<1>1. PICK m \in Nat : m = Len(c)
  OBVIOUS
<1>2. d \in Seq(Symbols) /\ Len(d) = n /\ n \in Nat /\ \A i \in 1 .. n : d[i] = T[i]
  BY DEF Pushed
<1>3. \A j \in 1 .. m : q + 3 + j \in 1 .. n /\ d[q + 3 + j] = c[j]
  <2> TAKE j \in 1 .. m
  <2>1. q + 3 + j \in 1 .. n
    BY <1>1, <1>2
  <2> QED BY <2>1, <1>1, <1>2 DEF ChunkRead
<1>4. PICK s : s = SubSeq(d, q + 4, q + m + 3)
  OBVIOUS
<1>5. \A i \in q + 4 .. q + m + 3 : d[i] \in Symbols
  <2> TAKE i \in q + 4 .. q + m + 3
  <2>1. i \in 1 .. n
    BY <1>1, <1>2
  <2> QED BY <2>1, <1>2
<1>6. PICK x \in Int, y \in Int : x = q + 4 /\ y = q + m + 3
  OBVIOUS
<1>7. s = SubSeq(d, x, y) /\ \A i \in x .. y : d[i] \in Symbols
  BY <1>4, <1>5, <1>6
<1>8. /\ s \in Seq(Symbols) /\ Len(s) = IF x <= y THEN y - x + 1 ELSE 0
      /\ \A i \in 1 .. y - x + 1 : s[i] = d[x + i - 1]
  BY <1>7, SubSeqProperties
<1>9. y - x + 1 = m /\ (x <= y) = (m # 0) /\ \A i \in 1 .. m : x + i - 1 = q + 3 + i
  BY <1>6
<1>10. Len(s) = m
  BY <1>8, <1>9
<1>11. \A i \in 1 .. m : s[i] = c[i]
  BY <1>3, <1>8, <1>9
<1>12. s = c
  <2>1. s = [i \in 1 .. m |-> s[i]] /\ c = [i \in 1 .. m |-> c[i]]
    BY <1>1, <1>8, <1>10
  <2> QED BY <2>1, <1>11
<1> QED BY <1>1, <1>4, <1>12

(* A turn before a chunk waits for it and takes it.                        *)
LEMMA TurnBefore ==
    ASSUME NEW T, NEW r, NEW Q, NEW h, NEW K, NEW n, NEW d, ChunksPushed(T, r, Q, h, K, n, d),
           NEW i \in Nat, NEW k, NEW l, LoopAt(l, i, k, r, Q, K, n), l.turn = "goes",
           k < K, l.at = Q[k], NEW t, TurnFound(l, t, d, n, l.at)
    PROVE  Loop(t, i + 1, r, Q, K, n)
<1>0. k + 1 \in 1 .. K /\ (k + 1) - 1 = k /\ K \in Nat /\ k \in 0 .. K /\ k + 1 \in 0 .. K /\ k \in Nat
  BY DEF LoopAt, Taken, ChunksPushed, Order
<1>1. PICK q \in Nat : q = Q[k]
  BY <1>0 DEF ChunksPushed, Order
<1>2. PICK c \in Seq(STRING), m \in Nat : c = r.chunks[k + 1] /\ m = Len(c)
  <2>1. PICK cs \in Seq(Seq(STRING)) : cs = r.chunks
    BY DEF ChunksPushed
  <2>2. Len(cs) = K
    BY <2>1 DEF ChunksPushed, Order
  <2>3. cs[k + 1] \in Seq(STRING) /\ Len(cs[k + 1]) \in Nat
    BY <2>2, <1>0
  <2> QED BY <2>1, <2>3
<1>3. /\ ChunkRead(T, q, c) /\ Q[k + 1] = q + m + 5 /\ (k + 1 # K => c # << >>)
      /\ (c = << >>) = (m = 0)
  <2>1. \A x \in 1 .. K : x # K => r.chunks[x] # << >>
    BY DEF ChunksPushed
  <2>2. (c = << >>) = (m = 0)
    BY <1>2, EmptySeq
  <2>3. ChunkRead(T, q, c) /\ Q[k + 1] = q + m + 5
    BY <1>0, <1>1, <1>2 DEF ChunksPushed, Order
  <2> QED BY <1>0, <1>2, <2>1, <2>2, <2>3
<1>4. d \in Seq(Symbols) /\ n \in Nat /\ Len(d) = n /\ \A j \in 1 .. n : d[j] = T[j]
  BY DEF ChunksPushed, Pushed, Order
<1>5. PICK e \in Nat, len \in Int :
          FoundEnd(d, q, e) /\ LengthAt(d, q, e, len) /\ TurnIs(l, t, d, n, q, e, len)
  BY <1>1 DEF TurnFound
<1>6. l \in LoopStates /\ Taken(l, k, r, Q, K, n) /\ (Ends(r, K) /\ n = Q[K] => l.at >= i)
  BY DEF LoopAt
<1>7. q + 1 <= n => d[q + 1] = T[q + 1] /\ d[q + 1] # "cr"
  BY <1>3, <1>4 DEF ChunkRead
<1>8. ASSUME NEW x \in 1 .. K, n = Q[K] PROVE Q[x] <= n
  <2>1. x \in 0 .. K
    BY <1>0
  <2> QED BY <2>1, <1>8 DEF ChunksPushed, Order
<1>9. ASSUME t = [l EXCEPT !.turn = "stays"], n < q + m + 5 PROVE Loop(t, i + 1, r, Q, K, n)
  <2>1. t \in LoopStates /\ t.turn = "stays" /\ t.bodys = l.bodys /\ t.handled = l.handled
    BY <1>6, <1>9 DEF LoopStates
  <2>2. Taken(t, k, r, Q, K, n)
    BY <1>6, <2>1 DEF Taken
  <2>3. n # Q[K]
    <3> SUFFICES ASSUME n = Q[K] PROVE FALSE
      OBVIOUS
    <3>1. Q[k + 1] <= n
      BY <1>0, <1>8
    <3> QED BY <3>1, <1>3, <1>4, <1>9
  <2>4. LoopAt(t, i + 1, k, r, Q, K, n)
    BY <2>1, <2>2, <2>3 DEF LoopAt
  <2> QED BY <2>4, <1>0 DEF Loop
<1>10. CASE n < q + 3
  <2>1. e = 0
    <3> SUFFICES ASSUME e # 0 PROVE FALSE
      OBVIOUS
    <3>1. e \in q + 1 .. n - 1 /\ d[e] = "cr"
      BY <1>4, <1>5 DEF FoundEnd, EndAt
    <3>2. e = q + 1 /\ q + 1 <= n
      BY <1>4, <1>10, <3>1
    <3> QED BY <3>1, <3>2, <1>7
  <2>2. t = [l EXCEPT !.turn = "stays"]
    BY <1>5, <2>1 DEF TurnIs
  <2>3. n < q + m + 5
    BY <1>4, <1>10
  <2> QED BY <2>2, <2>3, <1>9
<1>11. CASE ~(n < q + 3)
  <2>1. d[q + 1] = T[q + 1] /\ d[q + 1] # "cr" /\ d[q + 2] = "cr" /\ d[q + 3] = "lf"
    <3>1. q + 1 \in 1 .. n /\ q + 2 \in 1 .. n /\ q + 3 \in 1 .. n
      BY <1>4, <1>11
    <3> QED BY <3>1, <1>3, <1>4 DEF ChunkRead
  <2>2. e = q + 2
    <3>1. EndAt(d, q + 2) /\ q + 2 \in q + 1 .. n - 1 /\ ~EndAt(d, q + 1)
      <4>1. (q + 2) + 1 = q + 3 /\ q + 2 \in q + 1 .. n - 1
        BY <1>4, <1>11
      <4> QED BY <4>1, <2>1 DEF EndAt
    <3>2. e # 0
      BY <1>4, <1>5, <3>1 DEF FoundEnd
    <3>3. e \in q + 1 .. n - 1 /\ EndAt(d, e) /\ \A j \in q + 1 .. e - 1 : ~EndAt(d, j)
      BY <1>4, <1>5, <3>2 DEF FoundEnd
    <3>4. e # q + 1
      BY <3>1, <3>3
    <3>5. ~(q + 2 < e)
      <4> SUFFICES ASSUME q + 2 < e PROVE FALSE
        OBVIOUS
      <4>1. q + 2 \in q + 1 .. e - 1
        OBVIOUS
      <4> QED BY <4>1, <3>1, <3>3
    <3> QED BY <3>3, <3>4, <3>5, <1>4
  <2>3. len = m
    <3>1. e # 0 /\ e # q + 1
      BY <2>2
    <3>2. d[q + 1] \in DOMAIN SizeOf /\ SizeOf[d[q + 1]] = m
      BY <1>2, <1>3, <2>1 DEF ChunkRead
    <3> QED BY <3>1, <3>2, <1>5 DEF LengthAt
  <2>4. CASE m = 0
    <3>1. len = 0 /\ e # 0 /\ ~(e = 0 \/ len < 0) /\ (n = e + 3) = (n = q + 5) /\ e + 1 = q + 3 /\ (e = q + 1) = FALSE
      BY <2>2, <2>3, <2>4
    <3>2. k + 1 = K /\ r.chunks[K] = << >> /\ Q[K] = q + 5
      BY <1>0, <1>2, <1>3, <2>4
    <3>3. CASE n = q + 5
      <4>1. t = [l EXCEPT !.turn = "finished", !.early = FALSE]
        <5>1. t = [l EXCEPT !.turn = "finished", !.early = (e = q + 1)]
          BY <1>5, <3>1, <3>3 DEF TurnIs
        <5> QED BY <5>1, <3>1
      <4>2. t \in LoopStates /\ t.turn = "finished" /\ t.bodys = l.bodys /\ t.handled = l.handled
        BY <1>6, <4>1 DEF LoopStates
      <4>3. Taken(t, k, r, Q, K, n)
        BY <1>6, <4>2 DEF Taken
      <4>4. n = Q[K] /\ k = K - 1
        BY <3>2, <3>3, <1>0
      <4>5. LoopAt(t, i + 1, k, r, Q, K, n)
        BY <4>2, <4>3, <4>4 DEF LoopAt
      <4> QED BY <4>5, <1>0 DEF Loop
    <3>4. CASE n # q + 5
      <4>1. t = [l EXCEPT !.at = q + 3]
        <5>1. t = [l EXCEPT !.at = e + 1]
          BY <1>5, <3>1, <3>4 DEF TurnIs
        <5> QED BY <5>1, <3>1
      <4>2. t \in LoopStates /\ t.turn = "goes" /\ t.at = q + 3 /\ t.bodys = l.bodys /\ t.handled = l.handled
        BY <1>6, <4>1 DEF LoopStates
      <4>3. Taken(t, k, r, Q, K, n)
        BY <1>6, <4>2 DEF Taken
      <4>4. Stands(t.at, k, r, Q, K) /\ n # Q[K]
        BY <3>2, <3>4, <4>2, <1>1 DEF Stands
      <4>5. LoopAt(t, i + 1, k, r, Q, K, n)
        BY <4>2, <4>3, <4>4 DEF LoopAt
      <4> QED BY <4>5, <1>0 DEF Loop
    <3> QED BY <3>3, <3>4
  <2>5. CASE m # 0
    <3>1. /\ ~(e = 0 \/ len < 0) /\ len # 0 /\ (n < e + len + 3) = (n < q + m + 5)
          /\ e + len + 1 = q + m + 3 /\ e + 2 = q + 4
      BY <2>2, <2>3, <2>5
    <3>2. CASE n < q + m + 5
      <4>1. t = [l EXCEPT !.turn = "stays"]
        BY <1>5, <3>1, <3>2 DEF TurnIs
      <4> QED BY <4>1, <3>2, <1>9
    <3>3. CASE ~(n < q + m + 5)
      <4>1. t = [l EXCEPT !.at = q + m + 3, !.handled = q + m + 3,
                          !.bodys = Append(@, SubSeq(d, q + 4, q + m + 3))]
        <5>1. t = [l EXCEPT !.at = e + len + 1, !.handled = e + len + 1,
                            !.bodys = Append(@, SubSeq(d, e + 2, e + len + 1))]
          BY <1>5, <3>1, <3>3 DEF TurnIs
        <5> QED BY <5>1, <3>1
      <4>2. SubSeq(d, q + 4, q + m + 3) = c
        <5>1. Pushed(T, n, d) /\ q + Len(c) + 5 <= n
          BY <3>3, <1>2, <1>4 DEF ChunksPushed
        <5>2. SubSeq(d, q + 4, q + Len(c) + 3) = c
          BY <5>1, <1>3, ChunkThere
        <5> QED BY <5>2, <1>2
      <4>3. c \in Seq(Symbols) /\ q + m + 3 \in Nat
        BY DEF Symbols
      <4>4. t = [l EXCEPT !.at = q + m + 3, !.handled = q + m + 3, !.bodys = Append(l.bodys, c)]
        BY <4>1, <4>2
      <4>5. /\ t \in LoopStates /\ t.turn = "goes" /\ t.at = q + m + 3 /\ t.handled = q + m + 3
            /\ t.bodys = Append(l.bodys, c)
        <5>1. PICK b \in Seq(Seq(Symbols)) : b = Append(l.bodys, c)
          <6>1. PICK p \in Seq(Seq(Symbols)) : p = l.bodys
            BY <1>6 DEF LoopStates
          <6>2. Append(p, c) \in Seq(Seq(Symbols))
            BY <4>3
          <6> QED BY <6>1, <6>2
        <5>2. t = [l EXCEPT !.at = q + m + 3, !.handled = q + m + 3, !.bodys = b]
          BY <4>4, <5>1
        <5> QED BY <1>6, <4>3, <5>1, <5>2 DEF LoopStates
      <4>6. t.bodys = SubSeq(r.chunks, 1, k + 1)
        <5>1. l.bodys = SubSeq(r.chunks, 1, k)
          BY <1>6 DEF Taken
        <5>2. r.chunks \in Seq(Seq(STRING)) /\ k < Len(r.chunks)
          BY DEF ChunksPushed, Order
        <5> QED BY <1>0, <1>2, <4>5, <5>1, <5>2, NextTaken
      <4>7. Q[k + 1] - 2 = q + m + 3 /\ Q[k + 1] <= n /\ k + 1 > 0 /\ k + 1 # 0
        BY <1>0, <1>3, <1>4, <3>3
      <4>8. r.chunks[K] = << >> => k + 1 < K
        <5> SUFFICES ASSUME r.chunks[K] = << >>, ~(k + 1 < K) PROVE FALSE
          OBVIOUS
        <5>1. k + 1 = K
          BY <1>0
        <5> QED BY <5>1, <1>2, <1>3, <2>5
      <4>9. Taken(t, k + 1, r, Q, K, n)
        BY <1>0, <4>5, <4>6, <4>7, <4>8 DEF Taken, After
      <4>10. Stands(t.at, k + 1, r, Q, K)
        BY <4>5, <4>7 DEF Stands
      <4>11. ASSUME Ends(r, K), n = Q[K] PROVE OnWay(t.at, k + 1, Q, K) /\ t.at >= i + 1
        <5>1. k + 1 < K
          BY <4>8, <4>11 DEF Ends
        <5>2. q >= i
          BY <1>1, <1>6, <4>11
        <5> QED BY <4>5, <4>7, <5>1, <5>2 DEF OnWay
      <4>12. LoopAt(t, i + 1, k + 1, r, Q, K, n)
        BY <4>5, <4>9, <4>10, <4>11 DEF LoopAt
      <4> QED BY <4>12, <1>0 DEF Loop
    <3> QED BY <3>2, <3>3
  <2> QED BY <2>4, <2>5
<1> QED BY <1>10, <1>11

(* The symbols that were read.                                             *)
ReadSoFar(d, n, T) ==
    d \in Seq(Symbols) /\ n \in Nat /\ Len(d) = n /\ n <= Len(T) /\ Len(T) \in Nat /\ \A j \in 1 .. n : d[j] = T[j]

(* What was pushed of the text is its beginning.                           *)
LEMMA SymbolsRead ==
    ASSUME NEW T, NEW r, NEW Q, NEW h, NEW K, NEW n, NEW d, ChunksPushed(T, r, Q, h, K, n, d)
    PROVE  ReadSoFar(d, n, T)
<1>1. Len(T) \in Nat
  <2>1. K \in 0 .. K /\ Len(T) = Q[K] + Len(r.body) /\ Len(r.body) \in Nat /\ Q \in [0 .. K -> Nat]
    BY DEF ChunksPushed, Order
  <2> QED BY <2>1
<1>2. d \in Seq(Symbols) /\ n \in 0 .. Len(T) /\ Len(d) = n /\ \A j \in 1 .. n : d[j] = T[j]
  BY DEF ChunksPushed, Pushed
<1> QED BY <1>1, <1>2 DEF ReadSoFar

(* A turn behind the line of an empty chunk passes the end of it.          *)
LEMMA TurnBehindLine ==
    ASSUME NEW T, NEW r, NEW Q, NEW h, NEW K, NEW n, NEW d, ChunksPushed(T, r, Q, h, K, n, d),
           NEW i \in Nat, NEW k, NEW l, LoopAt(l, i, k, r, Q, K, n), l.turn = "goes",
           k + 1 = K, r.chunks[K] = << >>, l.at = Q[k] + 3, NEW t, TurnFound(l, t, d, n, l.at)
    PROVE  Loop(t, i + 1, r, Q, K, n)
<1>0. /\ K \in 1 .. K /\ K - 1 = k /\ K \in Nat /\ k \in 0 .. K /\ K \in 0 .. K /\ k \in Nat /\ k # K
  BY DEF LoopAt, Taken, ChunksPushed, Order
<1>1. PICK q \in Nat : q = Q[k] /\ q >= 5
  <2>1. Q[k] \in Nat /\ h <= Q[k] /\ h \in Nat /\ h >= 5
    BY <1>0 DEF ChunksPushed, Order
  <2> QED BY <2>1
<1>2. Len(r.chunks[K]) = 0
  BY EmptySeq
<1>3. /\ T[q + 4] = "cr" /\ T[q + 5] = "lf" /\ Q[K] = q + 5
  <2>1. PICK c : c = r.chunks[K]
    OBVIOUS
  <2>2. ChunkRead(T, q, c) /\ Len(c) = 0
    BY <1>0, <1>1, <1>2, <2>1 DEF ChunksPushed
  <2>3. T[q + Len(c) + 4] = "cr" /\ T[q + Len(c) + 5] = "lf"
    BY <2>2 DEF ChunkRead
  <2>4. Q[K] = Q[K - 1] + Len(r.chunks[K]) + 5
    BY <1>0 DEF ChunksPushed, Order
  <2> QED BY <1>0, <1>1, <1>2, <2>2, <2>3, <2>4
<1>4. d \in Seq(Symbols) /\ n \in Nat /\ Len(d) = n /\ \A j \in 1 .. n : d[j] = T[j]
  BY SymbolsRead DEF ReadSoFar
<1>5. PICK e \in Nat, len \in Int :
          FoundEnd(d, q + 3, e) /\ LengthAt(d, q + 3, e, len) /\ TurnIs(l, t, d, n, q + 3, e, len)
  BY <1>1 DEF TurnFound
<1>6. l \in LoopStates /\ Taken(l, k, r, Q, K, n) /\ (Ends(r, K) => n # Q[K])
  <2>1. ASSUME Ends(r, K), n = Q[K] PROVE FALSE
    <3>1. OnWay(q + 3, k, Q, K)
      BY <1>1, <2>1 DEF LoopAt
    <3> QED BY <3>1, <1>1 DEF OnWay
  <2> QED BY <2>1 DEF LoopAt
<1>7. CASE n < q + 5
  <2>1. e = 0
    <3> SUFFICES ASSUME e # 0 PROVE FALSE
      OBVIOUS
    <3>1. e \in (q + 3) + 1 .. n - 1
      BY <1>4, <1>5 DEF FoundEnd
    <3> QED BY <3>1, <1>4, <1>7
  <2>2. t = [l EXCEPT !.turn = "stays"]
    BY <1>5, <2>1 DEF TurnIs
  <2>3. t \in LoopStates /\ t.turn = "stays" /\ t.bodys = l.bodys /\ t.handled = l.handled
    BY <1>6, <2>2 DEF LoopStates
  <2>4. Taken(t, k, r, Q, K, n)
    BY <1>6, <2>3 DEF Taken
  <2>5. LoopAt(t, i + 1, k, r, Q, K, n)
    BY <1>6, <2>3, <2>4 DEF LoopAt
  <2> QED BY <2>5, <1>0 DEF Loop
<1>8. CASE ~(n < q + 5)
  <2>1. EndAt(d, q + 4) /\ q + 4 \in (q + 3) + 1 .. n - 1
    <3>1. (q + 4) + 1 = q + 5 /\ q + 4 \in 1 .. n /\ q + 5 \in 1 .. n /\ q + 4 \in (q + 3) + 1 .. n - 1
      BY <1>4, <1>8
    <3> QED BY <3>1, <1>3, <1>4 DEF EndAt
  <2>2. e = q + 4
    <3>1. e # 0
      BY <1>4, <1>5, <2>1 DEF FoundEnd
    <3>2. e \in (q + 3) + 1 .. n - 1 /\ \A j \in (q + 3) + 1 .. e - 1 : ~EndAt(d, j)
      BY <1>4, <1>5, <3>1 DEF FoundEnd
    <3>3. ~(q + 4 < e)
      <4> SUFFICES ASSUME q + 4 < e PROVE FALSE
        OBVIOUS
      <4>1. q + 4 \in (q + 3) + 1 .. e - 1
        OBVIOUS
      <4> QED BY <4>1, <2>1, <3>2
    <3> QED BY <3>2, <3>3
  <2>3. /\ len = 0 /\ e # 0 /\ ~(e = 0 \/ len < 0) /\ (e = (q + 3) + 1) = TRUE /\ e + 1 = q + 5
        /\ (n = e + 3) = (n = q + 7)
    BY <1>4, <1>5, <2>2 DEF LengthAt
  <2>4. CASE n = q + 7
    <3>1. t = [l EXCEPT !.turn = "finished", !.early = (e = (q + 3) + 1)]
      BY <1>5, <2>3, <2>4 DEF TurnIs
    <3>2. t = [l EXCEPT !.turn = "finished", !.early = TRUE]
      BY <2>3, <3>1
    <3>3. t \in LoopStates /\ t.turn = "finished" /\ t.early = TRUE /\ t.bodys = l.bodys /\ t.handled = l.handled
      BY <1>6, <3>2 DEF LoopStates
    <3>4. Taken(t, k, r, Q, K, n)
      BY <1>6, <3>3 DEF Taken
    <3>5. LoopAt(t, i + 1, k, r, Q, K, n)
      BY <1>6, <3>3, <3>4 DEF LoopAt
    <3> QED BY <3>5, <1>0 DEF Loop
  <2>5. CASE n # q + 7
    <3>1. t = [l EXCEPT !.at = q + 5]
      <4>1. t = [l EXCEPT !.at = e + 1]
        BY <1>5, <2>3, <2>5 DEF TurnIs
      <4> QED BY <2>3, <4>1
    <3>2. t \in LoopStates /\ t.turn = "goes" /\ t.at = q + 5 /\ t.bodys = l.bodys /\ t.handled = l.handled
      <4>1. PICK x \in Nat : x = q + 5
        OBVIOUS
      <4>2. t = [l EXCEPT !.at = x]
        BY <3>1, <4>1
      <4> QED BY <1>6, <4>1, <4>2 DEF LoopStates
    <3>3. Taken(t, k, r, Q, K, n)
      BY <1>6, <3>2 DEF Taken
    <3>4. Stands(t.at, k, r, Q, K)
      BY <1>3, <3>2 DEF Stands
    <3>5. LoopAt(t, i + 1, k, r, Q, K, n)
      BY <1>6, <3>2, <3>3, <3>4 DEF LoopAt
    <3> QED BY <3>5, <1>0 DEF Loop
  <2> QED BY <2>4, <2>5
<1> QED BY <1>7, <1>8

(* A turn behind the chunks takes nothing.                                 *)
LEMMA TurnBehind ==
    ASSUME NEW T, NEW r, NEW Q, NEW h, NEW K, NEW n, NEW d, ChunksPushed(T, r, Q, h, K, n, d),
           NEW i \in Nat, NEW k, NEW l, LoopAt(l, i, k, r, Q, K, n), l.turn = "goes",
           k = K \/ (k + 1 = K /\ r.chunks[K] = << >>), l.at >= Q[K],
           NEW t, TurnFound(l, t, d, n, l.at)
    PROVE  Loop(t, i + 1, r, Q, K, n)
<1>0. K \in Nat /\ k \in 0 .. K /\ K \in 0 .. K
  BY DEF LoopAt, Taken, ChunksPushed, Order
<1>1. PICK z \in Nat, a \in Nat : z = Q[K] /\ a = l.at /\ z <= a
  <2>1. Q[K] \in Nat /\ l.at \in Nat
    BY <1>0 DEF ChunksPushed, Order, LoopAt, LoopStates
  <2> QED BY <2>1
<1>2. d \in Seq(Symbols) /\ n \in Nat /\ Len(d) = n /\ n <= Len(T) /\ Len(T) \in Nat /\ \A j \in 1 .. n : d[j] = T[j]
  BY SymbolsRead DEF ReadSoFar
<1>3. l \in LoopStates /\ Taken(l, k, r, Q, K, n)
  BY DEF LoopAt
<1>4. Ends(r, K) => n <= z /\ n # z
  <2> SUFFICES ASSUME Ends(r, K) PROVE n <= z /\ n # z
    OBVIOUS
  <2>1. Len(T) = z + Len(r.body) /\ Len(r.body) = 0
    BY <1>1 DEF ChunksPushed, Order, Ends
  <2>2. n <= z
    BY <1>1, <1>2, <2>1
  <2>3. ASSUME n = z PROVE FALSE
    <3>1. OnWay(a, k, Q, K)
      BY <1>1, <2>3 DEF LoopAt
    <3>2. k < K /\ (a = Q[k] \/ a = Q[k] - 2)
      BY <3>1 DEF OnWay
    <3>3. k + 1 = K /\ K \in 1 .. K /\ K - 1 = k
      BY <1>0, <3>2
    <3>4. PICK q \in Nat, m \in Nat : q = Q[k] /\ m = Len(r.chunks[K])
      BY <1>0, <3>3 DEF ChunksPushed, Order
    <3>5. z = q + m + 5
      BY <1>1, <3>3, <3>4 DEF ChunksPushed, Order
    <3> QED BY <1>1, <3>2, <3>4, <3>5
  <2> QED BY <2>2, <2>3
<1>5. PICK e \in Nat, len \in Int :
          FoundEnd(d, a, e) /\ LengthAt(d, a, e, len) /\ TurnIs(l, t, d, n, a, e, len)
  BY <1>1 DEF TurnFound
<1>6. ASSUME e # 0 PROVE e \in a + 1 .. n - 1 /\ len <= 0 /\ ~Ends(r, K)
  <2>1. e \in a + 1 .. n - 1
    BY <1>2, <1>5, <1>6 DEF FoundEnd
  <2>2. ~Ends(r, K)
    BY <1>1, <1>2, <1>4, <2>1
  <2>3. CASE e = a + 1 \/ d[a + 1] \notin DOMAIN SizeOf
    BY <1>5, <1>6, <2>1, <2>2, <2>3 DEF LengthAt
  <2>4. CASE ~(e = a + 1 \/ d[a + 1] \notin DOMAIN SizeOf)
    <3>1. a + 1 \in 1 .. n /\ a + 1 \in Nat /\ z < a + 1 /\ a + 1 <= Len(T)
      BY <1>1, <1>2, <2>1
    <3>2. d[a + 1] = T[a + 1] /\ T[a + 1] \in DOMAIN SizeOf
      BY <1>2, <2>4, <3>1
    <3>3. PICK x \in Nat : x = a + 1
      OBVIOUS
    <3>4. SizeOf[T[x]] <= 0
      BY <1>1, <3>1, <3>2, <3>3 DEF ChunksPushed
    <3>5. len = SizeOf[T[x]]
      BY <1>5, <1>6, <2>4, <3>2, <3>3 DEF LengthAt
    <3> QED BY <2>1, <2>2, <3>4, <3>5
  <2> QED BY <2>3, <2>4
<1>7. CASE e = 0 \/ len < 0
  <2>1. t = [l EXCEPT !.turn = "stays"]
    BY <1>5, <1>7 DEF TurnIs
  <2>2. t \in LoopStates /\ t.turn = "stays" /\ t.bodys = l.bodys /\ t.handled = l.handled
    BY <1>3, <2>1 DEF LoopStates
  <2>3. Taken(t, k, r, Q, K, n)
    BY <1>3, <2>2 DEF Taken
  <2>4. LoopAt(t, i + 1, k, r, Q, K, n)
    BY <1>1, <1>4, <2>2, <2>3 DEF LoopAt
  <2> QED BY <2>4, <1>0 DEF Loop
<1>8. CASE ~(e = 0 \/ len < 0)
  <2>1. len = 0 /\ ~Ends(r, K) /\ e \in a + 1 .. n - 1
    BY <1>6, <1>8
  <2>2. CASE n = e + 3
    <3>1. PICK b \in BOOLEAN : b = (e = a + 1)
      OBVIOUS
    <3>2. t = [l EXCEPT !.turn = "finished", !.early = (e = a + 1)]
      BY <1>5, <1>8, <2>1, <2>2 DEF TurnIs
    <3>3. t = [l EXCEPT !.turn = "finished", !.early = b]
      BY <3>1, <3>2
    <3>4. t \in LoopStates /\ t.turn = "finished" /\ t.bodys = l.bodys /\ t.handled = l.handled
      BY <1>3, <3>3 DEF LoopStates
    <3>5. Taken(t, k, r, Q, K, n)
      BY <1>3, <3>4 DEF Taken
    <3>6. LoopAt(t, i + 1, k, r, Q, K, n)
      BY <2>1, <3>4, <3>5 DEF LoopAt
    <3> QED BY <3>6, <1>0 DEF Loop
  <2>3. CASE n # e + 3
    <3>1. PICK x \in Nat : x = e + 1 /\ x >= z
      BY <1>1, <1>2, <2>1
    <3>2. t = [l EXCEPT !.at = x]
      BY <1>5, <1>8, <2>1, <2>3, <3>1 DEF TurnIs
    <3>3. t \in LoopStates /\ t.turn = "goes" /\ t.at = x /\ t.bodys = l.bodys /\ t.handled = l.handled
      BY <1>3, <3>2 DEF LoopStates
    <3>4. Taken(t, k, r, Q, K, n)
      BY <1>3, <3>3 DEF Taken
    <3>5. Stands(t.at, k, r, Q, K)
      BY <1>1, <3>1, <3>3 DEF Stands
    <3>6. LoopAt(t, i + 1, k, r, Q, K, n)
      BY <2>1, <3>3, <3>4, <3>5 DEF LoopAt
    <3> QED BY <3>6, <1>0 DEF Loop
  <2> QED BY <2>2, <2>3
<1> QED BY <1>7, <1>8

(* What a turn of the loop leaves, and the end of the loop.                *)
LEMMA TurnKeeps ==
    ASSUME NEW T, NEW r, NEW Q, NEW h, NEW K, NEW n, NEW d, ChunksPushed(T, r, Q, h, K, n, d), d = Data,
           NEW i \in Nat, NEW l, Loop(l, i, r, Q, K, n), l.turn = "goes", NEW t, t = Turn(l)
    PROVE  Loop(t, i + 1, r, Q, K, n)
<1>1. PICK k \in 0 .. K : LoopAt(l, i, k, r, Q, K, n)
  BY DEF Loop
<1>2. Stands(l.at, k, r, Q, K)
  BY <1>1 DEF LoopAt
<1>3. d \in Seq(Symbols) /\ n \in Nat /\ Len(d) = n
  BY SymbolsRead DEF ReadSoFar
<1>4. l.at \in Nat
  BY <1>1 DEF LoopAt, LoopStates
<1>5. TurnFound(l, t, d, n, l.at)
  BY <1>3, <1>4, TurnTaken
<1>6. CASE k > 0 /\ l.at = Q[k] - 2
  BY <1>1, <1>5, <1>6, TurnOnEnd
<1>7. CASE k < K /\ l.at = Q[k]
  BY <1>1, <1>5, <1>7, TurnBefore
<1>8. CASE k + 1 = K /\ r.chunks[K] = << >> /\ l.at = Q[k] + 3
  BY <1>1, <1>5, <1>8, TurnBehindLine
<1>9. CASE (k = K \/ (k + 1 = K /\ r.chunks[K] = << >>)) /\ l.at >= Q[K]
  BY <1>1, <1>5, <1>9, TurnBehind
<1> QED BY <1>2, <1>6, <1>7, <1>8, <1>9 DEF Stands

\* the turns of the loop, one after the other
Turns(g, N, l0) ==
    g = [i \in 0 .. N |->
            IF i = 0 THEN l0
            ELSE LET before == g[i - 1]
                 IN  IF before.turn = "goes" THEN Turn(before) ELSE before]

(* A step of the loop keeps its state, whether it still goes or not.       *)
LEMMA StepKeeps ==
    ASSUME NEW T, NEW r, NEW Q, NEW h, NEW K, NEW n, NEW d, ChunksPushed(T, r, Q, h, K, n, d), d = Data,
           NEW i \in Nat, NEW l, Loop(l, i, r, Q, K, n),
           NEW t, t = IF l.turn = "goes" THEN Turn(l) ELSE l
    PROVE  Loop(t, i + 1, r, Q, K, n) /\ l \in LoopStates
<1>1. PICK k \in 0 .. K : LoopAt(l, i, k, r, Q, K, n)
  BY DEF Loop
<1>2. l \in LoopStates
  BY <1>1 DEF LoopAt
<1>3. CASE l.turn = "goes"
  BY <1>2, <1>3, TurnKeeps
<1>4. CASE l.turn # "goes"
  <2>1. LoopAt(t, i + 1, k, r, Q, K, n)
    BY <1>1, <1>4 DEF LoopAt
  <2> QED BY <1>2, <2>1 DEF Loop
<1> QED BY <1>3, <1>4

(* The loop can be run, and its state is kept throughout.                  *)
LEMMA LoopKeeps ==
    ASSUME NEW T, NEW r, NEW Q, NEW h, NEW K, NEW n, NEW d, ChunksPushed(T, r, Q, h, K, n, d), d = Data,
           NEW l0, Loop(l0, 0, r, Q, K, n), NEW N \in Nat
    PROVE  /\ \E g : Turns(g, N, l0)
           /\ \A g : Turns(g, N, l0) => Loop(g[N], N, r, Q, K, n)
<1>1. \E g : Turns(g, N, l0)
  <2> DEFINE f == [l \in LoopStates |-> IF l.turn = "goes" THEN Turn(l) ELSE l]
  <2>1. PICK Y : \E g \in [0 .. N -> Y] : Iterates(g, N, l0, f)
    <3> HIDE DEF f
    <3> QED BY Iteration
  <2>2. PICK g \in [0 .. N -> Y] : Iterates(g, N, l0, f)
    BY <2>1
  <2>3. g[0] = l0 /\ \A i \in 1 .. N : g[i] = f[g[i - 1]]
    <3> HIDE DEF f
    <3> QED BY <2>2 DEF Iterates
  <2> DEFINE U == {i \in Nat : i <= N => Loop(g[i], i, r, Q, K, n)}
  <2>4. 0 \in U
    BY <2>3
  <2>5. ASSUME NEW i \in Nat, i + 1 <= N, Loop(g[i], i, r, Q, K, n)
        PROVE  /\ Loop(g[i + 1], i + 1, r, Q, K, n)
               /\ g[i + 1] = IF g[i].turn = "goes" THEN Turn(g[i]) ELSE g[i]
    <3>1. PICK l, t : l = g[i] /\ t = IF l.turn = "goes" THEN Turn(l) ELSE l
      OBVIOUS
    <3>2. Loop(t, i + 1, r, Q, K, n) /\ l \in LoopStates
      BY <2>5, <3>1, StepKeeps
    <3>3. f[l] = t
      BY <3>1, <3>2
    <3>4. i + 1 \in 1 .. N /\ (i + 1) - 1 = i
      BY <2>5
    <3> HIDE DEF f
    <3>5. g[i + 1] = t
      BY <2>3, <3>1, <3>3, <3>4
    <3> QED BY <3>1, <3>2, <3>5
  <2>6. U = Nat
    <3>1. \A i \in U : i + 1 \in U
      <4> TAKE i \in U
      <4>1. i \in Nat /\ i + 1 \in Nat /\ (i + 1 <= N => i <= N) /\ (i <= N => Loop(g[i], i, r, Q, K, n))
        OBVIOUS
      <4> QED BY <4>1, <2>5
    <3>2. U \in SUBSET Nat
      OBVIOUS
    <3> HIDE DEF U
    <3> QED BY <2>4, <3>1, <3>2, Induction
  <2>7. \A i \in 1 .. N : g[i] = IF g[i - 1].turn = "goes" THEN Turn(g[i - 1]) ELSE g[i - 1]
    <3> TAKE i \in 1 .. N
    <3>1. PICK j \in Nat : j = i - 1 /\ i = j + 1 /\ j <= N
      <4>1. i - 1 \in Nat /\ i = (i - 1) + 1 /\ i - 1 <= N
        OBVIOUS
      <4> QED BY <4>1
    <3>2. j \in U
      <4> HIDE DEF U
      <4> QED BY <2>6
    <3>3. Loop(g[j], j, r, Q, K, n)
      BY <3>1, <3>2
    <3> QED BY <2>5, <3>1, <3>3
  <2> HIDE DEF U, f
  <2>8. Turns(g, N, l0)
    <3>1. g = [i \in 0 .. N |-> g[i]]
      OBVIOUS
    <3>2. \A i \in 0 .. N : g[i] = IF i = 0 THEN l0
                                   ELSE LET before == g[i - 1]
                                        IN  IF before.turn = "goes" THEN Turn(before) ELSE before
      <4> TAKE i \in 0 .. N
      <4>1. i = 0 \/ i \in 1 .. N
        OBVIOUS
      <4> QED BY <4>1, <2>3, <2>7
    <3> QED BY <3>1, <3>2 DEF Turns
  <2> QED BY <2>8
<1>2. ASSUME NEW g, Turns(g, N, l0) PROVE Loop(g[N], N, r, Q, K, n)
  <2>1. \A i \in 0 .. N : g[i] = IF i = 0 THEN l0
                                 ELSE IF g[i - 1].turn = "goes" THEN Turn(g[i - 1]) ELSE g[i - 1]
    BY <1>2 DEF Turns
  <2> DEFINE U == {i \in Nat : i <= N => Loop(g[i], i, r, Q, K, n)}
  <2>2. 0 \in U
    <3>1. g[0] = l0
      BY <2>1
    <3> QED BY <3>1
  <2>3. ASSUME NEW i \in Nat, i + 1 <= N, Loop(g[i], i, r, Q, K, n)
        PROVE  Loop(g[i + 1], i + 1, r, Q, K, n)
    <3>1. PICK l, t : l = g[i] /\ t = IF l.turn = "goes" THEN Turn(l) ELSE l
      OBVIOUS
    <3>2. Loop(t, i + 1, r, Q, K, n)
      BY <2>3, <3>1, StepKeeps
    <3>3. i + 1 \in 0 .. N /\ i + 1 # 0 /\ (i + 1) - 1 = i
      BY <2>3
    <3>4. g[i + 1] = t
      BY <2>1, <3>1, <3>3
    <3> QED BY <3>2, <3>4
  <2>4. U = Nat
    <3>1. \A i \in U : i + 1 \in U
      <4> TAKE i \in U
      <4>1. i \in Nat /\ i + 1 \in Nat /\ (i + 1 <= N => i <= N) /\ (i <= N => Loop(g[i], i, r, Q, K, n))
        OBVIOUS
      <4> QED BY <4>1, <2>3
    <3>2. U \in SUBSET Nat
      OBVIOUS
    <3> HIDE DEF U
    <3> QED BY <2>2, <3>1, <3>2, Induction
  <2>5. N \in U
    <3> HIDE DEF U
    <3> QED BY <2>4
  <2> QED BY <2>5
<1> QED BY <1>1, <1>2

(* What parseBodyByTransferEncoding leaves.                                *)
LoopLeft(s, t, r, Q, K, n) ==
    \E l : /\ Loop(l, n + 1, r, Q, K, n)
           /\ t = [s EXCEPT !.status = IF l.turn = "finished" THEN "End" ELSE @,
                            !.handled = l.handled, !.bodys = l.bodys, !.unlucky = @ \/ l.early]

(* The loop over the chunks leaves what its turns keep.                    *)
LEMMA ChunksParsed ==
    ASSUME NEW T, NEW r, NEW Q, NEW h, NEW K, NEW n, NEW d, ChunksPushed(T, r, Q, h, K, n, d), d = Data,
           NEW s, NEW l0, Loop(l0, 0, r, Q, K, n),
           l0 = [turn |-> "goes", early |-> FALSE, at |-> s.handled, handled |-> s.handled,
                 bodys |-> s.bodys],
           NEW t, t = parseBodyByTransferEncoding(s)
    PROVE  LoopLeft(s, t, r, Q, K, n)
<1>1. n \in Nat /\ Len(Data) = n
  BY SymbolsRead DEF ReadSoFar
<1>2. PICK N \in Nat : N = n + 1
  BY <1>1
<1>3. /\ \E g : Turns(g, N, l0)
      /\ \A g : Turns(g, N, l0) => Loop(g[N], N, r, Q, K, n)
  BY LoopKeeps
<1> DEFINE Solves(g) ==
        g = [i \in 0 .. Len(Data) + 1 |->
                IF i = 0
                THEN [turn |-> "goes", early |-> FALSE, at |-> s.handled, handled |-> s.handled,
                      bodys |-> s.bodys]
                ELSE LET before == g[i - 1]
                     IN  IF before.turn = "goes" THEN Turn(before) ELSE before]
           loop == CHOOSE g : Solves(g)
<1>4. \A g : Solves(g) <=> Turns(g, N, l0)
  <2> TAKE g
  <2>1. Len(Data) + 1 = N
    BY <1>1, <1>2
  <2> QED BY <2>1, Zenon DEF Turns
<1>5. Loop(loop[N], N, r, Q, K, n)
  <2>1. \E g : Solves(g)
    <3> HIDE DEF Solves
    <3> QED BY <1>3, <1>4
  <2> HIDE DEF Solves
  <2>2. Solves(loop)
    BY <2>1
  <2> HIDE DEF loop
  <2> QED BY <1>3, <1>4, <2>2
<1>6. PICK l : l = loop[Len(Data) + 1]
  OBVIOUS
<1>7. t = [s EXCEPT !.status = IF l.turn = "finished" THEN "End" ELSE @,
                    !.handled = l.handled, !.bodys = l.bodys, !.unlucky = @ \/ l.early]
  BY <1>6, Zenon DEF parseBodyByTransferEncoding
<1>8. Loop(l, n + 1, r, Q, K, n)
  <2> HIDE DEF loop
  <2>1. l = loop[N]
    BY <1>1, <1>2, <1>6
  <2> QED BY <1>2, <1>5, <2>1
<1> HIDE DEF loop
<1> QED BY <1>7, <1>8 DEF LoopLeft

-----------------------------------------------------------------------------
(***************************************************************************)
(* The phases of Parse.                                                    *)
(***************************************************************************)
(* What the kept headers say of those that were sent.                      *)
LEMMA HeadersSay ==
    ASSUME NEW r, Typed(r), NEW kept, HeadersKept(r, kept)
    PROVE  /\ ("Content-Length" \in DOMAIN kept) = ("length" \in ToSet(r.headers))
           /\ ("Transfer-Encoding" \in DOMAIN kept) = ("chunked" \in ToSet(r.headers))
<1>1. PICK hs \in Seq(DOMAIN NameOf) : hs = r.headers
  BY DEF Typed
<1>2. DOMAIN hs = 1 .. Len(hs) /\ \A i \in 1 .. Len(hs) : hs[i] \in DOMAIN NameOf
  BY <1>1
<1>3. DOMAIN kept = {NameOf[hs[i]] : i \in 1 .. Len(hs)} /\ ToSet(hs) = {hs[i] : i \in 1 .. Len(hs)}
  BY <1>1, <1>2 DEF HeadersKept, ToSet
<1>4. /\ DOMAIN NameOf = {"length", "chunked", "json", "html", "host"}
      /\ NameOf["length"] = "Content-Length" /\ NameOf["chunked"] = "Transfer-Encoding"
      /\ NameOf["json"] = "Content-Type" /\ NameOf["html"] = "Content-Type" /\ NameOf["host"] = "Host"
  BY HeaderNames
<1>5. \A x \in DOMAIN NameOf : /\ (NameOf[x] = "Content-Length") = (x = "length")
                               /\ (NameOf[x] = "Transfer-Encoding") = (x = "chunked")
  BY <1>4
<1>6. ("Content-Length" \in DOMAIN kept) = ("length" \in ToSet(hs))
  BY <1>2, <1>3, <1>5
<1>7. ("Transfer-Encoding" \in DOMAIN kept) = ("chunked" \in ToSet(hs))
  BY <1>2, <1>3, <1>5
<1> QED BY <1>1, <1>6, <1>7

(* A JSON type that comes before any other is the one that is kept.        *)
LEMMA JsonSaid ==
    ASSUME NEW r, Typed(r), NEW kept, HeadersKept(r, kept),
           \E i \in DOMAIN r.headers : r.headers[i] = "json" /\ \A j \in 1 .. i - 1 : r.headers[j] # "html"
    PROVE  "Content-Type" \in DOMAIN kept /\ kept["Content-Type"] = "json"
<1>1. PICK hs \in Seq(DOMAIN NameOf) : hs = r.headers
  BY DEF Typed
<1>2. PICK n \in Nat : n = Len(hs) /\ DOMAIN hs = 1 .. n /\ \A i \in 1 .. n : hs[i] \in DOMAIN NameOf
  BY <1>1
<1>3. PICK i \in 1 .. n : hs[i] = "json" /\ \A j \in 1 .. i - 1 : hs[j] # "html"
  BY <1>1, <1>2
<1>4. \A x \in DOMAIN NameOf : (NameOf[x] = "Content-Type") = (x \in {"json", "html"})
  BY HeaderNames
<1> DEFINE at == {x \in 1 .. n : NameOf[hs[x]] = "Content-Type"}
<1>5. i \in at /\ at \in SUBSET Nat
  BY <1>2, <1>3, <1>4
<1>6. PICK x \in at : \A y \in at : x <= y
  <2> HIDE DEF at
  <2> QED BY <1>5, LeastNumber
<1>7. x \in 1 .. n /\ NameOf[hs[x]] = "Content-Type" /\ x <= i /\ \A j \in 1 .. x - 1 : NameOf[hs[j]] # "Content-Type"
  <2>1. x \in 1 .. n /\ NameOf[hs[x]] = "Content-Type" /\ x <= i
    BY <1>5, <1>6
  <2>2. ASSUME NEW j \in 1 .. x - 1, NameOf[hs[j]] = "Content-Type" PROVE FALSE
    <3>1. j \in at /\ j < x
      BY <2>1, <2>2, <1>2
    <3> HIDE DEF at
    <3>2. x <= j
      BY <1>6, <3>1
    <3> QED BY <2>1, <2>2, <3>1, <3>2
  <2> QED BY <2>1, <2>2
<1>8. hs[x] = "json"
  <2>1. hs[x] \in {"json", "html"}
    BY <1>2, <1>4, <1>7
  <2>2. x = i \/ x \in 1 .. i - 1
    BY <1>7
  <2> QED BY <2>1, <2>2, <1>3
<1>9. kept[NameOf[hs[x]]] = hs[x] /\ NameOf[hs[x]] \in DOMAIN kept
  BY <1>1, <1>2, <1>7 DEF HeadersKept
<1> QED BY <1>7, <1>8, <1>9

\* the state that the phases of Parse pass on
IsState(s) ==
    s = [status |-> s.status, handled |-> s.handled, code |-> s.code, headers |-> s.headers,
         bodys |-> s.bodys, unlucky |-> s.unlucky]

Complete(s, T, r, n) ==
    "Content-Length" \notin DOMAIN s.headers =>
        /\ n = Len(T) \/ "Transfer-Encoding" \notin DOMAIN s.headers
        /\ s.bodys = IF "Transfer-Encoding" \in DOMAIN s.headers THEN Front(r.chunks)
                     ELSE <<r.body>>

HasHead(s, r, n) == HeadLen(r) <= n /\ HeadersKept(r, s.headers)

HasChunks(s, r, Q, n) == \E k \in 0 .. Len(r.chunks) : Taken(s, k, r, Q, Len(r.chunks), n)

\* the state s is right for the first n symbols of the text T of r
Good(s, T, r, Q, n) ==
    /\ IsState(s) /\ s.status \in {"Start", "Response", "Headers", "End"}
    /\ s.status # "Start" => s.code = CodeOf[r.line]
    /\ s.status = "Start" => s.bodys = << >>
    /\ s.status = "Response" => s.handled = 3 /\ s.bodys = << >>
    /\ (r.headers # << >> /\ s.status \in {"Headers", "End"}) => HasHead(s, r, n)
    /\ (r.chunks # << >> /\ s.status \in {"Headers", "End"}) => HasChunks(s, r, Q, n)
    /\ (WholeJson(r) /\ r.headers # << >> /\ s.status = "Headers") =>
           s.handled = HeadLen(r) /\ s.bodys = << >>
    /\ (r.complete /\ s.status = "End" /\ ~s.unlucky) => Complete(s, T, r, n)

\* a response whose chunks, if it has some, are good
Sendable(r) ==
    /\ Typed(r) /\ (r.chunks # << >> => ChunksGood(r))
    /\ r.complete =>
           r.headers # << >> /\ ("length" \in ToSet(r.headers) \/ WholeChunks(r) \/ WholeJson(r))

(* Every response is one that can be sent.                                 *)
LEMMA ResponsesSendable == \A r \in Responses : Sendable(r)
<1> TAKE r \in Responses
<1>1. r.chunks # << >> => ChunksGood(r)
  BY ResponsesAssumption
<1>2. \A i \in DOMAIN r.chunks : Digit(Len(r.chunks[i])) \in STRING
  <2> TAKE i \in DOMAIN r.chunks
  <2>1. r.chunks # << >>
    OBVIOUS
  <2>2. \E x \in DOMAIN SizeOf : SizeOf[x] = Len(r.chunks[i])
    BY <1>1, <2>1 DEF ChunksGood
  <2>3. Digit(Len(r.chunks[i])) \in DOMAIN SizeOf
    BY <2>2 DEF Digit
  <2> QED BY <2>3, SymbolsAssumption
<1>3. Typed(r)
  BY <1>2, SymbolsAssumption DEF Typed
<1> QED BY <1>1, <1>3, ResponsesAssumption DEF Sendable

(* More symbols leave what is right as it is.                              *)
LEMMA MoreIsGood ==
    ASSUME NEW r, NEW T, NEW Q, Order(T, r, Q, HeadLen(r), Len(r.chunks)), NEW s,
           NEW n \in Nat, NEW m \in n .. Len(T), Good(s, T, r, Q, n)
    PROVE  Good(s, T, r, Q, m)
<1>1. HasHead(s, r, n) => HasHead(s, r, m)
  BY DEF HasHead, Order
<1>2. HasChunks(s, r, Q, n) => HasChunks(s, r, Q, m)
  <2> SUFFICES ASSUME HasChunks(s, r, Q, n) PROVE HasChunks(s, r, Q, m)
    OBVIOUS
  <2>1. PICK k \in 0 .. Len(r.chunks) : Taken(s, k, r, Q, Len(r.chunks), n)
    BY DEF HasChunks
  <2>2. k > 0 => Q[k] <= m
    <3>1. Q[k] \in Nat
      BY DEF Order
    <3>2. k > 0 => Q[k] <= n
      BY <2>1 DEF Taken
    <3> QED BY <3>1, <3>2
  <2>3. Taken(s, k, r, Q, Len(r.chunks), m)
    BY <2>1, <2>2 DEF Taken
  <2> QED BY <2>3 DEF HasChunks
<1>3. Complete(s, T, r, n) => Complete(s, T, r, m)
  <2>1. n = Len(T) => m = Len(T)
    BY DEF Order
  <2> QED BY <2>1 DEF Complete
<1> QED BY <1>1, <1>2, <1>3 DEF Good

(* The first line is read.                                                 *)
LEMMA LineParsed ==
    ASSUME NEW r, Sendable(r), NEW T, NEW Q, Laid(T, r, Q), NEW n, NEW d, Pushed(T, n, d), d = Data,
           NEW s, Good(s, T, r, Q, n), NEW t, t = IF s.status = "Start" THEN parseResponse(s) ELSE s
    PROVE  Good(t, T, r, Q, n) /\ (n >= 3 => t.status # "Start")
<1>1. CASE s.status # "Start"
  BY <1>1
<1>2. CASE s.status = "Start"
  <2>1. PICK e : e = Find(d, 0, Crlf)
    OBVIOUS
  <2>2. d \in Seq(Symbols) /\ n \in Nat /\ Len(d) = n
    BY LaidOrder DEF Pushed, Sendable, Order, Laid
  <2>3. FoundEnd(d, 0, e)
    BY <2>1, <2>2, FindsEnd
  <2>4. IF n < 3 THEN e = 0 ELSE e = 2 /\ d[1] = r.line
    BY <2>3, FirstLine DEF Sendable
  <2>5. CASE n < 3
    <3>1. t = s
      BY <1>2, <2>1, <2>4, <2>5 DEF parseResponse
    <3> QED BY <2>2, <2>5, <3>1
  <2>6. CASE ~(n < 3)
    <3>1. d # << >> /\ Head(d) = r.line
      <4>1. Len(d) # 0
        BY <2>2, <2>6
      <4> QED BY <4>1, <2>2, <2>4, <2>6
    <3>2. t = [s EXCEPT !.status = "Response", !.handled = e + 1, !.code = CodeOf[Head(d)]]
      BY <1>2, <2>1, <2>4, <2>6 DEF parseResponse
    <3>3. t = [s EXCEPT !.status = "Response", !.handled = 3, !.code = CodeOf[r.line]]
      <4>1. e + 1 = 3
        BY <2>4, <2>6
      <4> QED BY <4>1, <3>1, <3>2
    <3>4. IsState(s) /\ s.bodys = << >>
      BY <1>2 DEF Good
    <3>5. IsState(t) /\ t.status = "Response" /\ t.handled = 3 /\ t.code = CodeOf[r.line] /\ t.bodys = << >>
      BY <3>3, <3>4 DEF IsState
    <3> QED BY <3>5 DEF Good
  <2> QED BY <2>5, <2>6
<1> QED BY <1>1, <1>2

(* A response without headers has no chunks, and is not one that ends.     *)
LEMMA NoHeaders ==
    ASSUME NEW r, Sendable(r), r.headers = << >>
    PROVE  r.chunks = << >> /\ ~r.complete
<1>1. ToSet(r.headers) = {}
  BY DEF ToSet
<1>2. r.chunks = << >>
  BY <1>1 DEF Sendable, ChunksGood
<1>3. ~r.complete
  BY DEF Sendable
<1> QED BY <1>2, <1>3

(* The headers are read.                                                   *)
LEMMA HeadParsed ==
    ASSUME NEW r, Sendable(r), NEW T, NEW Q, Laid(T, r, Q), NEW n, NEW d, Pushed(T, n, d), d = Data,
           NEW s, Good(s, T, r, Q, n), NEW t, t = IF s.status = "Response" THEN parseHeaders(s) ELSE s
    PROVE  /\ Good(t, T, r, Q, n)
           /\ (s.status # "Start" /\ r.headers # << >> /\ HeadLen(r) <= n) => t.status \in {"Headers", "End"}
<1>1. CASE s.status # "Response"
  BY <1>1 DEF Good
<1>2. CASE s.status = "Response"
  <2>0. PICK K \in Nat, h \in Nat : K = Len(r.chunks) /\ h = HeadLen(r) /\ h >= 5 /\ Q[0] = h /\ Order(T, r, Q, h, K)
    <3>1. Order(T, r, Q, HeadLen(r), Len(r.chunks))
      BY LaidOrder DEF Sendable
    <3>2. /\ HeadLen(r) \in Nat /\ HeadLen(r) >= 5 /\ Len(r.chunks) \in Nat /\ Q[0] = HeadLen(r)
      BY <3>1 DEF Order
    <3> QED BY <3>1, <3>2
  <2>1. PICK e : e = Find(d, 3, Crlf \o Crlf)
    OBVIOUS
  <2>2. d \in Seq(Symbols) /\ n \in Nat /\ Len(d) = n
    BY <2>0 DEF Pushed, Order
  <2>3. FoundEmpty(d, 3, e) /\ e \in Nat
    <3>1. FoundEmpty(d, 3, e)
      BY <2>1, <2>2, FindsEmpty
    <3> QED BY <2>2, <3>1 DEF FoundEmpty
  <2>4. IsState(s) /\ s.handled = 3 /\ s.bodys = << >> /\ s.code = CodeOf[r.line]
    BY <1>2 DEF Good
  <2>5. PICK lines : lines = {i \in s.handled + 1 .. e - 1 : Data[i] \in DOMAIN NameOf}
    OBVIOUS
  <2>6. PICK kept : kept = KeptOf(d, lines)
    OBVIOUS
  <2>7. t = IF e = 0 THEN s
            ELSE [s EXCEPT !.status = "Headers", !.handled = e + 3, !.headers = kept]
    <3>1. e = Find(Data, s.handled, Crlf \o Crlf)
      BY <2>1, <2>4
    <3>2. kept = [k \in {NameOf[Data[i]] : i \in lines} |->
                     Data[Min({i \in lines : NameOf[Data[i]] = k})]]
      BY <2>6 DEF KeptOf
    <3> QED BY <1>2, <2>5, <3>1, <3>2, Zenon DEF parseHeaders
  <2>8. CASE e = 0
    <3>1. t = s
      BY <2>7, <2>8
    <3>2. ASSUME r.headers # << >>, h <= n PROVE FALSE
      <4>1. IF n < h THEN e = 0 ELSE e = h - 3
        BY <2>0, <2>3, <3>2, HeadEnds DEF Sendable
      <4> QED BY <2>0, <2>2, <2>8, <3>2, <4>1
    <3> QED BY <2>0, <3>1, <3>2
  <2>9. CASE e # 0
    <3>1. t = [s EXCEPT !.status = "Headers", !.handled = e + 3, !.headers = kept]
      BY <2>7, <2>9
    <3>2. /\ IsState(t) /\ t.status = "Headers" /\ t.handled = e + 3 /\ t.headers = kept
          /\ t.bodys = << >> /\ t.code = CodeOf[r.line]
      BY <2>4, <3>1 DEF IsState
    <3>3. CASE r.headers = << >>
      <4>1. r.chunks = << >>
        BY <3>3, NoHeaders
      <4> QED BY <3>2, <3>3, <4>1 DEF Good
    <3>4. CASE r.headers # << >>
      <4>1. e = h - 3 /\ h <= n
        <5>1. IF n < h THEN e = 0 ELSE e = h - 3
          BY <2>0, <2>3, <3>4, HeadEnds DEF Sendable
        <5> QED BY <2>0, <2>2, <2>9, <5>1
      <4>2. t.handled = h
        BY <2>0, <3>2, <4>1
      <4>3. lines = LinesIn(d, 3, HeadLen(r) - 3)
        BY <2>0, <2>4, <2>5, <4>1 DEF LinesIn
      <4>4. HeadersKept(r, kept)
        <5>1. Typed(r) /\ n >= HeadLen(r)
          BY <2>0, <2>2, <4>1 DEF Sendable
        <5> QED BY <2>6, <4>3, <5>1, HeadersRead
      <4>5. HasHead(t, r, n)
        BY <2>0, <3>2, <4>1, <4>4 DEF HasHead
      <4>6. r.chunks # << >> => HasChunks(t, r, Q, n)
        <5> SUFFICES ASSUME r.chunks # << >> PROVE HasChunks(t, r, Q, n)
          OBVIOUS
        <5>1. PICK cs \in Seq(Seq(STRING)) : cs = r.chunks
          BY DEF Sendable, Typed
        <5>2. K # 0
          BY <2>0, <5>1, EmptySeq
        <5>3. SubSeq(cs, 1, 0) = << >>
          BY SubSeqEmpty
        <5>a. 0 \in 0 .. K /\ 0 < K /\ ~(0 > 0)
          BY <2>0, <5>2
        <5>b. t.bodys = SubSeq(r.chunks, 1, 0) /\ t.handled = After(Q, 0)
          BY <2>0, <3>2, <4>2, <5>1, <5>3 DEF After
        <5>4. Taken(t, 0, r, Q, K, n) /\ 0 \in 0 .. K
          BY <5>a, <5>b DEF Taken
        <5> QED BY <2>0, <5>4 DEF HasChunks
      <4> QED BY <2>0, <3>2, <4>2, <4>5, <4>6 DEF Good
    <3> QED BY <3>3, <3>4
  <2> QED BY <2>8, <2>9
<1> QED BY <1>1, <1>2

(* What a state keeps while its body is parsed.                            *)
SameHead(s, t) ==
    /\ IsState(t) /\ t.code = s.code /\ t.headers = s.headers /\ t.status \in {s.status, "End"}

(* parseBody changes no more than the end, the bodies and how far it got.  *)
LEMMA BodyShape ==
    ASSUME NEW s, IsState(s), NEW beyond, NEW t, t = parseBody(s, beyond)
    PROVE  SameHead(s, t)
<1>1. SameHead(s, s) /\ SameHead(s, [s EXCEPT !.status = "End"])
  BY DEF IsState, SameHead
<1>2. SameHead(s, parseBodyByTransferEncoding(s))
  <2>1. PICK l : parseBodyByTransferEncoding(s) =
                     [s EXCEPT !.status = IF l.turn = "finished" THEN "End" ELSE @,
                               !.handled = l.handled, !.bodys = l.bodys, !.unlucky = @ \/ l.early]
    BY Zenon DEF parseBodyByTransferEncoding
  <2>2. PICK p : p = parseBodyByTransferEncoding(s)
    OBVIOUS
  <2>a. PICK st, hd, bs, un : /\ st = (IF l.turn = "finished" THEN "End" ELSE s.status) /\ hd = l.handled
                              /\ bs = l.bodys /\ un = (s.unlucky \/ l.early)
    OBVIOUS
  <2>3. st \in {s.status, "End"} /\ p = [s EXCEPT !.status = st, !.handled = hd, !.bodys = bs, !.unlucky = un]
    BY <2>1, <2>2, <2>a
  <2>4. SameHead(s, p)
    BY <2>3 DEF IsState, SameHead
  <2> QED BY <2>2, <2>4
<1>3. SameHead(s, parseJson(s, beyond))
  <2>1. PICK rest, whole : \/ parseJson(s, beyond) = s
                           \/ parseJson(s, beyond) = [s EXCEPT !.status = "End", !.bodys = Append(@, rest), !.unlucky = @ \/ ~whole]
    BY Zenon DEF parseJson
  <2>2. PICK p : p = parseJson(s, beyond)
    OBVIOUS
  <2>3. PICK bs, un : p = s \/ p = [s EXCEPT !.status = "End", !.bodys = bs, !.unlucky = un]
    BY <2>1, <2>2
  <2>4. SameHead(s, p)
    BY <2>3 DEF IsState, SameHead
  <2> QED BY <2>2, <2>4
<1> DEFINE a == "Content-Length" \in DOMAIN s.headers
           b == "Transfer-Encoding" \in DOMAIN s.headers
           c == "Content-Type" \in DOMAIN s.headers /\ s.headers["Content-Type"] = "json"
<1>4. \/ t = [s EXCEPT !.status = "End"] \/ t = parseBodyByTransferEncoding(s)
      \/ t = parseJson(s, beyond) \/ t = s
  BY DEF parseBody
<1> QED BY <1>1, <1>2, <1>3, <1>4

(* Where an ended loop stands when all that ends was read.                 *)
LEMMA LoopFinishes ==
    ASSUME NEW T, NEW r, NEW Q, NEW h, NEW K, NEW n, Order(T, r, Q, h, K), n = Q[K], Ends(r, K),
           NEW l, Loop(l, n + 1, r, Q, K, n)
    PROVE  l.turn = "finished"
<1>1. PICK k \in 0 .. K : LoopAt(l, n + 1, k, r, Q, K, n)
  BY DEF Loop
<1>2. PICK a \in Nat, q \in Nat, m \in Nat : a = l.at /\ q = Q[k] /\ m = n /\ q <= m
  <2>1. l.at \in Nat
    BY <1>1 DEF LoopAt, LoopStates
  <2>2. Q[k] \in Nat /\ Q[K] \in Nat /\ Q[k] <= Q[K]
    <3>1. k \in 0 .. K /\ K \in 0 .. K
      BY DEF Order
    <3> QED BY <3>1 DEF Order
  <2> QED BY <2>1, <2>2
<1>3. l.turn # "stays" /\ l.turn \in {"goes", "stays", "finished"}
  BY <1>1 DEF LoopAt, LoopStates
<1>4. ASSUME l.turn = "goes" PROVE FALSE
  <2>1. OnWay(a, k, Q, K) /\ a >= m + 1
    BY <1>1, <1>2, <1>4 DEF LoopAt
  <2>2. a = q \/ a = q - 2
    BY <1>2, <2>1 DEF OnWay
  <2> QED BY <1>2, <2>1, <2>2
<1> QED BY <1>3, <1>4

(* The chunks are read.                                                    *)
LEMMA ChunksGoOn ==
    ASSUME NEW r, Sendable(r), r.headers # << >>, r.chunks # << >>, NEW T, NEW Q, Laid(T, r, Q),
           NEW n, NEW d, Pushed(T, n, d), d = Data,
           NEW s, Good(s, T, r, Q, n), s.status = "Headers", "Content-Length" \notin DOMAIN s.headers,
           "Transfer-Encoding" \in DOMAIN s.headers,
           NEW t, t = parseBodyByTransferEncoding(s), SameHead(s, t)
    PROVE  Good(t, T, r, Q, n) /\ (r.complete /\ n = Len(T) => t.status = "End")
<1>1. PICK h, K : h = HeadLen(r) /\ K = Len(r.chunks)
  OBVIOUS
<1>2. HasHead(s, r, n) /\ HasChunks(s, r, Q, n)
  BY DEF Good
<1>3. ChunksPushed(T, r, Q, h, K, n, d) /\ Order(T, r, Q, h, K)
  <2>1. HeadLen(r) <= n
    BY <1>2 DEF HasHead
  <2>2. ChunksPushed(T, r, Q, h, K, n, d)
    BY <1>1, <2>1, GoodChunks DEF Sendable
  <2> QED BY <2>2 DEF ChunksPushed
<1>4. PICK k \in 0 .. K : Taken(s, k, r, Q, K, n)
  BY <1>1, <1>2 DEF HasChunks
<1>5. PICK l0 : l0 = [turn |-> "goes", early |-> FALSE, at |-> s.handled, handled |-> s.handled,
                      bodys |-> s.bodys]
  OBVIOUS
<1>6. K \in Nat /\ K # 0 /\ k \in 0 .. K /\ 0 \in 0 .. K
  BY <1>3 DEF ChunksPushed, Order
<1>7. s.handled \in Nat /\ (k = 0 => s.handled = Q[0]) /\ (k # 0 => s.handled = Q[k] - 2)
  <2>1. Q[k] \in Nat /\ Q[0] \in Nat /\ h <= Q[k] /\ h >= 5 /\ h \in Nat
    BY <1>3, <1>6 DEF Order
  <2> QED BY <2>1, <1>4 DEF Taken, After
<1>8. s.bodys \in Seq(Seq(Symbols))
  <2>1. PICK cs \in Seq(Seq(STRING)) : cs = r.chunks
    BY <1>3 DEF ChunksPushed
  <2>2. \A x \in 1 .. K : cs[x] \in Seq(Symbols)
    <3> TAKE x \in 1 .. K
    <3>1. cs[x] \in Seq(STRING)
      BY <1>1, <2>1
    <3> QED BY <3>1 DEF Symbols
  <2>3. SubSeq(cs, 1, k) \in Seq(Seq(Symbols))
    <3>1. 1 \in Int /\ k \in Int /\ \A x \in 1 .. k : cs[x] \in Seq(Symbols)
      BY <1>6, <2>2
    <3> QED BY <3>1, SubSeqProperties
  <2> QED BY <1>4, <2>1, <2>3 DEF Taken
<1>9. Loop(l0, 0, r, Q, K, n)
  <2>1. l0 \in LoopStates /\ l0.turn = "goes" /\ l0.at = s.handled /\ l0.handled = s.handled /\ l0.bodys = s.bodys
    BY <1>5, <1>7, <1>8 DEF LoopStates
  <2>2. Taken(l0, k, r, Q, K, n)
    BY <1>4, <2>1 DEF Taken
  <2>3. Stands(l0.at, k, r, Q, K)
    BY <1>6, <1>7, <2>1 DEF Stands
  <2>4. ASSUME Ends(r, K), n = Q[K] PROVE OnWay(l0.at, k, Q, K) /\ l0.at >= 0
    <3>1. k < K
      BY <1>4, <2>4 DEF Taken, Ends
    <3> QED BY <1>6, <1>7, <2>1, <3>1 DEF OnWay
  <2>5. LoopAt(l0, 0, k, r, Q, K, n)
    BY <2>1, <2>2, <2>3, <2>4 DEF LoopAt
  <2> QED BY <2>5 DEF Loop
<1>10. LoopLeft(s, t, r, Q, K, n)
  BY <1>3, <1>5, <1>9, ChunksParsed
<1>11. PICK l : /\ Loop(l, n + 1, r, Q, K, n)
                /\ t = [s EXCEPT !.status = IF l.turn = "finished" THEN "End" ELSE @,
                                 !.handled = l.handled, !.bodys = l.bodys, !.unlucky = @ \/ l.early]
  BY <1>10 DEF LoopLeft
<1>12. PICK x \in 0 .. K : LoopAt(l, n + 1, x, r, Q, K, n)
  BY <1>11 DEF Loop
<1>13. /\ IsState(t) /\ t.code = s.code /\ t.headers = s.headers /\ t.status \in {"Headers", "End"}
  BY DEF SameHead
<1>14. /\ t.handled = l.handled /\ t.bodys = l.bodys /\ (t.status = "End" <=> l.turn = "finished")
       /\ (~t.unlucky => ~l.early)
  <2>1. PICK un : un = (s.unlucky \/ l.early)
    OBVIOUS
  <2>2. PICK st : st = (IF l.turn = "finished" THEN "End" ELSE s.status)
    OBVIOUS
  <2>3. t = [s EXCEPT !.status = st, !.handled = l.handled, !.bodys = l.bodys, !.unlucky = un]
    BY <1>11, <2>1, <2>2
  <2>4. IsState(s)
    BY DEF Good
  <2>5. t.handled = l.handled /\ t.bodys = l.bodys /\ t.status = st /\ t.unlucky = un
    BY <2>3, <2>4 DEF IsState
  <2> QED BY <2>1, <2>2, <2>5
<1>15. Taken(t, x, r, Q, K, n)
  BY <1>12, <1>14 DEF LoopAt, Taken
<1>16. HasChunks(t, r, Q, n) /\ HasHead(t, r, n)
  BY <1>1, <1>2, <1>12, <1>13, <1>15 DEF HasChunks, HasHead
<1>17. /\ ~("length" \in ToSet(r.headers)) /\ "chunked" \in ToSet(r.headers)
  BY <1>2, HeadersSay DEF HasHead, Sendable
<1>18. ~WholeJson(r)
  BY DEF WholeJson
<1>19. r.complete => Ends(r, K) /\ Len(T) = Q[K]
  <2> SUFFICES ASSUME r.complete PROVE Ends(r, K) /\ Len(T) = Q[K]
    OBVIOUS
  <2>1. WholeChunks(r)
    BY <1>17, <1>18 DEF Sendable
  <2>2. Ends(r, K)
    BY <1>1, <2>1 DEF WholeChunks, Ends
  <2>3. Q[K] \in Nat
    BY <1>3, <1>6 DEF Order
  <2>4. Len(T) = Q[K]
    BY <1>3, <2>2, <2>3 DEF Order, Ends
  <2> QED BY <2>2, <2>4
<1>20. ASSUME r.complete, n = Len(T) PROVE t.status = "End"
  BY <1>3, <1>11, <1>14, <1>19, <1>20, LoopFinishes
<1>21. ASSUME r.complete, t.status = "End", ~t.unlucky PROVE Complete(t, T, r, n)
  <2>1. n = Q[K] /\ x = K - 1
    BY <1>12, <1>14, <1>19, <1>21 DEF LoopAt
  <2>2. t.bodys = Front(r.chunks)
    BY <1>1, <1>15, <2>1 DEF Taken, Front
  <2> QED BY <1>13, <1>19, <1>21, <2>1, <2>2 DEF Complete
<1>22. s.code = CodeOf[r.line]
  BY DEF Good
<1> QED BY <1>13, <1>16, <1>18, <1>20, <1>21, <1>22 DEF Good

RestOf(d, h, n, rest) == h \in Nat /\ h <= n /\ rest = SubSeq(d, h + 1, n)

(* What was read of the body of a response that is one JSON text.          *)
LEMMA JsonRead ==
    ASSUME NEW r, Typed(r), WholeJson(r), NEW T, NEW Q, Laid(T, r, Q), NEW n, NEW d, Pushed(T, n, d),
           NEW rest, RestOf(d, HeadLen(r), n, rest)
    PROVE  /\ (n = Len(T)) = (JsonEnd \in ToSet(rest))
           /\ n = Len(T) => rest = r.body
<1>1. PICK b \in Seq(STRING), m \in Nat : b = r.body /\ m = Len(b)
  BY DEF Typed
<1>0. PICK h \in Nat : h = HeadLen(r) /\ h <= n
  BY DEF RestOf
<1>2. Order(T, r, Q, h, Len(r.chunks))
  BY <1>0, LaidOrder
<1>3. Len(r.chunks) = 0
  BY EmptySeq DEF WholeJson
<1>4. h \in Nat /\ Len(T) = h + m /\ Q[0] = h /\ \A j \in 1 .. m : T[h + j] = b[j]
  <2>1. h \in Nat /\ Q[0] = h /\ Len(T) = Q[0] + m
    BY <1>1, <1>2, <1>3 DEF Order
  <2> QED BY <1>1, <1>3, <2>1 DEF Laid
<1>5. d \in Seq(Symbols) /\ Len(d) = n /\ n \in 0 .. h + m /\ \A i \in 1 .. n : d[i] = T[i]
  BY <1>4 DEF Pushed
<1>6. PICK x \in Nat : x = n - h /\ n = h + x /\ x <= m
  <2>1. n - h \in Nat /\ n = h + (n - h) /\ n - h <= m
    BY <1>0, <1>4, <1>5
  <2> QED BY <2>1
<1>7. rest \in Seq(Symbols) /\ Len(rest) = x /\ \A j \in 1 .. x : rest[j] = b[j]
  <2>1. PICK u \in Int, v \in Int : u = h + 1 /\ v = n
    BY <1>4, <1>5
  <2>2. \A i \in u .. v : d[i] \in Symbols
    <3> TAKE i \in u .. v
    <3>1. i \in 1 .. n
      BY <2>1, <1>4, <1>5
    <3> QED BY <3>1, <1>5
  <2>3. /\ rest \in Seq(Symbols) /\ Len(rest) = IF u <= v THEN v - u + 1 ELSE 0
        /\ \A j \in 1 .. v - u + 1 : rest[j] = d[u + j - 1]
    <3>1. rest = SubSeq(d, u, v)
      BY <2>1, <1>0 DEF RestOf
    <3> QED BY <2>2, <3>1, SubSeqProperties
  <2>4. v - u + 1 = x /\ (u <= v) = (x # 0)
    BY <2>1, <1>4, <1>6
  <2>5. ASSUME NEW j \in 1 .. x PROVE rest[j] = b[j]
    <3>1. u + j - 1 = h + j /\ h + j \in 1 .. n /\ j \in 1 .. m
      BY <2>1, <1>4, <1>6
    <3>2. rest[j] = d[u + j - 1]
      BY <2>3, <2>4
    <3> QED BY <3>1, <3>2, <1>4, <1>5
  <2> QED BY <2>3, <2>4, <2>5
<1>8. m # 0 /\ \A i \in 1 .. m : (b[i] = JsonEnd) = (i = m)
  <2>1. b # << >> /\ \A i \in DOMAIN b : (b[i] = JsonEnd) = (i = Len(b))
    BY <1>1 DEF WholeJson
  <2>2. DOMAIN b = 1 .. m /\ m # 0
    BY <1>1, <2>1, EmptySeq
  <2> QED BY <1>1, <2>1, <2>2
<1>9. ToSet(rest) = {b[j] : j \in 1 .. x}
  <2>1. DOMAIN rest = 1 .. x
    BY <1>7
  <2> QED BY <2>1, <1>7 DEF ToSet
<1>10. (n = Len(T)) = (x = m)
  BY <1>4, <1>6
<1>11. ASSUME x = m PROVE JsonEnd \in ToSet(rest) /\ rest = b
  <2>1. m \in 1 .. x /\ b[m] = JsonEnd
    BY <1>8, <1>11
  <2>2. rest = [j \in 1 .. m |-> rest[j]] /\ b = [j \in 1 .. m |-> b[j]]
    BY <1>1, <1>7, <1>11
  <2>3. rest = b
    BY <2>2, <1>7, <1>11
  <2> QED BY <2>1, <2>3, <1>9
<1>12. ASSUME JsonEnd \in ToSet(rest) PROVE x = m
  <2>1. PICK j \in 1 .. x : b[j] = JsonEnd
    BY <1>9, <1>12
  <2>2. j \in 1 .. m
    BY <1>6
  <2>3. j = m
    BY <1>8, <2>1, <2>2
  <2> QED BY <1>6, <2>3
<1> QED BY <1>1, <1>10, <1>11, <1>12

(* A JSON text is read.                                                    *)
LEMMA JsonGoesOn ==
    ASSUME NEW r, Sendable(r), r.headers # << >>, NEW T, NEW Q, Laid(T, r, Q),
           NEW n, NEW d, Pushed(T, n, d), d = Data,
           NEW s, Good(s, T, r, Q, n), s.status = "Headers", "Content-Length" \notin DOMAIN s.headers,
           "Transfer-Encoding" \notin DOMAIN s.headers,
           NEW beyond, NEW t, t = parseJson(s, beyond), SameHead(s, t)
    PROVE  Good(t, T, r, Q, n) /\ (r.complete /\ n = Len(T) => t.status = "End")
<1>1. HasHead(s, r, n) /\ IsState(s) /\ s.code = CodeOf[r.line]
  BY DEF Good
<1>2. ~("length" \in ToSet(r.headers)) /\ ~("chunked" \in ToSet(r.headers))
  BY <1>1, HeadersSay DEF HasHead, Sendable
<1>3. r.chunks = << >>
  BY <1>2 DEF Sendable, ChunksGood
<1>4. r.complete => WholeJson(r) /\ s.handled = HeadLen(r) /\ s.bodys = << >>
  BY <1>2, <1>3 DEF Sendable, WholeChunks, Good
<1>5a. PICK rest : rest = SubSeq(Data, s.handled + 1, Len(Data))
  OBVIOUS
<1>5b. PICK whole : whole = (JsonEnd \in ToSet(rest))
  OBVIOUS
<1>5. /\ rest = SubSeq(d, s.handled + 1, n) /\ whole = (JsonEnd \in ToSet(rest))
      /\ t = IF whole \/ beyond
             THEN [s EXCEPT !.status = "End", !.bodys = Append(@, rest), !.unlucky = @ \/ ~whole]
             ELSE s
  <2>1. rest = SubSeq(d, s.handled + 1, n)
    <3>1. Data = d /\ Len(d) = n
      BY DEF Pushed
    <3> QED BY <3>1, <1>5a
  <2>2. t = IF whole \/ beyond
            THEN [s EXCEPT !.status = "End", !.bodys = Append(@, rest), !.unlucky = @ \/ ~whole]
            ELSE s
    BY <1>5a, <1>5b, Zenon DEF parseJson
  <2> QED BY <2>1, <2>2, <1>5b
<1>6. PICK bs, un : bs = Append(s.bodys, rest) /\ un = (s.unlucky \/ ~whole)
  OBVIOUS
<1>7. t = IF whole \/ beyond THEN [s EXCEPT !.status = "End", !.bodys = bs, !.unlucky = un] ELSE s
  BY <1>5, <1>6
<1>8. /\ IsState(t) /\ t.code = s.code /\ t.headers = s.headers /\ t.status \in {"Headers", "End"}
      /\ (t.status = "Headers" => t = s)
      /\ (t.status = "End" => (whole \/ beyond) /\ t.bodys = bs /\ t.unlucky = un)
  BY <1>1, <1>7 DEF IsState
<1>9. HasHead(t, r, n)
  BY <1>1, <1>8 DEF HasHead
<1>10. r.complete => /\ (n = Len(T)) = whole
                     /\ (n = Len(T) => rest = r.body)
  <2> SUFFICES ASSUME r.complete PROVE (n = Len(T)) = whole /\ (n = Len(T) => rest = r.body)
    OBVIOUS
  <2>1. WholeJson(r) /\ Typed(r)
    BY <1>4 DEF Sendable
  <2>2. HeadLen(r) \in Nat
    BY <2>1, LaidOrder DEF Order
  <2>3. RestOf(d, HeadLen(r), n, rest)
    BY <1>1, <1>4, <1>5, <2>2 DEF HasHead, RestOf
  <2>4. (n = Len(T)) = (JsonEnd \in ToSet(rest)) /\ (n = Len(T) => rest = r.body)
    BY <2>1, <2>3, JsonRead
  <2> QED BY <1>5, <2>4
<1>11. ASSUME r.complete, n = Len(T) PROVE t.status = "End"
  <2>1. whole
    BY <1>10, <1>11
  <2> QED BY <2>1, <1>1, <1>7 DEF IsState
<1>12. ASSUME r.complete, t.status = "End", ~t.unlucky PROVE Complete(t, T, r, n)
  <2>1. whole
    BY <1>6, <1>8, <1>12
  <2>2. n = Len(T) /\ rest = r.body
    BY <1>10, <1>12, <2>1
  <2>3. t.bodys = <<r.body>>
    <3>1. bs = Append(<< >>, rest)
      BY <1>4, <1>6, <1>12
    <3>2. bs = <<rest>>
      BY <3>1
    <3> QED BY <3>2, <2>2, <1>8, <1>12
  <2> QED BY <2>2, <2>3, <1>8 DEF Complete
<1>13. WholeJson(r) /\ t.status = "Headers" => t.handled = HeadLen(r) /\ t.bodys = << >>
  BY <1>8 DEF Good
<1> QED BY <1>1, <1>3, <1>8, <1>9, <1>11, <1>12, <1>13 DEF Good

(* The body is read, or passed, as the headers say.                        *)
LEMMA BodyParsed ==
    ASSUME NEW r, Sendable(r), NEW T, NEW Q, Laid(T, r, Q), NEW n, NEW d, Pushed(T, n, d), d = Data,
           NEW s, Good(s, T, r, Q, n), NEW beyond,
           NEW t, t = IF s.status = "Headers" THEN parseBody(s, beyond) ELSE s
    PROVE  /\ Good(t, T, r, Q, n)
           /\ (r.complete /\ n = Len(T) /\ s.status \in {"Headers", "End"} => t.status = "End")
<1>1. CASE s.status # "Headers"
  BY <1>1
<1>2. CASE s.status = "Headers"
  <2>1. t = parseBody(s, beyond)
    BY <1>2
  <2>2. IsState(s) /\ s.code = CodeOf[r.line]
    BY <1>2 DEF Good
  <2>3. SameHead(s, t)
    BY <2>1, <2>2, BodyShape
  <2>4. CASE r.headers = << >>
    <3>1. r.chunks = << >> /\ ~r.complete
      BY <2>4, NoHeaders
    <3>2. IsState(t) /\ t.code = CodeOf[r.line] /\ t.status \in {"Headers", "End"}
      BY <1>2, <2>2, <2>3 DEF SameHead
    <3> QED BY <2>4, <3>1, <3>2 DEF Good
  <2>5. CASE r.headers # << >>
    <3>1. CASE "Content-Length" \in DOMAIN s.headers
      <4>1. t = [s EXCEPT !.status = "End"]
        BY <2>1, <3>1 DEF parseBody
      <4>2. /\ IsState(t) /\ t.status = "End" /\ t.code = s.code /\ t.headers = s.headers /\ t.handled = s.handled
            /\ t.bodys = s.bodys
        BY <2>2, <4>1 DEF IsState
      <4>3. HasHead(t, r, n)
        BY <1>2, <2>5, <4>2 DEF Good, HasHead
      <4>4. r.chunks # << >> => HasChunks(t, r, Q, n)
        BY <1>2, <4>2 DEF Good, HasChunks, Taken
      <4>5. Complete(t, T, r, n)
        BY <3>1, <4>2 DEF Complete
      <4> QED BY <2>2, <4>2, <4>3, <4>4, <4>5 DEF Good
    <3>2. CASE "Content-Length" \notin DOMAIN s.headers /\ "Transfer-Encoding" \in DOMAIN s.headers
      <4>1. t = parseBodyByTransferEncoding(s)
        BY <2>1, <3>2 DEF parseBody
      <4>2. CASE r.chunks # << >>
        BY <1>2, <2>3, <2>5, <3>2, <4>1, <4>2, ChunksGoOn
      <4>3. CASE r.chunks = << >>
        <5>1. HasHead(s, r, n)
          BY <1>2, <2>5 DEF Good
        <5>2. ~("length" \in ToSet(r.headers)) /\ "chunked" \in ToSet(r.headers)
          BY <3>2, <5>1, HeadersSay DEF HasHead, Sendable
        <5>3. ~WholeJson(r) /\ ~WholeChunks(r)
          BY <4>3, <5>2 DEF WholeJson, WholeChunks
        <5>4. ~r.complete
          BY <5>2, <5>3 DEF Sendable
        <5>5. IsState(t) /\ t.code = s.code /\ t.headers = s.headers /\ t.status \in {"Headers", "End"}
          BY <1>2, <2>3 DEF SameHead
        <5>6. HasHead(t, r, n)
          BY <5>1, <5>5 DEF HasHead
        <5> QED BY <2>2, <4>3, <5>3, <5>4, <5>5, <5>6 DEF Good
      <4> QED BY <4>2, <4>3
    <3>3. CASE /\ "Content-Length" \notin DOMAIN s.headers /\ "Transfer-Encoding" \notin DOMAIN s.headers
               /\ "Content-Type" \in DOMAIN s.headers /\ s.headers["Content-Type"] = "json"
      <4>1. t = parseJson(s, beyond)
        BY <2>1, <3>3 DEF parseBody
      <4> QED BY <1>2, <2>3, <2>5, <3>3, <4>1, JsonGoesOn
    <3>4. CASE /\ "Content-Length" \notin DOMAIN s.headers /\ "Transfer-Encoding" \notin DOMAIN s.headers
               /\ ~("Content-Type" \in DOMAIN s.headers /\ s.headers["Content-Type"] = "json")
      <4>1. t = s
        BY <2>1, <3>4 DEF parseBody
      <4>2. HasHead(s, r, n)
        BY <1>2, <2>5 DEF Good
      <4>3. ~("length" \in ToSet(r.headers)) /\ ~("chunked" \in ToSet(r.headers))
        BY <3>4, <4>2, HeadersSay DEF HasHead, Sendable
      <4>4. ~WholeJson(r)
        BY <3>4, <4>2, JsonSaid DEF HasHead, Sendable, WholeJson
      <4>5. ~WholeChunks(r)
        <5> SUFFICES ASSUME WholeChunks(r) PROVE FALSE
          OBVIOUS
        <5>1. r.chunks # << >>
          BY DEF WholeChunks
        <5> QED BY <4>3, <5>1 DEF Sendable, ChunksGood
      <4>6. ~r.complete
        BY <4>3, <4>4, <4>5 DEF Sendable
      <4> QED BY <4>1, <4>6
    <3> QED BY <3>1, <3>2, <3>3, <3>4
  <2> QED BY <2>4, <2>5
<1> QED BY <1>1, <1>2

(* A part of a sequence, place by place.                                   *)
PartOf(S, t, a, j, e) == t \in Seq(S) /\ a + j <= Len(t) /\ e = SubSeq(t, a + 1, a + j)

PartPlaced(S, t, a, j, e) == e \in Seq(S) /\ Len(e) = j /\ \A i \in 1 .. j : e[i] = t[a + i]

(* The members of a part are those of the sequence, at its place.          *)
LEMMA PartPlaces ==
    ASSUME NEW S, NEW t, NEW a \in Nat, NEW j \in Nat, NEW e, PartOf(S, t, a, j, e)
    PROVE  PartPlaced(S, t, a, j, e)
<1>1. PICK N \in Nat : N = Len(t) /\ DOMAIN t = 1 .. N /\ a + j <= N
  BY DEF PartOf
<1>2. PICK u \in Int, v \in Int : u = a + 1 /\ v = a + j
  OBVIOUS
<1>3. \A i \in u .. v : i \in 1 .. N
  BY <1>1, <1>2
<1>4. \A i \in u .. v : t[i] \in S
  BY <1>1, <1>3 DEF PartOf
<1>5. e = SubSeq(t, u, v)
  BY <1>2 DEF PartOf
<1>6. v - u + 1 = j /\ (u <= v) = (j # 0) /\ \A i \in 1 .. j : u + i - 1 = a + i
  BY <1>2
<1>7. /\ e \in Seq(S) /\ Len(e) = IF u <= v THEN v - u + 1 ELSE 0
      /\ \A i \in 1 .. v - u + 1 : e[i] = t[u + i - 1]
  BY <1>4, <1>5, SubSeqProperties
<1> QED BY <1>6, <1>7 DEF PartPlaced

(* The next j symbols of a text of which n were pushed, and the first of   *)
(* them pushed too.                                                        *)
LEMMA PushedMore ==
    ASSUME NEW T, NEW n \in Nat, NEW d, Pushed(T, n, d), NEW j \in Nat, NEW src,
           PartOf(Symbols, T, n, j, src), NEW m \in 0 .. j, NEW e, PartOf(Symbols, src, 0, m, e),
           NEW c, c = d \o e
    PROVE  Pushed(T, n + m, c)
<1>1. PICK N \in Nat : N = Len(T) /\ n + j <= N
  BY DEF PartOf
<1>2. d \in Seq(Symbols) /\ Len(d) = n /\ \A i \in 1 .. n : d[i] = T[i]
  BY DEF Pushed
<1>3. \A i \in 1 .. j : src[i] = T[n + i]
  <2>1. PartPlaced(Symbols, T, n, j, src)
    BY PartPlaces
  <2> QED BY <2>1 DEF PartPlaced
<1>4. e \in Seq(Symbols) /\ Len(e) = m /\ \A i \in 1 .. m : e[i] = src[0 + i]
  <2>1. m \in Nat /\ 0 \in Nat
    OBVIOUS
  <2>2. PartPlaced(Symbols, src, 0, m, e)
    BY <2>1, PartPlaces
  <2> QED BY <2>2 DEF PartPlaced
<1>5. \A i \in 1 .. m : e[i] = T[n + i]
  <2> TAKE i \in 1 .. m
  <2>1. i \in 1 .. j /\ 0 + i = i
    OBVIOUS
  <2> QED BY <2>1, <1>3, <1>4
<1>6. c \in Seq(Symbols) /\ Len(c) = n + m /\ (\A i \in 1 .. n : c[i] = d[i]) /\ \A i \in 1 .. m : c[n + i] = e[i]
  <2>1. Joined(Symbols, d, n, e, m, c)
    BY <1>2, <1>4 DEF Joined
  <2>2. Placed(Symbols, d, n, e, m, c)
    BY <2>1, JoinedPlaces
  <2> QED BY <2>2 DEF Placed
<1>7. \A i \in 1 .. n + m : c[i] = T[i]
  <2> TAKE i \in 1 .. n + m
  <2>1. CASE i <= n
    <3>1. i \in 1 .. n
      BY <2>1
    <3> QED BY <3>1, <1>2, <1>6
  <2>2. CASE ~(i <= n)
    <3>1. PICK x \in 1 .. m : i = n + x
      <4>1. i - n \in 1 .. m /\ i = n + (i - n)
        BY <2>2
      <4> QED BY <4>1
    <3> QED BY <3>1, <1>5, <1>6
  <2> QED BY <2>1, <2>2
<1>8. n + m \in 0 .. N
  BY <1>1
<1> QED BY <1>1, <1>6, <1>7, <1>8 DEF Pushed
=============================================================================
